------------------------------- MODULE MCDsNif -------------------------------
(***************************************************************************)
(* TLC instance of DsNif, and four statements that the comments of        *)
(* loc_eng_agps.cpp make and the code does not keep.                       *)
(***************************************************************************)
EXTENDS DsNif, TLC

Handles == Permutations(Conn)

(***************************************************************************)
(* "already requested for NIF resource, do nothing until we get            *)
(* RSRC_GRANTED indication": in Pending a call was requested, or a report  *)
(* of one is waiting to be handled.                                        *)
(***************************************************************************)
PendingIsRequested == mState = "Pending" => call # "none" \/ events # <<>>

(***************************************************************************)
(* "do nothing until we get RSRC_GRANTED indication but we need to add     *)
(* subscriber to the list": a connection that asked and was not answered   *)
(* is among the active subscribers, which are told when the call is up.    *)
(***************************************************************************)
AskedIsListed == \A c \in Conn : told[c] = "asked" => c \in Active

(***************************************************************************)
(* "Fallback to normal ATL SUPL": a connection that fell back is served by *)
(* agnss_nif; ds_nif does not report it open as well.                      *)
(***************************************************************************)
FallbackIsFinal ==
    [][\A c \in Conn : told[c] = "atl" => told'[c] # "open"]_dsVars

(***************************************************************************)
(* "the list should really be empty, nothing to remove": a connection that *)
(* the modem gave up is not an active subscriber any more.                 *)
(***************************************************************************)
UnsubscribedIsGone == \A c \in Conn : told[c] = "idle" => c \notin Active
=============================================================================
