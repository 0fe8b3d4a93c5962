----------------------------- MODULE MCNiSession -----------------------------
(***************************************************************************)
(* Instances of NiSession for TLC, and the claims that the code does not   *)
(* keep.                                                                   *)
(***************************************************************************)
EXTENDS NiSession

(***************************************************************************)
(* loc_eng_ni.cpp: "Displays the NI request and awaits user input."  The   *)
(* modem is told that the user accepted a request only if he did.          *)
(***************************************************************************)
OwnAnswer ==
    \A n \in Req : \A i \in DOMAIN informed[n] :
        informed[n][i] \in UserResponse => informed[n][i] = said[n]

(***************************************************************************)
(* "ignore any SUPL NI non-Es session if a SUPL NI ES is accepted": once   *)
(* the ordinary session was told to ignore its request, the request is not *)
(* answered.                                                               *)
(***************************************************************************)
IgnoredUnanswered ==
    \A n \in Req :
        [](/\ rawRequest["std"] = n
           /\ respRecvd["std"] /\ resp["std"] = "IGNORE"
           => [](informed[n] = <<>>))

(***************************************************************************)
(* "we need the thread to exit without calling sending data": a request    *)
(* that a reset dropped is not answered afterwards.                        *)
(***************************************************************************)
DroppedUnanswered ==
    \A n \in dropped : ~\E t \in Req : tmsg[t] # NoMsg /\ tmsg[t].payload = n

(***************************************************************************)
(* reqID is the "ID to check against response": a pending request can be   *)
(* answered, its session knows its id.                                     *)
(***************************************************************************)
PendingKnown ==
    \A n \in Accepted : tpc[n] = "wait" /\ rawRequest[home[n]] = n => reqID[home[n]] = n
=============================================================================
