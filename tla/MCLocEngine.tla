---------------------------- MODULE MCLocEngine ----------------------------
(***************************************************************************)
(* TLC instance of LocEngine, and the claims that the code does not keep.  *)
(***************************************************************************)
EXTENDS LocEngine, TLC

OneBit == {"ephemeris"}
TwoBits == {"ephemeris", "almanac"}

(***************************************************************************)
(* loc_eng.cpp: "Otherwise, the actual action will happen when gps engine  *)
(* is turned off."  While the modem does not restart, data that the        *)
(* framework asked to delete is deleted or waits to be.                    *)
(***************************************************************************)
Waiting(b) ==
    \/ b \in aiding_data_for_deletion
    \/ \E i \in DOMAIN queue : queue[i].of = "delete" /\ b \in queue[i].data
DeletionKept == crashes = 0 => \A b \in asked : Waiting(b)

(***************************************************************************)
(* loc_eng.cpp: "loc_eng_cleanup: fix not stopped. stop it now."  After a  *)
(* cleanup no session stays open.                                          *)
(***************************************************************************)
CleanupCloses == wants = "clean" ~> ~mNavigating \/ wants # "clean"

(***************************************************************************)
(* "This sets the copy in adapter to modem": a session is started again    *)
(* with the mode that the framework had set for it.                        *)
(***************************************************************************)
RestartKeepsMode ==
    [][Take("up") /\ mFixCriteria.mode = "set" /\ modem'.fix # "none" => modem'.mode = "set"]_engineVars
=============================================================================
