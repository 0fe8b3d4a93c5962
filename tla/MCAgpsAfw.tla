------------------------------ MODULE MCAgpsAfw ------------------------------
(***************************************************************************)
(* Instances of AgpsAfw for TLC.                                           *)
(***************************************************************************)
EXTENDS AgpsAfw

CONSTANTS c1, c2, c3

Two   == {c1, c2}
Three == {c1, c2, c3}
None  == {}

(***************************************************************************)
(* Claims the code does not keep; as an INVARIANT of MCAgpsAfwAtl.cfg each *)
(* gives the trace that README section 4 describes.                        *)
(***************************************************************************)

\* A machine in Released means a connection given up.
ReleasedHoldsNothing == Quiet /\ mState = "Released" => ~holds

\* A connection is held for somebody.
HeldForSomebody == Quiet /\ holds /\ ~unclaimed => mActive # {}
=============================================================================
