------------------------------- MODULE MCRil -------------------------------
(***************************************************************************)
(* Ril for TLC: one number, which the table names, and one word; and the   *)
(* claim that the code does not keep.                                      *)
(***************************************************************************)
EXTENDS Ril

MCTable == [n \in {"310260"} |-> "Sprint"]

(***************************************************************************)
(* RIL.java's handling of RIL_CONNECTED, which d2lteRIL.java:251 overrides,*)
(* asks for cell information: a RIL of version 8 is asked for it on every  *)
(* connection.  The code compares the version of the connection before.    *)
(***************************************************************************)
CellInfoAsked == asked # {} /\ version >= 8 => "cellInfoRate" \in asked
=============================================================================
