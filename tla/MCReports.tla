----------------------------- MODULE MCReports -----------------------------
(***************************************************************************)
(* Reports for TLC: hal and one adapter of another library, satellite      *)
(* reports with and without DOP and used satellites, and a list of both    *)
(* constellations that needs two sentences for each.                       *)
(***************************************************************************)
EXTENDS Reports

MCSvReport ==
    {[svs |-> <<3, 65, 120, 7, 66, 9, 67, 12, 68, 20, 69, 21>>, used |-> {3, 7, 9, 12}, dop |-> 2],
     [svs |-> <<70>>, used |-> {}, dop |-> 3],
     [svs |-> [i \in 1 .. 16 |-> i], used |-> 1 .. 14, dop |-> 0]}

Fix(has, dop, status) ==
    [has |-> has, dop |-> dop, status |-> status, tech |-> TRUE, gnss |-> TRUE, accurate |-> FALSE]

MCPosition ==
    {Fix({}, 0, "success"), Fix({"latlong", "bearing"}, 0, "success"), Fix(Flag, 4, "success"),
     Fix(Flag, 0, "intermediate"), Fix({}, 0, "failure"),
     [Fix(Flag, 0, "success") EXCEPT !.tech = FALSE, !.gnss = FALSE]}

(***************************************************************************)
(* loc_eng.cpp:782 reads loc_eng_data.adapter in the handler of a position. *)
(* The adapter is registered in its constructor (LocAdapterBase.cpp:46),    *)
(* before loc_eng_init has it: the code does not keep it.                  *)
(***************************************************************************)
AdapterIsSet == stage # "crashed"

(***************************************************************************)
(* LocApiBase.cpp:176: "shift the rest of the adapters up so that the      *)
(* pointers in the array do not have holes".  A removal makes the hole     *)
(* first, and a walk that has looked at the slot calls through it.         *)
(***************************************************************************)
NoCallThroughAHole == CallsReach
=============================================================================
