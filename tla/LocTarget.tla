----------------------------- MODULE LocTarget ------------------------------
(***************************************************************************)
(* Which GNSS a device has (loc_target.cpp) and what that leaves of the    *)
(* capabilities of gps.conf (get_gps_interface of loc.cpp).                *)
(*                                                                         *)
(* A device is [qca, apq, mpq, board, mdm, noSsc]: the successive readings *)
(* of the property persist.qca1530, whether the baseband is "apq", whether *)
(* soc_id is that of the MPQ8064, whether the platform is Liquid, SURF or  *)
(* MTP, whether /dev/mdm can be opened, whether soc_id is of an MSM8930.   *)
(***************************************************************************)
EXTENDS Integers, Sequences

CONSTANT DetectTries    \* QCA1530_DETECT_TIMEOUT: readings, one a second

ASSUME TargetAssumption == DetectTries \in Nat \ {0}

\* is_qca1530: the last reading of d.qca stands for all that follow.
IsQca1530(d) ==
    LET reading(i) == d.qca[IF i <= Len(d.qca) THEN i ELSE Len(d.qca)]
    IN  \E i \in 1 .. DetectTries :
            /\ reading(i) = "yes"
            /\ \A j \in 1 .. (i - 1) : reading(j) = "detect"

\* loc_get_target, as the GNSS type of the target it returns.  On a board
\* without an mdm it sets nothing and returns -1, which is of no type.
GnssType(d) ==
    CASE IsQca1530(d)                                   -> "QCA1530"
      [] ~IsQca1530(d) /\ d.apq /\ d.mpq                -> "NONE"
      [] ~IsQca1530(d) /\ d.apq /\ ~d.mpq               -> "GSS"
      [] ~IsQca1530(d) /\ ~d.apq /\ d.board /\ d.mdm    -> "MDM"
      [] ~IsQca1530(d) /\ ~d.apq /\ d.board /\ ~d.mdm   -> "undetected"
      [] ~IsQca1530(d) /\ ~d.apq /\ ~d.board /\ d.noSsc -> "MSM"
      [] OTHER                                          -> "UNKNOWN"

\* The bits GPS_CAPABILITY_MSB (2) and GPS_CAPABILITY_MSA (4).
Assisted(caps) == (caps \div 2) % 4

\* get_gps_interface
Capabilities(d, caps) ==
    IF GnssType(d) \in {"GSS", "QCA1530"} THEN caps - 2 * Assisted(caps) ELSE caps

HasInterface(d) == GnssType(d) # "NONE"
=============================================================================
