------------------------------- MODULE LocCfg -------------------------------
(***************************************************************************)
(* Reading gps.conf and sap.conf (loc_cfg.cpp, loc_eng_read_config).       *)
(*                                                                         *)
(* A file is [there, lines]; it has no lines when it cannot be opened.  A  *)
(* line is [name, value, hex]; one without two operands has a name that is *)
(* no parameter's.  Values are naturals; hex says that the value is        *)
(* written 0x..., which gives an integer and leaves the double 0.          *)
(***************************************************************************)
EXTENDS Integers, Sequences, FiniteSets

CONSTANTS
    Number,     \* parameters of type 'n' (and 's': the text NULL is the empty one)
    Float,      \* parameters of type 'f'
    Flagged,    \* those that have a validity bit
    Default     \* what loc_default_parameters gives each parameter

Param == Number \cup Float

ASSUME CfgAssumption ==
    /\ Number \cap Float = {} /\ Flagged \subseteq Param
    /\ IsFiniteSet(Param) /\ Default \in [Param -> Nat]

NoFile == [there |-> FALSE, lines |-> <<>>]

IsFile(file) ==
    /\ file.lines \in Seq({file.lines[i] : i \in DOMAIN file.lines})
    /\ \A i \in DOMAIN file.lines : file.lines[i].value \in Nat
    /\ ~file.there => file.lines = <<>>

\* gps_conf and sap_conf, with no validity bit set.
Defaults == [value |-> Default, valid |-> {}]

\* loc_set_config_entry, for the one entry of that name.
SetEntry(conf, line) ==
    [value |-> [conf.value EXCEPT ![line.name] =
                    IF line.name \in Float /\ line.hex THEN 0 ELSE line.value],
     valid |-> conf.valid \cup ({line.name} \cap Flagged)]

\* One turn of the loop of loc_read_conf_r, which ends when as many lines as
\* the table has entries were of use.
ReadLine(s, line) ==
    IF s.left > 0 /\ line.name \in Param
    THEN [conf |-> SetEntry(s.conf, line), left |-> s.left - 1]
    ELSE s

\* loc_read_conf: reading a file begins with clearing all validity bits.
ReadConf(conf, file) ==
    LET read[n \in 0 .. Len(file.lines)] ==
            IF n = 0 THEN [conf |-> [conf EXCEPT !.valid = {}], left |-> Cardinality(Param)]
                     ELSE ReadLine(read[n - 1], file.lines[n])
    IN  IF file.there THEN read[Len(file.lines)].conf ELSE conf

\* loc_eng_read_config, the first time.
ReadConfig(gps, sap) == ReadConf(ReadConf(Defaults, gps), sap)

-----------------------------------------------------------------------------
(* What the files say, without reading them line by line. *)

Naming(p, file) == {i \in DOMAIN file.lines : file.lines[i].name = p}

\* No file has more lines of use than the table has entries.
ReadWhole(file) ==
    Cardinality({i \in DOMAIN file.lines : file.lines[i].name \in Param}) <= Cardinality(Param)

LastOf(p, file) ==
    LET line == file.lines[CHOOSE i \in Naming(p, file) : \A j \in Naming(p, file) : j <= i]
    IN  IF p \in Float /\ line.hex THEN 0 ELSE line.value

\* sap.conf overrides gps.conf, which overrides the default.
Says(gps, sap) ==
    [p \in Param |-> CASE Naming(p, sap) # {} -> LastOf(p, sap)
                       [] Naming(p, sap) = {} /\ Naming(p, gps) # {} -> LastOf(p, gps)
                       [] OTHER -> Default[p]]
=============================================================================
