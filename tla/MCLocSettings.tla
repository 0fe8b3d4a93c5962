--------------------------- MODULE MCLocSettings ----------------------------
(***************************************************************************)
(* LocSettings for TLC, and the claims that the code does not keep.        *)
(***************************************************************************)
EXTENDS LocSettings

MCNumber  == {"SUPL_VER", "CAPABILITIES"}
MCFloat   == {"GYRO", "ACCEL"}
MCDefault == [p \in MCNumber \cup MCFloat |-> IF p = "CAPABILITIES" THEN 7 ELSE 0]

\* Two messages, so that a restart may come between them.
MCSetting == <<{"SUPL_VER"}, MCFloat>>

Line(p, v) == [name |-> p, value |-> v, hex |-> FALSE]
Hex(p, v)  == [name |-> p, value |-> v, hex |-> TRUE]
File(ls)   == [there |-> TRUE, lines |-> ls]

\* As many lines of use as the table has entries, one parameter twice.
FullFile == File(<<Line("SUPL_VER", 1), Line("#", 0), Line("GYRO", 2), Hex("CAPABILITIES", 55), Line("SUPL_VER", 3)>>)
SensorFile == File(<<Hex("GYRO", 5), Line("ACCEL", 6)>>)
OtherFile  == File(<<Line("OTHER", 1)>>)

\* An MSM, an APQ without a modem, a QCA1530 that takes a while to answer,
\* one that takes too long, and a device without a GNSS.
Msm == [qca |-> <<"no">>, apq |-> FALSE, mpq |-> FALSE, board |-> FALSE, mdm |-> FALSE, noSsc |-> TRUE,
        gps |-> FullFile, sap |-> NoFile]

MCDevice == {
    Msm,
    [Msm EXCEPT !.apq = TRUE, !.sap = SensorFile],
    [Msm EXCEPT !.qca = <<"detect", "yes">>, !.gps = SensorFile, !.sap = FullFile],
    [Msm EXCEPT !.qca = <<"detect">>, !.board = TRUE, !.sap = OtherFile],
    [Msm EXCEPT !.apq = TRUE, !.mpq = TRUE, !.gps = NoFile] }

(***************************************************************************)
(* loc_eng.cpp:2381: "This proxy buffers server settings and calls         *)
(* loc_eng_set_server when the client is open."  Once the engine and its   *)
(* AGPS interface are initialised and nothing is under way, the modem has  *)
(* the SUPL server that the framework set last.                            *)
(***************************************************************************)
ServersReachModem ==
    Quiet /\ agpsCb /\ crashes = 0 => modem.told.server["SUPL"] = wanted.server["SUPL"]

(***************************************************************************)
(* The same after a restart of the modem, for which loc_eng_agps_reinit is *)
(* "singled out" (loc_eng.cpp:2057).                                       *)
(***************************************************************************)
ServerSurvivesRestart ==
    Quiet /\ agpsCb /\ crashes > 0 => modem.told.server["SUPL"] = wanted.server["SUPL"]

(***************************************************************************)
(* loc_eng.cpp:2658: "4 = Lock all position sessions -GPS OFF".  After a   *)
(* cleanup the modem is locked, also if it was down when it was told.      *)
(***************************************************************************)
CleanupLocks == Quiet => modem.lock = wanted.lock

\* DataStatusAgrees without its exemptions.
DataStatusKnown  == Quiet /\ ~untold => modem.told.data = wanted.data
DataStatusSent   == Quiet /\ ~raced => modem.told.data = wanted.data

(***************************************************************************)
(* loc_eng.cpp:1605: "Make sure at least one of the sensor property is     *)
(* specified by the user in the gps.conf file".  Whenever nothing is under *)
(* way, the modem has been told each sensor property that gps.conf names;  *)
(* reading sap.conf clears the validity bits that gps.conf set.            *)
(***************************************************************************)
SensorPropertiesKept ==
    Quiet => \A p \in Flagged : Naming(p, device.gps) # {} => p \in DOMAIN modem.told.conf
=============================================================================
