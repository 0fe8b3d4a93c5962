----------------------------- MODULE LocSettings -----------------------------
(***************************************************************************)
(* What the framework and the configuration files want of the modem        *)
(* (loc_eng.cpp): configuration, permission of data calls, server          *)
(* addresses and GPS lock; when they are read, sent, stored until the      *)
(* engine is initialised, and sent again after a restart of the modem.     *)
(*                                                                         *)
(* A device is that of LocTarget with the files gps and sap of LocCfg.     *)
(* The framework calls from one thread.  Every proc() runs on the MsgTask. *)
(* agpsStatus is shared by both without a lock, so that the calls that use *)
(* it have two steps: the access, and the message that comes of it.        *)
(*                                                                         *)
(* The modem (external) takes a setting only from an open client, and a    *)
(* restart makes it forget all but the GPS lock, which loc_eng_reinit does *)
(* not send again.  ENGINE_DOWN changes no setting and is left out.        *)
(***************************************************************************)
EXTENDS LocCfg, LocTarget, Functions, Picking

CONSTANTS
    Device,      \* the devices that the code may run on
    Setting,     \* the messages of loc_eng_reinit, in order: each its parameters
    Address,     \* server addresses
    MaxCalls,    \* bound: calls of the framework
    MaxCrashes   \* bound: restarts of the modem

ASSUME SettingsAssumption ==
    /\ "CAPABILITIES" \in Number \ Flagged
    /\ \A d \in Device : \A file \in {d.gps, d.sap} : IsFile(file) /\ ReadWhole(file)
    /\ Setting \in Seq(SUBSET (Param \ {"CAPABILITIES"}))
    /\ MaxCalls \in Nat /\ MaxCrashes \in Nat

ServerType == {"SUPL", "C2K"}
DataStatus == {"allow", "disallow"}
Unknown    == "unknown"    \* also: nothing buffered

VARIABLES
    device,       \* the one it runs on
    interface,    \* get_gps_interface has returned an interface
    configAlreadyRead,
    conf,         \* gps_conf and sap_conf
    capabilities, \* what set_capabilities_cb told the framework
    adapter,      \* loc_eng_data.adapter is not NULL
    agpsCb,       \* loc_eng_data.agps_status_cb is not NULL
    buffered,     \* supl_host_buf and c2k_host_buf
    agpsStatus,   \* the global
    queue,        \* messages of the MsgTask
    modem,        \* up, open, and what it has been told
    upDue,        \* the modem reopened its client and has not told the adapter
    fpc,          \* the EnableData that the framework has yet to send, or NoData
    mpc,          \* what loc_eng_reinit has yet to send, and for whom, or NoData
    \* history
    wanted,       \* what the framework last said: data status, servers, lock
    untold,       \* the last change of the data status came without an APN
    raced,        \* it was sent between the two steps of a loc_eng_reinit
    calls, crashes

setup   == <<device, interface, configAlreadyRead, conf>>
engine  == <<setup, capabilities, adapter, agpsCb, buffered>>
bounds  == <<calls, crashes>>
settingsVars == <<engine, agpsStatus, queue, modem, upDue, fpc, mpc, wanted, untold, raced, bounds>>

NoServers == [t \in ServerType |-> Unknown]
Forgotten == [conf |-> <<>>, data |-> Unknown, apn |-> FALSE, server |-> NoServers]

Plain(m)       == [of |-> m]
ConfMsg(values) == [of |-> "conf", values |-> values]
EnableData(v, apn) == [of |-> "data", enable |-> v, apn |-> apn]
SetServer(t, a) == [of |-> "server", type |-> t, addr |-> a]
Lock(n)        == [of |-> "lock", value |-> n]
NoData         == Plain("none")

SettingsInit ==
    /\ device \in Device
    /\ interface = FALSE /\ configAlreadyRead = FALSE
    /\ conf = [value |-> [p \in Param |-> 0], valid |-> {}]
    /\ capabilities = 0
    /\ adapter = FALSE /\ agpsCb = FALSE /\ buffered = NoServers
    /\ agpsStatus = "disallow"
    /\ queue = <<>>
    /\ modem = [up |-> TRUE, open |-> FALSE, lock |-> 0, told |-> Forgotten]
    /\ upDue = FALSE
    /\ fpc = NoData /\ mpc = NoData
    /\ wanted = [data |-> "disallow", server |-> NoServers, lock |-> 0]
    /\ untold = FALSE /\ raced = FALSE
    /\ calls = 0 /\ crashes = 0

Post(ms) == queue' = queue \o ms

-----------------------------------------------------------------------------
(* The framework *)

\* get_gps_interface: the files are read the first time only.
GetInterface ==
    /\ configAlreadyRead' = TRUE
    /\ LET read == IF configAlreadyRead THEN conf ELSE ReadConfig(device.gps, device.sap)
       IN  conf' = [read EXCEPT !.value["CAPABILITIES"] = Capabilities(device, @)]
    /\ interface' = HasInterface(device)
    /\ UNCHANGED <<device, capabilities, adapter, agpsCb, buffered, agpsStatus, queue, modem,
                   upDue, fpc, mpc, wanted, untold, raced, bounds>>

Call == /\ interface
        /\ calls < MaxCalls /\ fpc = NoData
        /\ calls' = calls + 1
        /\ UNCHANGED <<setup, modem, upDue, mpc, crashes>>

\* loc_eng_init: the memset clears what was buffered.  The second time it
\* only lifts the lock.
LocInit ==
    /\ Call
    /\ adapter' = TRUE
    /\ wanted' = [wanted EXCEPT !.lock = 1]
    /\ \/ /\ ~adapter
          /\ capabilities' = conf.value["CAPABILITIES"]
          /\ agpsCb' = FALSE /\ buffered' = NoServers
          /\ Post(<<Plain("open"), Plain("init"), Lock(1)>>)
       \/ /\ adapter
          /\ Post(<<Lock(1)>>)
          /\ UNCHANGED <<capabilities, agpsCb, buffered>>
    /\ UNCHANGED <<agpsStatus, fpc, untold, raced>>

\* The messages of loc_eng_agps_reinit.
Buffered ==
    LET Of(t) == IF buffered[t] = Unknown THEN <<>> ELSE <<SetServer(t, buffered[t])>>
    IN  Of("SUPL") \o Of("C2K")

\* loc_eng_agps_init on a target that has an agnss_nif.
AgpsInit ==
    /\ Call
    /\ adapter /\ ~agpsCb
    /\ agpsCb' = TRUE
    /\ Post(Buffered)
    /\ UNCHANGED <<capabilities, adapter, buffered, agpsStatus, fpc, wanted, untold, raced>>

\* loc_eng_set_server_proxy; the name of a C2K server may not be resolved.
SetServerProxy(t, a) ==
    /\ Call
    /\ wanted' = [wanted EXCEPT !.server[t] = a]
    /\ \/ /\ adapter
          /\ Post(<<SetServer(t, a)>>)
          /\ UNCHANGED buffered
       \/ /\ adapter /\ t = "C2K"
          /\ UNCHANGED <<queue, buffered>>
       \/ /\ ~adapter
          /\ buffered' = [buffered EXCEPT ![t] = a]
          /\ UNCHANGED queue
    /\ UNCHANGED <<capabilities, adapter, agpsCb, agpsStatus, fpc, untold, raced>>

\* Mutant: nothing is stored before the engine is initialised.
UpdateChecked(v, apn) ==
    /\ Call
    /\ wanted' = [wanted EXCEPT !.data = v]
    /\ agpsStatus' = IF adapter THEN v ELSE agpsStatus
    /\ fpc' = IF adapter /\ apn THEN EnableData(v, TRUE) ELSE NoData
    /\ untold' = (adapter /\ ~apn)
    /\ UNCHANGED <<engine, queue, raced>>

\* loc_eng_agps_ril_update_network_availability stores the status ...
UpdateAvailability(v, apn) ==
    /\ Call
    /\ wanted' = [wanted EXCEPT !.data = v]
    /\ agpsStatus' = v
    /\ fpc' = IF adapter /\ apn THEN EnableData(v, TRUE) ELSE NoData
    /\ untold' = (adapter /\ ~apn)
    /\ UNCHANGED <<engine, queue, raced>>

\* ... and sends it, if there is an adapter and an APN.
SendAvailability ==
    /\ fpc # NoData
    /\ Post(<<fpc>>)
    /\ fpc' = NoData
    /\ raced' = (mpc # NoData)
    /\ UNCHANGED <<engine, agpsStatus, modem, upDue, mpc, wanted, untold, bounds>>

\* The lock of loc_eng_cleanup; its session is LocEngine's.
Cleanup ==
    /\ Call
    /\ adapter
    /\ Post(<<Lock(4)>>)
    /\ wanted' = [wanted EXCEPT !.lock = 4]
    /\ UNCHANGED <<engine, agpsStatus, fpc, untold, raced>>

-----------------------------------------------------------------------------
(* The MsgTask *)

\* The head of the queue is handled; what a handler posts goes to the tail.
Handle(of, ms) ==
    /\ mpc = NoData
    /\ queue # <<>> /\ Head(queue).of = of
    /\ queue' = Tail(queue) \o ms
    /\ UNCHANGED <<engine, agpsStatus, upDue, fpc, wanted, bounds>>

\* What a client that is not open sends is lost.
Tell(changed) == modem' = IF modem.open THEN changed ELSE modem

DoConf ==
    /\ Handle("conf", <<>>)
    /\ LET new == Head(queue).values
       IN  Tell([modem EXCEPT !.told.conf =
                     [p \in DOMAIN new \cup DOMAIN @ |-> IF p \in DOMAIN new THEN new[p] ELSE @[p]]])
    /\ UNCHANGED <<mpc, untold, raced>>

\* LocEngEnableData::proc
DoEnableData ==
    /\ Handle("data", <<>>)
    /\ Tell([modem EXCEPT !.told.data = Head(queue).enable,
                          !.told.apn = @ \/ Head(queue).apn])
    /\ UNCHANGED <<mpc, untold, raced>>

\* LocEngSetServerUrl::proc and LocEngSetServerIpv4::proc
DoSetServer ==
    /\ Handle("server", <<>>)
    /\ Tell([modem EXCEPT !.told.server[Head(queue).type] = Head(queue).addr])
    /\ UNCHANGED <<mpc, untold, raced>>

DoLock ==
    /\ Handle("lock", <<>>)
    /\ Tell([modem EXCEPT !.lock = Head(queue).value])
    /\ UNCHANGED <<mpc, untold, raced>>

\* LocOpenMsg::proc and LocSsrMsg::proc
DoOpen ==
    /\ \/ Handle("open", <<>>)
       \/ Handle("ssr", <<>>)
    /\ modem' = [modem EXCEPT !.open = modem.up]
    /\ UNCHANGED <<mpc, untold, raced>>

\* Of the sensor properties only those with a validity bit are told, and
\* there is no message when none has one.
Told(params) == params \ (Flagged \ conf.valid)

Configuration ==
    LET due == Picked(Setting, {i \in DOMAIN Setting : Told(Setting[i]) # {}})
    IN  [n \in DOMAIN due |-> ConfMsg(Restrict(conf.value, Told(due[n])))]

\* Mutant: a restart sends the data status and no configuration.
ReinitAtInit ==
    /\ \/ Handle("init", Configuration)
       \/ Handle("up", <<>>)
    /\ mpc' = [data |-> EnableData(agpsStatus, FALSE), after |-> Head(queue).of]
    /\ untold' = FALSE /\ raced' = FALSE
    /\ UNCHANGED modem

\* loc_eng_reinit, for LocEngInit and for loc_eng_handle_engine_up: it posts
\* the configuration and reads agpsStatus ...
Reinit ==
    /\ \/ Handle("init", Configuration)
       \/ Handle("up", Configuration)
    /\ mpc' = [data |-> EnableData(agpsStatus, FALSE), after |-> Head(queue).of]
    /\ untold' = FALSE /\ raced' = FALSE
    /\ UNCHANGED modem

\* ... and then posts what it read.  After a restart the buffered servers
\* follow, if the AGPS interface is there.
ReinitSend ==
    /\ mpc # NoData
    /\ mpc' = NoData
    /\ Post(<<mpc.data>> \o (IF mpc.after = "up" /\ agpsCb THEN Buffered ELSE <<>>))
    /\ UNCHANGED <<engine, agpsStatus, modem, upDue, fpc, wanted, untold, raced, bounds>>

MsgTask == DoConf \/ DoEnableData \/ DoSetServer \/ DoLock \/ DoOpen \/ Reinit \/ ReinitSend

-----------------------------------------------------------------------------
(* The modem *)

Crash ==
    /\ modem.up /\ ~upDue
    /\ crashes < MaxCrashes
    /\ crashes' = crashes + 1
    /\ modem' = [modem EXCEPT !.up = FALSE, !.open = FALSE, !.told = Forgotten]
    /\ UNCHANGED <<engine, agpsStatus, queue, upDue, fpc, mpc, wanted, untold, raced, calls>>

\* LocApiBase::handleEngineUpEvent, if there is an adapter to hear of it.
Recover ==
    /\ ~modem.up
    /\ modem' = [modem EXCEPT !.up = TRUE]
    /\ upDue' = adapter
    /\ Post(IF adapter THEN <<Plain("ssr")>> ELSE <<>>)
    /\ UNCHANGED <<engine, agpsStatus, fpc, mpc, wanted, untold, raced, bounds>>

\* LocEngAdapter::handleEngineUpEvent
TellUp ==
    /\ upDue
    /\ upDue' = FALSE
    /\ Post(<<Plain("up")>>)
    /\ UNCHANGED <<engine, agpsStatus, modem, fpc, mpc, wanted, untold, raced, bounds>>

Framework ==
    \/ GetInterface \/ LocInit \/ AgpsInit \/ SendAvailability \/ Cleanup
    \/ \E t \in ServerType, a \in Address : SetServerProxy(t, a)
    \/ \E v \in DataStatus, apn \in BOOLEAN : UpdateAvailability(v, apn)

SettingsNext == Framework \/ MsgTask \/ Crash \/ Recover \/ TellUp

SettingsSpec == SettingsInit /\ [][SettingsNext]_settingsVars

-----------------------------------------------------------------------------
(* Properties *)

\* Everything that was posted is handled and the modem is up.
Quiet == adapter /\ queue = <<>> /\ fpc = NoData /\ mpc = NoData /\ modem.up /\ ~upDue

\* The parameters that the modem is told: of those with a validity bit the
\* ones that the file read last names.
Configurable ==
    LET last == IF device.sap.there THEN device.sap ELSE device.gps
    IN  {p \in UNION Range(Setting) : p \in Flagged => Naming(p, last) # {}}

(***************************************************************************)
(* Whenever nothing is under way, the modem has the value of each          *)
(* parameter that the last line of sap.conf, or else of gps.conf, says, or *)
(* else the default, although it forgets them at any moment: also when it  *)
(* restarts while it is being configured.  A framework that was told the   *)
(* capabilities was not told the assisted modes on a chip without them,    *)
(* and otherwise what the files say, however often it asks for the         *)
(* interface before.                                                       *)
(***************************************************************************)
Configured ==
    LET says == Says(device.gps, device.sap)
        unassisted == GnssType(device) \in {"GSS", "QCA1530"}
    IN  /\ Quiet => modem.told.conf = Restrict(says, Configurable)
        /\ adapter =>
              /\ unassisted => Assisted(capabilities) = 0
              /\ ~unassisted => capabilities = says["CAPABILITIES"]

(***************************************************************************)
(* loc_eng.cpp:2453: the data status may "change before GPS is enabled";   *)
(* it is stored to "inform the modem after GPS is enabled".  Whenever      *)
(* nothing is under way, the modem allows data calls exactly if the        *)
(* framework said so last, before the engine was initialised, during a     *)
(* restart or in between.  Two cases are not kept and are exempt: a change *)
(* without an APN, which waits for the next restart, and one that is sent  *)
(* while loc_eng_reinit is about to send what it read before.              *)
(***************************************************************************)
DataStatusAgrees == Quiet /\ ~untold /\ ~raced => modem.told.data = wanted.data
=============================================================================
