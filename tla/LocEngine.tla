----------------------------- MODULE LocEngine -----------------------------
(***************************************************************************)
(* The location engine (loc_eng.cpp, LocEngAdapter.cpp): one positioning   *)
(* session of the framework, the status reports of the modem, the mute     *)
(* that a network-initiated request asks for, the deferred deletion of     *)
(* aiding data, and the restart of the modem.                              *)
(*                                                                         *)
(* Every handler is the proc() of a message and runs on the MsgTask, one   *)
(* at a time and in the order of `queue'.  The framework and the modem     *)
(* post messages at any moment.  The settings that a restart sends again,  *)
(* the GPS lock and the ULP proxy are left out: they touch no variable of  *)
(* this module.                                                            *)
(***************************************************************************)
EXTENDS Naturals, Sequences, FiniteSets

CONSTANTS
    Aiding,             \* kinds of aiding data, the bits of GpsAidingData
    IntermediateFix,    \* gps_conf.INTERMEDIATE_POS
    MaxInputs,          \* bound: calls of the framework, reports and NI requests of the modem
    MaxCrashes,         \* bound: restarts of the modem
    MaxQueue            \* bound: messages that wait

ASSUME LocEngineAssumption ==
    /\ IsFiniteSet(Aiding)
    /\ IntermediateFix \in BOOLEAN
    /\ {MaxInputs, MaxCrashes, MaxQueue} \subseteq Nat

Recurrence == {"periodic", "single"}
SessionStatus == {"NONE", "SESSION_BEGIN", "SESSION_END"}
EngineStatus == {"NONE", "ENGINE_ON", "ENGINE_OFF"}
\* A report of a position: final or not or a failure, and what speaks for it:
\* that it comes from satellites or sensors, that it is accurate enough, or nothing.
Fix == [of : {"fix"}, status : {"SUCCESS"}, by : {"gnss", "accurate", "other"}]
       \cup [of : {"fix"}, status : {"INTERMEDIATE"}, by : {"accurate", "other"}]
       \cup [of : {"fix"}, status : {"FAILURE"}, by : {"other"}]
Msg == [of : {"start", "stop", "mute", "down", "ssr", "up"}]
       \cup [of : {"mode"}, recurrence : Recurrence]
       \cup [of : {"delete"}, data : SUBSET Aiding]
       \cup [of : {"status"}, status : SessionStatus \cup EngineStatus]
       \cup Fix
Plain(m) == [of |-> m]


VARIABLES
    queue,                      \* messages of the MsgTask
    mNavigating,                \* the adapter is in a session
    mFixCriteria,               \* its mode ("INVALID" or "set") and recurrence
    mute_session_state,
    engine_status,
    fix_session_status,
    aiding_data_for_deletion,
    modem,                      \* up, open (to the client), and the fix it works on
    upDue,                      \* the modem reopened its client but has not told the adapters
    told,                       \* last session status the framework was told
    closing,                    \* how the last session was closed
    result,                     \* what the modem answered to the last start or stop
    uses,                       \* the recurrence this framework asks for
    wants,                      \* what the framework called last: start, stop or cleanup
    asked,                      \* aiding data the framework wants deleted and the modem still has
    inputs, crashes

session == <<mNavigating, mFixCriteria, told, closing, result>>
history == <<mute_session_state, engine_status, fix_session_status>>
aiding == <<aiding_data_for_deletion, asked>>
counts == <<uses, wants, inputs, crashes>>
engineVars == <<queue, session, history, aiding, modem, upDue, counts>>

Init ==
    /\ queue = <<>>
    /\ mNavigating = FALSE
    /\ mFixCriteria = [mode |-> "INVALID", recurrence |-> "periodic"]
    /\ mute_session_state = "NONE"
    /\ engine_status = "NONE" /\ fix_session_status = "NONE"
    /\ aiding_data_for_deletion = {} /\ asked = {}
    /\ modem = [up |-> TRUE, open |-> TRUE, fix |-> "none", mode |-> "INVALID"]
    /\ upDue = FALSE
    /\ told = "NONE" /\ closing = "never" /\ result = "SUCCESS"
    /\ uses \in Recurrence
    /\ wants = "stop" /\ inputs = 0 /\ crashes = 0

-----------------------------------------------------------------------------
(***************************************************************************)
(* What the modem answers.  ENGINE_DOWN and PHONE_OFFLINE are one number;  *)
(* FAILURE stands for the errors that do not count as a started session.   *)
(***************************************************************************)
Started == {"SUCCESS", "ENGINE_DOWN", "INTERNAL"}
Answers == IF modem.open THEN {"SUCCESS", "INTERNAL", "FAILURE"} ELSE {"ENGINE_DOWN"}

\* LocEngAdapter::startFix and stopFix: the fix the modem works on afterwards.
FixStarted(r) ==
    IF r = "SUCCESS" THEN [modem EXCEPT !.fix = mFixCriteria.recurrence, !.mode = mFixCriteria.mode]
                     ELSE modem
FixStopped(r) == IF r = "SUCCESS" THEN [modem EXCEPT !.fix = "none"] ELSE modem

\* LocEngAdapter::setInSession(false): the mode is forgotten.
SessionOver(why) ==
    /\ mNavigating' = FALSE
    /\ mFixCriteria' = [mFixCriteria EXCEPT !.mode = "INVALID"]
    /\ closing' = why

\* loc_eng_start_handler, in a session or not.
StartHandler ==
    \/ mNavigating /\ UNCHANGED <<session, modem>>
    \/ \E r \in Answers :
        /\ ~mNavigating
        /\ result' = r
        /\ modem' = FixStarted(r)
        /\ mNavigating' = (r \in Started)
        /\ told' = IF r \in Started THEN "SESSION_BEGIN" ELSE told
        /\ UNCHANGED <<mFixCriteria, closing>>

\* Mutant: the session stays open when the modem does not stop.
StopHandlerStays ==
    \/ ~mNavigating /\ UNCHANGED <<session, modem>>
    \/ \E r \in Answers :
        /\ mNavigating
        /\ result' = r
        /\ modem' = FixStopped(r)
        /\ IF r = "SUCCESS" THEN told' = "SESSION_END" /\ SessionOver("stop")
                            ELSE UNCHANGED <<told, mNavigating, mFixCriteria, closing>>

\* loc_eng_stop_handler
StopHandler ==
    \/ ~mNavigating /\ UNCHANGED <<session, modem>>
    \/ \E r \in Answers :
        /\ mNavigating
        /\ result' = r
        /\ modem' = FixStopped(r)
        /\ told' = IF r = "SUCCESS" THEN "SESSION_END" ELSE told
        /\ SessionOver(IF r = "SUCCESS" THEN "stop" ELSE "failed")

-----------------------------------------------------------------------------
\* Mutant: the mute ends with a session only, not with the engine.
MuteAfterSession(status) ==
    LET muted == mute_session_state # "NONE" /\ status \in {"SESSION_BEGIN", "ENGINE_ON"}
        over == mute_session_state = "IN_SESSION" /\ status = "SESSION_END"
    IN  IF muted THEN "IN_SESSION" ELSE IF over THEN "NONE" ELSE mute_session_state

\* loc_eng_report_status, the mute: it waits for a session and ends with it.
MuteAfter(status) ==
    LET muted == mute_session_state # "NONE" /\ status \in {"SESSION_BEGIN", "ENGINE_ON"}
        over == mute_session_state = "IN_SESSION" /\ status \in {"SESSION_END", "ENGINE_OFF"}
    IN  IF muted THEN "IN_SESSION" ELSE IF over THEN "NONE" ELSE mute_session_state

\* Mutant: whatever the modem reports is passed on.
InformedEverything(status) == status \in SessionStatus \ {"NONE"}

\* loc_eng_report_status: session ends are kept back while the framework
\* navigates and session begins while it does not, all of them in a muted session.
Informed(status) ==
    /\ \/ status = "SESSION_BEGIN" /\ mNavigating
       \/ status = "SESSION_END" /\ ~mNavigating
    /\ MuteAfter(status) # "IN_SESSION"

\* loc_eng_report_status
Report(status) ==
    /\ mute_session_state' = MuteAfter(status)
    /\ engine_status' = IF status \in EngineStatus \ {"NONE"} THEN status ELSE engine_status
    /\ fix_session_status' = IF status \in SessionStatus \ {"NONE"} THEN status ELSE fix_session_status

\* Mutant: the data is kept for a later report.
UpdateAidingLater(waiting, status) == aiding_data_for_deletion' = waiting /\ UNCHANGED asked

\* update_aiding_data_for_deletion, with the data that waits and the status:
\* a modem that is down deletes nothing.
UpdateAiding(waiting, status) ==
    IF status = "ENGINE_ON"
    THEN aiding_data_for_deletion' = waiting /\ UNCHANGED asked
    ELSE /\ aiding_data_for_deletion' = {}
         /\ asked' = IF modem.open THEN asked \ waiting ELSE asked

-----------------------------------------------------------------------------
\* The MsgTask takes the message at the head of its queue and runs proc().
Take(kind) == queue # <<>> /\ Head(queue).of = kind /\ queue' = Tail(queue)

DoStart == Take("start") /\ StartHandler /\ UNCHANGED <<history, aiding, upDue, counts>>

DoStop == Take("stop") /\ StopHandler /\ UNCHANGED <<history, aiding, upDue, counts>>

\* LocEngPositionMode: kept by the adapter and sent to the modem.
DoPositionMode ==
    /\ Take("mode")
    /\ mFixCriteria' = [mode |-> "set", recurrence |-> Head(queue).recurrence]
    /\ UNCHANGED <<mNavigating, told, closing, result, history, aiding, modem, upDue, counts>>

\* LocEngDelAidData: the mask replaces the one that waits.
DoDeleteAiding ==
    /\ Take("delete")
    /\ UpdateAiding(Head(queue).data, engine_status)
    /\ UNCHANGED <<session, history, modem, upDue, counts>>

\* LocEngReportStatus
DoReportStatus ==
    /\ Take("status")
    /\ LET s == Head(queue).status
       IN  /\ Report(s)
           /\ told' = IF Informed(s) THEN s ELSE told
           /\ UpdateAiding(aiding_data_for_deletion, engine_status')
    /\ UNCHANGED <<mNavigating, mFixCriteria, closing, result, modem, upDue, counts>>

\* LocEngReportPosition: a fix is passed on if it is a failure, a final fix by
\* satellites or sensors, or accurate enough where intermediate fixes are wanted.
Reported(fix) ==
    /\ mute_session_state # "IN_SESSION"
    /\ \/ fix.status = "FAILURE"
       \/ fix.status = "SUCCESS" /\ fix.by = "gnss"
       \/ IntermediateFix /\ fix.by = "accurate"

\* A single-shot session is over with the first fix that was passed on; the
\* modem is stopped if it still works on a better one.
DoReportPosition ==
    /\ Take("fix")
    /\ LET fix == Head(queue)
       IN  \/ /\ Reported(fix) /\ mFixCriteria.recurrence = "single"
              /\ SessionOver("fix")
              /\ \/ fix.status # "INTERMEDIATE" /\ UNCHANGED <<modem, result>>
                 \/ \E r \in Answers :
                        fix.status = "INTERMEDIATE" /\ modem' = FixStopped(r) /\ result' = r
              /\ UNCHANGED told
           \/ /\ ~(Reported(fix) /\ mFixCriteria.recurrence = "single")
              /\ UNCHANGED <<session, modem>>
    /\ UNCHANGED <<history, aiding, upDue, counts>>

\* loc_eng_mute_one_session, from an NI request with GPS_NI_PRIVACY_OVERRIDE.
DoMute ==
    /\ Take("mute")
    /\ mute_session_state' = "WAIT"
    /\ UNCHANGED <<session, engine_status, fix_session_status, aiding, modem, upDue, counts>>

\* loc_eng_handle_engine_down: the aiding data is not looked at.
DoEngineDown ==
    /\ Take("down")
    /\ Report("ENGINE_OFF")
    /\ UNCHANGED <<session, aiding, modem, upDue, counts>>

\* LocSsrMsg: the client of the modem is closed and opened again.
DoReopen ==
    /\ Take("ssr")
    /\ modem' = [modem EXCEPT !.open = modem.up]
    /\ UNCHANGED <<session, history, aiding, upDue, counts>>

\* Mutant: a session is not started again.
RestartNothing == UNCHANGED <<session, modem>>

\* loc_eng_handle_engine_up: a session that is open is closed and started
\* again; setInSession(false) has forgotten the mode when startFix is called.
Restart ==
    \/ ~mNavigating /\ UNCHANGED <<session, modem>>
    \/ \E r \in Answers :
        /\ mNavigating
        /\ mFixCriteria' = [mFixCriteria EXCEPT !.mode = "INVALID"]
        /\ result' = r
        /\ modem' = IF r = "SUCCESS"
                    THEN [modem EXCEPT !.fix = mFixCriteria.recurrence, !.mode = "INVALID"] ELSE modem
        /\ mNavigating' = (r \in Started)
        /\ told' = IF r \in Started THEN "SESSION_BEGIN" ELSE told
        /\ closing' = "failed"

DoEngineUp ==
    /\ Take("up")
    /\ Report("ENGINE_ON")
    /\ Restart
    /\ UNCHANGED <<aiding, upDue, counts>>

MsgTask ==
    \/ DoStart \/ DoStop \/ DoPositionMode \/ DoDeleteAiding
    \/ DoReportStatus \/ DoReportPosition \/ DoMute
    \/ DoEngineDown \/ DoReopen \/ DoEngineUp

-----------------------------------------------------------------------------
\* MsgTask::sendMsg
Send(m) == Len(queue) < MaxQueue /\ queue' = Append(queue, m)

(***************************************************************************)
(* The framework: it starts a session when it wants none, stops one that   *)
(* it wants, and sets the mode in between.                                 *)
(***************************************************************************)
Call(m) ==
    /\ inputs < MaxInputs
    /\ inputs' = inputs + 1
    /\ Send(m)
    /\ UNCHANGED <<session, history, modem, upDue, uses, crashes>>

SetMode == wants # "start" /\ UNCHANGED <<aiding, wants>> /\ Call([of |-> "mode", recurrence |-> uses])

Start == wants # "start" /\ wants' = "start" /\ UNCHANGED aiding /\ Call(Plain("start"))

Stop == wants = "start" /\ wants' = "stop" /\ UNCHANGED aiding /\ Call(Plain("stop"))

DeleteAiding ==
    \E f \in SUBSET Aiding \ {{}} :
        /\ Call([of |-> "delete", data |-> f])
        /\ asked' = asked \cup f
        /\ UNCHANGED <<aiding_data_for_deletion, wants>>

\* loc_eng_cleanup: the thread of the framework looks at the session and
\* stops it; nothing is destroyed, so that a later start is handled as ever.
Cleanup ==
    /\ wants' = IF mNavigating THEN "stop" ELSE "clean"
    /\ UNCHANGED aiding
    /\ \/ mNavigating /\ Call(Plain("stop"))
       \/ /\ ~mNavigating /\ inputs < MaxInputs /\ inputs' = inputs + 1
          /\ UNCHANGED <<queue, session, history, modem, upDue, uses, crashes>>

(***************************************************************************)
(* The modem: it reports what it likes about its engine and its sessions,  *)
(* which may be its own, and fixes for the session it was asked for.  A    *)
(* single fix ends with its final report.                                  *)
(***************************************************************************)
ModemReports(m) ==
    /\ modem.up
    /\ inputs < MaxInputs
    /\ inputs' = inputs + 1
    /\ Send(m)
    /\ UNCHANGED <<session, history, aiding, upDue, uses, wants, crashes>>

ModemStatus ==
    /\ \E s \in SessionStatus \cup EngineStatus : ModemReports([of |-> "status", status |-> s])
    /\ UNCHANGED modem

ModemFix ==
    \E f \in Fix :
        /\ modem.fix # "none"
        /\ ModemReports(f)
        /\ modem' = IF modem.fix = "single" /\ f.status # "INTERMEDIATE"
                    THEN [modem EXCEPT !.fix = "none"] ELSE modem

PrivacyOverride == ModemReports(Plain("mute")) /\ UNCHANGED modem

\* LocApiBase::handleEngineDownEvent: the fix is gone with the modem.
Crash ==
    /\ modem.up /\ ~upDue
    /\ crashes < MaxCrashes
    /\ crashes' = crashes + 1
    /\ modem' = [up |-> FALSE, open |-> FALSE, fix |-> "none", mode |-> "INVALID"]
    /\ Send(Plain("down"))
    /\ UNCHANGED <<session, history, aiding, upDue, uses, wants, inputs>>

\* LocApiBase::handleEngineUpEvent: first the client is reopened, ...
Recover ==
    /\ ~modem.up
    /\ modem' = [modem EXCEPT !.up = TRUE]
    /\ upDue' = TRUE
    /\ Send(Plain("ssr"))
    /\ UNCHANGED <<session, history, aiding, counts>>

\* ... then the adapters are told.
TellUp ==
    /\ upDue
    /\ upDue' = FALSE
    /\ Send(Plain("up"))
    /\ UNCHANGED <<session, history, aiding, modem, counts>>

Modem == ModemStatus \/ ModemFix \/ PrivacyOverride \/ Crash \/ Recover \/ TellUp

Next == MsgTask \/ SetMode \/ Start \/ Stop \/ DeleteAiding \/ Cleanup \/ Modem

\* The thread of the MsgTask handles what is queued; a modem that is down
\* comes up again.
EngineSpec == Init /\ [][Next]_engineVars /\ WF_engineVars(MsgTask) /\ WF_engineVars(Recover) /\ WF_engineVars(TellUp)

-----------------------------------------------------------------------------
(***************************************************************************)
(* Type invariant of the engine: what the handlers keep in loc_eng_data,   *)
(* and the messages that wait.                                             *)
(***************************************************************************)
EngineTypeOK ==
    /\ queue \in Seq(Msg)
    /\ mNavigating \in BOOLEAN
    /\ mFixCriteria \in [mode : {"INVALID", "set"}, recurrence : Recurrence]
    /\ mute_session_state \in {"NONE", "WAIT", "IN_SESSION"}
    /\ engine_status \in EngineStatus /\ fix_session_status \in SessionStatus
    /\ aiding_data_for_deletion \subseteq Aiding /\ asked \subseteq Aiding
    /\ modem \in [up : BOOLEAN, open : BOOLEAN, fix : Recurrence \cup {"none"}, mode : {"INVALID", "set"}]
    /\ upDue \in BOOLEAN
    /\ told \in SessionStatus
    /\ closing \in {"never", "stop", "fix", "failed"}
    /\ result \in Started \cup {"FAILURE"}
    /\ uses \in Recurrence /\ wants \in {"start", "stop", "clean"}
    /\ inputs \in 0..MaxInputs /\ crashes \in 0..MaxCrashes

(***************************************************************************)
(* "Session End is not reported during Android navigating state": while    *)
(* the adapter is in a session the framework believes that it is, whatever *)
(* the modem reports late; and it believes so of a closed session only if  *)
(* a single-shot fix or an error closed it.                                *)
(***************************************************************************)
FrameworkKnows ==
    /\ mNavigating => told = "SESSION_BEGIN"
    /\ told = "SESSION_BEGIN" /\ ~mNavigating => closing \in {"fix", "failed"}

(***************************************************************************)
(* "modem is back up.  If we crashed in the middle of navigating, we       *)
(* restart."  When all messages are handled and the last call did not end  *)
(* in an internal error, a periodic session is open at the adapter exactly *)
(* if the modem works on it.                                               *)
(***************************************************************************)
Quiet == queue = <<>> /\ modem.up /\ ~upDue
SessionMatchesModem ==
    Quiet /\ uses = "periodic" /\ result \notin {"INTERNAL", "FAILURE"} =>
        (mNavigating <=> modem.fix # "none")

(***************************************************************************)
(* "Mutes one session": a mute in force belongs to an engine that is on or *)
(* to a session that has begun, so that it ends with them or with the      *)
(* crash of the modem.                                                     *)
(***************************************************************************)
MuteIsBounded ==
    mute_session_state = "IN_SESSION" =>
        engine_status = "ENGINE_ON" \/ fix_session_status = "SESSION_BEGIN"

(***************************************************************************)
(* "If the GPS engine is off, the aiding data will be deleted.": a         *)
(* deletion waits only while the engine is on or the modem restarts.       *)
(***************************************************************************)
DeferredWhileOn ==
    aiding_data_for_deletion # {} =>
        \/ engine_status = "ENGINE_ON"
        \/ ~modem.open \/ upDue \/ \E i \in DOMAIN queue : queue[i].of \in {"ssr", "up"}

(***************************************************************************)
(* A session that the framework stopped, itself or in a cleanup that found *)
(* it open, is closed in the end unless the framework goes on.             *)
(***************************************************************************)
StopHonoured == wants = "stop" ~> ~mNavigating \/ wants # "stop"
=============================================================================
