--------------------------- MODULE LocEngineProofs ---------------------------
(***************************************************************************)
(* Theorems about LocEngine, for any aiding data and any bounds:           *)
(* FrameworkKnows, MuteIsBounded, DeferredWhileOn and SessionMatchesModem, *)
(* and the types.                                                          *)
(***************************************************************************)
EXTENDS LocEngine, TLAPS

\* The framework and the modem leave the engine's state to the handlers.
LEMMA OthersKeep ==
    SetMode \/ Start \/ Stop \/ DeleteAiding \/ Cleanup \/ Modem
        => UNCHANGED <<session, history, aiding_data_for_deletion>>
<1>1. ASSUME NEW m, Call(m) PROVE UNCHANGED <<session, history>>
  BY <1>1 DEF Call
<1>2. ASSUME NEW m, ModemReports(m) PROVE UNCHANGED <<session, history, aiding>>
  BY <1>2 DEF ModemReports
<1>3. CASE SetMode
  BY <1>1, <1>3 DEF SetMode, aiding
<1>4. CASE Start \/ Stop
  BY <1>1, <1>4 DEF Start, Stop, aiding
<1>5. CASE DeleteAiding
  BY <1>1, <1>5 DEF DeleteAiding
<1>6. CASE Cleanup
  BY <1>1, <1>6 DEF Cleanup, aiding
<1>7. CASE ModemStatus \/ ModemFix \/ PrivacyOverride
  BY <1>2, <1>7 DEF ModemStatus, ModemFix, PrivacyOverride, aiding
<1>8. CASE Crash \/ Recover \/ TellUp
  BY <1>8 DEF Crash, Recover, TellUp, aiding
<1> QED BY <1>3, <1>4, <1>5, <1>6, <1>7, <1>8 DEF Modem

-----------------------------------------------------------------------------
(* What the framework was told *)

LEMMA KnowsStep == FrameworkKnows /\ [Next]_engineVars => FrameworkKnows'
<1> SUFFICES ASSUME FrameworkKnows, [Next]_engineVars PROVE FrameworkKnows'
  OBVIOUS
<1>1. CASE DoStart
  <2>1. CASE UNCHANGED session
    BY <2>1 DEF session, FrameworkKnows
  <2>2. ASSUME NEW r \in Answers, ~mNavigating, mNavigating' = (r \in Started),
               told' = IF r \in Started THEN "SESSION_BEGIN" ELSE told, closing' = closing
        PROVE  FrameworkKnows'
    <3>1. CASE r \in Started
      BY <2>2, <3>1 DEF FrameworkKnows
    <3>2. CASE r \notin Started
      BY <2>2, <3>2 DEF FrameworkKnows
    <3> QED BY <3>1, <3>2
  <2> QED BY <1>1, <2>1, <2>2 DEF DoStart, StartHandler
<1>2. CASE DoStop
  BY <1>2 DEF DoStop, StopHandler, SessionOver, session, FrameworkKnows
<1>3. CASE DoReportStatus
  BY <1>3 DEF DoReportStatus, Informed, FrameworkKnows
<1>4. CASE DoReportPosition
  BY <1>4 DEF DoReportPosition, SessionOver, session, FrameworkKnows
<1>5. CASE DoEngineUp
  BY <1>5 DEF DoEngineUp, Restart, session, FrameworkKnows
<1>6. CASE DoPositionMode \/ DoDeleteAiding \/ DoMute \/ DoEngineDown \/ DoReopen
  BY <1>6 DEF DoPositionMode, DoDeleteAiding, DoMute, DoEngineDown, DoReopen, session, FrameworkKnows
<1>7. CASE SetMode \/ Start \/ Stop \/ DeleteAiding \/ Cleanup \/ Modem
  <2>1. UNCHANGED session
    BY <1>7, OthersKeep
  <2> QED BY <2>1 DEF session, FrameworkKnows
<1>8. CASE UNCHANGED engineVars
  BY <1>8 DEF engineVars, session, FrameworkKnows
<1> QED BY <1>1, <1>2, <1>3, <1>4, <1>5, <1>6, <1>7, <1>8 DEF Next, MsgTask

(***************************************************************************)
(* While the adapter is in a session the framework was told so, whatever   *)
(* the modem reports and however often it restarts; and it believes in a   *)
(* closed session only after a single-shot fix or an error.                *)
(***************************************************************************)
THEOREM FrameworkAlwaysKnows == EngineSpec => []FrameworkKnows
<1>1. Init => FrameworkKnows
  BY DEF Init, FrameworkKnows
<1> QED BY <1>1, KnowsStep, PTL DEF EngineSpec

-----------------------------------------------------------------------------
(* The mute *)

LEMMA ReportKeepsMute ==
    ASSUME NEW status, MuteIsBounded, Report(status)
    PROVE  MuteIsBounded'
  BY DEF MuteIsBounded, Report, MuteAfter, EngineStatus, SessionStatus

LEMMA MuteStep == MuteIsBounded /\ [Next]_engineVars => MuteIsBounded'
<1> SUFFICES ASSUME MuteIsBounded, [Next]_engineVars PROVE MuteIsBounded'
  OBVIOUS
<1>1. CASE DoReportStatus \/ DoEngineDown \/ DoEngineUp
  BY <1>1, ReportKeepsMute DEF DoReportStatus, DoEngineDown, DoEngineUp
<1>2. CASE DoMute
  BY <1>2 DEF DoMute, MuteIsBounded
<1>3. CASE DoStart \/ DoStop \/ DoPositionMode \/ DoDeleteAiding \/ DoReportPosition \/ DoReopen
  BY <1>3 DEF DoStart, DoStop, DoPositionMode, DoDeleteAiding, DoReportPosition, DoReopen, history,
              MuteIsBounded
<1>4. CASE SetMode \/ Start \/ Stop \/ DeleteAiding \/ Cleanup \/ Modem
  BY <1>4, OthersKeep DEF history, MuteIsBounded
<1>5. CASE UNCHANGED engineVars
  BY <1>5 DEF engineVars, history, MuteIsBounded
<1> QED BY <1>1, <1>2, <1>3, <1>4, <1>5 DEF Next, MsgTask

(***************************************************************************)
(* A mute in force always has an engine that is on or a session that has   *)
(* begun, whose end will end it.                                           *)
(***************************************************************************)
THEOREM MuteAlwaysBounded == EngineSpec => []MuteIsBounded
<1>1. Init => MuteIsBounded
  BY DEF Init, MuteIsBounded
<1> QED BY <1>1, MuteStep, PTL DEF EngineSpec

-----------------------------------------------------------------------------
(* The aiding data that waits *)

\* A restart that has begun goes on: the up of the modem is due, or one of its
\* two messages waits behind the i-th.
Restarting(i) == upDue \/ \E j \in DOMAIN queue : j > i /\ queue[j].of \in {"ssr", "up"}

Waits == aiding_data_for_deletion # {} =>
             engine_status = "ENGINE_ON" \/ ~modem.open \/ Restarting(0)

ModemType    == [up : BOOLEAN, open : BOOLEAN, fix : Recurrence \cup {"none"},
                 mode : {"INVALID", "set"}]
CriteriaType == [mode : {"INVALID", "set"}, recurrence : Recurrence]

RestartTyped ==
    /\ queue \in Seq(Msg)
    /\ modem \in ModemType /\ mFixCriteria \in CriteriaType
    /\ uses \in Recurrence

RestartOrder ==
    /\ modem.open => modem.up
    /\ \A i \in DOMAIN queue : queue[i].of = "down" => ~modem.up \/ Restarting(i)
    /\ \A i \in DOMAIN queue : queue[i].of = "ssr" =>
          upDue \/ \E j \in DOMAIN queue : j > i /\ queue[j].of = "up"

RestartInv == RestartTyped /\ RestartOrder /\ Waits

\* A message is put at the end.
LEMMA SendIs ==
    ASSUME queue \in Seq(Msg), NEW m \in Msg, queue' = Append(queue, m)
    PROVE  /\ queue' \in Seq(Msg)
           /\ Len(queue) \in Nat /\ DOMAIN queue = 1 .. Len(queue)
           /\ DOMAIN queue' = 1 .. Len(queue) + 1
           /\ \A i \in DOMAIN queue : queue'[i] = queue[i]
           /\ queue'[Len(queue) + 1] = m
  OBVIOUS

\* One that is neither the begin of a restart nor its first message keeps what
\* is known of the others.
LEMMA SendKeeps ==
    ASSUME RestartInv, NEW m \in Msg, m.of \notin {"down", "ssr"}, queue' = Append(queue, m),
           modem' \in ModemType, modem'.up = modem.up, modem'.open = modem.open,
           upDue => upDue' \/ m.of = "up", UNCHANGED <<mFixCriteria, uses>>,
           UNCHANGED <<aiding_data_for_deletion, engine_status>>
    PROVE  RestartInv'
<1>1. queue \in Seq(Msg)
  BY DEF RestartInv, RestartTyped
<1>2. /\ queue' \in Seq(Msg)
      /\ Len(queue) \in Nat /\ DOMAIN queue = 1 .. Len(queue)
      /\ DOMAIN queue' = 1 .. Len(queue) + 1
      /\ \A i \in DOMAIN queue : queue'[i] = queue[i]
      /\ queue'[Len(queue) + 1] = m
  BY <1>1, SendIs
<1>3. ASSUME NEW i \in Nat, i <= Len(queue), Restarting(i) PROVE Restarting(i)'
  BY <1>2, <1>3 DEF Restarting
<1>4. RestartTyped'
  BY <1>2 DEF RestartInv, RestartTyped
<1>5. RestartOrder'
  <2>1. ASSUME NEW i \in DOMAIN queue', queue'[i].of = "down" PROVE ~modem'.up \/ Restarting(i)'
    BY <1>2, <1>3, <2>1 DEF RestartInv, RestartOrder
  <2>2. ASSUME NEW i \in DOMAIN queue', queue'[i].of = "ssr"
        PROVE  upDue' \/ \E j \in DOMAIN queue' : j > i /\ queue'[j].of = "up"
    <3>1. i \in DOMAIN queue /\ queue[i].of = "ssr" /\ Len(queue) + 1 > i
      BY <1>2, <2>2
    <3> QED BY <1>2, <3>1 DEF RestartInv, RestartOrder
  <2> QED BY <2>1, <2>2 DEF RestartInv, RestartOrder
<1>6. Waits'
  BY <1>3 DEF RestartInv, Waits
<1> QED BY <1>4, <1>5, <1>6 DEF RestartInv

\* The head of the queue is taken: what waits behind the others stays.
LEMMA TakeIs ==
    ASSUME RestartInv, queue # <<>>, queue' = Tail(queue), upDue' = upDue
    PROVE  /\ queue' \in Seq(Msg) /\ Head(queue) = queue[1] /\ 1 \in DOMAIN queue
           /\ \A i \in DOMAIN queue' : i \in Nat /\ i + 1 \in DOMAIN queue /\ queue'[i] = queue[i + 1]
           /\ \A i \in Nat : Restarting(i + 1) => Restarting(i)'
           /\ Restarting(0) => Restarting(0)' \/ Head(queue).of \in {"ssr", "up"}
<1>1. queue \in Seq(Msg)
  BY DEF RestartInv, RestartTyped
<1>2. /\ queue' \in Seq(Msg) /\ Head(queue) = queue[1]
      /\ Len(queue) \in Nat /\ Len(queue) > 0
      /\ DOMAIN queue = 1 .. Len(queue) /\ DOMAIN queue' = 1 .. Len(queue) - 1
      /\ \A i \in DOMAIN queue' : queue'[i] = queue[i + 1]
  BY <1>1
<1>3. ASSUME NEW j \in DOMAIN queue, j > 1
      PROVE  j - 1 \in DOMAIN queue' /\ queue'[j - 1] = queue[j]
  BY <1>2, <1>3
<1>4. ASSUME NEW i \in Nat, Restarting(i + 1) PROVE Restarting(i)'
  <2>1. CASE upDue
    BY <2>1 DEF Restarting
  <2>2. ASSUME NEW j \in DOMAIN queue, j > i + 1, queue[j].of \in {"ssr", "up"}
        PROVE  Restarting(i)'
    <3>1. j > 1 /\ j - 1 > i
      BY <1>2, <2>2
    <3> QED BY <1>3, <2>2, <3>1 DEF Restarting
  <2> QED BY <1>4, <2>1, <2>2 DEF Restarting
<1>5. Restarting(0) => Restarting(0)' \/ Head(queue).of \in {"ssr", "up"}
  <2>1. CASE upDue
    BY <2>1 DEF Restarting
  <2>2. ASSUME NEW j \in DOMAIN queue, queue[j].of \in {"ssr", "up"}, j # 1 PROVE Restarting(0)'
    <3>1. j > 1 /\ j - 1 > 0
      BY <1>2, <2>2
    <3> QED BY <1>3, <2>2, <3>1 DEF Restarting
  <2> QED BY <1>2, <2>1, <2>2 DEF Restarting
<1> QED BY <1>2, <1>4, <1>5

LEMMA TakeKeeps ==
    ASSUME RestartInv, queue # <<>>, queue' = Tail(queue), upDue' = upDue, uses' = uses,
           modem' \in ModemType, modem'.up = modem.up, modem'.open => modem.up,
           mFixCriteria' \in CriteriaType,
           Waits'
    PROVE  RestartInv'
<1>1. RestartTyped'
  BY TakeIs DEF RestartInv, RestartTyped
<1>2. ASSUME NEW i \in DOMAIN queue', queue'[i].of = "down" PROVE ~modem'.up \/ Restarting(i)'
  <2>1. i \in Nat /\ i + 1 \in DOMAIN queue /\ queue[i + 1].of = "down"
    BY <1>2, TakeIs
  <2>2. ~modem.up \/ Restarting(i + 1)
    BY <2>1 DEF RestartInv, RestartOrder
  <2> QED BY <2>1, <2>2, TakeIs
<1>3. ASSUME NEW i \in DOMAIN queue', queue'[i].of = "ssr"
      PROVE  upDue' \/ \E j \in DOMAIN queue' : j > i /\ queue'[j].of = "up"
  <2>1. i \in Nat /\ i + 1 \in DOMAIN queue /\ queue[i + 1].of = "ssr"
    BY <1>3, TakeIs
  <2>2. CASE upDue
    BY <2>2
  <2>3. ASSUME NEW j \in DOMAIN queue, j > i + 1, queue[j].of = "up"
        PROVE  \E k \in DOMAIN queue' : k > i /\ queue'[k].of = "up"
    <3>1. queue \in Seq(Msg)
      BY DEF RestartInv, RestartTyped
    <3>2. j - 1 \in DOMAIN queue' /\ j - 1 > i /\ queue'[j - 1] = queue[j]
      BY <2>1, <2>3, <3>1
    <3> QED BY <2>3, <3>2
  <2> QED BY <2>1, <2>2, <2>3 DEF RestartInv, RestartOrder
<1> QED BY <1>1, <1>2, <1>3 DEF RestartInv, RestartOrder

\* The answers of the modem change its fix and mode only.
LEMMA FixTyped ==
    ASSUME RestartInv, NEW r
    PROVE  /\ FixStarted(r) \in ModemType /\ FixStopped(r) \in ModemType
           /\ FixStarted(r).up = modem.up /\ FixStarted(r).open = modem.open
           /\ FixStopped(r).up = modem.up /\ FixStopped(r).open = modem.open
  BY DEF RestartInv, RestartTyped, FixStarted, FixStopped, ModemType, CriteriaType

\* The handlers: those that look at aiding data or at the engine, and the rest.
LEMMA HandlerStep == RestartInv /\ MsgTask => RestartInv'
<1> SUFFICES ASSUME RestartInv, MsgTask PROVE RestartInv'
  OBVIOUS
<1> USE DEF counts
<1>0. /\ modem \in ModemType /\ mFixCriteria \in CriteriaType
      /\ modem.open => modem.up
  BY DEF RestartInv, RestartTyped, RestartOrder
<1>1. ASSUME NEW h, Take(h) PROVE queue # <<>> /\ queue' = Tail(queue) /\ Head(queue).of = h
  BY <1>1 DEF Take
<1>2. ASSUME NEW h, Take(h), h \notin {"ssr", "up"}, UNCHANGED <<upDue, aiding_data_for_deletion>>,
             engine_status' = engine_status, modem'.open = modem.open
      PROVE  Waits'
  <2>1. Restarting(0) => Restarting(0)'
    BY <1>1, <1>2, TakeIs
  <2> QED BY <1>2, <2>1 DEF RestartInv, Waits
<1>3. CASE DoStart
  <2>1. UNCHANGED modem \/ \E r : modem' = FixStarted(r)
    BY <1>3 DEF DoStart, StartHandler
  <2>2. modem' \in ModemType /\ modem'.up = modem.up /\ modem'.open = modem.open
    BY <1>0, <2>1, FixTyped
  <2>3. mFixCriteria' = mFixCriteria
    BY <1>3 DEF DoStart, StartHandler, session
  <2>4. Take("start") /\ UNCHANGED <<upDue, uses, aiding_data_for_deletion, engine_status>>
    BY <1>3 DEF DoStart, aiding, history
  <2> QED BY <1>0, <1>1, <1>2, <2>2, <2>3, <2>4, TakeKeeps
<1>4. CASE DoStop
  <2>1. UNCHANGED modem \/ \E r : modem' = FixStopped(r)
    BY <1>4 DEF DoStop, StopHandler
  <2>2. modem' \in ModemType /\ modem'.up = modem.up /\ modem'.open = modem.open
    BY <1>0, <2>1, FixTyped
  <2>3. mFixCriteria' \in CriteriaType
    BY <1>0, <1>4 DEF DoStop, StopHandler, SessionOver, session, CriteriaType
  <2>4. Take("stop") /\ UNCHANGED <<upDue, uses, aiding_data_for_deletion, engine_status>>
    BY <1>4 DEF DoStop, aiding, history
  <2> QED BY <1>0, <1>1, <1>2, <2>2, <2>3, <2>4, TakeKeeps
<1>5. CASE DoPositionMode
  <2>1. Take("mode") /\ modem' = modem
        /\ UNCHANGED <<upDue, uses, aiding_data_for_deletion, engine_status>>
    BY <1>5 DEF DoPositionMode, aiding, history
  <2>2. mFixCriteria' \in CriteriaType
    <3>1. Head(queue) \in Msg /\ Head(queue).of = "mode"
      BY <1>1, <2>1 DEF RestartInv, RestartTyped
    <3>2. Head(queue).recurrence \in Recurrence
      BY <3>1 DEF Msg, Fix
    <3> QED BY <1>5, <3>2 DEF DoPositionMode, CriteriaType
  <2> QED BY <1>0, <1>1, <1>2, <2>1, <2>2, TakeKeeps
<1>6. CASE DoDeleteAiding
  <2>1. /\ Take("delete") /\ UNCHANGED <<modem, mFixCriteria, upDue, uses, engine_status>>
        /\ engine_status # "ENGINE_ON" => aiding_data_for_deletion' = {}
    BY <1>6 DEF DoDeleteAiding, UpdateAiding, session, history
  <2> QED BY <1>0, <1>1, <2>1, TakeKeeps DEF Waits
<1>7. CASE DoReportStatus
  <2>1. /\ Take("status") /\ UNCHANGED <<modem, mFixCriteria, upDue, uses>>
        /\ engine_status' # "ENGINE_ON" => aiding_data_for_deletion' = {}
    BY <1>7 DEF DoReportStatus, UpdateAiding
  <2> QED BY <1>0, <1>1, <2>1, TakeKeeps DEF Waits
<1>8. CASE DoReportPosition
  <2>1. UNCHANGED modem \/ \E r : modem' = FixStopped(r)
    BY <1>8 DEF DoReportPosition
  <2>2. modem' \in ModemType /\ modem'.up = modem.up /\ modem'.open = modem.open
    BY <1>0, <2>1, FixTyped
  <2>3. mFixCriteria' \in CriteriaType
    BY <1>0, <1>8 DEF DoReportPosition, SessionOver, session, CriteriaType
  <2>4. Take("fix") /\ UNCHANGED <<upDue, uses, aiding_data_for_deletion, engine_status>>
    BY <1>8 DEF DoReportPosition, aiding, history
  <2> QED BY <1>0, <1>1, <1>2, <2>2, <2>3, <2>4, TakeKeeps
<1>9. CASE DoMute
  <2>1. Take("mute") /\ UNCHANGED <<modem, mFixCriteria, upDue, uses, aiding_data_for_deletion,
                                    engine_status>>
    BY <1>9 DEF DoMute, aiding, session
  <2> QED BY <1>0, <1>1, <1>2, <2>1, TakeKeeps
<1>10. CASE DoEngineDown
  <2>1. Take("down") /\ UNCHANGED <<modem, mFixCriteria, upDue, uses>>
    BY <1>10 DEF DoEngineDown, session
  <2>2. 1 \in DOMAIN queue /\ queue[1].of = "down"
    BY <1>1, <2>1, TakeIs
  <2>3. ~modem.up \/ Restarting(1)
    BY <2>2 DEF RestartInv, RestartOrder
  <2>4. ~modem.open \/ Restarting(0)'
    BY <1>0, <1>1, <2>1, <2>3, TakeIs
  <2> QED BY <1>0, <1>1, <2>1, <2>4, TakeKeeps DEF Waits
<1>11. CASE DoReopen
  <2>1. /\ Take("ssr") /\ modem' = [modem EXCEPT !.open = modem.up]
        /\ UNCHANGED <<mFixCriteria, upDue, uses>>
    BY <1>11 DEF DoReopen, session
  <2>2. modem' \in ModemType /\ modem'.up = modem.up /\ modem'.open = modem.up
    BY <1>0, <2>1 DEF ModemType
  <2>3. 1 \in DOMAIN queue /\ queue[1].of = "ssr"
    BY <1>1, <2>1, TakeIs
  <2>4. upDue \/ \E j \in DOMAIN queue : j > 1 /\ queue[j].of = "up"
    BY <2>3 DEF RestartInv, RestartOrder
  <2>5. Restarting(0)'
    <3>1. Restarting(0 + 1)
      BY <2>4 DEF Restarting
    <3> QED BY <1>1, <2>1, <3>1, TakeIs
  <2> QED BY <1>0, <1>1, <2>1, <2>2, <2>5, TakeKeeps DEF Waits
<1>12. CASE DoEngineUp
  <2>1. Take("up") /\ UNCHANGED <<upDue, uses>> /\ engine_status' = "ENGINE_ON"
    BY <1>12 DEF DoEngineUp, Report, EngineStatus
  <2>2. /\ modem' \in ModemType /\ modem'.up = modem.up /\ modem'.open = modem.open
        /\ mFixCriteria' \in CriteriaType
    <3>1. CASE ~mNavigating /\ UNCHANGED <<session, modem>>
      BY <1>0, <3>1 DEF session
    <3>2. CASE ~(~mNavigating /\ UNCHANGED <<session, modem>>)
      <4>1. PICK r \in Answers :
                /\ mFixCriteria' = [mFixCriteria EXCEPT !.mode = "INVALID"]
                /\ modem' = IF r = "SUCCESS"
                            THEN [modem EXCEPT !.fix = mFixCriteria.recurrence, !.mode = "INVALID"]
                            ELSE modem
        BY <1>12, <3>2 DEF DoEngineUp, Restart
      <4> QED BY <1>0, <4>1 DEF ModemType, CriteriaType
    <3> QED BY <3>1, <3>2
  <2> QED BY <1>0, <1>1, <2>1, <2>2, TakeKeeps DEF Waits
<1> QED BY <1>3, <1>4, <1>5, <1>6, <1>7, <1>8, <1>9, <1>10, <1>11, <1>12 DEF MsgTask

LEMMA OtherStep ==
    RestartInv /\ (SetMode \/ Start \/ Stop \/ DeleteAiding \/ Cleanup \/ Modem) => RestartInv'
<1> SUFFICES ASSUME RestartInv, SetMode \/ Start \/ Stop \/ DeleteAiding \/ Cleanup \/ Modem
             PROVE  RestartInv'
  OBVIOUS
<1>0. /\ modem \in ModemType /\ uses \in Recurrence /\ queue \in Seq(Msg)
      /\ UNCHANGED <<mFixCriteria, aiding_data_for_deletion, engine_status>>
  BY OthersKeep DEF RestartInv, RestartTyped, session, history
<1>1. ASSUME NEW m \in Msg, m.of \notin {"down", "ssr"}, Call(m) PROVE RestartInv'
  <2>1. queue' = Append(queue, m) /\ UNCHANGED <<modem, upDue, uses>>
    BY <1>1 DEF Call, Send
  <2> QED BY <1>0, <1>1, <2>1, SendKeeps
<1>2. ASSUME NEW m \in Msg, m.of \notin {"down", "ssr"}, ModemReports(m), modem' \in ModemType,
             modem'.up = modem.up, modem'.open = modem.open
      PROVE  RestartInv'
  <2>1. queue' = Append(queue, m) /\ UNCHANGED <<upDue, uses>>
    BY <1>2 DEF ModemReports, Send
  <2> QED BY <1>0, <1>2, <2>1, SendKeeps
<1>3. /\ \A k \in {"start", "stop", "mute", "down", "ssr", "up"} : Plain(k) \in Msg /\ Plain(k).of = k
      /\ \A f \in SUBSET Aiding : [of |-> "delete", data |-> f] \in Msg
      /\ [of |-> "mode", recurrence |-> uses] \in Msg
      /\ \A t \in SessionStatus \cup EngineStatus : [of |-> "status", status |-> t] \in Msg
      /\ \A f \in Fix : f \in Msg /\ f.of = "fix"
  BY <1>0 DEF Msg, Plain, Fix
<1>4. CASE SetMode \/ Start \/ Stop
  BY <1>1, <1>3, <1>4 DEF SetMode, Start, Stop
<1>5. CASE DeleteAiding
  BY <1>1, <1>3, <1>5 DEF DeleteAiding
<1>6. CASE Cleanup
  <2>1. CASE Call(Plain("stop"))
    BY <1>1, <1>3, <2>1
  <2>2. CASE UNCHANGED <<queue, session, history, modem, upDue, uses>>
    BY <1>0, <2>2 DEF RestartInv, RestartTyped, RestartOrder, Waits, Restarting
  <2> QED BY <1>6, <2>1, <2>2 DEF Cleanup
<1>7. CASE ModemStatus \/ PrivacyOverride
  BY <1>0, <1>2, <1>3, <1>7 DEF ModemStatus, PrivacyOverride
<1>8. CASE ModemFix
  <2>1. PICK f \in Fix : /\ ModemReports(f)
                         /\ modem' = IF modem.fix = "single" /\ f.status # "INTERMEDIATE"
                                     THEN [modem EXCEPT !.fix = "none"] ELSE modem
    BY <1>8 DEF ModemFix
  <2>2. modem' \in ModemType /\ modem'.up = modem.up /\ modem'.open = modem.open
    BY <1>0, <2>1 DEF ModemType
  <2> QED BY <1>2, <1>3, <2>1, <2>2
<1>9. CASE Crash
  <2>1. /\ queue' = Append(queue, Plain("down")) /\ uses' = uses
        /\ modem' = [up |-> FALSE, open |-> FALSE, fix |-> "none", mode |-> "INVALID"]
        /\ upDue' = upDue
    BY <1>9 DEF Crash, Send
  <2>2. modem' \in ModemType /\ ~modem'.up /\ ~modem'.open
    BY <2>1 DEF ModemType
  <2>3. /\ queue' \in Seq(Msg)
        /\ Len(queue) \in Nat /\ DOMAIN queue = 1 .. Len(queue)
        /\ DOMAIN queue' = 1 .. Len(queue) + 1
        /\ \A i \in DOMAIN queue : queue'[i] = queue[i]
        /\ queue'[Len(queue) + 1].of = "down"
    BY <1>0, <1>3, <2>1, SendIs
  <2>4. ASSUME NEW i \in DOMAIN queue', queue'[i].of = "ssr"
        PROVE  upDue' \/ \E j \in DOMAIN queue' : j > i /\ queue'[j].of = "up"
    <3>1. i \in DOMAIN queue /\ queue[i].of = "ssr"
      BY <2>3, <2>4
    <3> QED BY <2>1, <2>3, <3>1 DEF RestartInv, RestartOrder
  <2> QED BY <1>0, <2>1, <2>2, <2>3, <2>4 DEF RestartInv, RestartTyped, RestartOrder, Waits
<1>10. CASE Recover
  <2>1. /\ queue' = Append(queue, Plain("ssr")) /\ uses' = uses /\ upDue' = TRUE
        /\ modem' = [modem EXCEPT !.up = TRUE]
    BY <1>10 DEF Recover, Send, counts
  <2>2. modem' \in ModemType /\ modem'.up
    BY <1>0, <2>1 DEF ModemType
  <2>3. queue' \in Seq(Msg)
    BY <1>0, <1>3, <2>1, SendIs
  <2> QED BY <1>0, <2>1, <2>2, <2>3 DEF RestartInv, RestartTyped, RestartOrder, Waits, Restarting
<1>11. CASE TellUp
  <2>1. queue' = Append(queue, Plain("up")) /\ UNCHANGED <<modem, uses>>
    BY <1>11 DEF TellUp, Send, counts
  <2> QED BY <1>0, <1>3, <2>1, SendKeeps
<1> QED BY <1>4, <1>5, <1>6, <1>7, <1>8, <1>9, <1>10, <1>11 DEF Modem

(***************************************************************************)
(* A deletion of aiding data waits only while the engine is on or a        *)
(* restart of the modem is not over, through any number of restarts: the   *)
(* down of the modem is handled before the messages that follow it.        *)
(***************************************************************************)
THEOREM DeletionsWaitForAnEnd == EngineSpec => []DeferredWhileOn
<1>1. Init => RestartInv
  BY DEF Init, RestartInv, RestartTyped, RestartOrder, Waits, ModemType, CriteriaType, Recurrence
<1>2. RestartInv /\ UNCHANGED engineVars => RestartInv'
  BY DEF engineVars, session, history, aiding, counts, RestartInv, RestartTyped, RestartOrder,
         Waits, Restarting
<1>3. RestartInv /\ [Next]_engineVars => RestartInv'
  BY <1>2, HandlerStep, OtherStep DEF Next
<1>4. RestartInv => DeferredWhileOn
  BY DEF RestartInv, Waits, Restarting, DeferredWhileOn
<1> QED BY <1>1, <1>3, <1>4, PTL DEF EngineSpec

-----------------------------------------------------------------------------
(* The session of the adapter and the fix of the modem *)

SsrDue == \E i \in DOMAIN queue : queue[i].of = "ssr"
UpDue  == upDue \/ \E i \in DOMAIN queue : queue[i].of = "up"

\* A client that is closed is reopened, and works on no fix until then.
ClientReopens ==
    /\ modem.up /\ ~modem.open => SsrDue
    /\ ~modem.open => modem.fix = "none"

\* A framework that wants periodic fixes never gets a single-shot session.
PeriodicOnly ==
    uses = "periodic" =>
        /\ mFixCriteria.recurrence = "periodic"
        /\ modem.fix # "single"
        /\ \A i \in DOMAIN queue : queue[i].of = "mode" => queue[i].recurrence = "periodic"

\* The session and the fix differ only while a restart is due that starts the
\* session again.
FixFollowsSession ==
    uses = "periodic" /\ result \notin {"INTERNAL", "FAILURE"} =>
        /\ modem.fix # "none" => mNavigating
        /\ mNavigating /\ modem.fix = "none" => ~modem.up \/ UpDue

SessionInv == RestartInv /\ ClientReopens /\ PeriodicOnly /\ FixFollowsSession

\* What is due stays due until its message is taken.
LEMMA TakeDue ==
    ASSUME RestartInv, queue # <<>>, queue' = Tail(queue), upDue' = upDue
    PROVE  /\ SsrDue => SsrDue' \/ Head(queue).of = "ssr"
           /\ UpDue => UpDue' \/ Head(queue).of = "up"
<1>1. queue \in Seq(Msg)
  BY DEF RestartInv, RestartTyped
<1>2. ASSUME NEW j \in DOMAIN queue, j # 1
      PROVE  j - 1 \in DOMAIN queue' /\ queue'[j - 1] = queue[j]
  BY <1>1, <1>2
<1>3. Head(queue) = queue[1]
  BY <1>1
<1> QED BY <1>2, <1>3 DEF SsrDue, UpDue

LEMMA SendDue ==
    ASSUME queue \in Seq(Msg), NEW m \in Msg, queue' = Append(queue, m)
    PROVE  /\ SsrDue \/ m.of = "ssr" => SsrDue'
           /\ (UpDue /\ (upDue => upDue')) \/ m.of = "up" => UpDue'
           /\ \A i \in DOMAIN queue' : (i \in DOMAIN queue /\ queue'[i] = queue[i]) \/ queue'[i] = m
<1>1. /\ DOMAIN queue = 1 .. Len(queue) /\ DOMAIN queue' = 1 .. Len(queue) + 1
      /\ Len(queue) \in Nat
      /\ \A i \in DOMAIN queue : queue'[i] = queue[i]
      /\ queue'[Len(queue) + 1] = m
  BY SendIs
<1>2. Len(queue) + 1 \in DOMAIN queue' /\ \A i \in DOMAIN queue : i \in DOMAIN queue'
  BY <1>1
<1>3. ASSUME NEW i \in DOMAIN queue' PROVE i \in DOMAIN queue \/ i = Len(queue) + 1
  BY <1>1
<1>4. SsrDue \/ m.of = "ssr" => SsrDue'
  BY <1>1, <1>2 DEF SsrDue
<1>5. (UpDue /\ (upDue => upDue')) \/ m.of = "up" => UpDue'
  BY <1>1, <1>2 DEF UpDue
<1> QED BY <1>1, <1>3, <1>4, <1>5

\* A client that is closed after a step has a restart due that opens it.
LEMMA ClosedIsDue ==
    ASSUME RestartInv', ClientReopens', ~modem'.open
    PROVE  ~modem'.up \/ UpDue'
  BY DEF RestartInv, RestartOrder, ClientReopens, SsrDue, UpDue

\* What a handler can do to the session and to the fix.
Idles ==
    /\ mNavigating' = mNavigating /\ result' = result /\ modem'.fix = modem.fix
    /\ Head(queue).of = "up" => ~mNavigating
Starts(r) ==
    /\ r \in Answers /\ result' = r
    /\ mNavigating' = (r \in Started)
    /\ modem'.fix = IF r = "SUCCESS" THEN mFixCriteria.recurrence ELSE modem.fix
Stops(r) ==
    /\ r \in Answers /\ result' = r
    /\ mNavigating' = FALSE
    /\ modem'.fix = IF r = "SUCCESS" THEN "none" ELSE modem.fix
SingleShotEnds ==
    /\ mFixCriteria.recurrence = "single"
    /\ modem'.fix \in {modem.fix, "none"}

LEMMA HandlerEffect ==
    ASSUME RestartInv, MsgTask
    PROVE  /\ queue # <<>> /\ queue' = Tail(queue) /\ upDue' = upDue /\ uses' = uses
           /\ modem'.up = modem.up
           /\ IF Head(queue).of = "ssr" THEN modem'.open = modem.up /\ modem'.fix = modem.fix
                                        ELSE modem'.open = modem.open
           /\ mFixCriteria'.recurrence = IF Head(queue).of = "mode" THEN Head(queue).recurrence
                                         ELSE mFixCriteria.recurrence
           /\ Idles \/ (\E r : Starts(r)) \/ (\E r : Stops(r)) \/ SingleShotEnds
<1> DEFINE Effect ==
           /\ queue # <<>> /\ queue' = Tail(queue) /\ upDue' = upDue /\ uses' = uses
           /\ modem'.up = modem.up
           /\ IF Head(queue).of = "ssr" THEN modem'.open = modem.up /\ modem'.fix = modem.fix
                                        ELSE modem'.open = modem.open
           /\ mFixCriteria'.recurrence = IF Head(queue).of = "mode" THEN Head(queue).recurrence
                                         ELSE mFixCriteria.recurrence
           /\ Idles \/ (\E r : Starts(r)) \/ (\E r : Stops(r)) \/ SingleShotEnds
<1> USE DEF counts
<1>0. modem \in ModemType /\ mFixCriteria \in CriteriaType
  BY DEF RestartInv, RestartTyped
<1>1. ASSUME NEW r
      PROVE  /\ FixStarted(r).up = modem.up /\ FixStarted(r).open = modem.open
             /\ FixStarted(r).fix = IF r = "SUCCESS" THEN mFixCriteria.recurrence ELSE modem.fix
             /\ FixStopped(r).up = modem.up /\ FixStopped(r).open = modem.open
             /\ FixStopped(r).fix = IF r = "SUCCESS" THEN "none" ELSE modem.fix
  BY <1>0 DEF FixStarted, FixStopped, ModemType
<1>2. CASE DoStart
  <2>1. /\ queue # <<>> /\ queue' = Tail(queue) /\ Head(queue).of = "start"
        /\ upDue' = upDue /\ uses' = uses
    BY <1>2 DEF DoStart, Take
  <2>2. CASE UNCHANGED <<session, modem>>
    BY <2>1, <2>2 DEF session, Idles
  <2>3. ASSUME NEW r \in Answers, result' = r, modem' = FixStarted(r),
               mNavigating' = (r \in Started), mFixCriteria' = mFixCriteria
        PROVE  Effect
    <3>1. Starts(r)
      BY <1>1, <2>3 DEF Starts
    <3> QED BY <1>1, <2>1, <2>3, <3>1
  <2> QED BY <1>2, <2>2, <2>3 DEF DoStart, StartHandler
<1>3. CASE DoStop
  <2>1. /\ queue # <<>> /\ queue' = Tail(queue) /\ Head(queue).of = "stop"
        /\ upDue' = upDue /\ uses' = uses
    BY <1>3 DEF DoStop, Take
  <2>2. CASE UNCHANGED <<session, modem>>
    BY <2>1, <2>2 DEF session, Idles
  <2>3. ASSUME NEW r \in Answers, result' = r, modem' = FixStopped(r), mNavigating' = FALSE,
               mFixCriteria' = [mFixCriteria EXCEPT !.mode = "INVALID"]
        PROVE  Effect
    <3>1. Stops(r)
      BY <1>1, <2>3 DEF Stops
    <3>2. mFixCriteria'.recurrence = mFixCriteria.recurrence
      BY <1>0, <2>3 DEF CriteriaType
    <3> QED BY <1>1, <2>1, <2>3, <3>1, <3>2
  <2> QED BY <1>3, <2>2, <2>3 DEF DoStop, StopHandler, SessionOver
<1>4. CASE DoReportPosition
  <2>1. /\ queue # <<>> /\ queue' = Tail(queue) /\ Head(queue).of = "fix"
        /\ upDue' = upDue /\ uses' = uses
    BY <1>4 DEF DoReportPosition, Take
  <2>2. CASE UNCHANGED <<session, modem>>
    BY <2>1, <2>2 DEF session, Idles
  <2>3. ASSUME mFixCriteria.recurrence = "single", modem' = modem \/ \E r : modem' = FixStopped(r),
               mFixCriteria' = [mFixCriteria EXCEPT !.mode = "INVALID"]
        PROVE  Effect
    <3>1. modem'.up = modem.up /\ modem'.open = modem.open /\ modem'.fix \in {modem.fix, "none"}
      BY <1>1, <2>3
    <3>2. mFixCriteria'.recurrence = mFixCriteria.recurrence
      BY <1>0, <2>3 DEF CriteriaType
    <3> QED BY <2>1, <2>3, <3>1, <3>2 DEF SingleShotEnds
  <2> QED BY <1>4, <2>2, <2>3 DEF DoReportPosition, SessionOver
<1>5. CASE DoEngineUp
  <2>1. /\ queue # <<>> /\ queue' = Tail(queue) /\ Head(queue).of = "up"
        /\ upDue' = upDue /\ uses' = uses
    BY <1>5 DEF DoEngineUp, Take
  <2>2. CASE ~mNavigating /\ UNCHANGED <<session, modem>>
    BY <2>1, <2>2 DEF session, Idles
  <2>3. ASSUME NEW r \in Answers, result' = r, mNavigating' = (r \in Started),
               mFixCriteria' = [mFixCriteria EXCEPT !.mode = "INVALID"],
               modem' = IF r = "SUCCESS"
                        THEN [modem EXCEPT !.fix = mFixCriteria.recurrence, !.mode = "INVALID"]
                        ELSE modem
        PROVE  Effect
    <3>1. /\ modem'.up = modem.up /\ modem'.open = modem.open
          /\ modem'.fix = IF r = "SUCCESS" THEN mFixCriteria.recurrence ELSE modem.fix
      BY <1>0, <2>3 DEF ModemType
    <3>2. Starts(r)
      BY <2>3, <3>1 DEF Starts
    <3>3. mFixCriteria'.recurrence = mFixCriteria.recurrence
      BY <1>0, <2>3 DEF CriteriaType
    <3> QED BY <2>1, <3>1, <3>2, <3>3
  <2> QED BY <1>5, <2>2, <2>3 DEF DoEngineUp, Restart
<1>6. CASE DoReopen
  <2>1. modem'.up = modem.up /\ modem'.open = modem.up /\ modem'.fix = modem.fix
    BY <1>0, <1>6 DEF DoReopen, ModemType
  <2> QED BY <1>6, <2>1 DEF DoReopen, Take, session, Idles
<1>7. CASE DoPositionMode
  <2>1. mFixCriteria'.recurrence = Head(queue).recurrence
    BY <1>7 DEF DoPositionMode
  <2> QED BY <1>7, <2>1 DEF DoPositionMode, Take, Idles
<1>8. CASE DoDeleteAiding \/ DoReportStatus \/ DoMute \/ DoEngineDown
  <2>1. \/ Take("delete") \/ Take("status") \/ Take("mute") \/ Take("down")
    BY <1>8 DEF DoDeleteAiding, DoReportStatus, DoMute, DoEngineDown
  <2>2. /\ modem' = modem /\ mNavigating' = mNavigating /\ result' = result
        /\ mFixCriteria' = mFixCriteria /\ upDue' = upDue /\ uses' = uses
    BY <1>8 DEF DoDeleteAiding, DoReportStatus, DoMute, DoEngineDown, session
  <2> QED BY <2>1, <2>2 DEF Take, Idles
<1> QED BY <1>2, <1>3, <1>4, <1>5, <1>6, <1>7, <1>8 DEF MsgTask

LEMMA HandlerSession == SessionInv /\ MsgTask => SessionInv'
<1> SUFFICES ASSUME SessionInv, MsgTask PROVE SessionInv'
  OBVIOUS
<1>1. RestartInv /\ RestartInv' /\ ClientReopens /\ PeriodicOnly /\ FixFollowsSession
  BY HandlerStep DEF SessionInv
<1>2. /\ queue # <<>> /\ queue' = Tail(queue) /\ upDue' = upDue /\ uses' = uses
      /\ modem'.up = modem.up
      /\ Head(queue).of = "ssr" => modem'.open = modem.up /\ modem'.fix = modem.fix
      /\ Head(queue).of # "ssr" => modem'.open = modem.open
      /\ mFixCriteria'.recurrence = IF Head(queue).of = "mode" THEN Head(queue).recurrence
                                    ELSE mFixCriteria.recurrence
  BY <1>1, HandlerEffect
<1>4. /\ modem.open => modem.up
      /\ modem \in ModemType /\ mFixCriteria \in CriteriaType
  BY <1>1 DEF RestartInv, RestartOrder, RestartTyped
<1>5. /\ SsrDue => SsrDue' \/ Head(queue).of = "ssr"
      /\ UpDue => UpDue' \/ Head(queue).of = "up"
      /\ 1 \in DOMAIN queue /\ Head(queue) = queue[1]
      /\ \A i \in DOMAIN queue' : i + 1 \in DOMAIN queue /\ queue'[i] = queue[i + 1]
  BY <1>1, <1>2, TakeDue, TakeIs
<1>6. Idles \/ (\E r : Starts(r)) \/ (\E r : Stops(r)) \/ SingleShotEnds
  BY <1>1, HandlerEffect
<1>7. ~modem.open => modem'.fix = "none"
  <2>1. ASSUME NEW r \in Answers, ~modem.open PROVE r = "ENGINE_DOWN"
    BY <2>1 DEF Answers
  <2> QED BY <1>1, <1>6, <2>1 DEF Idles, Starts, Stops, SingleShotEnds, ClientReopens
<1>8. ClientReopens'
  <2>1. modem'.up /\ ~modem'.open => SsrDue'
    BY <1>1, <1>2, <1>5 DEF ClientReopens
  <2>2. ~modem'.open => modem'.fix = "none"
    BY <1>2, <1>4, <1>7
  <2> QED BY <2>1, <2>2 DEF ClientReopens
<1>9. PeriodicOnly'
  <2> SUFFICES ASSUME uses = "periodic"
               PROVE  /\ mFixCriteria'.recurrence = "periodic" /\ modem'.fix # "single"
                      /\ \A i \in DOMAIN queue' :
                             queue'[i].of = "mode" => queue'[i].recurrence = "periodic"
    BY <1>2 DEF PeriodicOnly
  <2>1. /\ mFixCriteria.recurrence = "periodic" /\ modem.fix # "single"
        /\ \A i \in DOMAIN queue : queue[i].of = "mode" => queue[i].recurrence = "periodic"
    BY <1>1 DEF PeriodicOnly
  <2>2. modem'.fix \in {modem.fix, "none", "periodic"}
    BY <1>6, <2>1 DEF Idles, Starts, Stops, SingleShotEnds
  <2> QED BY <1>2, <1>5, <2>1, <2>2
<1>10. FixFollowsSession'
  <2> SUFFICES ASSUME uses = "periodic", result' \notin {"INTERNAL", "FAILURE"}
               PROVE  /\ modem'.fix # "none" => mNavigating'
                      /\ mNavigating' /\ modem'.fix = "none" => ~modem'.up \/ UpDue'
    BY <1>2 DEF FixFollowsSession
  <2>1. mFixCriteria.recurrence = "periodic"
    BY <1>1 DEF PeriodicOnly
  <2>2. ~modem'.open => ~modem'.up \/ UpDue'
    BY <1>1, <1>8, ClosedIsDue
  <2>3. CASE Idles
    BY <1>1, <1>2, <1>5, <2>3 DEF Idles, FixFollowsSession
  <2>4. ASSUME NEW r \in Answers, result' = r PROVE r = "SUCCESS" \/ ~modem.open
    BY <2>4 DEF Answers
  <2>5. ~modem.open => modem'.fix = "none"
    BY <1>7
  <2>6. ASSUME NEW r, Starts(r)
        PROVE  /\ modem'.fix # "none" => mNavigating'
               /\ mNavigating' /\ modem'.fix = "none" => ~modem'.up \/ UpDue'
    <3>1. CASE r = "SUCCESS"
      BY <2>1, <2>6, <3>1 DEF Starts, Started
    <3>2. CASE r # "SUCCESS"
      <4>1. ~modem.open /\ modem'.fix = "none"
        BY <2>4, <2>5, <2>6, <3>2 DEF Starts
      <4>2. ~modem'.open \/ Head(queue).of = "ssr"
        BY <1>2, <4>1
      <4>3. CASE Head(queue).of = "ssr"
        <5>1. RestartOrder
          BY <1>1 DEF RestartInv
        <5>2. upDue \/ \E j \in DOMAIN queue : j > 1 /\ queue[j].of = "up"
          BY <1>5, <4>3, <5>1 DEF RestartOrder
        <5>3. UpDue /\ Head(queue).of # "up"
          BY <4>3, <5>2 DEF UpDue
        <5> QED BY <1>5, <4>1, <5>3
      <4> QED BY <2>2, <4>1, <4>2, <4>3
    <3> QED BY <3>1, <3>2
  <2>7. ASSUME NEW r, Stops(r)
        PROVE  modem'.fix = "none" /\ ~mNavigating'
    BY <2>4, <2>5, <2>7 DEF Stops
  <2>8. ~SingleShotEnds
    BY <2>1 DEF SingleShotEnds
  <2> QED BY <1>6, <2>3, <2>6, <2>7, <2>8
<1> QED BY <1>1, <1>8, <1>9, <1>10 DEF SessionInv

\* A message of the framework or the modem that leaves the client as it is.
LEMMA SendSession ==
    ASSUME SessionInv, RestartInv', NEW m \in Msg, queue' = Append(queue, m),
           m.of = "mode" => m.recurrence = uses,
           modem'.up = modem.up, modem'.open = modem.open,
           modem'.fix = modem.fix \/ (modem.fix = "single" /\ modem'.fix = "none"),
           upDue => upDue' \/ m.of = "up", uses' = uses, UNCHANGED session
    PROVE  SessionInv'
<1>1. queue \in Seq(Msg) /\ ClientReopens /\ PeriodicOnly /\ FixFollowsSession
  BY DEF SessionInv, RestartInv, RestartTyped
<1>2. /\ SsrDue => SsrDue'
      /\ UpDue => UpDue'
      /\ \A i \in DOMAIN queue' : (i \in DOMAIN queue /\ queue'[i] = queue[i]) \/ queue'[i] = m
  BY <1>1, SendDue
<1>3. mNavigating' = mNavigating /\ mFixCriteria' = mFixCriteria /\ result' = result
  BY DEF session
<1>4. ClientReopens'
  BY <1>1, <1>2 DEF ClientReopens
<1>5. PeriodicOnly'
  BY <1>1, <1>2, <1>3 DEF PeriodicOnly
<1>6. FixFollowsSession'
  BY <1>1, <1>2, <1>3 DEF FixFollowsSession, PeriodicOnly
<1> QED BY <1>4, <1>5, <1>6 DEF SessionInv

LEMMA OtherSession ==
    SessionInv /\ (SetMode \/ Start \/ Stop \/ DeleteAiding \/ Cleanup \/ Modem) => SessionInv'
<1> SUFFICES ASSUME SessionInv, SetMode \/ Start \/ Stop \/ DeleteAiding \/ Cleanup \/ Modem
             PROVE  SessionInv'
  OBVIOUS
<1>0. /\ RestartInv /\ RestartInv' /\ UNCHANGED session
      /\ modem \in ModemType /\ uses \in Recurrence /\ queue \in Seq(Msg)
  BY OtherStep, OthersKeep DEF SessionInv, RestartInv, RestartTyped
<1>1. ASSUME NEW m \in Msg, m.of = "mode" => m.recurrence = uses, Call(m) PROVE SessionInv'
  <2>1. queue' = Append(queue, m) /\ modem' = modem /\ upDue' = upDue /\ uses' = uses
    BY <1>1 DEF Call, Send
  <2> QED BY <1>0, <1>1, <2>1, SendSession
<1>2. ASSUME NEW m \in Msg, m.of # "mode", ModemReports(m),
             modem'.up = modem.up, modem'.open = modem.open,
             modem'.fix = modem.fix \/ (modem.fix = "single" /\ modem'.fix = "none")
      PROVE  SessionInv'
  <2>1. queue' = Append(queue, m) /\ upDue' = upDue /\ uses' = uses
    BY <1>2 DEF ModemReports, Send
  <2> QED BY <1>0, <1>2, <2>1, SendSession
<1>3. /\ \A k \in {"start", "stop", "mute", "down", "ssr", "up"} : Plain(k) \in Msg /\ Plain(k).of = k
      /\ \A f \in SUBSET Aiding :
             [of |-> "delete", data |-> f] \in Msg /\ [of |-> "delete", data |-> f].of = "delete"
      /\ [of |-> "mode", recurrence |-> uses] \in Msg
      /\ \A t \in SessionStatus \cup EngineStatus :
             [of |-> "status", status |-> t] \in Msg /\ [of |-> "status", status |-> t].of = "status"
      /\ \A f \in Fix : f \in Msg /\ f.of = "fix"
  BY <1>0 DEF Msg, Plain, Fix
<1>4. CASE SetMode
  BY <1>1, <1>3, <1>4 DEF SetMode
<1>5. CASE Start \/ Stop
  BY <1>1, <1>3, <1>5 DEF Start, Stop
<1>6. CASE DeleteAiding
  BY <1>1, <1>3, <1>6 DEF DeleteAiding
<1>7. CASE Cleanup
  <2>1. CASE Call(Plain("stop"))
    BY <1>1, <1>3, <2>1
  <2>2. CASE queue' = queue /\ modem' = modem /\ upDue' = upDue /\ uses' = uses
    BY <1>0, <2>2 DEF session, SessionInv, ClientReopens, PeriodicOnly, FixFollowsSession,
                      SsrDue, UpDue
  <2> QED BY <1>7, <2>1, <2>2 DEF Cleanup
<1>8. CASE ModemStatus \/ PrivacyOverride
  BY <1>2, <1>3, <1>8 DEF ModemStatus, PrivacyOverride
<1>9. CASE ModemFix
  <2>1. PICK f \in Fix : /\ ModemReports(f)
                         /\ modem' = IF modem.fix = "single" /\ f.status # "INTERMEDIATE"
                                     THEN [modem EXCEPT !.fix = "none"] ELSE modem
    BY <1>9 DEF ModemFix
  <2>2. /\ modem'.up = modem.up /\ modem'.open = modem.open
        /\ modem'.fix = modem.fix \/ (modem.fix = "single" /\ modem'.fix = "none")
    BY <1>0, <2>1 DEF ModemType
  <2> QED BY <1>2, <1>3, <2>1, <2>2
<1>10. CASE Crash
  <2>1. /\ queue' = Append(queue, Plain("down")) /\ uses' = uses
        /\ ~modem'.up /\ ~modem'.open /\ modem'.fix = "none"
    BY <1>10 DEF Crash, Send
  <2>2. \A i \in DOMAIN queue' :
            (i \in DOMAIN queue /\ queue'[i] = queue[i]) \/ queue'[i] = Plain("down")
    BY <1>0, <1>3, <2>1, SendDue
  <2> QED BY <1>0, <1>3, <2>1, <2>2 DEF session, SessionInv, ClientReopens, PeriodicOnly,
                                        FixFollowsSession
<1>11. CASE Recover
  <2>1. /\ queue' = Append(queue, Plain("ssr")) /\ uses' = uses /\ upDue' = TRUE
        /\ modem' = [modem EXCEPT !.up = TRUE]
    BY <1>11 DEF Recover, Send, counts
  <2>2. modem'.fix = modem.fix /\ modem'.open = modem.open
    BY <1>0, <2>1 DEF ModemType
  <2>3. /\ SsrDue' /\ UpDue'
        /\ \A i \in DOMAIN queue' :
               (i \in DOMAIN queue /\ queue'[i] = queue[i]) \/ queue'[i] = Plain("ssr")
    <3>1. Plain("ssr") \in Msg /\ Plain("ssr").of = "ssr"
      BY <1>3
    <3>2. UpDue'
      BY <2>1 DEF UpDue
    <3> QED BY <1>0, <2>1, <3>1, <3>2, SendDue
  <2> QED BY <1>0, <1>3, <2>1, <2>2, <2>3 DEF session, SessionInv, ClientReopens, PeriodicOnly,
                                              FixFollowsSession
<1>12. CASE TellUp
  <2>1. queue' = Append(queue, Plain("up")) /\ modem' = modem /\ uses' = uses
    BY <1>12 DEF TellUp, Send, counts
  <2> QED BY <1>0, <1>3, <2>1, SendSession
<1> QED BY <1>4, <1>5, <1>6, <1>7, <1>8, <1>9, <1>10, <1>11, <1>12 DEF Modem

(***************************************************************************)
(* When all messages are handled and the modem is up, a periodic session   *)
(* is open at the adapter exactly if the modem works on it, through any    *)
(* number of restarts: one that finds a session open starts it again, and  *)
(* a stop that finds the modem down leaves no fix behind.                  *)
(***************************************************************************)
THEOREM SessionAlwaysMatches == EngineSpec => []SessionMatchesModem
<1>1. Init => SessionInv
  <2>1. Init => RestartInv
    BY DEF Init, RestartInv, RestartTyped, RestartOrder, Waits, ModemType, CriteriaType, Recurrence
  <2> QED BY <2>1 DEF Init, SessionInv, ClientReopens, PeriodicOnly, FixFollowsSession
<1>2. SessionInv /\ UNCHANGED engineVars => SessionInv'
  BY DEF engineVars, session, history, aiding, counts, RestartInv, RestartTyped, RestartOrder,
         Waits, Restarting, SessionInv, ClientReopens, PeriodicOnly, FixFollowsSession,
         SsrDue, UpDue
<1>3. SessionInv /\ [Next]_engineVars => SessionInv'
  BY <1>2, HandlerSession, OtherSession DEF Next
<1>4. SessionInv => SessionMatchesModem
  BY DEF SessionInv, FixFollowsSession, UpDue, SessionMatchesModem, Quiet
<1> QED BY <1>1, <1>3, <1>4, PTL DEF EngineSpec

-----------------------------------------------------------------------------
(* Types *)

SessionTyped ==
    /\ mNavigating \in BOOLEAN
    /\ told \in SessionStatus
    /\ closing \in {"never", "stop", "fix", "failed"}
    /\ result \in Started \cup {"FAILURE"}
HistoryTyped ==
    /\ mute_session_state \in {"NONE", "WAIT", "IN_SESSION"}
    /\ engine_status \in EngineStatus /\ fix_session_status \in SessionStatus
AidingTyped == aiding_data_for_deletion \subseteq Aiding /\ asked \subseteq Aiding
CountsTyped ==
    /\ uses \in Recurrence /\ wants \in {"start", "stop", "clean"}
    /\ inputs \in 0..MaxInputs /\ crashes \in 0..MaxCrashes
    /\ upDue \in BOOLEAN

TypeInv == RestartInv /\ SessionTyped /\ HistoryTyped /\ AidingTyped /\ CountsTyped

LEMMA AnswersTyped == Answers \subseteq Started \cup {"FAILURE"}
  BY DEF Answers, Started

LEMMA ReportTyped ==
    ASSUME NEW status \in SessionStatus \cup EngineStatus, HistoryTyped, Report(status)
    PROVE  HistoryTyped'
<1>1. mute_session_state' \in {"NONE", "WAIT", "IN_SESSION"}
  BY DEF HistoryTyped, Report, MuteAfter
<1>2. engine_status' \in EngineStatus /\ fix_session_status' \in SessionStatus
  BY DEF HistoryTyped, Report, EngineStatus, SessionStatus
<1> QED BY <1>1, <1>2 DEF HistoryTyped

\* The session is open or not after an answer of the modem.
LEMMA Assigned ==
    ASSUME TypeInv, mNavigating' = mNavigating \/ \E r : mNavigating' = (r \in Started)
    PROVE  mNavigating' \in BOOLEAN
<1>1. CASE mNavigating' = mNavigating
  BY <1>1 DEF TypeInv, SessionTyped
<1>2. ASSUME NEW r, mNavigating' = (r \in Started) PROVE mNavigating' \in BOOLEAN
  <2>1. CASE r \in Started
    BY <1>2, <2>1, Zenon
  <2>2. CASE r \notin Started
    <3>1. (r \in Started) = FALSE
      BY <2>2
    <3>2. mNavigating' = FALSE
      BY <1>2, <3>1, Zenon
    <3> QED BY <3>2
  <2> QED BY <2>1, <2>2
<1> QED BY <1>1, <1>2

LEMMA HandlerTyped == TypeInv /\ MsgTask => TypeInv'
<1> SUFFICES ASSUME TypeInv, MsgTask PROVE TypeInv'
  OBVIOUS
<1> USE DEF TypeInv
<1>0. RestartInv' /\ uses' = uses /\ wants' = wants /\ inputs' = inputs /\ crashes' = crashes
      /\ upDue' = upDue
  BY HandlerStep DEF MsgTask, counts, DoStart, DoStop, DoPositionMode, DoDeleteAiding,
                     DoReportStatus, DoReportPosition, DoMute, DoEngineDown, DoReopen, DoEngineUp
<1>1. CountsTyped'
  BY <1>0 DEF CountsTyped
<1>2. queue # <<>> => Head(queue) \in Msg
  BY DEF RestartInv, RestartTyped
<1>3. CASE DoStart \/ DoStop \/ DoEngineUp
  <2>1. UNCHANGED session => SessionTyped'
    BY DEF session, SessionTyped
  <2>2. ASSUME DoStart PROVE SessionTyped'
    <3>1. mNavigating' \in BOOLEAN
      <4>1. mNavigating' = mNavigating \/ \E r : mNavigating' = (r \in Started)
        BY <2>2 DEF DoStart, StartHandler, session
      <4> QED BY <4>1, Assigned
    <3>2. told' \in SessionStatus /\ closing' = closing /\ result' \in Started \cup {"FAILURE"}
      BY <2>1, <2>2, AnswersTyped DEF DoStart, StartHandler, session, SessionTyped, SessionStatus
    <3> QED BY <3>1, <3>2 DEF SessionTyped
  <2>3. ASSUME DoStop PROVE SessionTyped'
    BY <2>1, <2>3, AnswersTyped DEF DoStop, StopHandler, SessionOver, SessionTyped, SessionStatus
  <2>4. ASSUME DoEngineUp PROVE SessionTyped'
    <3>1. mNavigating' \in BOOLEAN
      <4>1. mNavigating' = mNavigating \/ \E r : mNavigating' = (r \in Started)
        BY <2>4 DEF DoEngineUp, Restart, session
      <4> QED BY <4>1, Assigned
    <3>2. /\ told' \in SessionStatus /\ closing' \in {closing, "failed"}
          /\ result' \in Started \cup {"FAILURE"}
      BY <2>1, <2>4, AnswersTyped DEF DoEngineUp, Restart, session, SessionTyped, SessionStatus
    <3> QED BY <3>1, <3>2 DEF SessionTyped
  <2>5. SessionTyped'
    BY <1>3, <2>2, <2>3, <2>4
  <2>6. HistoryTyped'
    BY <1>3, ReportTyped DEF DoStart, DoStop, DoEngineUp, history, HistoryTyped, EngineStatus
  <2>7. AidingTyped'
    BY <1>3 DEF DoStart, DoStop, DoEngineUp, aiding, AidingTyped
  <2> QED BY <1>0, <1>1, <2>5, <2>6, <2>7
<1>4. CASE DoReportPosition
  <2>1. CASE UNCHANGED <<session, modem>>
    BY <1>0, <1>1, <1>4, <2>1 DEF DoReportPosition, session, history, aiding, SessionTyped,
                                  HistoryTyped, AidingTyped
  <2>2. CASE SessionOver("fix") /\ told' = told /\ (result' = result \/ \E r \in Answers : result' = r)
    BY <1>0, <1>1, <1>4, <2>2, AnswersTyped DEF DoReportPosition, SessionOver, history, aiding,
                                  SessionTyped, HistoryTyped, AidingTyped
  <2> QED BY <1>4, <2>1, <2>2 DEF DoReportPosition
<1>5. CASE DoDeleteAiding
  <2>1. Head(queue).data \subseteq Aiding
    BY <1>2, <1>5 DEF DoDeleteAiding, Take, Msg, Fix
  <2> QED BY <1>0, <1>1, <1>5, <2>1 DEF DoDeleteAiding, UpdateAiding, session, history,
                                        SessionTyped, HistoryTyped, AidingTyped
<1>6. CASE DoReportStatus
  <2>1. Head(queue).status \in SessionStatus \cup EngineStatus
    BY <1>2, <1>6 DEF DoReportStatus, Take, Msg, Fix
  <2>2. HistoryTyped'
    BY <1>6, <2>1, ReportTyped DEF DoReportStatus
  <2>3. SessionTyped'
    BY <1>6 DEF DoReportStatus, Informed, SessionTyped, SessionStatus
  <2>4. AidingTyped'
    BY <1>6 DEF DoReportStatus, UpdateAiding, AidingTyped
  <2> QED BY <1>0, <1>1, <2>2, <2>3, <2>4
<1>7. CASE DoMute \/ DoEngineDown
  <2>1. UNCHANGED session /\ UNCHANGED aiding
    BY <1>7 DEF DoMute, DoEngineDown
  <2>2. HistoryTyped'
    BY <1>7, ReportTyped DEF DoMute, DoEngineDown, HistoryTyped, EngineStatus
  <2> QED BY <1>0, <1>1, <2>1, <2>2 DEF session, aiding, SessionTyped, AidingTyped
<1>8. CASE DoPositionMode \/ DoReopen
  <2>1. /\ mNavigating' = mNavigating /\ told' = told /\ closing' = closing /\ result' = result
        /\ UNCHANGED history /\ UNCHANGED aiding
    BY <1>8 DEF DoPositionMode, DoReopen, session
  <2> QED BY <1>0, <1>1, <2>1 DEF history, aiding, SessionTyped, HistoryTyped, AidingTyped
<1> QED BY <1>3, <1>4, <1>5, <1>6, <1>7, <1>8 DEF MsgTask

LEMMA OtherTyped ==
    TypeInv /\ (SetMode \/ Start \/ Stop \/ DeleteAiding \/ Cleanup \/ Modem) => TypeInv'
<1> SUFFICES ASSUME TypeInv, SetMode \/ Start \/ Stop \/ DeleteAiding \/ Cleanup \/ Modem
             PROVE  TypeInv'
  OBVIOUS
<1> USE DEF TypeInv
<1>1. RestartInv' /\ UNCHANGED session /\ UNCHANGED history
      /\ aiding_data_for_deletion' = aiding_data_for_deletion
  BY OtherStep, OthersKeep
<1>2. SessionTyped' /\ HistoryTyped'
  BY <1>1 DEF session, history, SessionTyped, HistoryTyped
<1>3. MaxInputs \in Nat /\ MaxCrashes \in Nat
  BY LocEngineAssumption
<1>4. asked' = asked \/ \E f \in SUBSET Aiding : asked' = asked \cup f
  BY DEF SetMode, Start, Stop, DeleteAiding, Cleanup, Modem, ModemStatus, ModemFix,
         PrivacyOverride, ModemReports, Crash, Recover, TellUp, aiding
<1>5. AidingTyped'
  BY <1>1, <1>4 DEF AidingTyped
<1>6. uses' = uses /\ wants' \in {wants, "start", "stop", "clean"}
  BY DEF SetMode, Start, Stop, DeleteAiding, Cleanup, Call, Modem, ModemStatus, ModemFix,
         PrivacyOverride, ModemReports, Crash, Recover, TellUp, counts
<1>7. inputs' = inputs \/ (inputs < MaxInputs /\ inputs' = inputs + 1)
  BY DEF SetMode, Start, Stop, DeleteAiding, Cleanup, Call, Modem, ModemStatus, ModemFix,
         PrivacyOverride, ModemReports, Crash, Recover, TellUp, counts
<1>8. crashes' = crashes \/ (crashes < MaxCrashes /\ crashes' = crashes + 1)
  BY DEF SetMode, Start, Stop, DeleteAiding, Cleanup, Call, Modem, ModemStatus, ModemFix,
         PrivacyOverride, ModemReports, Crash, Recover, TellUp, counts
<1>9. upDue' \in {upDue, TRUE, FALSE}
  BY DEF SetMode, Start, Stop, DeleteAiding, Cleanup, Call, Modem, ModemStatus, ModemFix,
         PrivacyOverride, ModemReports, Crash, Recover, TellUp
<1>10. CountsTyped'
  <2>1. inputs' \in 0..MaxInputs
    BY <1>3, <1>7 DEF CountsTyped
  <2>2. crashes' \in 0..MaxCrashes
    BY <1>3, <1>8 DEF CountsTyped
  <2>3. upDue' \in BOOLEAN
    BY <1>9 DEF CountsTyped
  <2>4. uses' \in Recurrence /\ wants' \in {"start", "stop", "clean"}
    BY <1>6 DEF CountsTyped
  <2> QED BY <2>1, <2>2, <2>3, <2>4 DEF CountsTyped
<1> QED BY <1>1, <1>2, <1>5, <1>10

(***************************************************************************)
(* Type correctness of the engine, with any aiding data and any number of  *)
(* inputs, restarts and waiting messages.                                  *)
(***************************************************************************)
THEOREM EngineTyping == EngineSpec => []EngineTypeOK
<1>1. Init => TypeInv
  <2>1. Init => RestartInv
    BY DEF Init, RestartInv, RestartTyped, RestartOrder, Waits, ModemType, CriteriaType, Recurrence
  <2>2. Init => CountsTyped
    <3>1. MaxInputs \in Nat /\ MaxCrashes \in Nat
      BY LocEngineAssumption
    <3>2. 0 \in 0..MaxInputs /\ 0 \in 0..MaxCrashes
      BY <3>1
    <3> QED BY <3>2 DEF Init, CountsTyped
  <2>3. Init => SessionTyped /\ HistoryTyped /\ AidingTyped
    BY DEF Init, SessionTyped, HistoryTyped, AidingTyped, SessionStatus, EngineStatus, Started
  <2> QED BY <2>1, <2>2, <2>3 DEF TypeInv
<1>2. TypeInv /\ UNCHANGED engineVars => TypeInv'
  <2> SUFFICES ASSUME TypeInv, UNCHANGED engineVars PROVE TypeInv'
    OBVIOUS
  <2>1. RestartInv'
    BY DEF engineVars, session, history, aiding, counts, TypeInv, RestartInv, RestartTyped,
           RestartOrder, Waits, Restarting
  <2>2. SessionTyped' /\ HistoryTyped' /\ AidingTyped' /\ CountsTyped'
    BY DEF engineVars, session, history, aiding, counts, TypeInv, SessionTyped, HistoryTyped,
           AidingTyped, CountsTyped
  <2> QED BY <2>1, <2>2 DEF TypeInv
<1>3. TypeInv /\ [Next]_engineVars => TypeInv'
  BY <1>2, HandlerTyped, OtherTyped DEF Next
<1>4. TypeInv => EngineTypeOK
  BY DEF TypeInv, RestartInv, RestartTyped, ModemType, CriteriaType, SessionTyped, HistoryTyped,
         AidingTyped, CountsTyped, EngineTypeOK
<1> QED BY <1>1, <1>3, <1>4, PTL DEF EngineSpec
=============================================================================
