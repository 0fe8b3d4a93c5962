----------------------------- MODULE DataProofs -----------------------------
(***************************************************************************)
(* What serves the data connection, for every value of the constants:      *)
(* DsNif and its data call, the timer that delays its retries (LocTimer),  *)
(* and the daemons' connection (DmnConn).  The three share no variable.    *)
(*                                                                         *)
(* ReleasedIsQuiet of DsNif is not inductive: whether a report is left in  *)
(* Released depends on what was on its way in the state before.  CallView  *)
(* lists, for each state of the machine, the call and the reports that go  *)
(* with it; every step leads from one entry to another.                    *)
(***************************************************************************)
EXTENDS DsNif, LocTimer, DmnConn, SequenceTheorems, TLAPS

PendingView ==
    \/ call = "none" /\ events \in {<<>>, <<"closed">>, <<"opened", "closed">>}
    \/ call = "starting" /\ events = <<>>
    \/ call = "up" /\ events = <<"opened">>

AcquiredView ==
    \/ call = "none" /\ events = <<"closed">>
    \/ call = "up" /\ events = <<>>

ReleasingView ==
    \/ call = "none" /\ events \in {<<>>, <<"closed">>, <<"opened", "closed">>}
    \/ call = "stopping" /\ events \in {<<>>, <<"opened">>}

CallView ==
    \/ mState = "Released" /\ call = "none" /\ events = <<>>
    \/ mState = "Pending" /\ PendingView
    \/ mState = "Acquired" /\ AcquiredView
    \/ mState = "Releasing" /\ ReleasingView

-----------------------------------------------------------------------------
LEMMA CallViewInit == DsInit => CallView
  BY DEF DsInit, CallView

\* Subscribing opens a call in Released only, and leaves what the view is of
\* alone otherwise.
LEMMA CallViewSubscribe ==
    ASSUME CallView, NEW c, NEW view, Subscribe(c, view)
    PROVE  CallView'
<1>1. CASE SubscribeReleased(c, view)
  <2>1. mState = "Released" /\ call = "none" /\ events = <<>> /\ events' = <<>>
    BY <1>1 DEF SubscribeReleased, CallView
  <2>2. CASE OpenSucceeds(view) /\ mState' = "Pending"
    BY <2>1, <2>2 DEF OpenSucceeds, CallView, PendingView
  <2>3. CASE OpenFails(list', inactive, view) /\ UNCHANGED mState
    BY <2>1, <2>3 DEF OpenFails, CallView
  <2> QED BY <1>1, <2>2, <2>3 DEF SubscribeReleased
<1>2. CASE SubscribeQueued(c, view)
  BY <1>2 DEF SubscribeQueued, CallView, PendingView, AcquiredView, ReleasingView
<1>3. CASE SubscribeAcquired(c, view)
  BY <1>3 DEF SubscribeAcquired, CallView, PendingView, AcquiredView, ReleasingView
<1> QED BY <1>1, <1>2, <1>3 DEF Subscribe

\* The last active subscriber to go turns the call into one that is stopping.
LEMMA CallViewRelease ==
    ASSUME CallView, NEW c, Release(c)
    PROVE  CallView'
<1>1. CASE ReleaseElsewhere(c) \/ ReleaseUnknown(c) \/ ReleaseReleased(c)
  BY <1>1 DEF ReleaseElsewhere, ReleaseUnknown, ReleaseReleased, CallView,
              PendingView, AcquiredView, ReleasingView
<1>2. CASE ReleaseHeld(c)
  <2>1. events' = events
    BY <1>2 DEF ReleaseHeld
  <2>2. CASE UNCHANGED <<mState, call>>
    BY <2>1, <2>2 DEF CallView, PendingView, AcquiredView, ReleasingView
  <2>3. CASE mState \in {"Pending", "Acquired"} /\ mState' = "Releasing" /\ StopDataCall
    BY <2>1, <2>3 DEF StopDataCall, CallView, PendingView, AcquiredView, ReleasingView
  <2> QED BY <1>2, <2>2, <2>3 DEF ReleaseHeld
<1> QED BY <1>1, <1>2 DEF Release

\* What waits is of one call, in the order the call made it.
LEMMA CallViewReports == CallView => OneCall
  BY DEF CallView, PendingView, AcquiredView, ReleasingView, OneCall

LEMMA ReportsTaken ==
    /\ Head(<<"opened">>) = "opened" /\ Tail(<<"opened">>) = <<>>
    /\ Head(<<"closed">>) = "closed" /\ Tail(<<"closed">>) = <<>>
    /\ Head(<<"opened", "closed">>) = "opened"
    /\ Tail(<<"opened", "closed">>) = <<"closed">>
    /\ "opened" # "closed"
  OBVIOUS

LEMMA ReportsAppended ==
    /\ Append(<<>>, "closed") = <<"closed">>
    /\ Append(<<"opened">>, "closed") = <<"opened", "closed">>
<1> DEFINE Kind == {"opened", "closed"}
<1>1. <<>> \in Seq(Kind) /\ <<"opened">> \in Seq(Kind)
  OBVIOUS
<1>2. /\ Append(<<>>, "closed") \in Seq(Kind)
      /\ Append(<<"opened">>, "closed") \in Seq(Kind)
  BY <1>1
<1>3. /\ Len(Append(<<>>, "closed")) = 1
      /\ Append(<<>>, "closed")[1] = "closed"
  BY <1>1
<1>4. /\ Len(Append(<<"opened">>, "closed")) = 2
      /\ Append(<<"opened">>, "closed")[1] = "opened"
      /\ Append(<<"opened">>, "closed")[2] = "closed"
  BY <1>1
<1>5. <<"closed">> \in Seq(Kind) /\ <<"opened", "closed">> \in Seq(Kind)
  OBVIOUS
<1> HIDE DEF Kind
<1>6. Append(<<>>, "closed") = <<"closed">>
  BY <1>2, <1>3, <1>5
<1>7. Append(<<"opened">>, "closed") = <<"opened", "closed">>
  <2>1. \A i \in 1 .. 2 :
            Append(<<"opened">>, "closed")[i] = <<"opened", "closed">>[i]
    BY <1>4
  <2>2. Len(<<"opened", "closed">>) = 2
    OBVIOUS
  <2> QED BY <1>2, <1>4, <1>5, <2>1, <2>2, SeqEqual
<1> QED BY <1>6, <1>7

LEMMA ReportsDiffer == <<"closed">> # <<>> /\ <<"closed">> # <<"opened">>
  OBVIOUS

\* "opened" comes before "closed", and is taken first.
LEMMA CallViewOpened == CallView /\ Opened => CallView'
<1> SUFFICES ASSUME CallView, Opened PROVE CallView'
  OBVIOUS
<1>1. \/ events = <<"opened">> /\ events' = <<>>
      \/ events = <<"opened", "closed">> /\ events' = <<"closed">>
  BY CallViewReports, ReportsTaken DEF Opened, Report, OneCall
<1>2. call' = call
  BY DEF Opened, Report
<1>3. CASE mState = "Pending"
  BY <1>1, <1>2, <1>3 DEF Opened, CallView, PendingView, AcquiredView
<1>4. CASE mState # "Pending"
  BY <1>1, <1>2, <1>4 DEF Opened, CallView, AcquiredView, ReleasingView
<1> QED BY <1>3, <1>4

\* "closed" is the last report of a call.
LEMMA CallViewClosed == CallView /\ Closed => CallView'
<1> SUFFICES ASSUME CallView, Closed PROVE CallView'
  OBVIOUS
<1>1. events = <<"closed">> /\ events' = <<>> /\ call = "none"
  <2>1. events = <<"closed">> /\ events' = <<>>
    BY CallViewReports, ReportsTaken DEF Closed, Report, OneCall
  <2>2. <<"closed">> # <<>> /\ <<"closed">> # <<"opened">>
    BY ReportsDiffer
  <2> QED BY <2>1, <2>2 DEF CallView, PendingView, AcquiredView, ReleasingView
<1>2. CASE ClosedAcquired \/ ClosedPending \/ ClosedReleased
  BY <1>1, <1>2 DEF ClosedAcquired, ClosedPending, ClosedReleased, CallView
<1>3. CASE ClosedReleasing
  <2>1. CASE mState' = "Released" /\ UNCHANGED call
    BY <1>1, <2>1 DEF CallView
  <2>2. CASE mState' = "Pending" /\ OpenSucceeds(told)
    BY <1>1, <2>2 DEF OpenSucceeds, CallView, PendingView
  <2>3. CASE mState' = "Pending" /\ OpenFails(list', {}, told)
    <3>1. call' = call
      BY <2>3 DEF OpenFails
    <3> QED BY <1>1, <2>3, <3>1 DEF CallView, PendingView
  <2> QED BY <1>3, <2>1, <2>2, <2>3 DEF ClosedReleasing
<1> QED BY <1>2, <1>3 DEF Closed

\* The modem reports a call when it comes up and when it ends, in this order.
LEMMA CallViewModem == CallView /\ (CallUp \/ CallEnds) => CallView'
<1>1. ASSUME CallView, CallUp PROVE CallView'
  BY <1>1 DEF CallUp, CallView, PendingView, AcquiredView, ReleasingView
<1>2. ASSUME CallView, CallEnds PROVE CallView'
  <2>1. /\ mState' = mState /\ call' = "none"
        /\ events \in {<<>>, <<"opened">>}
        /\ events' = Append(events, "closed")
    BY <1>2 DEF CallEnds, CallView, PendingView, AcquiredView, ReleasingView
  <2>2. \/ events = <<>> /\ events' = <<"closed">>
        \/ events = <<"opened">> /\ events' = <<"opened", "closed">>
    BY <2>1, ReportsAppended
  <2> QED BY <1>2, <2>1, <2>2 DEF CallEnds, CallView, PendingView, AcquiredView, ReleasingView
<1> QED BY <1>1, <1>2

THEOREM CallViewStep == CallView /\ [DsNext]_dsVars => CallView'
<1> SUFFICES ASSUME CallView, [DsNext]_dsVars PROVE CallView'
  OBVIOUS
<1>1. CASE \E c \in Conn : Request(c)
  BY <1>1, CallViewSubscribe DEF Request
<1>2. CASE \E c \in Conn : Release(c)
  BY <1>2, CallViewRelease
<1>3. CASE RetryFires \/ UNCHANGED dsVars
  BY <1>3 DEF RetryFires, dsVars, CallView, PendingView, AcquiredView, ReleasingView
<1>4. CASE Retry
  BY <1>4, CallViewSubscribe DEF Retry
<1>5. CASE Opened
  BY <1>5, CallViewOpened
<1>6. CASE Closed
  BY <1>6, CallViewClosed
<1>7. CASE CallUp \/ CallEnds
  BY <1>7, CallViewModem
<1> QED BY <1>1, <1>2, <1>3, <1>4, <1>5, <1>6, <1>7 DEF DsNext

(***************************************************************************)
(* The machine and the data call of the modem agree, always: the pairs of  *)
(* CallView are the only ones reached.                                     *)
(***************************************************************************)
THEOREM CallViewAlways == DsSpec => []CallView
  BY CallViewInit, CallViewStep, PTL DEF DsSpec

(***************************************************************************)
(* In Released there is no call and no report (loc_eng_agps.cpp,           *)
(* AgpsReleasedState): the next request starts from a clean slate.         *)
(***************************************************************************)
THEOREM QuietWhenReleased == DsSpec => []ReleasedIsQuiet
<1>1. CallView => ReleasedIsQuiet
  BY DEF CallView, ReleasedIsQuiet
<1> QED BY <1>1, CallViewAlways, PTL

(***************************************************************************)
(* In Acquired the call is up, or its end is reported and will be handled. *)
(***************************************************************************)
THEOREM HeldWhenAcquired == DsSpec => []AcquiredIsHeld
<1>1. CallView => AcquiredIsHeld
  BY DEF CallView, AcquiredView, AcquiredIsHeld
<1> QED BY <1>1, CallViewAlways, PTL

(***************************************************************************)
(* The reports that wait are of one call, in the order it made them.       *)
(***************************************************************************)
THEOREM ReportsOfOneCall == DsSpec => []OneCall
  BY CallViewReports, CallViewAlways, PTL

(***************************************************************************)
(* The machine, the call and its reports agree: the three theorems above.  *)
(***************************************************************************)
THEOREM CallAlwaysFits == DsSpec => []CallFitsState
<1>1. ReleasedIsQuiet /\ AcquiredIsHeld /\ OneCall => CallFitsState
  BY DEF CallFitsState
<1> QED BY <1>1, QuietWhenReleased, HeldWhenAcquired, ReportsOfOneCall, PTL

-----------------------------------------------------------------------------
(* loc_timer.c: for any stoppers and any number of calls *)

\* Until the thread gives up waiting, the mutex is held by who is inside, and
\* by nobody once it is destroyed.
LockInv ==
    /\ pc = "last" => forced
    /\ ~forced =>
          /\ \A c \in Stopper : spc[c] = "in" <=> holder = c
          /\ memory = "live" <=> pc \notin {"free", "exit"}
          /\ memory # "live" => holder = Nobody

\* How far the thread is bounds what the state can be; the first stop that
\* finds the timer READY or WAITING is the only one that aborts it.
PhaseInv ==
    /\ pc = "start" => state \in {"READY", "ABORT"} /\ ret = "cancelled"
    /\ pc = "wait" => state = "WAITING"
    /\ state = "READY" => pc = "start"
    /\ state = "WAITING" => pc \in {"wait", "woken"}
    /\ state \in {"READY", "WAITING"} => aborted = "never"

TimerInv == TimerTypeOK /\ LockInv /\ PhaseInv /\ StoppedInTime

-----------------------------------------------------------------------------
LEMMA InitTimer == TimerInit => TimerInv
<1> SUFFICES ASSUME TimerInit PROVE TimerInv
  OBVIOUS
<1>1. TimerTypeOK
  <2>1. forced \in BOOLEAN /\ misused \in BOOLEAN
    BY DEF TimerInit
  <2> QED BY <2>1, TimerAssumption DEF TimerInit, TimerTypeOK
<1>2. LockInv
  BY TimerAssumption DEF TimerInit, LockInv
<1>3. PhaseInv /\ StoppedInTime
  BY DEF TimerInit, PhaseInv, StoppedInTime
<1> QED BY <1>1, <1>2, <1>3 DEF TimerInv

\* A step of the timer's own thread: unless it gives up waiting, it enters,
\* destroys and frees only when nobody is inside.
LEMMA ThreadStep == TimerInv /\ (TimerThread \/ SpuriousWakeup) => TimerInv'
<1> SUFFICES ASSUME TimerInv, TimerThread \/ SpuriousWakeup PROVE TimerInv'
  OBVIOUS
<1> USE TimerAssumption
<1>1. CASE Enter
  BY <1>1 DEF Enter, usage, TimerInv, TimerTypeOK, LockInv, PhaseInv, StoppedInTime
<1>2. CASE TimeOut
  BY <1>2 DEF TimeOut, usage, TimerInv, TimerTypeOK, LockInv, PhaseInv, StoppedInTime
<1>3. CASE SpuriousWakeup
  BY <1>3 DEF SpuriousWakeup, usage, TimerInv, TimerTypeOK, LockInv, PhaseInv, StoppedInTime
<1>4. CASE Leave
  BY <1>4 DEF Leave, usage, TimerInv, TimerTypeOK, LockInv, PhaseInv, StoppedInTime
<1>5. CASE Callback
  BY <1>5 DEF Callback, usage, TimerInv, TimerTypeOK, LockInv, PhaseInv, StoppedInTime
<1>6. CASE Destroy
  BY <1>6 DEF Destroy, usage, TimerInv, TimerTypeOK, LockInv, PhaseInv, StoppedInTime
<1>7. CASE DestroyFails
  BY <1>7 DEF DestroyFails, usage, TimerInv, TimerTypeOK, LockInv, PhaseInv, StoppedInTime
<1>8. CASE GiveUp
  BY <1>8 DEF GiveUp, usage, TimerInv, TimerTypeOK, LockInv, PhaseInv, StoppedInTime
<1>9. CASE DestroyLast
  BY <1>9 DEF DestroyLast, usage, TimerInv, TimerTypeOK, LockInv, PhaseInv, StoppedInTime
<1>10. CASE FreeTimer
  BY <1>10 DEF FreeTimer, usage, TimerInv, TimerTypeOK, LockInv, PhaseInv, StoppedInTime
<1> QED BY <1>1, <1>2, <1>3, <1>4, <1>5, <1>6, <1>7, <1>8, <1>9, <1>10 DEF TimerThread

\* A step of a stop: it locks only a live mutex that nobody holds, and the
\* timer that it aborts has not called back.
LEMMA StopStep == ASSUME NEW c \in Stopper PROVE TimerInv /\ Stop(c) => TimerInv'
<1> SUFFICES ASSUME TimerInv, Stop(c) PROVE TimerInv'
  OBVIOUS
<1> USE TimerAssumption
<1>1. CASE StopLook(c)
  BY <1>1 DEF StopLook, TimerInv, TimerTypeOK, LockInv, PhaseInv, StoppedInTime
<1>2. CASE StopLock(c)
  <2>1. UNCHANGED <<state, memory, pc, ret, stops, aborted, forced>> /\ misused' \in BOOLEAN
    BY <1>2 DEF StopLock, TimerInv, TimerTypeOK
  <2>2. TimerTypeOK'
    BY <1>2, <2>1 DEF StopLock, TimerInv, TimerTypeOK
  <2>3. LockInv'
    BY <1>2, <2>1 DEF StopLock, TimerInv, TimerTypeOK, LockInv
  <2> QED BY <2>1, <2>2, <2>3 DEF TimerInv, PhaseInv, StoppedInTime
<1>3. CASE StopIn(c)
  BY <1>3 DEF StopIn, TimerInv, TimerTypeOK, LockInv, PhaseInv, StoppedInTime
<1> QED BY <1>1, <1>2, <1>3 DEF Stop

LEMMA TimerStep == TimerInv /\ [TimerNext]_timerVars => TimerInv'
<1> SUFFICES ASSUME TimerInv, [TimerNext]_timerVars PROVE TimerInv'
  OBVIOUS
<1>1. CASE UNCHANGED timerVars
  BY <1>1 DEF timerVars, usage, TimerInv, TimerTypeOK, LockInv, PhaseInv, StoppedInTime
<1> QED BY <1>1, ThreadStep, StopStep DEF TimerNext

LEMMA TimerHolds == TimerSpec => []TimerInv
  BY InitTimer, TimerStep, PTL DEF TimerSpec

(***************************************************************************)
(* However many threads call loc_timer_stop, and however often, the one    *)
(* inside the critical section holds the mutex of a timer_data that        *)
(* timer_thread has neither destroyed nor freed, unless six tries to       *)
(* destroy it all found it busy.                                           *)
(***************************************************************************)
THEOREM StopsOnLiveMemory == TimerSpec => []HolderIsSafe
<1>1. TimerInv => HolderIsSafe
  BY TimerAssumption DEF TimerInv, LockInv, HolderIsSafe
<1> QED BY <1>1, TimerHolds, PTL

(***************************************************************************)
(* A timer that a stop reached before its wait timed out never calls back. *)
(***************************************************************************)
THEOREM StopSilences == TimerSpec => []StoppedInTime
<1>1. TimerInv => StoppedInTime
  BY DEF TimerInv
<1> QED BY <1>1, TimerHolds, PTL

-----------------------------------------------------------------------------
(* loc_eng_dmn_conn: for any daemons and messages *)

Unit == [part : {"msgsz", "rest"}, of : Message \cup {GPSONE_UNBLOCK}]

\* A pipe that, but for a first "rest", holds whole messages.
Chained(q) ==
    /\ \A i \in 1 .. Len(q) - 1 :
          /\ q[i].part = "msgsz" => q[i + 1] = [part |-> "rest", of |-> q[i].of]
          /\ q[i].part = "rest" => q[i + 1].part = "msgsz"
    /\ q # <<>> => q[Len(q)].part = "rest"

\* The thread has read whole messages only, and will go on reading.
Whole == \/ tpc \notin {"rest", "test", "post", "ended"}
         \/ tpc = "test" /\ ~thread_exit

FrameInv ==
    /\ pipe \in Seq(Unit)
    /\ Chained(pipe)
    /\ lpc = "idle" => tpc = "none"
    /\ Whole /\ pipe # <<>> => pipe[1].part = "msgsz"
    /\ tpc = "rest" => pipe # <<>> /\ pipe[1] = [part |-> "rest", of |-> msg]

-----------------------------------------------------------------------------
LEMMA UnitsAre ==
    ASSUME NEW m \in Message \cup {GPSONE_UNBLOCK}
    PROVE  /\ Units(m) \in Seq(Unit) /\ Len(Units(m)) = 2
           /\ Units(m)[1] = [part |-> "msgsz", of |-> m]
           /\ Units(m)[2] = [part |-> "rest", of |-> m]
  BY DEF Units, Unit

\* A whole message written behind whole messages, and behind the rest of one.
LEMMA WriteChained ==
    ASSUME NEW q \in Seq(Unit), Chained(q), NEW m \in Message \cup {GPSONE_UNBLOCK}
    PROVE  /\ q \o Units(m) \in Seq(Unit)
           /\ Chained(q \o Units(m))
           /\ q \o Units(m) # <<>>
           /\ q # <<>> => (q \o Units(m))[1] = q[1]
           /\ q = <<>> => (q \o Units(m))[1].part = "msgsz"
<1> DEFINE u == Units(m)
           r == q \o u
<1>1. /\ u \in Seq(Unit) /\ Len(u) = 2
      /\ u[1] = [part |-> "msgsz", of |-> m] /\ u[2] = [part |-> "rest", of |-> m]
  BY UnitsAre
<1> HIDE DEF u
<1>2. /\ r \in Seq(Unit) /\ Len(r) = Len(q) + 2
      /\ \A i \in 1 .. Len(q) : r[i] = q[i]
      /\ r[Len(q) + 1] = u[1] /\ r[Len(q) + 2] = u[2]
  <2>1. /\ r \in Seq(Unit) /\ Len(r) = Len(q) + Len(u)
        /\ \A i \in 1 .. Len(q) + Len(u) :
              r[i] = IF i <= Len(q) THEN q[i] ELSE u[i - Len(q)]
    BY <1>1, ConcatProperties
  <2> QED BY <1>1, <2>1
<1> HIDE DEF r
<1>3. ASSUME NEW i \in 1 .. Len(r) - 1
      PROVE  /\ r[i].part = "msgsz" => r[i + 1] = [part |-> "rest", of |-> r[i].of]
             /\ r[i].part = "rest" => r[i + 1].part = "msgsz"
  <2>1. CASE i < Len(q)
    <3>1. i \in 1 .. Len(q) - 1 /\ r[i] = q[i] /\ r[i + 1] = q[i + 1]
      BY <1>2, <2>1, SMTT(30)
    <3> QED BY <3>1 DEF Chained
  <2>2. CASE i = Len(q)
    <3>1. r[i] = q[i] /\ q[i].part = "rest" /\ r[i + 1].part = "msgsz"
      BY <1>1, <1>2, <2>2 DEF Chained
    <3> QED BY <3>1
  <2>3. CASE i = Len(q) + 1
    BY <1>1, <1>2, <2>3
  <2> QED BY <1>2, <2>1, <2>2, <2>3
<1>4. r[Len(r)].part = "rest"
  BY <1>1, <1>2
<1>5. r # <<>> /\ (q # <<>> => r[1] = q[1]) /\ (q = <<>> => r[1].part = "msgsz")
  BY <1>1, <1>2
<1> QED BY <1>2, <1>3, <1>4, <1>5 DEF Chained, r, u

\* One unit is read.
LEMMA ReadChained ==
    ASSUME NEW q \in Seq(Unit), Chained(q), q # <<>>
    PROVE  /\ Tail(q) \in Seq(Unit)
           /\ Chained(Tail(q))
           /\ Head(q) = q[1]
           /\ q[1].part = "rest" /\ Tail(q) # <<>> => Tail(q)[1].part = "msgsz"
           /\ q[1].part = "msgsz" =>
                 Tail(q) # <<>> /\ Tail(q)[1] = [part |-> "rest", of |-> q[1].of]
<1> DEFINE r == Tail(q)
<1>1. /\ r \in Seq(Unit) /\ Len(r) = Len(q) - 1 /\ Head(q) = q[1]
      /\ \A i \in 1 .. Len(r) : r[i] = q[i + 1]
  OBVIOUS
<1> HIDE DEF r
<1>2. ASSUME NEW i \in 1 .. Len(r) - 1
      PROVE  /\ r[i].part = "msgsz" => r[i + 1] = [part |-> "rest", of |-> r[i].of]
             /\ r[i].part = "rest" => r[i + 1].part = "msgsz"
  <2>1. /\ i + 1 \in 1 .. Len(q) - 1
        /\ r[i] = q[i + 1] /\ r[i + 1] = q[(i + 1) + 1]
    BY <1>1
  <2> QED BY <2>1 DEF Chained
<1>3. r # <<>> => r[Len(r)].part = "rest"
  <2>1. r # <<>> => r[Len(r)] = q[Len(q)]
    BY <1>1
  <2> QED BY <2>1 DEF Chained
<1>4. q[1].part = "msgsz" => r # <<>>
  <2>1. q[1].part = "msgsz" => Len(q) # 1
    BY DEF Chained
  <2> QED BY <1>1, <2>1
<1>5. r # <<>> => 1 \in 1 .. Len(q) - 1 /\ r[1] = q[2]
  BY <1>1
<1> QED BY <1>1, <1>2, <1>3, <1>4, <1>5 DEF Chained, r

-----------------------------------------------------------------------------
LEMMA InitFrame == DmnInit => FrameInv
  BY DEF DmnInit, FrameInv, Chained, Whole

\* A step that leaves the pipe alone and keeps a whole thread whole.
LEMMA QuietFrame ==
    ASSUME FrameInv, pipe' = pipe,
           lpc' = "idle" => tpc' = "none",
           Whole' => Whole,
           tpc' = "rest" => tpc = "rest" /\ msg' = msg
    PROVE  FrameInv'
  BY DEF FrameInv, Chained

\* The writers of the pipe.
LEMMA SendFrame ==
    ASSUME FrameInv, NEW m \in Message \cup {GPSONE_UNBLOCK}, msgsnd(m),
           UNCHANGED <<tpc, msg, lpc, thread_exit>>
    PROVE  FrameInv'
<1>1. CASE pipe' = pipe
  BY <1>1, QuietFrame DEF FrameInv, Whole
<1>2. CASE pipe' = pipe \o Units(m)
  BY <1>2, WriteChained DEF FrameInv, Whole
<1> QED BY <1>1, <1>2 DEF msgsnd

LEMMA FrameStep == FrameInv /\ [DmnNext]_dmnVars => FrameInv'
<1> SUFFICES ASSUME FrameInv, [DmnNext]_dmnVars PROVE FrameInv'
  OBVIOUS
<1>1. CASE Launcher
  BY <1>1, QuietFrame DEF Launcher, Launch, Wait, Woken, FrameInv, Whole
<1>2. CASE Thread
  <2>1. CASE Start \/ OpenServer \/ OpenAnswers \/ Ready
    BY <2>1, QuietFrame DEF Start, OpenServer, OpenAnswers, Ready, signal, helperVars,
                            FrameInv, Whole
  <2>2. CASE ReadFails
    BY <2>2, QuietFrame DEF ReadFails, FrameInv, Whole
  <2>3. CASE ReadSize
    BY <2>3, ReadChained DEF ReadSize, FrameInv, Whole
  <2>4. CASE ReadRest
    BY <2>4, ReadChained DEF ReadRest, helperVars, FrameInv, Whole
  <2>5. CASE Handle \/ Test
    BY <2>5, QuietFrame DEF Handle, Test, helperVars, FrameInv, Whole
  <2>6. CASE Post
    BY <2>6 DEF Post, helperVars, FrameInv, Chained, Whole
  <2> QED BY <1>2, <2>1, <2>2, <2>3, <2>4, <2>5, <2>6 DEF Thread
<1>3. CASE Unblocker
  <2>1. CASE UnblockFlag \/ Join
    BY <2>1, QuietFrame DEF UnblockFlag, Join, FrameInv, Whole
  <2>2. CASE UnblockSend
    BY <2>2, SendFrame DEF UnblockSend
  <2> QED BY <1>3, <2>1, <2>2 DEF Unblocker
<1>4. CASE Serve \/ \E d \in Daemon : Answer(d)
  BY <1>4, QuietFrame DEF Serve, Answer, helperVars, FrameInv, Whole
<1>5. ASSUME NEW m \in Message, DaemonSends(m) PROVE FrameInv'
  BY <1>5, SendFrame DEF DaemonSends, helperVars
<1>6. CASE UNCHANGED dmnVars
  BY <1>6, QuietFrame DEF dmnVars, helperVars, FrameInv, Whole
<1> QED BY <1>1, <1>2, <1>3, <1>4, <1>5, <1>6 DEF DmnNext

(***************************************************************************)
(* Whatever the daemons write and whichever open or read fails, the thread *)
(* of the pipe never takes the middle of a message for its length.         *)
(***************************************************************************)
THEOREM ThreadKeepsFrame == DmnSpec => []InFrame
<1>1. FrameInv => InFrame
  <2> SUFFICES ASSUME FrameInv, pipe # <<>> PROVE InFrame
    BY DEF InFrame
  <2>1. Head(pipe) = pipe[1]
    BY DEF FrameInv
  <2> QED BY <2>1 DEF FrameInv, InFrame, Whole
<1> QED BY <1>1, InitFrame, FrameStep, PTL DEF DmnSpec

-----------------------------------------------------------------------------
\* The thread has been through both opens.
BothOpen == tpc \notin {"none", "start", "open", "open_answers"}

\* Why a launch has returned, an unblock has begun or a request was taken, and
\* what that says of the descriptors.
OpenInv ==
    /\ Spurious = FALSE
    /\ fd \in [Pipe -> {"unset", "open", "failed", "closed"}]
    /\ tpc = "open_answers" => fd[Server] # "unset"
    /\ BothOpen => \A p \in Pipe : fd[p] # "unset"
    /\ lpc = "idle" => tpc = "none"
    /\ thread_ready \/ thread_exit \/ lpc \in {"woken", "returned"} => BothOpen
    /\ upc # "out" => lpc = "returned"

RequestInv ==
    /\ served \in Nat /\ served <= Len(posted)
    /\ posted \in Seq({m \in Message \cup {GPSONE_UNBLOCK} : IsRequest(m)})
    /\ tpc \in {"rest", "handle"} => msg \in Message \cup {GPSONE_UNBLOCK}
    /\ posted # <<>> => BothOpen
    /\ known \subseteq Daemon /\ (known # {} => BothOpen)
    /\ "unset" \notin met

LEMMA InitOpen == Spurious = FALSE /\ DmnInit => OpenInv /\ RequestInv
  BY DEF DmnInit, OpenInv, RequestInv, BothOpen

\* The thread never goes back before its opens.
LEMMA OpenStep == OpenInv /\ [DmnNext]_dmnVars => OpenInv' /\ (BothOpen => BothOpen')
<1> SUFFICES ASSUME OpenInv, [DmnNext]_dmnVars PROVE OpenInv' /\ (BothOpen => BothOpen')
  OBVIOUS
<1>1. CASE Launcher
  BY <1>1 DEF Launcher, Launch, Wait, Woken, OpenInv, BothOpen
<1>2. CASE Thread
  <2>1. CASE OpenServer
    BY <2>1 DEF OpenServer, helperVars, OpenInv, BothOpen, Pipe
  <2>2. CASE OpenAnswers
    BY <2>2 DEF OpenAnswers, helperVars, OpenInv, BothOpen, Pipe
  <2>3. CASE Start \/ Ready
    BY <2>3 DEF Start, Ready, signal, helperVars, OpenInv, BothOpen
  <2>4. CASE ReadFails \/ ReadSize \/ ReadRest
    BY <2>4 DEF ReadFails, ReadSize, ReadRest, helperVars, OpenInv, BothOpen
  <2>5. CASE Handle \/ Test
    BY <2>5 DEF Handle, Test, helperVars, OpenInv, BothOpen
  <2>6. CASE Post
    BY <2>6 DEF Post, helperVars, OpenInv, BothOpen
  <2> QED BY <1>2, <2>1, <2>2, <2>3, <2>4, <2>5, <2>6 DEF Thread
<1>3. CASE Unblocker
  BY <1>3 DEF Unblocker, UnblockFlag, UnblockSend, Join, OpenInv, BothOpen
<1>4. CASE Serve \/ \E d \in Daemon : Answer(d)
  BY <1>4 DEF Serve, Answer, helperVars, OpenInv, BothOpen
<1>5. CASE \E m \in Message : DaemonSends(m)
  BY <1>5 DEF DaemonSends, helperVars, OpenInv, BothOpen
<1>6. CASE UNCHANGED dmnVars
  BY <1>6 DEF dmnVars, helperVars, OpenInv, BothOpen
<1> QED BY <1>1, <1>2, <1>3, <1>4, <1>5, <1>6 DEF DmnNext

\* What was posted is a request of a daemon, and it is posted after the opens.
LEMMA RequestStep ==
    OpenInv /\ FrameInv /\ RequestInv /\ [DmnNext]_dmnVars => RequestInv'
<1> SUFFICES ASSUME OpenInv, FrameInv, RequestInv, [DmnNext]_dmnVars PROVE RequestInv'
  OBVIOUS
<1>0. BothOpen => BothOpen'
  BY OpenStep
<1>1. CASE Launcher
  BY <1>0, <1>1 DEF Launcher, Launch, Wait, Woken, machineVars, postVars, RequestInv
<1>2. CASE Thread
  <2>1. CASE Start \/ OpenServer \/ OpenAnswers \/ Ready \/ ReadFails \/ Test \/ Post
    BY <1>0, <2>1 DEF Start, OpenServer, OpenAnswers, Ready, ReadFails, Test, Post,
                      machineVars, postVars, RequestInv
  <2>2. CASE ReadSize
    <3>1. msg' \in Message \cup {GPSONE_UNBLOCK}
      <4>1. Head(pipe) \in Unit
        BY <2>2 DEF ReadSize, FrameInv
      <4> QED BY <2>2, <4>1 DEF ReadSize, Unit
    <3> QED BY <1>0, <2>2, <3>1 DEF ReadSize, machineVars, postVars, RequestInv
  <2>3. CASE ReadRest
    BY <1>0, <2>3 DEF ReadRest, machineVars, postVars, RequestInv
  <2>4. CASE Handle
    <3>1. BothOpen /\ msg \in Message \cup {GPSONE_UNBLOCK}
      BY <2>4 DEF Handle, RequestInv, BothOpen
    <3>2. CASE posted' = posted
      BY <1>0, <2>4, <3>2 DEF Handle, LocEngReqRel, postVars, RequestInv
    <3>3. CASE IsRequest(msg) /\ posted' = Append(posted, msg)
      <4> DEFINE R == {m \in Message \cup {GPSONE_UNBLOCK} : IsRequest(m)}
      <4>1. msg \in R /\ posted \in Seq(R) /\ served \in Nat /\ served <= Len(posted)
        BY <3>1, <3>3 DEF RequestInv
      <4> HIDE DEF R
      <4>2. posted' \in Seq(R) /\ served <= Len(posted')
        BY <3>3, <4>1
      <4> QED BY <1>0, <2>4, <3>1, <4>1, <4>2 DEF Handle, LocEngReqRel, RequestInv, R
    <3> QED BY <2>4, <3>2, <3>3 DEF Handle, LocEngReqRel, postVars
  <2> QED BY <1>2, <2>1, <2>2, <2>3, <2>4 DEF Thread
<1>3. CASE Unblocker
  <2>1. CASE UnblockFlag \/ Join
    BY <1>0, <2>1 DEF UnblockFlag, Join, machineVars, postVars, RequestInv
  <2>2. CASE UnblockSend
    <3>1. fd[Server] # "unset"
      BY <2>2 DEF UnblockSend, OpenInv, Pipe
    <3> QED BY <1>0, <2>2, <3>1 DEF UnblockSend, machineVars, postVars, RequestInv
  <2> QED BY <1>3, <2>1, <2>2 DEF Unblocker
<1>4. CASE Serve
  <2>1. IsRequest(posted[served + 1]) /\ posted # <<>>
    BY <1>4 DEF Serve, postVars, RequestInv
  <2>2. posted[served + 1].sender \in Daemon
    BY <2>1 DEF IsRequest, if_request, if_release
  <2>3. known' \subseteq Daemon /\ BothOpen
    BY <1>4, <2>1, <2>2 DEF Serve, postVars, RequestInv
  <2> QED BY <1>0, <1>4, <2>3 DEF Serve, postVars, RequestInv
<1>5. ASSUME NEW d \in Daemon, Answer(d) PROVE RequestInv'
  <2>1. fd[d] # "unset"
    BY <1>5 DEF Answer, OpenInv, RequestInv, Pipe
  <2> QED BY <1>0, <1>5, <2>1 DEF Answer, machineVars, postVars, RequestInv
<1>6. CASE \E m \in Message : DaemonSends(m)
  BY <1>0, <1>6 DEF DaemonSends, machineVars, postVars, RequestInv
<1>7. CASE UNCHANGED dmnVars
  BY <1>0, <1>7 DEF dmnVars, machineVars, postVars, RequestInv
<1> QED BY <1>1, <1>2, <1>3, <1>4, <1>5, <1>6, <1>7 DEF DmnNext

(***************************************************************************)
(* Without spurious wake-ups no answer and no unblock is written to a      *)
(* descriptor that was never opened, whatever fails: the launch waits for  *)
(* the opens, and a daemon that is answered was read from an open pipe.    *)
(***************************************************************************)
THEOREM WritesOnlyOpened == Spurious = FALSE /\ DmnSpec => []NoStrayWrite
<1>1. FrameInv /\ OpenInv /\ RequestInv /\ [DmnNext]_dmnVars
         => (FrameInv /\ OpenInv /\ RequestInv)'
  BY FrameStep, OpenStep, RequestStep
<1>2. RequestInv => NoStrayWrite
  BY DEF RequestInv, NoStrayWrite
<1> QED BY <1>1, <1>2, InitFrame, InitOpen, PTL DEF DmnSpec

-----------------------------------------------------------------------------
\* What was written, read and posted, and how the pipe holds what is not read:
\* two units for each message, in the order of the writes.
KeptTyped ==
    /\ pipe \in Seq(Unit) /\ sent \in Seq(Message \cup {GPSONE_UNBLOCK})
    /\ posted \in Seq(Message \cup {GPSONE_UNBLOCK}) /\ from \in Seq(Nat)
    /\ Len(from) = Len(posted)
    /\ read \in 0 .. Len(sent)

KeptThread ==
    /\ lpc = "idle" => tpc = "none"
    /\ gaveUp => thread_exit /\ tpc \in {"test", "post", "ended"}
    /\ tpc \in {"rest", "handle"} => read > 0 /\ msg = sent[read]

KeptOrder ==
    /\ \A i \in 1 .. Len(from) :
          /\ from[i] \in 1 .. read /\ posted[i] = sent[from[i]] /\ IsRequest(posted[i])
          /\ tpc \in {"rest", "handle"} => from[i] < read
    /\ \A i, k \in 1 .. Len(from) : i < k => from[i] < from[k]

KeptNoGap ==
    \A j \in 1 .. read :
        IsRequest(sent[j]) /\ (j < read \/ (tpc \notin {"rest", "handle"} /\ ~gaveUp)) => Posted(j)

KeptPipe ==
    tpc \notin {"post", "ended"} /\ ~gaveUp =>
        /\ Len(pipe) = Behind + 2 * (Len(sent) - read)
        /\ \A j \in read + 1 .. Len(sent) :
              /\ pipe[Behind + 2 * (j - read) - 1] = [part |-> "msgsz", of |-> sent[j]]
              /\ pipe[Behind + 2 * (j - read)] = [part |-> "rest", of |-> sent[j]]

KeptInv == KeptTyped /\ KeptThread /\ KeptOrder /\ KeptNoGap /\ KeptPipe

LEMMA InitKept == DmnInit => KeptInv
<1> SUFFICES ASSUME DmnInit PROVE KeptInv
  OBVIOUS
<1>1. /\ pipe = <<>> /\ sent = <<>> /\ posted = <<>> /\ from = <<>> /\ read = 0 /\ tpc = "none"
      /\ gaveUp = FALSE
  BY DEF DmnInit
<1>2. KeptTyped
  BY <1>1 DEF KeptTyped
<1>3. KeptThread /\ KeptOrder /\ KeptNoGap
  BY <1>1 DEF KeptThread, KeptOrder, KeptNoGap
<1>4. KeptPipe
  BY <1>1 DEF KeptPipe, Behind
<1> QED BY <1>2, <1>3, <1>4 DEF KeptInv

\* A step that reads, writes and posts nothing.
LEMMA QuietKept ==
    ASSUME KeptInv, pipe' = pipe, sent' = sent, posted' = posted, from' = from, read' = read,
           gaveUp' = gaveUp, msg' = msg,
           tpc' = tpc \/ (tpc \notin {"rest", "handle"} /\ tpc' \notin {"rest", "handle"}),
           tpc \in {"post", "ended"} => tpc' \in {"post", "ended"},
           gaveUp => thread_exit' /\ tpc' \in {"test", "post", "ended"},
           lpc' = "idle" => tpc' = "none"
    PROVE  KeptInv'
<1>1. KeptTyped' /\ KeptThread'
  BY DEF KeptInv, KeptTyped, KeptThread
<1>2. KeptOrder' /\ KeptNoGap'
  BY DEF KeptInv, KeptOrder, KeptNoGap, Posted
<1>3. KeptPipe'
  BY DEF KeptInv, KeptPipe, Behind
<1> QED BY <1>1, <1>2, <1>3 DEF KeptInv

\* A whole message is written behind the others.
LEMMA SendKept ==
    ASSUME KeptInv, NEW m \in Message \cup {GPSONE_UNBLOCK}, msgsnd(m),
           tpc' = tpc, msg' = msg, lpc' = lpc, thread_exit' = thread_exit, gaveUp' = gaveUp,
           posted' = posted, from' = from, read' = read
    PROVE  KeptInv'
<1>1. CASE pipe' = pipe /\ sent' = sent
  BY <1>1, QuietKept DEF KeptInv, KeptThread
<1>2. CASE pipe' = pipe \o Units(m) /\ sent' = Append(sent, m)
  <2> DEFINE u == Units(m)
             n == Len(sent)
             p == Len(pipe)
  <2>1. /\ u \in Seq(Unit) /\ Len(u) = 2
        /\ u[1] = [part |-> "msgsz", of |-> m] /\ u[2] = [part |-> "rest", of |-> m]
    BY UnitsAre
  <2>2. pipe \in Seq(Unit) /\ n \in Nat /\ p \in Nat /\ read \in 0 .. n
    BY DEF KeptInv, KeptTyped
  <2>3. /\ sent' \in Seq(Message \cup {GPSONE_UNBLOCK}) /\ Len(sent') = n + 1 /\ sent'[n + 1] = m
        /\ \A j \in 1 .. n : sent'[j] = sent[j]
    BY <1>2 DEF KeptInv, KeptTyped
  <2> HIDE DEF u
  <2>4. /\ pipe' \in Seq(Unit) /\ Len(pipe') = p + 2
        /\ \A i \in 1 .. p : pipe'[i] = pipe[i]
        /\ pipe'[p + 1] = u[1] /\ pipe'[p + 2] = u[2]
    <3>1. /\ pipe' \in Seq(Unit) /\ Len(pipe') = Len(pipe) + Len(u)
          /\ \A i \in 1 .. Len(pipe) + Len(u) :
                pipe'[i] = IF i <= Len(pipe) THEN pipe[i] ELSE u[i - Len(pipe)]
      BY <1>2, <2>1, <2>2, ConcatProperties DEF u
    <3>2. /\ Len(pipe') = Len(pipe) + 2
          /\ \A i \in 1 .. Len(pipe) + 2 :
                pipe'[i] = IF i <= Len(pipe) THEN pipe[i] ELSE u[i - Len(pipe)]
      BY <2>1, <3>1
    <3> HIDE DEF p
    <3>3. Len(pipe) = p
      BY DEF p
    <3>4. p + 1 \in 1 .. p + 2 /\ p + 2 \in 1 .. p + 2 /\ ~(p + 1 <= p) /\ ~(p + 2 <= p)
          /\ p + 1 - p = 1 /\ p + 2 - p = 2
      BY <2>2
    <3>5. pipe'[p + 1] = u[1] /\ pipe'[p + 2] = u[2]
      BY <3>2, <3>3, <3>4
    <3>6. \A i \in 1 .. p : pipe'[i] = pipe[i]
      BY <2>2, <3>2, <3>3
    <3> QED BY <3>1, <3>2, <3>3, <3>5, <3>6
  <2> HIDE DEF n, p
  <2>5. KeptTyped'
    <3>1. read' \in 0 .. Len(sent')
      BY <2>2, <2>3
    <3> QED BY <2>3, <2>4, <3>1 DEF KeptInv, KeptTyped
  <2>6. KeptThread'
    <3>1. read > 0 => sent'[read] = sent[read]
      BY <2>2, <2>3
    <3> QED BY <3>1 DEF KeptInv, KeptThread
  <2>7. KeptOrder'
    <3>1. \A i \in 1 .. Len(from) : sent'[from[i]] = sent[from[i]]
      BY <2>2, <2>3 DEF KeptInv, KeptOrder
    <3> QED BY <3>1 DEF KeptInv, KeptOrder
  <2>8. KeptNoGap'
    <3>1. \A j \in 1 .. read : sent'[j] = sent[j]
      BY <2>2, <2>3
    <3> QED BY <3>1 DEF KeptInv, KeptNoGap, Posted
  <2>9. KeptPipe'
    <3> SUFFICES ASSUME tpc \notin {"post", "ended"} /\ ~gaveUp
                 PROVE  /\ Len(pipe') = Behind' + 2 * (Len(sent') - read')
                        /\ \A j \in read' + 1 .. Len(sent') :
                              /\ pipe'[Behind' + 2 * (j - read') - 1] = [part |-> "msgsz", of |-> sent'[j]]
                              /\ pipe'[Behind' + 2 * (j - read')] = [part |-> "rest", of |-> sent'[j]]
      BY DEF KeptPipe
    <3>b. Behind' = Behind
      BY DEF Behind
    <3>1. /\ p = Behind + 2 * (n - read)
          /\ \A j \in read + 1 .. n :
                /\ pipe[Behind + 2 * (j - read) - 1] = [part |-> "msgsz", of |-> sent[j]]
                /\ pipe[Behind + 2 * (j - read)] = [part |-> "rest", of |-> sent[j]]
      BY DEF KeptInv, KeptPipe, n, p
    <3>2. Behind \in {0, 1}
      BY DEF Behind
    <3>0. p = Behind + 2 * (n - read) /\ n \in Nat /\ read \in Nat /\ Behind \in Nat
      BY <2>2, <3>1, <3>2
    <3>3. Len(pipe') = Behind + 2 * (n + 1 - read)
      <4>1. p + 2 = Behind + 2 * (n + 1 - read)
        BY <3>0
      <4> QED BY <2>4, <4>1
    <3>4. ASSUME NEW j \in read + 1 .. n
          PROVE  /\ pipe'[Behind + 2 * (j - read) - 1] = [part |-> "msgsz", of |-> sent'[j]]
                 /\ pipe'[Behind + 2 * (j - read)] = [part |-> "rest", of |-> sent'[j]]
      <4>1. Behind + 2 * (j - read) - 1 \in 1 .. p /\ Behind + 2 * (j - read) \in 1 .. p
        <5>1. j - read \in Nat /\ 1 <= j - read /\ j - read <= n - read
          BY <3>0
        <5>2. \A d \in Nat : 1 <= d /\ d <= n - read =>
                 Behind + 2 * d - 1 \in 1 .. p /\ Behind + 2 * d \in 1 .. p
          BY <3>0
        <5> QED BY <5>1, <5>2
      <4>2. sent'[j] = sent[j]
        BY <2>2, <2>3
      <4> QED BY <2>4, <3>1, <4>1, <4>2
    <3>5. ASSUME NEW j, j = n + 1
          PROVE  /\ pipe'[Behind + 2 * (j - read) - 1] = [part |-> "msgsz", of |-> sent'[j]]
                 /\ pipe'[Behind + 2 * (j - read)] = [part |-> "rest", of |-> sent'[j]]
      <4>1. Behind + 2 * (j - read) - 1 = p + 1 /\ Behind + 2 * (j - read) = p + 2
        BY <3>0, <3>5
      <4> QED BY <2>1, <2>3, <2>4, <3>5, <4>1
    <3>6. \A j \in read + 1 .. n + 1 : j \in read + 1 .. n \/ j = n + 1
      BY <2>2
    <3>7. \A j \in read + 1 .. n + 1 :
              /\ pipe'[Behind + 2 * (j - read) - 1] = [part |-> "msgsz", of |-> sent'[j]]
              /\ pipe'[Behind + 2 * (j - read)] = [part |-> "rest", of |-> sent'[j]]
      BY <3>4, <3>5, <3>6
    <3>8. Len(sent') = n + 1
      BY <2>3
    <3>9. Len(pipe') = Behind' + 2 * (Len(sent') - read')
      BY <3>0, <3>b, <3>3, <3>8
    <3>10. \A j \in read' + 1 .. Len(sent') :
              /\ pipe'[Behind' + 2 * (j - read') - 1] = [part |-> "msgsz", of |-> sent'[j]]
              /\ pipe'[Behind' + 2 * (j - read')] = [part |-> "rest", of |-> sent'[j]]
      BY <3>b, <3>7, <3>8
    <3> QED BY <3>9, <3>10
  <2> QED BY <2>5, <2>6, <2>7, <2>8, <2>9 DEF KeptInv
<1> QED BY <1>1, <1>2 DEF msgsnd

\* One unit is taken from the pipe.
LEMMA TailIs ==
    ASSUME NEW q \in Seq(Unit), q # <<>>
    PROVE  /\ Tail(q) \in Seq(Unit) /\ Head(q) = q[1] /\ Len(q) \in Nat /\ Len(q) > 0
           /\ Len(Tail(q)) = Len(q) - 1
           /\ \A i \in 1 .. Len(q) - 1 : Tail(q)[i] = q[i + 1]
  OBVIOUS

LEMMA ReadSizeKept == KeptInv /\ ReadSize => KeptInv'
<1> SUFFICES ASSUME KeptInv, ReadSize PROVE KeptInv'
  OBVIOUS
<1> DEFINE n == Len(sent)
           p == Len(pipe)
<1>1. /\ sent' = sent /\ posted' = posted /\ from' = from /\ read' = read + 1 /\ lpc' = lpc
      /\ pipe # <<>> /\ pipe' = Tail(pipe) /\ msg' = Head(pipe).of /\ tpc = "msgsz"
      /\ \/ tpc' = "rest" /\ gaveUp' = gaveUp /\ thread_exit' = thread_exit
         \/ tpc' = "test" /\ gaveUp' = TRUE /\ thread_exit' = TRUE
  BY DEF ReadSize, postVars
<1>2. /\ pipe \in Seq(Unit) /\ n \in Nat /\ read \in 0 .. n /\ ~gaveUp /\ lpc # "idle"
  BY <1>1 DEF KeptInv, KeptTyped, KeptThread
<1>3. /\ pipe' \in Seq(Unit) /\ Head(pipe) = pipe[1] /\ p \in Nat /\ p > 0
      /\ Len(pipe') = p - 1
      /\ \A i \in 1 .. p - 1 : pipe'[i] = pipe[i + 1]
  BY <1>1, <1>2, TailIs
<1> HIDE DEF p
<1>4. /\ p = 2 * (n - read)
      /\ \A j \in read + 1 .. n :
            /\ pipe[2 * (j - read) - 1] = [part |-> "msgsz", of |-> sent[j]]
            /\ pipe[2 * (j - read)] = [part |-> "rest", of |-> sent[j]]
  <2>1. Behind = 0
    BY <1>1 DEF Behind
  <2>2. /\ p = 0 + 2 * (n - read)
        /\ \A j \in read + 1 .. n :
              /\ pipe[0 + 2 * (j - read) - 1] = [part |-> "msgsz", of |-> sent[j]]
              /\ pipe[0 + 2 * (j - read)] = [part |-> "rest", of |-> sent[j]]
    BY <1>1, <1>2, <2>1 DEF KeptInv, KeptPipe, p
  <2> QED BY <1>2, <2>2
<1> HIDE DEF n
<1>5. read + 1 \in read + 1 .. n /\ 2 * (read + 1 - read) - 1 = 1
  BY <1>2, <1>3, <1>4
<1>6. msg' = sent[read + 1]
  <2>1. ASSUME NEW j \in read + 1 .. n, j = read + 1
        PROVE  pipe[1] = [part |-> "msgsz", of |-> sent[j]]
    <3>1. 2 * (j - read) - 1 = 1
      BY <1>2, <2>1
    <3> QED BY <1>4, <3>1
  <2>2. pipe[1] = [part |-> "msgsz", of |-> sent[read + 1]]
    BY <1>5, <2>1
  <2> QED BY <1>1, <1>3, <2>2
<1>7. KeptTyped'
  BY <1>1, <1>2, <1>3, <1>5 DEF KeptInv, KeptTyped, n
<1>8. KeptThread'
  BY <1>1, <1>2, <1>6 DEF KeptInv, KeptThread
<1>9. KeptOrder'
  <2>1. \A i \in 1 .. Len(from) : from[i] \in 1 .. read' /\ from[i] < read'
    BY <1>1, <1>2 DEF KeptInv, KeptOrder
  <2> QED BY <1>1, <2>1 DEF KeptInv, KeptOrder
<1>10. KeptNoGap'
  <2> SUFFICES ASSUME NEW j \in 1 .. read', IsRequest(sent[j]), j < read' PROVE Posted(j)'
    BY <1>1 DEF KeptNoGap
  <2>1. j \in 1 .. read
    BY <1>1, <1>2
  <2> QED BY <1>1, <1>2, <2>1 DEF KeptInv, KeptNoGap, Posted
<1>11. KeptPipe'
  <2> SUFFICES ASSUME tpc' = "rest"
               PROVE  /\ Len(pipe') = 1 + 2 * (n - (read + 1))
                      /\ \A j \in read + 1 + 1 .. n :
                            /\ pipe'[1 + 2 * (j - (read + 1)) - 1] = [part |-> "msgsz", of |-> sent[j]]
                            /\ pipe'[1 + 2 * (j - (read + 1))] = [part |-> "rest", of |-> sent[j]]
    BY <1>1 DEF KeptPipe, Behind, n
  <2>1. Len(pipe') = 1 + 2 * (n - (read + 1))
    BY <1>2, <1>3, <1>4
  <2>2. ASSUME NEW j \in read + 1 + 1 .. n
        PROVE  /\ pipe'[1 + 2 * (j - (read + 1)) - 1] = [part |-> "msgsz", of |-> sent[j]]
               /\ pipe'[1 + 2 * (j - (read + 1))] = [part |-> "rest", of |-> sent[j]]
    <3> PICK r : r = read
      OBVIOUS
    <3>0. r \in Nat /\ n \in Nat /\ j \in r + 1 + 1 .. n /\ p = 2 * (n - r)
      BY <1>2, <1>4, <2>2
    <3> HIDE DEF p
    <3>3. /\ j \in r + 1 .. n
          /\ 1 + 2 * (j - (r + 1)) - 1 + 1 = 2 * (j - r) - 1
          /\ 1 + 2 * (j - (r + 1)) + 1 = 2 * (j - r)
      BY <3>0
    <3>4. /\ 1 + 2 * (j - (r + 1)) - 1 \in 1 .. p - 1
          /\ 1 + 2 * (j - (r + 1)) \in 1 .. p - 1
      BY <3>0
    <3>1. /\ j \in read + 1 .. n
          /\ 1 + 2 * (j - (read + 1)) - 1 \in 1 .. p - 1
          /\ 1 + 2 * (j - (read + 1)) \in 1 .. p - 1
          /\ 1 + 2 * (j - (read + 1)) - 1 + 1 = 2 * (j - read) - 1
          /\ 1 + 2 * (j - (read + 1)) + 1 = 2 * (j - read)
      BY <3>3, <3>4
    <3>2. /\ pipe'[1 + 2 * (j - (read + 1)) - 1] = pipe[2 * (j - read) - 1]
          /\ pipe'[1 + 2 * (j - (read + 1))] = pipe[2 * (j - read)]
      BY <1>3, <3>1
    <3> QED BY <1>4, <3>1, <3>2
  <2> QED BY <2>1, <2>2
<1> QED BY <1>7, <1>8, <1>9, <1>10, <1>11 DEF KeptInv

LEMMA ReadRestKept == KeptInv /\ ReadRest => KeptInv'
<1> SUFFICES ASSUME KeptInv, ReadRest PROVE KeptInv'
  OBVIOUS
<1> DEFINE n == Len(sent)
           p == Len(pipe)
<1>1. /\ sent' = sent /\ posted' = posted /\ from' = from /\ read' = read /\ lpc' = lpc
      /\ pipe # <<>> /\ pipe' = Tail(pipe) /\ msg' = msg /\ tpc = "rest" /\ tpc' = "handle"
      /\ gaveUp' = gaveUp /\ thread_exit' = thread_exit
  BY DEF ReadRest, machineVars, postVars, helperVars
<1>2. /\ pipe \in Seq(Unit) /\ n \in Nat /\ read \in 0 .. n /\ ~gaveUp
  BY <1>1 DEF KeptInv, KeptTyped, KeptThread
<1>3. /\ pipe' \in Seq(Unit) /\ p \in Nat /\ Len(pipe') = p - 1
      /\ \A i \in 1 .. p - 1 : pipe'[i] = pipe[i + 1]
  BY <1>1, <1>2, TailIs
<1> HIDE DEF p
<1>4. /\ p = 1 + 2 * (n - read)
      /\ \A j \in read + 1 .. n :
            /\ pipe[1 + 2 * (j - read) - 1] = [part |-> "msgsz", of |-> sent[j]]
            /\ pipe[1 + 2 * (j - read)] = [part |-> "rest", of |-> sent[j]]
  <2>1. Behind = 1
    BY <1>1 DEF Behind
  <2> QED BY <1>1, <1>2, <2>1 DEF KeptInv, KeptPipe, p
<1> HIDE DEF n
<1>5. KeptTyped' /\ KeptThread'
  BY <1>1, <1>3 DEF KeptInv, KeptTyped, KeptThread
<1>6. KeptOrder' /\ KeptNoGap'
  BY <1>1 DEF KeptInv, KeptOrder, KeptNoGap, Posted
<1>7. KeptPipe'
  <2> SUFFICES /\ Len(pipe') = 0 + 2 * (n - read)
               /\ \A j \in read + 1 .. n :
                     /\ pipe'[0 + 2 * (j - read) - 1] = [part |-> "msgsz", of |-> sent[j]]
                     /\ pipe'[0 + 2 * (j - read)] = [part |-> "rest", of |-> sent[j]]
    BY <1>1 DEF KeptPipe, Behind, n
  <2>1. Len(pipe') = 0 + 2 * (n - read)
    BY <1>2, <1>3, <1>4
  <2>2. ASSUME NEW j \in read + 1 .. n
        PROVE  /\ pipe'[0 + 2 * (j - read) - 1] = [part |-> "msgsz", of |-> sent[j]]
               /\ pipe'[0 + 2 * (j - read)] = [part |-> "rest", of |-> sent[j]]
    <3>1. /\ 0 + 2 * (j - read) - 1 \in 1 .. p - 1
          /\ 0 + 2 * (j - read) \in 1 .. p - 1
          /\ 0 + 2 * (j - read) - 1 + 1 = 1 + 2 * (j - read) - 1
          /\ 0 + 2 * (j - read) + 1 = 1 + 2 * (j - read)
      BY <1>2, <1>4
    <3>2. /\ pipe'[0 + 2 * (j - read) - 1] = pipe[1 + 2 * (j - read) - 1]
          /\ pipe'[0 + 2 * (j - read)] = pipe[1 + 2 * (j - read)]
      BY <1>3, <3>1
    <3> QED BY <1>4, <3>2
  <2> QED BY <2>1, <2>2
<1> QED BY <1>5, <1>6, <1>7 DEF KeptInv

LEMMA AppendIs ==
    ASSUME NEW S, NEW q \in Seq(S), NEW e \in S
    PROVE  /\ Append(q, e) \in Seq(S) /\ Len(Append(q, e)) = Len(q) + 1
           /\ DOMAIN Append(q, e) = 1 .. Len(q) + 1
           /\ Append(q, e)[Len(q) + 1] = e
           /\ \A i \in 1 .. Len(q) : Append(q, e)[i] = q[i]
  OBVIOUS

LEMMA HandleKept == KeptInv /\ Handle => KeptInv'
<1> SUFFICES ASSUME KeptInv, Handle PROVE KeptInv'
  OBVIOUS
<1> DEFINE n == Len(from)
<1>1. /\ pipe' = pipe /\ sent' = sent /\ read' = read /\ lpc' = lpc /\ msg' = msg
      /\ tpc = "handle" /\ tpc' = "test" /\ gaveUp' = gaveUp /\ thread_exit' = thread_exit
      /\ IF IsRequest(msg) THEN posted' = Append(posted, msg) /\ from' = Append(from, read)
                           ELSE posted' = posted /\ from' = from
  BY DEF Handle, LocEngReqRel, postVars, helperVars
<1>2. /\ read \in 0 .. Len(sent) /\ Len(sent) \in Nat /\ read > 0 /\ msg = sent[read] /\ ~gaveUp
      /\ sent \in Seq(Message \cup {GPSONE_UNBLOCK}) /\ n \in Nat /\ Len(posted) = n
      /\ posted \in Seq(Message \cup {GPSONE_UNBLOCK}) /\ from \in Seq(Nat)
  BY <1>1 DEF KeptInv, KeptTyped, KeptThread
<1>3. KeptThread'
  BY <1>1 DEF KeptInv, KeptThread
<1>4. KeptPipe'
  BY <1>1 DEF KeptInv, KeptPipe, Behind
<1>5. CASE ~IsRequest(msg)
  <2>1. KeptTyped' /\ KeptOrder'
    BY <1>1, <1>5 DEF KeptInv, KeptTyped, KeptOrder
  <2>2. ASSUME NEW j \in 1 .. read, IsRequest(sent[j]) PROVE j < read
    BY <1>2, <1>5, <2>2
  <2>3. KeptNoGap'
    BY <1>1, <1>5, <2>2 DEF KeptInv, KeptNoGap, Posted
  <2> QED BY <1>3, <1>4, <2>1, <2>3 DEF KeptInv
<1>6. CASE IsRequest(msg)
  <2>0. msg \in Message \cup {GPSONE_UNBLOCK}
    BY <1>2
  <2>1. /\ posted' \in Seq(Message \cup {GPSONE_UNBLOCK}) /\ Len(posted') = n + 1
        /\ posted'[n + 1] = msg /\ \A i \in 1 .. n : posted'[i] = posted[i]
    <3>1. posted' = Append(posted, msg) /\ posted \in Seq(Message \cup {GPSONE_UNBLOCK})
      BY <1>1, <1>2, <1>6
    <3>2. /\ posted' \in Seq(Message \cup {GPSONE_UNBLOCK}) /\ Len(posted') = Len(posted) + 1
          /\ posted'[Len(posted) + 1] = msg
          /\ \A i \in 1 .. Len(posted) : posted'[i] = posted[i]
      BY <2>0, <3>1, AppendIs
    <3>3. Len(posted) = n
      BY <1>2
    <3> QED BY <3>2, <3>3
  <2>2. /\ from' \in Seq(Nat) /\ Len(from') = n + 1 /\ DOMAIN from' = 1 .. n + 1
        /\ from'[n + 1] = read /\ \A i \in 1 .. n : from'[i] = from[i]
    <3>1. read \in Nat
      BY <1>2
    <3>2. from' = Append(from, read) /\ from \in Seq(Nat)
      BY <1>1, <1>2, <1>6
    <3> QED BY <3>1, <3>2, AppendIs
  <2>3. KeptTyped'
    BY <1>1, <2>1, <2>2 DEF KeptInv, KeptTyped
  <2>4. \A i \in 1 .. n : /\ from[i] \in 1 .. read /\ from[i] < read
                          /\ posted[i] = sent[from[i]] /\ IsRequest(posted[i])
    BY <1>1 DEF KeptInv, KeptOrder
  <2>5. \A i, k \in 1 .. n : i < k => from[i] < from[k]
    BY DEF KeptInv, KeptOrder
  <2>6. DOMAIN from = 1 .. n
    BY <1>2
  <2> HIDE DEF n
  <2>7. \A i \in 1 .. n + 1 : i \in 1 .. n \/ i = n + 1
    BY <1>2
  <2>8. KeptOrder'
    <3>1. \A i \in 1 .. n + 1 : from'[i] \in 1 .. read /\ posted'[i] = sent[from'[i]]
                                /\ IsRequest(posted'[i])
      <4>1. ASSUME NEW i \in 1 .. n
            PROVE  from'[i] \in 1 .. read /\ posted'[i] = sent[from'[i]] /\ IsRequest(posted'[i])
        BY <2>1, <2>2, <2>4
      <4>2. read \in 1 .. read /\ posted'[n + 1] = sent[from'[n + 1]] /\ IsRequest(posted'[n + 1])
        BY <1>2, <1>6, <2>1, <2>2
      <4> QED BY <2>2, <2>7, <4>1, <4>2
    <3>2. ASSUME NEW i \in 1 .. n + 1, NEW k \in 1 .. n + 1, i < k PROVE from'[i] < from'[k]
      <4>1. i \in 1 .. n
        BY <1>2, <3>2
      <4> QED BY <2>2, <2>4, <2>5, <2>7, <3>2, <4>1
    <3> QED BY <1>1, <2>2, <3>1, <3>2 DEF KeptOrder
  <2>9. KeptNoGap'
    <3>1. ASSUME NEW j \in 1 .. read, IsRequest(sent[j]) PROVE Posted(j)'
      <4>1. CASE j = read
        <5>1. n + 1 \in DOMAIN from' /\ from'[n + 1] = j
          BY <1>2, <2>2, <4>1
        <5> QED BY <5>1 DEF Posted
      <4>2. CASE j # read
        <5>1. j < read
          BY <1>2, <4>2
        <5>2. PICK i \in 1 .. n : from[i] = j
          BY <2>6, <3>1, <5>1 DEF KeptInv, KeptNoGap, Posted
        <5>3. i \in DOMAIN from' /\ from'[i] = j
          BY <1>2, <2>2, <5>2
        <5> QED BY <5>3 DEF Posted
      <4> QED BY <4>1, <4>2
    <3> QED BY <1>1, <3>1 DEF KeptNoGap
  <2> QED BY <1>3, <1>4, <2>3, <2>8, <2>9 DEF KeptInv
<1> QED BY <1>5, <1>6

LEMMA KeptStep == KeptInv /\ [DmnNext]_dmnVars => KeptInv'
<1> SUFFICES ASSUME KeptInv, [DmnNext]_dmnVars PROVE KeptInv'
  OBVIOUS
<1>0. KeptThread
  BY DEF KeptInv
<1> USE DEF machineVars, postVars, helperVars
<1>1. CASE Launcher
  BY <1>0, <1>1, QuietKept DEF Launcher, Launch, Wait, Woken, KeptThread
<1>2. CASE Thread
  <2>1. CASE Start \/ OpenServer \/ OpenAnswers \/ Ready
    BY <1>0, <2>1, QuietKept DEF Start, OpenServer, OpenAnswers, Ready, signal, KeptThread
  <2>2. CASE ReadFails
    <3>1. /\ pipe' = pipe /\ sent' = sent /\ posted' = posted /\ from' = from /\ read' = read
          /\ tpc' = "test" /\ gaveUp' = TRUE /\ thread_exit' = TRUE /\ lpc' = lpc
          /\ tpc \in {"msgsz", "rest"}
      BY <2>2 DEF ReadFails
    <3>2. KeptTyped' /\ KeptThread' /\ KeptOrder' /\ KeptNoGap' /\ KeptPipe'
      BY <1>0, <3>1 DEF KeptInv, KeptTyped, KeptThread, KeptOrder, KeptNoGap, KeptPipe, Posted
    <3> QED BY <3>2 DEF KeptInv
  <2>3. CASE ReadSize
    BY <2>3, ReadSizeKept
  <2>4. CASE ReadRest
    BY <2>4, ReadRestKept
  <2>5. CASE Handle
    BY <2>5, HandleKept
  <2>6. CASE Test
    BY <1>0, <2>6, QuietKept DEF Test, KeptThread
  <2>7. CASE Post
    <3>1. /\ pipe' = <<>> /\ sent' = sent /\ posted' = posted /\ from' = from /\ read' = read
          /\ tpc = "post" /\ tpc' = "ended" /\ gaveUp' = gaveUp /\ thread_exit' = thread_exit
          /\ lpc' = lpc
      BY <2>7 DEF Post
    <3>2. KeptTyped'
      BY <3>1, EmptySeq DEF KeptInv, KeptTyped
    <3>3. KeptThread' /\ KeptOrder' /\ KeptNoGap' /\ KeptPipe'
      BY <1>0, <3>1 DEF KeptInv, KeptThread, KeptOrder, KeptNoGap, KeptPipe, Posted
    <3> QED BY <3>2, <3>3 DEF KeptInv
  <2> QED BY <1>2, <2>1, <2>2, <2>3, <2>4, <2>5, <2>6, <2>7 DEF Thread
<1>3. CASE Unblocker
  <2>1. CASE UnblockFlag \/ Join
    BY <1>0, <2>1, QuietKept DEF UnblockFlag, Join, KeptThread
  <2>2. CASE UnblockSend
    BY <2>2, SendKept DEF UnblockSend
  <2> QED BY <1>3, <2>1, <2>2 DEF Unblocker
<1>4. CASE Serve \/ \E d \in Daemon : Answer(d)
  BY <1>0, <1>4, QuietKept DEF Serve, Answer, KeptThread
<1>5. ASSUME NEW m \in Message, DaemonSends(m) PROVE KeptInv'
  BY <1>5, SendKept DEF DaemonSends
<1>6. CASE UNCHANGED dmnVars
  BY <1>0, <1>6, QuietKept DEF dmnVars, KeptThread
<1> QED BY <1>1, <1>2, <1>3, <1>4, <1>5, <1>6 DEF DmnNext

(***************************************************************************)
(* The MsgTask gets the requests of any number of daemons once each, in    *)
(* the order in which they were written and without a gap; as long as no   *)
(* read fails, what it has not got is in the thread's hands or in the      *)
(* pipe, also when the end of the thread was asked for.                    *)
(***************************************************************************)
THEOREM RequestsAlwaysKept == DmnSpec => []RequestsKept
<1>1. KeptInv => RequestsKept
  <2> SUFFICES ASSUME KeptInv PROVE RequestsKept
    OBVIOUS
  <2>1. /\ DOMAIN from = 1 .. Len(from) /\ DOMAIN sent = 1 .. Len(sent) /\ read \in 0 .. Len(sent)
        /\ Len(sent) \in Nat /\ Len(from) = Len(posted)
    BY DEF KeptInv, KeptTyped
  <2>2. ASSUME NEW j \in DOMAIN sent, IsRequest(sent[j]), j < read PROVE Posted(j)
    <3>1. j \in 1 .. read
      BY <2>1, <2>2
    <3> QED BY <2>2, <3>1 DEF KeptInv, KeptNoGap
  <2>3. ASSUME NEW j \in DOMAIN sent, IsRequest(sent[j]),
               tpc \in {"msgsz", "rest", "handle", "test"}, ~gaveUp
        PROVE  Posted(j) \/ InHand(j) \/ InPipe(j)
    <3>1. CASE j < read
      BY <2>2, <2>3, <3>1
    <3>2. CASE j = read
      <4>1. j \in 1 .. read
        BY <2>1, <3>2
      <4>2. tpc \in {"rest", "handle"} => InHand(j)
        BY <3>2 DEF KeptInv, KeptThread, InHand
      <4>3. tpc \notin {"rest", "handle"} => Posted(j)
        BY <2>3, <4>1 DEF KeptInv, KeptNoGap
      <4> QED BY <4>2, <4>3
    <3>3. CASE j > read
      <4>1. j \in read + 1 .. Len(sent)
        BY <2>1, <3>3
      <4>2. Behind \in {0, 1}
        BY DEF Behind
      <4>3. /\ Len(pipe) = Behind + 2 * (Len(sent) - read)
            /\ pipe[Behind + 2 * (j - read) - 1] = [part |-> "msgsz", of |-> sent[j]]
            /\ pipe[Behind + 2 * (j - read)] = [part |-> "rest", of |-> sent[j]]
        BY <2>3, <4>1 DEF KeptInv, KeptPipe
      <4>4. Behind + 2 * (j - read) <= Len(pipe)
        BY <2>1, <4>1, <4>2, <4>3
      <4>5. InPipe(j)
        <5>1. j > read /\ Behind + 2 * (j - read) <= Len(pipe)
          BY <3>3, <4>4
        <5>2. (Behind + 2 * (j - read)) - 1 = Behind + 2 * (j - read) - 1
          BY <2>1, <4>1, <4>2
        <5>3. /\ pipe[(Behind + 2 * (j - read)) - 1] = [part |-> "msgsz", of |-> sent[j]]
              /\ pipe[Behind + 2 * (j - read)] = [part |-> "rest", of |-> sent[j]]
          BY <4>3, <5>2, Zenon
        <5> QED BY <5>1, <5>3, Zenon DEF InPipe
      <4> QED BY <4>5
    <3> QED BY <2>1, <3>1, <3>2, <3>3
  <2>4. /\ \A i \in DOMAIN from :
              from[i] \in 1 .. read /\ posted[i] = sent[from[i]] /\ IsRequest(posted[i])
        /\ \A i, k \in DOMAIN from : i < k => from[i] < from[k]
    BY <2>1 DEF KeptInv, KeptOrder
  <2> QED BY <2>1, <2>2, <2>3, <2>4 DEF RequestsKept
<1> QED BY <1>1, InitKept, KeptStep, PTL DEF DmnSpec
=============================================================================
