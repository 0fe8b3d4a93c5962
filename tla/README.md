# Verification of the d2-common GPS stack

TLA+ models, TLC runs and TLAPS proofs for the two subsystems of the Samsung d2
device tree that have a program logic of their own: the location stack (`gps/`)
and the radio class (`ril/telephony/java/com/android/internal/telephony/`).
Everything else in the tree configures the device: audio, media and NFC tables,
key layouts, overlays, build files.

1. [Inventory](#1-inventory)
2. [Modules and how they correspond to the code](#2-modules-and-how-they-correspond-to-the-code)
3. [Runs, bounds and fairness](#3-runs-bounds-and-fairness)
4. [What the code does not keep](#4-what-the-code-does-not-keep)
5. [Proofs](#5-proofs)
6. [Not modelled](#6-not-modelled)
7. [Plan](#7-plan)

## 1. Inventory

    framework threads        MsgTask thread                  modem / daemons
    -----------------        ---------------                 ---------------
    loc.cpp (GpsInterface)   loc_eng.cpp handlers            LocApiBase events
      start/stop/set_mode -> LocEngAdapter          <------- status, fix, up/down
      ni_respond             loc_eng_agps.cpp       <------- ATL requests
      agps_open/closed       loc_eng_ni.cpp         <------- NI requests
                   \            ^      |                        /
                    sendMsg --> msg_q  +-- locMutex-free -------+
                               (MsgTask)
    timer threads: loc_timer.c   NI threads: loc_eng_ni.cpp   dmn_conn thread
                                                              (daemons' pipes)

All handlers are the `proc()` of a message and run on one thread, the
`MsgTask`; the framework's threads, the modem's thread, timer threads, the
detached NI threads and the daemon connection post messages. State that is
touched by a thread other than the MsgTask is where the hard behaviour is.

| Component | State | Operations | Interacts with | Hard behaviour | What makes it correct |
|---|---|---|---|---|---|
| AGPS state machines (`loc_eng_agps.*`) | `mStatePtr`, list of subscribers, `mIsInactive`; for DS also retries and the data call | subscribe, unsubscribe, GRANTED, RELEASED, DENIED, modem restart, retry | framework (`AGpsCallbacks`), modem (`atlOpenStatus`), data service, timers | answers without request ids; clients that leave while the NIF closes; a close overtaken by a new request; modem restart with clients of another kind; delayed retries | list, state, last command and each client's view agree; each request answered; nothing leaked; one data call at a time |
| Network-initiated requests (`loc_eng_ni.*`) | two sessions: `rawRequest`, `reqID`, `respRecvd`, `resp`, thread | request, NI thread, respond, reset, inform | framework (notify, respond), modem, MsgTask | `tLock` guards half of the session; timeouts race answers; the reset races the thread; two sessions share one engine | a payload is freed once and never used after; one answer per request; every request ends; an answer belongs to its request |
| Message queue and task (`msg_q.c`, `linked_list.c`, `MsgTask.cpp`) | list, mutex, condition, `unblocked` | send, receive, unblock, flush, loop, delete | everybody | lost wake-ups, spurious ones, shutdown while waiting, refused messages | reliable FIFO channel; no message handled twice; the thread stops when asked |
| Timer (`loc_timer.c`) | `state`, mutex, condition, heap object | start, wait, stop, callback, free | DS machine, any stopper | stop races timeout and the free | a stop in time suppresses the callback; freed once, in the end, never under a holder |
| Location engine (`loc_eng.cpp`, `LocEngAdapter.*`) | `mNavigating`, fix criteria, session and engine status, mute, deferred deletions, AGPS and server settings | start, stop, set mode, delete aiding data, cleanup; reports of the modem; modem down and up | framework, modem API | reports that arrive late; modem restarts in a session; mutes that outlive their session; calls that look at the session before what is queued | framework, adapter and modem agree on the session; mute and deletion are bounded; a stop is honoured |
| Adapters and modem API (`LocApiBase.*`, `LocAdapterBase.*`) | array of adapters, event mask, proxies | add, remove, dispatch, open, close | contexts, modem | the array changes while it is walked; open waits in the queue and close does not | an event reaches each registered adapter once; the modem client is open exactly while an adapter needs it |
| Contexts (`ContextBase.*`, `LocDualContext.*`) | two singletons and their task | create lazily | adapters | no lock | one task per process |
| HAL interface (`loc.cpp`, `gps.c`) | callback tables, `loc_afw_data` | entry points | framework | globals set by one thread and read by others; the route an AGPS answer takes | an answer reaches the machine that asked |
| Data daemon connection (`loc_eng_dmn_conn*`) | pipe, server thread, thread helper | start, join, receive, handle, send | AGPS machines | pipe framing, startup handshake, end of the thread | messages are read as they were written; the server runs when start returns |
| XTRA (`loc_eng_xtra.cpp`) | assembled file | inject, request | modem | parts | the file is injected whole |
| NMEA (`loc_eng_nmea.cpp`) | satellite cache between reports | generate | framework | cache of an earlier report | sentences of one fix agree |
| Configuration and target (`loc_cfg.cpp`, `loc_target.cpp`) | parameter tables, validity bits, the target | read, detect | location engine | two files into one table; a count of the lines of use; a target that stays undetected | each parameter gets the value of its last line |
| Logging and glue (`loc_log.cpp`, `log_util.h`, `platform_lib_*`) | none | names | all | none | none |
| RIL (`d2lteRIL.java`, `Operators.java`) | the request list and the RIL version (inherited), `isGSM`, two static fields of the last operator | request, reply, connect | telephony, the radio daemon | three threads take requests from one list; decoding that throws; a cache filled in two assignments | each request is answered once; what is told does not depend on the replies before |
| Device configuration | data | none | build | none | none |

## 2. Modules and how they correspond to the code

| Module | Models | Extends |
|---|---|---|
| `AgpsNif` | one `AgpsStateMachine` (loc_eng_agps.cpp) for any clients and kind of NIF | |
| `AgpsNifProps` | what such a machine promises | `AgpsNif` |
| `AgpsAfw` | the machine together with the Android framework that it asks for connections | `AgpsNifProps` |
| `AgpsProofs` | theorems about `AgpsNif` and `AgpsAfw` | `AgpsAfw` |
| `DsNif` | `DSStateMachine` with its retry timer and the data call | |
| `NiSession`, `NiSessionProofs` | loc_eng_ni.cpp; theorems | |
| `MsgChannel` | abstract: a FIFO channel with a close, what users of a MsgTask rely on | |
| `MsgQ` | msg_q.c over linked_list.c, any number of senders and receivers | |
| `MsgTask` | MsgTask.cpp: sendMsg, loopMain, the destructor; refines `MsgChannel` | `MsgQ` |
| `MsgTaskProofs` | theorems about both, and that the task is a `MsgChannel` | `MsgTask` |
| `LocTimer` | loc_timer.c | |
| `LocEngine`, `LocEngineProofs` | session, status, mute, deletion and restart in loc_eng.cpp and LocEngAdapter.cpp; theorems | |
| `LocCfg`, `LocTarget` | reading gps.conf and sap.conf (loc_cfg.cpp); which GNSS a device has (loc_target.cpp) | |
| `Picking` | the elements of a sequence that a loop over it picks, in their order | |
| `LocSettings` | configuration, data permission, server addresses and GPS lock in loc_eng.cpp: read, sent, stored and sent again | `LocCfg`, `LocTarget`, `Picking` |
| `LocApi` | LocApiBase.cpp: adapters, the client of the modem, the walks over the adapters | |
| `Nmea` | loc_eng_nmea.cpp: the sentences of a report and the cache between reports | `Picking` |
| `Reports` | a report on its way through `LocApi`, the engine's handlers and `Nmea` | `LocApi`, `Nmea` |
| `PickingProofs` | lemmas about `Picking`: length, order and parts of what is picked | `Picking` |
| `ReportsProofs` | theorems about `LocApi`, `Nmea` and `Reports` | `Reports`, `PickingProofs` |
| `DmnConn` | the connection of the data daemons: loc_eng_dmn_conn\*.c[pp] | |
| `DataProofs` | theorems about `DsNif`, `LocTimer` and `DmnConn` | these three |
| `Operators`, `Ril` | Operators.java; d2lteRIL.java with the receiver, sender and framework threads | |
| `SettingsRilProofs` | theorems about `LocSettings` (with `LocCfg`, `LocTarget`) and `Ril` | these, `PickingProofs` |
| `MC*` | constants for TLC, and the claims of section 4 | the modelled module |

**AgpsNif.** `mState` is the object `mStatePtr` points to. `mSubscribers` and
`mInactive` are the list and the flag `mIsInactive`; the list is a set, because
`addSubscriber` keeps it free of duplicates and its order only decides whose
address goes in a request. Each action is one event (`RSRC_SUBSCRIBE`,
`RSRC_UNSUBSCRIBE`, `RSRC_GRANTED`, `RSRC_RELEASED`, `RSRC_DENIED`) in one or
more states, with all the notifications and deletions that `onRsrcEvent` makes,
and its guard is the state's `switch` label. `cmds` holds what the servicer was
asked to do and the framework has not yet taken. `told` is history: what each
client was last told. `Leave` keeps one detail of the code that is easy to miss:
`notifySubscribers` may delete the very subscriber that `removeSubscriber` then
compares; `StaleMatch` says whom the stale object may equal.
The machine is a parameter of the clients: `WaitForClose` is
`waitForCloseComplete()`, `EnforceSingle` is `mEnforceSingleSubscriber`,
`ModemClient` are those whose list a modem restart empties (`EngineUp`).
ATL clients and the BIT daemon meet at `agnss_nif`; WIFI clients at `wifi_nif`.
In this repository `loc_agps_open`, `_closed` and `_open_failed` of loc.cpp
always name `AGPS_TYPE_SUPL`, so only `agnss_nif` is ever answered through the
framework's interface; `afw_wifi` therefore speaks of the
`loc_eng_agps_open/closed/open_failed` functions, which serve all three machines.

**AgpsAfw.** The framework is external, modelled from the callbacks the code
makes and the functions it offers: it takes commands in order, answers REQUEST
with GRANTED or DENIED, answers RELEASE with RELEASED, and may lose a connection
at any time. Commands and answers cross in both directions. `unclaimed` is
history: the last GRANTED was dropped, in Released, and the connection it
brought was not given up since.

**DsNif.** `list` is a sequence here, since `AgpsReleasingState` sends the
request for the first subscriber. `call` is the one data call of the modem's
data service (external); its reports wait in `events`; `timers` and `retries`
are the delay timer's callbacks and their messages. `OpenFails` has every way
that opening the call can fail, among them a timer that cannot be started and a
return value that the code has no case for; neither is noticed.

**NiSession.** One variable per field of `loc_eng_ni_session_s_type`, one per
session, and program counters for the three kinds of threads, because
`rawRequest` and `reqID` are read and written without `tLock`: each unlocked
access is a step: a request is first stored (`Request`) and then gets its id and
its thread (`RequestOpen`), and an accepted emergency request looks at the
ordinary one in a step of its own (`RespondRival`). Only the comparison of the
id and of the payload in `Respond` is one step; an id stands in one session, and
the answer is stored later anyway, for whatever request is there by then. Elapsed
time is abstracted: a wait may time out at any moment. `pthread_create` is taken
to succeed.

**MsgQ, MsgTask, MsgChannel.** Steps are the critical sections of `list_mutex`.
Receivers wait inside `msg_q_rcv`; a signal wakes one that waits and wake-ups
may be spurious. `linked_list.c` is the sequence it implements, head and tail
where the code adds and takes. `~MsgTask` has no caller in the repository, and
neither have `msg_q_flush` and `loc_timer_stop`; they are part of the interfaces
and modelled as such. Only the MsgTask's thread receives from a queue today.

**LocTimer.** One timer object, its thread and any number of stoppers. `memory`
is what happened to the heap object; `misused` is set by any access to a mutex
that is destroyed or memory that is freed. The thread destroys a mutex that one
of its six tries finds free (`Destroy`); when all of them fail (`DestroyFails`)
it unlocks the mutex itself (`GiveUp`, remembered in `forced`), tries once more
(`DestroyLast`) and frees the timer.

**LocEngine.** `queue` is the MsgTask's queue; `SetMode`, `Start`, `Stop`,
`DeleteAiding` and `Cleanup` are the framework's calls, `Do...` the handlers;
`loc_eng_cleanup` looks at the session on the framework's thread, whatever is
still queued, and posts a stop when it is open. The modem (external) is up or down,
has its client open or not, works on a fix or not, and reports what
`LocApiBase.h` lets it report, in any order. `uses` fixes whether this framework
asks for single fixes or periodic ones. Left out because they touch none of
this state: the settings and the GPS lock (`LocSettings`), the ULP proxy.
`told`, `closing`, `result`, `wants` and `asked` are history.

**LocSettings.** The other half of a restart. The framework's calls come from one
thread; `agpsStatus` is a global that this thread writes and `loc_eng_reinit`
reads on the MsgTask, so `UpdateAvailability`/`SendAvailability` and
`Reinit`/`ReinitSend` are two steps each (`fpc`, `mpc`). `modem.told` is what the
modem was told since it last started. Two assumptions about the modem, which is
external: a client that is not open loses what it is sent, and a restart forgets
everything but the GPS lock (which the code never sends again).
An address is one that fits its buffer; the name of a C2K server may fail to be
resolved. Nothing happens before `GetInterface`, which reads the files once:
`device` is a choice of files and chip, `Setting` the messages of
`loc_eng_reinit`, each a set of parameters, of which those with a validity bit
go only when it is set.

**LocCfg, LocTarget.** Pure functions. A file is a sequence of lines that name a
parameter or do not. `ReadLine` is one turn of the loop, which stops when as many
lines were of use as the table has entries (`num_params`); `ReadConf` clears the
validity bits and then is the recursive function of the line that the loop
computes. `Says`, beside it, is what the files say without reading them in
order, and `Configured` compares the two through the modem. `GnssType` is
`loc_get_target` by the facts it looks at: property, baseband, soc_id, platform,
/dev/mdm; "undetected" is its -1.

**LocApi.** `mLocAdapters` is the array, slot by slot. Adding and removing take
one step per assignment (`AddStore`, `AddPost`; `RemoveHole`, `RemoveMove`,
`RemoveClear`, `RemoveClose` or `RemoveRepost`), the walk of the modem's thread
two steps per adapter (`WalkLook`, `WalkStep`), the reading of the mask on the
MsgTask, too (`ScanLook`, `ScanStep`): nothing of it is locked. The macros test
the slot and then call through it; the call may use the pointer that was tested
or read the slot again, and if it finds a hole the process ends (`WalkCrash`, and
`ScanStep` with an empty slot). `hal` is the adapter of this repository;
`stage` is how far `loc_init` is with it, since the base class registers it
before its own constructor has run and `loc_eng_data.adapter` is set later. It
handles a request once `mSupportsAgpsRequests` is set, the last step of
`loc_init`: all of its request handlers test it, those for XTRA data and time
included (LocEngAdapter.cpp:206-292). `opened` is what the modem was asked for.
Two assumptions about the client library, which is external: that `open(mask)`
adds to what was asked for, and that opening fails while the modem is down.

**Reports, Nmea.** `DoSv` and `DoPosition` are the handlers of the MsgTask. What
a report holds is chosen when it is handled. A sentence is a record that tells
which value stands in each field, or that it is empty; `Stops` are the indices
at which a page of `$GPGSV` ends, and the satellites of a page, as those of a
constellation, are `Picked` from the report by their indices. The mode letter is
chosen among those that the position mode may give (`ReadStandalone`):
`LocEngine` has the mode itself.

**Ril, Operators.** `list` is `mRequestList`. The receiver is a program counter:
`Lookup` (under the lock), `Remove` (again under the lock, after a gap), then
the decoding, or the super class (external) with its own removal; a list of
calls reads `isGSM` twice (`CallBegin`, `CallEnd`). The sender thread and the
end of a connection, which also answer requests, are the super class's. Strings
of an operator are kept apart by what `operatorReplace` looks at: number of
digits, word of that length, any other.

**DmnConn.** One action per step of the server thread between two blocking
calls, two for a message (its length, then the rest), one per call of the launch,
of unblock and of join. `fd` has the five descriptors, which are global and 0
before they are opened and keep their value after they are closed. Daemons are
external: they write whole messages, which are shorter than `PIPE_BUF`. What the
AGPS machines answer, and when, is `AgpsNif`'s: here any daemon of whom a
request was taken may be answered at any time. In the repository the calls of
unblock and join are compiled out of `loc_eng_cleanup`; they are modelled as the
interface they are.

## 3. Runs, bounds and fairness

| Run | Instance | What it shows |
|---|---|---|
| `afw_atl` | `agnss_nif`: two ATL clients, one BIT client, at most 4 commands and answers under way | state, list, commands and clients agree; users are covered by a connection or by the news of its loss; no connection is held after the last user has left, or for nobody but where the code leaks it; every ATL client is answered |
| `afw_wifi` | a NIF for one subscriber that waits for the close, two clients | where the close is slow: a waiting machine is owed an answer; requests are kept; the close is heard of; REQUEST and RELEASE alternate |
| `ni_restart` | two requests, one modem restart at any moment | payloads have one owner, one waiter per session, at most one answer, every request ends and no session is occupied for ever |
| `msgtask` | three senders (the loop's own handlers among them), two messages each | FIFO, no lost wake-up, every message accounted for, the thread stops, the task implements `MsgChannel` |
| `timer` | three stoppers with two calls each | a stop in time silences; a holder has live memory unless the thread gave up on it; the timer is freed |
| `ds_nif` | three handles, two retries, four requests, with symmetry | Released is quiet, Acquired is held, reports are of one call |
| `loc_engine` | one kind of aiding data, intermediate fixes on, four inputs, one modem restart, three messages waiting | framework, adapter and modem agree; mute and deletion are bounded; a stop is honoured |
| `loc_settings` | five devices, two settings, one address, three calls, two modem restarts | whenever nothing is under way the modem is configured as the files say and has the last data permission |
| `dmn_conn` | two daemons, three messages out of seven, one failing open or read | the reader stays in frame, requests are kept, no write to an unopened descriptor, launch and join return |
| `reports` | two slots, the engine's adapter and another one, two additions or removals, one modem restart, two reports or requests | the modem sends what registered adapters want, each is reached once, sentences tell the satellite report they belong to |
| `ril` | two requests, one reply each, one change of the phone type | each request is answered once or lost by its own reply, replies are told right, what was replied to is answered |
| `ni_own_answer` | smallest instance that shows it | section 4 |

*Why the bounds are enough.* `afw_atl` has two clients of the kind that a restart
drops and one of the kind it keeps, which gives every combination of first, last
and other client; four messages let a full REQUEST, RELEASE, REQUEST exchange be
under way with one answer. `ni_restart` needs two requests, because what one
leaves behind is found by the next, and both sessions are reached. `msgtask`
needs two threads besides the loop, so that one can overtake the other, and the
loop as a sender, since handlers post to their own queue. `afw_wifi` has no
client of the kind that a restart drops, since no NIF for one subscriber is
emptied by one; that a waiting machine is owed an answer after a restart as well
is the theorem `WaitersAreOwed`. `timer` needs one stopper that holds the mutex,
one that waits for it and one that comes late. `ds_nif` has a handle that holds
the call, one that waits and one that asks again; two retries give a first, a
last and a refused one. In `loc_engine` the longest story told is: start, crash,
report, stop; four inputs and one crash give all of its orders. The aiding mask
has one bit since nothing couples two. `loc_settings` has two settings so that a
restart can come between them, two restarts so that the second can hit the
messages of the first, and three calls: an early one, the init and a late one.
Its devices are an MSM, an APQ without a modem, a QCA1530 that answers at its
second reading and one that never does (with `DetectTries` = 2 for the code's
30), and one without a GNSS; the files have a parameter twice, a comment, a
hexadecimal float, as many lines of use as the table has entries, and a sap.conf
that is absent or names nothing. In `reports` an array of two slots is full with
two adapters, so that the last is the hole or is not; one restart can fall into a
removal, and two reports are a satellite report and the position after it, or two
positions without one between them. `ril` needs two requests because what one
reply leaves behind is found by the next. Each gets one reply; a reply that is
repeated is beyond the run (its states are too many) and covered by the theorems
`RequestsAccounted` and `RepliesToldRight`, which hold for any number of them.
`dmn_conn` needs a request, a second one behind it and one that is refused; a
second fault changes nothing, because the thread ends at the first.

*Deadlock.* The AGPS runs check it. The others end by design: requests, sends,
stops and inputs are bounded, and every thread but the MsgTask ends.

*Fairness.* Only what the scheduler and the code promise. AgpsAfw: the MsgTask
handles what is queued, the framework takes commands; clients, losses and
restarts need not happen. NiSession: every NI thread runs (its wait is timed, so
it ends without the user), what the MsgTask began (a request, a reset) and what
it finds in its queue goes on (`MsgTaskGoesOn`), and so does a respond that began
(`RespondGoesOn`). MsgTask: the loop's thread runs and handlers return. LocTimer:
the thread runs, its timed wait ends, a stop that began ends. LocEngine: the
MsgTask runs, and a modem that is down comes up again and says so; the framework
and the reports are free. DmnConn: the server thread runs unless it is blocked in
a read, a launch or unblock that began goes on; daemons and the first unblock are
free. Ril: the receiver runs as long as there is something to read; requests, the
daemon and the sender are free. DsNif, LocSettings and Reports check no liveness.

*Conditions in the properties.* `NoLostRequest` and `Answered` exempt the BIT
daemon, whose requests a modem restart drops without a word. `NoLeak` names the
two leaks that the code has, a list that a restart emptied in Acquired
(`orphaned`) and a GRANTED that was dropped in Released (`unclaimed`); in every
other order of commands and answers nothing is held for nobody. `HolderIsSafe`
ends when the timer's thread gives up waiting (`forced`). `SessionMatchesModem`
is about periodic sessions (a single-shot one ends at the modem first) and
excuses a last call that the modem answered with a failure;
`loc_eng_start_handler` takes an internal error for a start. `DataStatusAgrees`
exempts the two orders in which the code does lose the status (section 4).
`dmn_conn` takes `pthread_cond_wait` to wake only when it is signalled (`Spurious
= FALSE`); section 4 says what happens otherwise.

The type invariants `AfwTypeOK`, `NiTypeOK`, `TimerTypeOK`, `DsTypeOK`,
`EngineTypeOK`, `ReportsTypeOK` and `RilTypeOK` are defined in their modules and
hold; no run lists them, to keep the runs to what could be wrong. Types are proved
where an invariant needs them: `NifTyping` and `AfwTyping`, `QueueTyping`,
`EngineTyping`, and the type conjuncts of `TimerInv`, `TaskInv`, `KeptInv`,
`ApiInv`, `AccountInv` and, for `LocSettings`, `SettingsTyped`.

`Configured` rests on named assumptions (`CfgAssumption`, `SettingsAssumption`):
no file has more lines of use than the table has entries (`ReadWhole`), since what
stands behind them the code does not read; and `CAPABILITIES`, which is no
parameter of a message of `loc_eng_reinit`, is in no `Setting`.
`ReachesOnce` exempts a walk that a removal overlaps: it may miss the adapters
behind the hole or call the moved one twice (loc_eng's own adapter is never
removed). `CallsInFrame` in `ToldRight` exempts a change of the phone type
between the writing of a list of calls and its decoding.

Every property has a mutant of a modelled definition that violates it under the
run's own configuration: dropped guards, missing resets, swapped steps. The
mutants stand beside the definitions they change.

## 4. What the code does not keep

A statement of a comment that a run refutes:

- **An answer can go to the wrong request** (`ni_own_answer`, loc_eng_ni.cpp:384).
  `loc_eng_ni_respond` compares the id without the lock; when the thread times
  out in between, the flag and the answer stay behind, and the next request is
  answered by them before the user has seen it.

Further statements that the models refute, each defined with its quotation in
the MC module and checked by naming it in a configuration:

| Definition | Module | What happens |
|---|---|---|
| `ReleasedHoldsNothing` | `MCAgpsAfw` | a REQUEST is still to be granted when a DENIED or RELEASED, the answer to an earlier command, takes the machine to Released; the GRANTED is dropped there (loc_eng_agps.cpp:296) and the connection stays open |
| `HeldForSomebody` | `MCAgpsAfw` | a modem restart empties the list in Acquired without a RELEASE (loc_eng.cpp:2573): the connection stays open for nobody |
| `IgnoredUnanswered` | `MCNiSession` | the ordinary session that was told to ignore its request times out at that moment and answers it |
| `DroppedUnanswered` | `MCNiSession` | a request freed by the reset is still in the message its thread is about to send |
| `PendingKnown` | `MCNiSession` | the thread clears `reqID` after it gave the session up, and wipes the id of the next request |
| `StopCompletes` | `MCLocTimer` | a stop reads the state before it takes the mutex (loc_timer.c:194): the thread may have destroyed it or freed the timer; no code of the repository calls `loc_timer_stop` |
| `StoppedIsSilent` | `MCLocTimer` | a stop after the timeout and before the callback does not keep it from running |
| `ValidUntilCallback` | `MCLocTimer` | a spurious wake-up ends the timer without a callback |
| `PendingIsRequested` | `MCDsNif` | `AgpsReleasingState` goes to Pending although the call could not be opened (loc_eng_agps.cpp:562) and waits for a grant nobody was asked for |
| `AskedIsListed` | `MCDsNif` | a handle asked for again while its inactive subscriber is listed is not added |
| `FallbackIsFinal` | `MCDsNif` | a connection that fell back to ATL is reported open by the DS machine as well |
| `UnsubscribedIsGone` | `MCDsNif` | a release that comes in Released while a retry waits leaves the subscriber |
| `DeletionKept` | `MCLocEngine` | a second deletion of aiding data overwrites the mask of the one that waits for the engine to go off (loc_eng.cpp:1284); checked with `Aiding <- TwoBits` |
| `CleanupCloses` | `MCLocEngine` | a cleanup looks at the session before a queued start was handled |
| `RestartKeepsMode` | `MCLocEngine` | `setInSession(false)` forgets the mode before the session is started again |
| `ServersReachModem` | `MCLocSettings` | `loc_eng_set_server_proxy` buffers an early address in `loc_eng_data`, which `loc_eng_init` clears (loc_eng.cpp:1541); once the adapter exists nothing is buffered any more, so `loc_eng_agps_reinit` has nothing to send at any time |
| `SensorPropertiesKept` | `MCLocSettings` | reading sap.conf clears the validity bits that gps.conf set (loc_cfg.cpp:201), although the comment at loc_eng.cpp:1605 speaks of gps.conf |
| `ServerSurvivesRestart` | `MCLocSettings` | a restart of the modem does not send the server addresses again, since they were never buffered |
| `CleanupLocks` | `MCLocSettings` | the lock of a cleanup is sent to a modem that is down, and not again |
| `DataStatusKnown` | `MCLocSettings` | a new status is sent between the two steps of a `loc_eng_reinit`, which then sends the old one |
| `DataStatusSent` | `MCLocSettings` | a change without an APN is stored and not sent before the next restart |
| `RetriesLater` | `MCDmnConn` | a failed read is the server thread's last |
| `LaunchedServes` | `MCDmnConn` | a launch reports success although the pipe could not be opened |
| `WaitsUntilReady` | `MCDmnConn` | with `Spurious = TRUE` a launch returns before the thread is ready; then `NoStrayWrite` and `CallsReturn` fail as well, since an unblock writes to descriptor 0 and the thread is not woken |
| `NoCallThroughAHole` | `MCReports` | a removal empties a slot between the test and the call of a walk or of the reading of the mask (LocApiBase.h:47): a call through a null pointer |
| `AdapterIsSet` | `MCReports` | the adapter is registered before `loc_eng_data.adapter` is set: a position that is handled in between reads a null pointer (loc_eng.cpp:786) |
| `CellInfoAsked` | `MCRil` | `mRilVersion` is compared before this connection's version is set (d2lteRIL.java:256): the first connection never asks for cell information |

Further observations, visible in the definitions and not stated as properties:

- A single fix closes the session, and with it the position mode, before its
  sentences are made: they say "differential" for an autonomous fix
  (loc_eng.cpp:786, `ReadStandalone`). A second position without a satellite
  report in between is told with "no fix" in `$GPGSA`. `$GPRMC` says "valid" in
  its status also when its mode says "no fix" (`Rmc`), and `$GPVTG` tells the
  true track as the magnetic one, because the deviation is subtracted in a
  variable of an inner scope (loc_eng_nmea.cpp:222, `Vtg`).
- `removeAdapter` posts a mask to "remove the bit" (LocApiBase.cpp:197), which an
  open that adds does not do. Two threads that register at once could take the
  same slot (LocApiBase.cpp:158); in this repository one does.
- The raw data of a position is freed by every `LocEngAdapter` that was
  handed it, and by none when the session is muted (loc_eng.cpp:801).
  `gps_sv_cb` is cleared by the framework's thread between the test and the call
  on the MsgTask (loc.cpp:885).
- `loc_eng_xtra_inject_data` does not look whether there is an adapter, and does
  not "buffer the data if engine is busy" (loc_eng_xtra.cpp:123).
- A number of a configuration file is stored through an `int *`, also in
  `DEBUG_LEVEL` and `TIMESTAMP`, which are one byte wide (loc_cfg.cpp:129).
- `retryCallback` walks the list of the DS machine on the timer's thread
  (loc_eng_agps.cpp:842), the models take the walk as one step. `pthread_create`
  may fail and leave the NI session occupied until a restart (loc_eng_ni.cpp:180).
- A reply whose decoding throws in `d2lteRIL` leaves its requester unanswered: the
  request is off the list by then, and nothing catches what is thrown
  (d2lteRIL.java:343). `AccountedOnce` and `RepliedIsAnswered` count such a
  request as lost by its own reply.
- A reply with an error that carries data is decoded and answered as a success
  (d2lteRIL.java:336, `Decode`).

## 5. Proofs

Proved for every value of the constants that satisfies the modules' named
assumptions (`NifAssumption`, `MsgQAssumption`, ... : kinds of the constants,
finite receivers where cardinalities are compared), with no bound other than the
ones that appear as constants. Every invariant and every safety action property
that a passing run checks is a theorem; so is the safety part of the refinement.

### AgpsProofs: the machine, and the machine with the framework

The safety properties of `AgpsNifProps` are almost inductive together. `NifInv`
adds to their conjunction two facts: only a NIF that waits for the close has
inactive subscribers (without it an immediate NIF might be in Releasing and
`ListFitsState` would not survive a RELEASED), and an orphaned machine has an
empty list (so that the first new subscriber ends the exemption). One lemma per
event, then induction. `ListAlwaysFits`, `CommandAlwaysFits`, `UsersAlwaysKnow`,
`RequestsAreKept`, `OneUser` and `NifTyping` are its conjuncts,
`ViewsAlwaysAgree` and `RequestsAreServed` sum them up as the runs check them;
the action properties `ReleasedOnce` and `RequestedOnce` follow step by step from
it, and `CommandsAlternate` is both.

A step of the composition is a step of the machine or leaves it alone
(`AfwStepIsNifStep`), so what the machine promises it promises there as well:
`AfwViewsAgree`, `AfwServes`, `AfwHearsOnce`. Three theorems are about both.

- `UsersAlwaysCovered`: the machine reaches Acquired by taking a GRANTED, so
  `CoverInv` says the same of every GRANTED under way (`GrantCovered`): the
  connection is held, or its RELEASED stands behind it.
- `WaitersAreOwed`: a REQUEST that is taken by the framework becomes an answer,
  and a RELEASE that overtakes leaves one behind it. The delicate step is the
  framework's taking of a command that is not the last one; `LastFits` (the last
  command in the queue is the last that was sent) says what is left.
- `NothingLeaks`: `LeakInv` says of the states in which something is under way
  what `NoLeak` says of the quiet ones. `DropAsked`: what is held against the last
  command will be given up, that RELEASE is still to be taken. `GrantedSince`: a
  RELEASED on its way while the connection is held was followed by a new GRANTED.
  `Accounted`: a held connection is about to be given up, or its GRANTED is on its
  way, or the machine is in Acquired, or its GRANTED was dropped.

### MsgTaskProofs: the queue, the task and the channel

`QueueIsFifo`: the taken messages followed by the reversed list are the accepted
messages, an equality of sequences that each step extends or shifts.
`WakeupsAreKept`: one signal per message is enough, if a receiver waits then as
many others are awake as there are messages; the proof counts receivers
(`FiniteSetTheorems`) and needs that a signal wakes one of the waiting.

`MessagesAccountedFor`, `EndsOnlyWhenAsked` and `TaskQueueIsSound` are conjuncts
of `TaskInv`. An accounting by sets needs that no message is in the list or among
the taken twice: each is `<<sender, number>>`, and a sender's number is new
when it sends (`MadeOne`). `TaskIsAChannel` is the refinement: the initial state
is one of `MsgChannel`, and a step of the task is a step of the channel or
stutters (`ChannelInit`, `ChannelStep`), so `TaskSpec => Channel!ChanSafe`.
The fairness of `MsgChannel` speaks of `ENABLED` and is checked by the run.

### NiSessionProofs: network-initiated requests

The invariant `Sole`, for one payload: the answer to a request is with one NI
thread, in the queue or with the modem, and as long as nobody has taken the
payload (`Untaken`) nowhere. A thread takes it under the session's lock and gives
the lock away only after it has cleared `rawRequest` (`Clearing`), so the next
thread finds another payload or none, also when a reset and a new request have
changed it under a waiting thread: `ModemHearsOnce` needs no assumption about
restarts. `PayloadsHaveOwners` is the same invariant with the count of `free`s,
which a reset may spoil. For `OneAtATime`, `ServeInv` says that the request of a
thread is the one its session points to until it clears it, and that a request
which is stored and has no id yet (`RequestOpen` is due) is the next one and the
session's own.

### DataProofs: DS machine, timer, connection of the daemons

*The data call.* `CallView` lists, for each state of the machine, which phases of
the data call and which waiting reports are possible. It is inductive, and
`QuietWhenReleased`, `HeldWhenAcquired` and `ReportsOfOneCall` are read off;
`CallAlwaysFits` is all three.

*The timer.* `LockInv` ties the mutex to who is inside, and its end to the
thread's last two steps; `PhaseInv` says which states of the timer go with which
place of its thread, so that the one stop that aborts it is known to come before
the time-out (`StopSilences`) or not. `LockInv` speaks of the timer until its
thread gives up and unlocks the mutex itself; after that anyone may hold it. A
stopper is not called `Nobody`.

*The connection.* `ThreadKeepsFrame`: the pipe is `Chained`, whole messages but
for the rest of the one that is being read, and a thread that lost its place
(`Whole` does not hold) has `thread_exit` set and reads no more.
`WritesOnlyOpened`: `OpenInv` says that each way out of the launch lies behind the
opens, and `RequestInv` that who is answered was read from a pipe. It assumes
`Spurious = FALSE`; with spurious wake-ups the claim is false (section 4).
`RequestsAlwaysKept` rests on `KeptInv`: `sent` numbers the messages, `read` is
the number of the last one whose length was read, `from` the numbers of those
that were posted, increasing; and as long as no read failed the pipe is exactly
the rest of message `read`, if that is still to be read, and then two units for
each number above.

### LocEngineProofs: session, mute, deletion

`FrameworkAlwaysKnows` and `MuteAlwaysBounded`: each handler keeps what it needs,
so `FrameworkKnows` and `MuteIsBounded` are inductive as they stand.
`DeletionsWaitForAnEnd` needs the order of the messages of a restart
(`RestartOrder`): behind a `down` in the queue there is an `ssr` or an `up`, or
one is due, unless the modem is still down; and behind an `ssr` an `up`. So the
handler of `down`, which turns the engine off without a look at the data that
waits, never does so after the last message of a restart.

`SessionAlwaysMatches` uses the same order for the session. `SessionInv` adds that
a closed client of a running modem will be reopened and works on no fix
(`ClientReopens`), that with periodic fixes no single one is ever asked for, by
the messages in the queue either (`PeriodicOnly`), and the claim itself for the
states in which messages are under way (`FixFollowsSession`): a session without a
fix is one whose `up` is due, since that handler starts it again. `EngineTyping`
adds to `RestartInv`, which types what the order needs, the types of the rest.

### SettingsRilProofs: settings and radio

`DataStatusAlwaysAgrees` rests on `StatusInv`. Once there is an adapter, either
everything will be sent again (`Renewed`: the modem is down, or a message that
makes the MsgTask send it is due and opens the client first), or the client is
open and the status that is wanted is the last one on its way (`Newest`: in the
hands of a thread, the last of its kind in the queue, or with the modem).

`AlwaysConfigured` combines two facts. `ConfigRead`: reading gps.conf and sap.conf
leaves what the files say (`Says`). `ReadConf` is a recursive function; that it
exists is shown by a closed form, the value of each parameter after each line
being that of its last line so far, and that it is unique by the least line at
which two such functions differ. `TaughtInv`: what the modem was told and what is
on its way are values of the files (`AllGood`), and each parameter that is to be
told has been told, is on its way (`Covered`), or will be sent again
(`Renewed`).

`RequestsAccounted` is `AccountedOnce`, for one request at a time: `Account` adds
to it that a request that was not made is nowhere, which a new request needs.
`RepliesToldRight` is `ToldRight`: every reply in the socket or in the receiver's
hands `Fits` its request and, as long as the phone type is the one it was written
under, the layout; the operators' cache agrees with the table
(`CacheStaysAgreed`), and with an agreeing cache a lookup gives what it gives
without one (`LookupAgrees`).

### ReportsProofs: adapters and sentences

`ArrayInv` is the shape of the array of adapters between the steps of a removal:
no adapter stands twice, and nothing stands behind the first empty slot, but for
the hole that the removal made, the entry that it moves and its copy.
`SubscriptionInv` lists for each adapter why its events come or will be asked
for: they are in the mask, in a message under way, or in the reading that is
under way or before it; or the modem is down or a message to open it anew is due;
or a removal is under way, which ends with such a message. `WalkInv` says which
slots an `Undisturbed` walk has called, and that it finds in the slot whom it saw
there; with `ArrayInv` the adapters called are the adapters of the slots behind
it, once each. `SubscribedAlways` and `ReachesOnceAlways` follow.

`SentencesAlwaysAgree` is about the satellites and their DOP, which come with one
report and are told with the next positions. `CacheInv`: the cache holds those of
the latest report or none, and no DOP without satellites. That `$GPGSV` tells
every satellite of a constellation once, four to a page, is `PagesTell`, for any
report: `Stops` is a recursive function again, shown to exist by a closed form
(where a page ends depends only on how many of the constellation stand before it)
and to be right by its least counterexample, and a page is a part of what is
`Picked` from the report (`PickedPart` of `PickingProofs`).

### What is only model-checked

Liveness: `Answered`, `CloseHeard`, `Resolved`, `SessionFrees`, `Stops`,
`FreedInTheEnd`, `StopHonoured`, `CallsReturn`, `RepliedIsAnswered`, and with it
the fairness of `MsgChannel` in `IsChannel`. The proof system does not reason
about `ENABLED`.

## 6. Not modelled

- *Contexts*: singletons created at first use and the loading of libraries that
  are not in the repository; `loc_eng_init` asks for one context, once.
- *XTRA*: three calls that copy their arguments into a message; nothing is kept.
- *HAL interface*: the entry points that forward a call are the framework's
  actions of the modules behind them; `get_gps_interface` and `loc_init` are in
  `LocSettings` and `LocApi`.
- *Location engine*: injection of time and position, ZPP, and calls to the ULP,
  whose proxies do nothing in this repository.
- *Configuration*: the table of log levels, and the splitting of a line.
- *RIL*: signal strength, the activity manager's tool, dropped information
  records, the choice of the emergency call's request.
- *Logging, shared headers*: names and types, no state. Everything outside `gps/`
  and `ril/` is data of the device tree.

`PROJECT.json` names every component with its status, and lists under `hazards`
where things can go wrong.

## 7. Plan

Done: the AGPS machines with the framework, network-initiated sessions, queue and
task, timer and DS machine, location engine, settings with configuration and
target, adapters with reports and NMEA, data daemons, RIL. Next:

1. An abstract message stream as the specification of `DmnConn`, shown to be
   implemented: `RequestsAlwaysKept` has the mapping already.
2. Compositions: the engine's restart with the AGPS machines; the NI mute with
   the engine's session.
3. Address decoding of BIT requests against a reference.
