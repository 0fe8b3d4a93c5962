-------------------------------- MODULE DsNif --------------------------------
(***************************************************************************)
(* ds_nif: DSStateMachine of loc_eng_agps.cpp, the NIF of emergency SUPL   *)
(* connections.  It overrides three things of AgpsStateMachine: the data   *)
(* call is opened through the modem and may fail at once, a busy engine is *)
(* asked again after a delay, by a timer thread that posts the request of  *)
(* the first active subscriber once more, and a RELEASED that changes      *)
(* nothing is delivered again as DENIED.  A connection that cannot be      *)
(* served falls back to an ordinary ATL request (agnss_nif).               *)
(*                                                                         *)
(* All steps but RetryFires run on the MsgTask thread.  List order matters *)
(* here: the list is written from its head, the newest subscriber first.   *)
(***************************************************************************)
EXTENDS Naturals, Sequences, FiniteSets

CONSTANTS Conn,         \* the connection handles of the modem
          MaxRetries,   \* MAX_START_DATA_CALL_RETRIES
          MaxRequests   \* bound: requests the modem makes

ASSUME DsAssumption == MaxRetries \in Nat /\ MaxRequests \in Nat

VARIABLES
    mState,     \* the state of the machine
    list,       \* the handles of mSubscribers, each once
    inactive,   \* those whose mIsInactive is set
    mRetries,   \* how often the engine was busy
    timers,     \* delay timers that have not yet fired
    retries,    \* LocEngRequestSuplEs messages posted by retryCallback
    call,       \* the data call of the modem (external)
    events,     \* LocEngSuplEsOpened and -Closed messages
    told,       \* where each connection stands, as the modem sees it
    requests    \* how many requests the modem has made

dsVars == <<mState, list, inactive, mRetries, timers, retries, call, events,
            told, requests>>

Listed == {list[i] : i \in DOMAIN list}
Active == Listed \ inactive

DsInit ==
    /\ mState = "Released"
    /\ list = <<>>
    /\ inactive = {}
    /\ mRetries = 0
    /\ timers = 0
    /\ retries = <<>>
    /\ call = "none"
    /\ events = <<>>
    /\ told = [c \in Conn |-> "idle"]
    /\ requests = 0

-----------------------------------------------------------------------------
\* addSubscriber: the list with c in it.
Added(c) == IF c \in Listed THEN list ELSE <<c>> \o list

\* linked_list_search: the first element from the head that is one of match.
Search(l, match) ==
    LET n == CHOOSE i \in DOMAIN l : l[i] \in match /\ \A j \in 1 .. i - 1 : l[j] \notin match
    IN  l[n]

\* The search for BROADCAST_ACTIVE.
FirstActive(l, off) == Search(l, Conn \ off)

\* informStatus: what the modem is told of the connections of group.
Heard == [RSRC_UNSUBSCRIBE |-> "idle", RSRC_DENIED |-> "atl", RSRC_GRANTED |-> "open"]

InformStatus(view, group, status) ==
    [c \in Conn |-> IF c \in group THEN Heard[status] ELSE view[c]]

\* notifyRsrcStatus and setInactive of the DSSubscribers of group.
Notify(group, status) == told' = InformStatus(told, group, status)

(***************************************************************************)
(* sendRsrcRequest(GPS_REQUEST_AGPS_DATA_CONN) when the call cannot be     *)
(* opened: a busy engine is asked again later, a limited number of times,  *)
(* else the first active subscriber is handed to agnss_nif.  A timer that  *)
(* could not be started is not noticed, nor is a failure that has no case  *)
(* of its own.  The subscriber stays in the list whatever happens.         *)
(***************************************************************************)
OpenFails(l, off, view) ==
    \/ /\ mRetries + 1 <= MaxRetries
       /\ mRetries' = mRetries + 1
       /\ timers' \in {timers, timers + 1}
       /\ told' = view
       /\ UNCHANGED call
    \/ \* another value: logged, and nothing else
       /\ told' = view
       /\ UNCHANGED <<mRetries, timers, call>>
    \/ \* too often busy, not supported or failed
       /\ mRetries' = 0
       /\ told' = InformStatus(view, {FirstActive(l, off)}, "RSRC_DENIED")
       /\ UNCHANGED <<timers, call>>

OpenSucceeds(view) ==
    /\ call = "none"
    /\ call' = "starting"
    /\ told' = view
    /\ UNCHANGED <<mRetries, timers>>

\* sendRsrcRequest(GPS_RELEASE_AGPS_DATA_CONN), by the modem's state.
StopDataCall ==
    call' = IF call \in {"starting", "up"} THEN "stopping" ELSE call

-----------------------------------------------------------------------------
(* subscribeRsrc of connection c, whose view is view *)

SubscribeReleased(c, view) ==
    /\ mState = "Released"
    /\ list' = Added(c)
    /\ \/ OpenSucceeds(view) /\ mState' = "Pending"
       \/ OpenFails(list', inactive, view) /\ UNCHANGED mState
    /\ UNCHANGED <<inactive, events>>

SubscribeQueued(c, view) ==
    /\ mState \in {"Pending", "Releasing"}
    /\ list' = Added(c)
    /\ told' = view
    /\ UNCHANGED <<mState, inactive, mRetries, timers, call, events>>

SubscribeAcquired(c, view) ==
    /\ mState = "Acquired"
    /\ list' = Added(c)
    /\ told' = InformStatus(view, {c}, "RSRC_GRANTED")
    /\ UNCHANGED <<mState, inactive, mRetries, timers, call, events>>

Subscribe(c, view) ==
    \/ SubscribeReleased(c, view)
    \/ SubscribeQueued(c, view)
    \/ SubscribeAcquired(c, view)

\* The modem asks for a connection: LocEngRequestSuplEs.
Request(c) ==
    /\ told[c] = "idle"
    /\ requests < MaxRequests
    /\ requests' = requests + 1
    /\ Subscribe(c, [told EXCEPT ![c] = "asked"])
    /\ UNCHANGED retries

\* retryCallback, on the timer thread: it reads the list and posts.
RetryFires ==
    /\ timers > 0
    /\ timers' = timers - 1
    /\ retries' = IF Active = {} THEN retries
                  ELSE Append(retries, FirstActive(list, inactive))
    /\ UNCHANGED <<mState, list, inactive, mRetries, call, events, told, requests>>

\* The posted request is handled like one of the modem.
Retry ==
    /\ retries # <<>>
    /\ retries' = Tail(retries)
    /\ Subscribe(Head(retries), told)
    /\ UNCHANGED requests

-----------------------------------------------------------------------------
(* LocEngReleaseATL for a connection that the modem gives up *)

\* agnss_nif has it, after a fallback: ds_nif does not hear of it.
ReleaseElsewhere(c) ==
    /\ told[c] = "atl"
    /\ told' = [told EXCEPT ![c] = "idle"]
    /\ UNCHANGED <<mState, list, inactive, mRetries, timers, retries, call, events, requests>>

\* Nobody has it: atlCloseStatus(id, 0).
ReleaseUnknown(c) ==
    /\ told[c] \in {"asked", "open", "atl"}
    /\ c \notin Listed
    /\ told' = [told EXCEPT ![c] = "idle"]
    /\ UNCHANGED <<mState, list, inactive, mRetries, timers, retries, call, events, requests>>

\* AgpsReleasedState, RSRC_UNSUBSCRIBE: told, but left in the list.
ReleaseReleased(c) ==
    /\ told[c] \in {"asked", "open", "atl"}
    /\ c \in Listed
    /\ mState = "Released"
    /\ Notify({c}, "RSRC_UNSUBSCRIBE")
    /\ UNCHANGED <<mState, list, inactive, mRetries, timers, retries, call, events, requests>>

\* Mutant: the end of the stopped call is not waited for.
ReleaseHeldAtOnce(c) ==
    /\ told[c] \in {"asked", "open", "atl"}
    /\ c \in Listed
    /\ mState # "Released"
    /\ Notify({c}, "RSRC_UNSUBSCRIBE")
    /\ IF mState \in {"Pending", "Acquired"} /\ Active \subseteq {c}
       THEN mState' = "Released" /\ StopDataCall /\ list' = <<>> /\ inactive' = {}
       ELSE inactive' = inactive \cup {c} /\ UNCHANGED <<mState, call, list>>
    /\ UNCHANGED <<mRetries, timers, retries, events, requests>>

\* Otherwise it is marked inactive, which tells the modem that it is closed;
\* the last active one to go stops the data call.
ReleaseHeld(c) ==
    /\ told[c] \in {"asked", "open", "atl"}
    /\ c \in Listed
    /\ mState # "Released"
    /\ inactive' = inactive \cup {c}
    /\ Notify({c}, "RSRC_UNSUBSCRIBE")
    /\ IF mState \in {"Pending", "Acquired"} /\ Listed \subseteq inactive'
       THEN mState' = "Releasing" /\ StopDataCall
       ELSE UNCHANGED <<mState, call>>
    /\ UNCHANGED <<list, mRetries, timers, retries, events, requests>>

Release(c) ==
    ReleaseElsewhere(c) \/ ReleaseUnknown(c) \/ ReleaseReleased(c) \/ ReleaseHeld(c)

-----------------------------------------------------------------------------
(* DSStateMachine::onRsrcEvent *)

\* LocEngSuplEsOpened and LocEngSuplEsClosed: the next report of the call.
Report(event) == events # <<>> /\ Head(events) = event /\ events' = Tail(events)

\* RSRC_GRANTED: every active subscriber is told, if it was waited for.
Opened ==
    /\ Report("opened")
    /\ IF mState = "Pending"
       THEN /\ mState' = "Acquired"
            /\ Notify(Active, "RSRC_GRANTED")
       ELSE UNCHANGED <<mState, told>>
    /\ UNCHANGED <<list, inactive, mRetries, timers, retries, call, requests>>

\* RSRC_RELEASED in Acquired: the call is lost, the list is emptied.  The
\* subscribers are notified with closeDataCall, no connection is reported closed.
ClosedAcquired ==
    /\ mState = "Acquired"
    /\ mState' = "Released"
    /\ list' = <<>>
    /\ inactive' = {}
    /\ UNCHANGED <<told, mRetries, timers, call>>

\* In Pending RSRC_RELEASED changes nothing and becomes RSRC_DENIED: every
\* subscriber, in use or not, is handed to agnss_nif.
ClosedPending ==
    /\ mState = "Pending"
    /\ mState' = "Released"
    /\ list' = <<>>
    /\ inactive' = {}
    /\ Notify(Listed, "RSRC_DENIED")
    /\ mRetries' = IF Listed = {} THEN mRetries ELSE 0
    /\ UNCHANGED <<timers, call>>

\* In Releasing the inactive ones leave; for the others a call is requested.
\* The state becomes Pending even when that fails.
ClosedReleasing ==
    /\ mState = "Releasing"
    /\ list' = SelectSeq(list, LAMBDA c : c \notin inactive)
    /\ inactive' = {}
    /\ \/ /\ Active # {}
          /\ mState' = "Pending"
          /\ OpenSucceeds(told) \/ OpenFails(list', {}, told)
       \/ /\ Active = {}
          /\ mState' = "Released"
          /\ UNCHANGED <<told, mRetries, timers, call>>

\* In Released neither of the two events does anything.
ClosedReleased ==
    /\ mState = "Released"
    /\ UNCHANGED <<mState, list, inactive, told, mRetries, timers, call>>

Closed ==
    /\ Report("closed")
    /\ ClosedAcquired \/ ClosedPending \/ ClosedReleasing \/ ClosedReleased
    /\ UNCHANGED <<retries, requests>>

-----------------------------------------------------------------------------
(* The data call of the modem (external) *)

CallUp ==
    /\ call = "starting"
    /\ call' = "up"
    /\ events' = Append(events, "opened")
    /\ UNCHANGED <<mState, list, inactive, mRetries, timers, retries, told, requests>>

\* It could not be set up, was lost, or ends because it was stopped.
CallEnds ==
    /\ call # "none"
    /\ call' = "none"
    /\ events' = Append(events, "closed")
    /\ UNCHANGED <<mState, list, inactive, mRetries, timers, retries, told, requests>>

DsNext ==
    \/ \E c \in Conn : Request(c) \/ Release(c)
    \/ RetryFires \/ Retry
    \/ Opened \/ Closed
    \/ CallUp \/ CallEnds

DsSpec == DsInit /\ [][DsNext]_dsVars

-----------------------------------------------------------------------------
DsTypeOK ==
    /\ mState \in {"Released", "Pending", "Acquired", "Releasing"}
    /\ Listed \subseteq Conn /\ Cardinality(Listed) = Len(list)
    /\ inactive \subseteq Listed
    /\ mRetries \in 0 .. MaxRetries
    /\ call \in {"none", "starting", "up", "stopping"}
    /\ told \in [Conn -> {"idle", "asked", "open", "atl"}]

(***************************************************************************)
(* A machine in Released has nothing left of an earlier call: no call of   *)
(* the modem is open or on its way, and no report of one is waiting that   *)
(* the next request could take for its own (AgpsReleasedState opens the    *)
(* next call without asking for the state of the last one).                *)
(***************************************************************************)
ReleasedIsQuiet == mState = "Released" => call = "none" /\ events = <<>>

(***************************************************************************)
(* A call that ended is noticed: in Acquired the call is held, or its end  *)
(* is still to be heard of.                                                *)
(***************************************************************************)
AcquiredIsHeld == mState = "Acquired" => call = "up" \/ \E i \in DOMAIN events : events[i] = "closed"

(***************************************************************************)
(* At most one call at a time, and its reports in the order in which it    *)
(* makes them: what waits to be handled is never of two calls.             *)
(***************************************************************************)
OneCall == events \in {<<>>, <<"opened">>, <<"closed">>, <<"opened", "closed">>}

(***************************************************************************)
(* The machine, the data call and its reports never drift apart: a         *)
(* released machine has nothing left of an earlier call, an acquired one   *)
(* holds a call or will hear of its end, and no report of an old call      *)
(* waits beside one of the next.                                           *)
(***************************************************************************)
CallFitsState == ReleasedIsQuiet /\ AcquiredIsHeld /\ OneCall
=============================================================================
