------------------------------- MODULE LocApi ------------------------------
(***************************************************************************)
(* LocApiBase.cpp and LocAdapterBase.cpp: the client of the modem and the  *)
(* adapters that listen to it.  The modem's thread walks mLocAdapters for  *)
(* every report, request and restart; another thread adds and removes      *)
(* adapters, in several assignments and with no lock; the MsgTask asks for *)
(* the events of the adapters when it is told to (LocOpenMsg) and after a  *)
(* modem restart (LocSsrMsg), for which it walks the array, too.           *)
(*                                                                         *)
(* `hal' is the LocEngAdapter of this repository, registered once, never   *)
(* removed; the others belong to other libraries.  One thread at a time    *)
(* adds or removes.  open(mask) is the client library's, which is not      *)
(* here: that it adds to the events the modem is asked for is an           *)
(* assumption.                                                             *)
(*                                                                         *)
(* A walk looks whether a slot is empty and then calls through it, and the *)
(* compiled code may do so with the adapter it saw or read the slot again: *)
(* if the slot has become empty meanwhile, that is the end of the process. *)
(***************************************************************************)
EXTENDS Integers, Sequences, FiniteSets

CONSTANTS Adapter, hal,
          MAX_ADAPTERS,
          MaxChanges,   \* bound: additions and removals of other adapters
          MaxRestarts,  \* bound: modem restarts
          MaxEvents     \* bound: reports and requests of the modem

None  == "none"
Crash == "crash"   \* the call went through an empty slot

ASSUME LocApiAssumption ==
    /\ hal \in Adapter /\ None \notin Adapter /\ Crash \notin Adapter
    /\ IsFiniteSet(Adapter) /\ Cardinality(Adapter) <= MAX_ADAPTERS
    /\ MAX_ADAPTERS \in Nat /\ MaxChanges \in Nat /\ MaxRestarts \in Nat /\ MaxEvents \in Nat

Slot == 0 .. MAX_ADAPTERS - 1

VARIABLES
    mLocAdapters,
    registrar,  \* what the thread that adds and removes is doing, to whom, and the index i
    stage,      \* how far loc_init is with the adapter hal
    queue,      \* messages of the MsgTask: for this client, and reports for the engine
    scan,       \* the MsgTask in getEvtMask: the next index, whom it saw there, the mask so far
    opened,     \* mMask: the adapters whose events the modem sends
    up,         \* the modem is up
    walk,       \* the modem's thread in a loop over the adapters
    changes, restarts, events

AtRest == [pc |-> "rest", who |-> None, hole |-> 0]
NoScan == [next |-> -1, saw |-> None, mask |-> {}]

\* saw: whom the walk saw in the slot next and has not called yet; present:
\* the adapters registered when it began; reached: how often it called each; disturbed: a removal was under way; taken: a request was
\* handled by one of them; ready: hal would have.
NoWalk == [event |-> "none", next |-> -1, saw |-> None, present |-> {}, reached |-> [a \in Adapter |-> 0],
           disturbed |-> FALSE, taken |-> 0, ready |-> FALSE]

clientVars == <<mLocAdapters, registrar, stage, changes>>
modemVars  == <<up, walk, restarts, events>>
taskVars   == <<queue, scan, opened>>
apiVars    == <<clientVars, modemVars, taskVars>>

ApiInit ==
    /\ mLocAdapters = [i \in Slot |-> None]
    /\ registrar = AtRest
    /\ stage = "none"
    /\ queue = <<>> /\ scan = NoScan /\ opened = {}
    /\ up = TRUE /\ walk = NoWalk
    /\ changes = 0 /\ restarts = 0 /\ events = 0

Registered == {mLocAdapters[i] : i \in Slot} \ {None}

\* TO_ALL_ADAPTERS and TO_1ST_HANDLING_ADAPTER go on at index i.
GoesOn(i) == i \in Slot /\ mLocAdapters[i] # None

\* Whom a walk that looked calls.
Callee(w) == {w.saw, mLocAdapters[w.next]}

\* It looked, and has yet to call.
Looked(w) == w.saw \notin {None, Crash}

\* getEvtMask with nobody changing the array under it.
EvtMask == {mLocAdapters[i] : i \in {j \in Slot : \A k \in 0 .. j : mLocAdapters[k] # None}}

Open(mask) == [msg |-> "open", mask |-> mask]
Ssr        == [msg |-> "ssr", mask |-> {}]
-----------------------------------------------------------------------------
(* Adding and removing *)

\* addAdapter takes the first free slot ...
AddStore(a) ==
    /\ registrar.pc = "rest" /\ a \notin Registered
    /\ IF a = hal THEN stage = "none" /\ stage' = "base" /\ UNCHANGED changes
                  ELSE changes < MaxChanges /\ changes' = changes + 1 /\ UNCHANGED stage
    /\ \E i \in Slot :
           /\ mLocAdapters[i] = None /\ \A j \in 0 .. i - 1 : mLocAdapters[j] # None
           /\ mLocAdapters' = [mLocAdapters EXCEPT ![i] = a]
    /\ registrar' = [pc |-> "post", who |-> a, hole |-> 0]
    /\ UNCHANGED <<modemVars, taskVars>>

\* ... and asks the MsgTask to open for the events of that adapter.
AddPost ==
    /\ registrar.pc = "post"
    /\ queue' = Append(queue, Open({registrar.who}))
    /\ registrar' = AtRest
    /\ UNCHANGED <<mLocAdapters, stage, changes, modemVars, scan, opened>>

\* removeAdapter leaves a hole, fills it with the last adapter, clears the
\* slot of the last, and then closes the client or tells it what is left.
RemoveHole(a) ==
    /\ registrar.pc = "rest" /\ a # hal /\ changes < MaxChanges
    /\ \E i \in Slot :
           /\ mLocAdapters[i] = a
           /\ mLocAdapters' = [mLocAdapters EXCEPT ![i] = None]
           /\ registrar' = [pc |-> "move", who |-> a, hole |-> i]
    /\ changes' = changes + 1
    /\ walk' = IF walk = NoWalk THEN walk ELSE [walk EXCEPT !.disturbed = TRUE]
    /\ UNCHANGED <<stage, up, restarts, events, taskVars>>

\* The index of the last adapter of the array, which may be the hole.
LastIndex(hole) ==
    LET free == {i \in Slot : i > hole /\ mLocAdapters[i] = None}
    IN  IF free = {} THEN MAX_ADAPTERS - 1
        ELSE (CHOOSE i \in free : \A j \in free : i <= j) - 1

RemoveMove ==
    /\ registrar.pc = "move"
    /\ mLocAdapters' = [mLocAdapters EXCEPT ![registrar.hole] =
                            mLocAdapters[LastIndex(registrar.hole)]]
    /\ registrar' = [registrar EXCEPT !.pc = "clear"]
    /\ UNCHANGED <<stage, changes, modemVars, taskVars>>

\* Mutant: the slot of the adapter that was moved is not cleared.
RemoveClearNothing ==
    /\ registrar.pc = "clear"
    /\ registrar' = [registrar EXCEPT !.pc = IF LastIndex(registrar.hole) = 0 THEN "close" ELSE "repost"]
    /\ UNCHANGED <<mLocAdapters, stage, changes, modemVars, taskVars>>

RemoveClear ==
    /\ registrar.pc = "clear"
    /\ LET last == LastIndex(registrar.hole)
       IN  /\ mLocAdapters' = [mLocAdapters EXCEPT ![last] = None]
           /\ registrar' = [registrar EXCEPT !.pc = IF last = 0 THEN "close" ELSE "repost"]
    /\ UNCHANGED <<stage, changes, modemVars, taskVars>>

RemoveClose ==
    /\ registrar.pc = "close"
    /\ opened' = {}
    /\ registrar' = AtRest
    /\ UNCHANGED <<mLocAdapters, stage, changes, modemVars, queue, scan>>

\* Mutant: the client is told nothing of a removal.
RemoveRepostNothing ==
    /\ registrar.pc = "repost"
    /\ registrar' = AtRest
    /\ UNCHANGED <<mLocAdapters, stage, changes, modemVars, taskVars>>

RemoveRepost ==
    /\ registrar.pc = "repost"
    /\ queue' = Append(queue, Open(EvtMask))
    /\ registrar' = AtRest
    /\ UNCHANGED <<mLocAdapters, stage, changes, modemVars, scan, opened>>

\* The constructor of LocAdapterBase has registered hal; while its own
\* constructor runs, its methods are those of the base class.
Construct ==
    /\ stage = "base" /\ registrar.who # hal
    /\ stage' = "built"
    /\ UNCHANGED <<mLocAdapters, registrar, changes, modemVars, taskVars>>

\* loc_eng_data.adapter is set, and later mSupportsAgpsRequests.
Assign ==
    /\ stage = "built"
    /\ stage' = "assigned"
    /\ UNCHANGED <<mLocAdapters, registrar, changes, modemVars, taskVars>>

Support ==
    /\ stage = "assigned"
    /\ stage' = "ready"
    /\ UNCHANGED <<mLocAdapters, registrar, changes, modemVars, taskVars>>
-----------------------------------------------------------------------------
(* The MsgTask *)

\* Opening fails while the modem is down.
DoOpen ==
    /\ scan = NoScan /\ queue # <<>> /\ Head(queue).msg = "open"
    /\ opened' = IF up THEN opened \cup Head(queue).mask ELSE opened
    /\ queue' = Tail(queue)
    /\ UNCHANGED <<clientVars, modemVars, scan>>

DoSsr ==
    /\ scan = NoScan /\ queue # <<>> /\ Head(queue).msg = "ssr"
    /\ opened' = {}
    /\ scan' = [NoScan EXCEPT !.next = 0]
    /\ queue' = Tail(queue)
    /\ UNCHANGED <<clientVars, modemVars>>

ScanLook ==
    /\ scan.next >= 0 /\ scan.saw = None /\ GoesOn(scan.next)
    /\ scan' = [scan EXCEPT !.saw = mLocAdapters[scan.next]]
    /\ UNCHANGED <<clientVars, modemVars, queue, opened>>

ScanStep ==
    /\ Looked(scan)
    /\ \E a \in Callee(scan) :
           scan' = IF a = None THEN [scan EXCEPT !.saw = Crash]
                   ELSE [next |-> scan.next + 1, saw |-> None, mask |-> scan.mask \cup {a}]
    /\ UNCHANGED <<clientVars, modemVars, queue, opened>>

ScanEnd ==
    /\ scan.next >= 0 /\ scan.saw = None /\ ~GoesOn(scan.next)
    /\ opened' = IF up THEN opened \cup scan.mask ELSE opened
    /\ scan' = NoScan
    /\ UNCHANGED <<clientVars, modemVars, queue>>
-----------------------------------------------------------------------------
(* The modem's thread *)

Removing == registrar.pc \in {"move", "clear"}

WalkStart(event) ==
    walk' = [NoWalk EXCEPT !.event = event, !.next = 0, !.present = Registered,
                           !.disturbed = Removing, !.ready = (stage = "ready")]

\* A position, a satellite report, or a request that one adapter handles.
Event(event) ==
    /\ up /\ opened # {} /\ walk = NoWalk /\ events < MaxEvents
    /\ WalkStart(event)
    /\ events' = events + 1
    /\ UNCHANGED <<clientVars, up, restarts, taskVars>>

WalkLook ==
    /\ walk.next >= 0 /\ walk.saw = None /\ walk.taken = 0 /\ GoesOn(walk.next)
    /\ walk' = [walk EXCEPT !.saw = mLocAdapters[walk.next]]
    /\ UNCHANGED <<clientVars, up, restarts, events, taskVars>>

\* What the call of an adapter posts: hal posts reports when it is built,
\* with the proxy of no ULP; its messages to other components are theirs.
Posted(a) == IF a = hal /\ stage # "base" /\ walk.event \in {"position", "sv"}
             THEN <<[msg |-> walk.event, mask |-> {}]>> ELSE <<>>

\* Every request of LocEngAdapter asks for mSupportsAgpsRequests.
WalkStep(handles) ==
    /\ Looked(walk)
    /\ \E a \in Callee(walk) \ {None} :
           /\ handles => walk.event = "request"
           /\ a = hal /\ walk.event = "request" => handles = (stage = "ready")
           /\ walk' = [walk EXCEPT !.next = @ + 1, !.saw = None, !.reached[a] = @ + 1,
                                   !.taken = IF handles THEN @ + 1 ELSE @]
           /\ queue' = queue \o Posted(a)
    /\ UNCHANGED <<clientVars, up, restarts, events, scan, opened>>

WalkCrash ==
    /\ Looked(walk) /\ None \in Callee(walk)
    /\ walk' = [walk EXCEPT !.saw = Crash]
    /\ UNCHANGED <<clientVars, up, restarts, events, taskVars>>

WalkOver == walk.next >= 0 /\ walk.saw = None /\ (walk.taken > 0 \/ ~GoesOn(walk.next))

WalkEnd ==
    /\ WalkOver
    /\ walk' = NoWalk
    /\ UNCHANGED <<clientVars, up, restarts, events, taskVars>>

Down ==
    /\ up /\ walk = NoWalk /\ restarts < MaxRestarts
    /\ up' = FALSE /\ opened' = {}
    /\ restarts' = restarts + 1
    /\ WalkStart("down")
    /\ UNCHANGED <<clientVars, events, queue, scan>>

\* handleEngineUpEvent
Recover ==
    /\ ~up /\ walk = NoWalk
    /\ up' = TRUE
    /\ queue' = Append(queue, Ssr)
    /\ WalkStart("up")
    /\ UNCHANGED <<clientVars, restarts, events, scan, opened>>

ApiNext ==
    \/ \E a \in Adapter : AddStore(a) \/ RemoveHole(a)
    \/ AddPost \/ RemoveMove \/ RemoveClear \/ RemoveClose \/ RemoveRepost
    \/ Construct \/ Assign \/ Support
    \/ DoOpen \/ DoSsr \/ ScanLook \/ ScanStep \/ ScanEnd
    \/ \E event \in {"position", "sv", "request"} : Event(event)
    \/ WalkLook \/ WalkCrash \/ WalkEnd
    \/ \E handles \in BOOLEAN : WalkStep(handles)
    \/ Down \/ Recover
-----------------------------------------------------------------------------
\* No walk has called through an empty slot.
CallsReach == scan.saw # Crash /\ walk.saw # Crash

\* Nothing that changes the subscription is under way.
Quiet ==
    /\ registrar.pc = "rest" /\ scan = NoScan /\ up
    /\ \A i \in DOMAIN queue : queue[i].msg \notin {"open", "ssr"}

(***************************************************************************)
(* When nothing is under way the modem sends the events of every adapter   *)
(* that is registered: also when adapters were added or removed while the  *)
(* modem restarted and the MsgTask read the array, or found a hole in it.  *)
(***************************************************************************)
Subscribed == Quiet => Registered \subseteq opened

(***************************************************************************)
(* A walk that no removal overlaps calls every adapter that was registered *)
(* when it began once, and one added meanwhile once at most; a request is  *)
(* handled by one adapter at most, and by one if hal was ready for it.     *)
(***************************************************************************)
ReachesOnce ==
    WalkOver /\ ~walk.disturbed =>
        /\ walk.event # "request" => \A a \in walk.present : walk.reached[a] = 1
        /\ \A a \in Adapter : walk.reached[a] <= 1
        /\ walk.event = "request" /\ walk.ready => walk.taken = 1
=============================================================================
