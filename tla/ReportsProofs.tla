---------------------------- MODULE ReportsProofs ----------------------------
(***************************************************************************)
(* Theorems about Reports, for any adapters, size of the array, reports,   *)
(* positions and bounds: Subscribed and ReachesOnce of LocApi, and that    *)
(* the sentences of a report agree with each other and with the report.    *)
(*                                                                         *)
(* The first two rest on ArrayInv, the shape of mLocAdapters between the   *)
(* steps of a removal.  SubscriptionInv lists the reasons for which the    *)
(* events of an adapter come or will be asked for, and WalkInv what a walk *)
(* has called.  CacheInv says of which report the cache of Nmea is, and    *)
(* PagesTell that the pages of $GPGSV tell every satellite once.           *)
(***************************************************************************)
EXTENDS Reports, PickingProofs

\* What the MsgTask may be sent.
Msg == [msg : {"open", "ssr", "position", "sv"}, mask : SUBSET Adapter]

Saw == Adapter \cup {None, Crash}

Walk == [event : {"none", "position", "sv", "request", "down", "up"}, next : Int, saw : Saw,
         present : SUBSET Adapter, reached : [Adapter -> Nat], disturbed : BOOLEAN,
         taken : 0 .. 1, ready : BOOLEAN]

ApiTyped ==
    /\ mLocAdapters \in [Slot -> Adapter \cup {None}]
    /\ registrar \in [pc : {"rest", "post", "move", "clear", "close", "repost"},
                      who : Adapter \cup {None}, hole : Nat]
    /\ registrar.pc = "post" => registrar.who \in Adapter
    /\ stage \in {"none", "base", "built", "assigned", "ready", "crashed"}
    /\ queue \in Seq(Msg)
    /\ scan \in [next : Int, saw : Saw, mask : SUBSET Adapter] /\ (scan = NoScan \/ scan.next \in Nat)
    /\ Looked(scan) => scan.next \in Slot
    /\ opened \subseteq Adapter /\ up \in BOOLEAN
    /\ walk \in Walk /\ (walk = NoWalk \/ walk.next \in Nat)
    /\ Looked(walk) => walk.next \in Slot /\ walk.taken = 0

\* The adapters fill the array from its first slot on, but for one slot.
GaplessBut(hole) ==
    \A i, j \in Slot : j < i /\ mLocAdapters[i] # None => mLocAdapters[j] # None \/ j = hole

\* No adapter is in two slots, but for one slot.
OnceBut(slot) ==
    \A i, j \in Slot \ {slot} : mLocAdapters[i] = mLocAdapters[j] /\ mLocAdapters[i] # None => i = j

\* The array at each step of a removal.
ArrayInv ==
    /\ ~Removing => GaplessBut(-1) /\ OnceBut(-1)
    /\ Removing => registrar.hole \in Slot /\ GaplessBut(registrar.hole)
    /\ registrar.pc = "move" => mLocAdapters[registrar.hole] = None /\ OnceBut(-1)
    /\ registrar.pc = "clear" =>
          /\ mLocAdapters[registrar.hole] = mLocAdapters[LastIndex(registrar.hole)]
          /\ LastIndex(registrar.hole) = registrar.hole => mLocAdapters[registrar.hole] = None
          /\ OnceBut(LastIndex(registrar.hole))
    /\ registrar.pc = "close" => Registered = {}
    /\ stage # "none" => hal \in Registered

OpenDue(a) == \E i \in DOMAIN queue : queue[i].msg = "open" /\ a \in queue[i].mask
SsrDue     == \E i \in DOMAIN queue : queue[i].msg = "ssr"

\* The MsgTask, if it is in getEvtMask, has asked a or will ask it.
Scans(a) ==
    \/ a \in scan.mask
    \/ \E i \in Slot : /\ scan.next <= i /\ mLocAdapters[i] = a
                       /\ \A j \in scan.next .. i : mLocAdapters[j] # None
                       /\ i = scan.next => scan.saw \in {None, a}

\* Why an adapter's events come, or will be asked for.
Covered(a) ==
    \/ a \in opened
    \/ registrar.pc = "post" /\ registrar.who = a
    \/ OpenDue(a)
    \/ ~up \/ SsrDue
    \/ scan.next >= 0 /\ Scans(a)
    \/ Removing \/ registrar.pc = "repost"

SubscriptionInv == \A a \in Registered : Covered(a)

\* Of a walk that no removal overlaps: the slots before the next index are
\* those of the adapters that were called, and they do not change.
Undisturbed ==
    /\ ~Removing
    /\ walk.saw # Crash
    /\ Looked(walk) => walk.saw = mLocAdapters[walk.next]
    /\ walk.present \subseteq Registered
    /\ \A i \in Slot : i < walk.next => mLocAdapters[i] # None
    /\ \A a \in Adapter :
           walk.reached[a] = IF \E i \in Slot : i < walk.next /\ mLocAdapters[i] = a THEN 1 ELSE 0
    /\ walk.event = "request" /\ walk.ready /\ walk.taken = 0 =>
           \A i \in Slot : i < walk.next => mLocAdapters[i] # hal

WalkInv ==
    /\ walk.event # "request" => walk.taken = 0
    /\ walk.ready => stage = "ready"
    /\ walk.next >= 0 /\ ~walk.disturbed => Undisturbed

ApiInv == ApiTyped /\ ArrayInv /\ SubscriptionInv /\ WalkInv

-----------------------------------------------------------------------------
(* The array and the queue *)

LEMMA SlotIs == MAX_ADAPTERS \in Nat /\ Slot = 0 .. MAX_ADAPTERS - 1
  BY LocApiAssumption DEF Slot

LEMMA NoneIsNone == hal \in Adapter /\ None \notin Adapter
  BY LocApiAssumption

\* Above the last index the array is empty, and below it, as far as the hole
\* that was made, it is full.
LEMMA LastIndexIs ==
    ASSUME ApiTyped, NEW h \in Slot, GaplessBut(h)
    PROVE  /\ LastIndex(h) \in Slot /\ h <= LastIndex(h)
           /\ \A i \in Slot : h < i /\ i <= LastIndex(h) => mLocAdapters[i] # None
           /\ \A i \in Slot : LastIndex(h) < i => mLocAdapters[i] = None
<1> DEFINE free == {i \in Slot : i > h /\ mLocAdapters[i] = None}
<1>0. h \in Nat /\ h <= MAX_ADAPTERS - 1 /\ MAX_ADAPTERS \in Nat
  BY SlotIs
<1>1. CASE free = {}
  <2>1. LastIndex(h) = MAX_ADAPTERS - 1
    BY <1>1 DEF LastIndex
  <2>2. \A i \in Slot : h < i => mLocAdapters[i] # None
    BY <1>1
  <2> QED BY <1>0, <2>1, <2>2, SlotIs
<1>2. CASE free # {}
  <2> DEFINE m == CHOOSE i \in free : \A j \in free : i <= j
  <2>1. free \subseteq Nat
    BY SlotIs
  <2>2. m \in free /\ \A j \in free : m <= j
    <3> HIDE DEF free
    <3> QED BY <1>2, <2>1, LeastNatural
  <2>3. LastIndex(h) = m - 1
    BY <1>2 DEF LastIndex
  <2> HIDE DEF m
  <2>4. m \in Slot /\ m > h /\ mLocAdapters[m] = None
    BY <2>2
  <2>5. m - 1 \in Slot /\ h <= m - 1
    BY <1>0, <2>4, SlotIs
  <2>6. ASSUME NEW i \in Slot, h < i, i <= m - 1 PROVE mLocAdapters[i] # None
    BY <2>2, <2>4, <2>6, SlotIs
  <2>7. ASSUME NEW i \in Slot, m - 1 < i PROVE mLocAdapters[i] = None
    <3>1. i = m \/ m < i
      BY <2>4, <2>7, SlotIs
    <3>2. CASE m < i
      BY <2>4, <3>2, <1>0, SlotIs DEF GaplessBut
    <3> QED BY <2>4, <3>1, <3>2
  <2> QED BY <2>3, <2>5, <2>6, <2>7
<1> QED BY <1>1, <1>2

LEMMA QueueGrows ==
    ASSUME queue \in Seq(Msg), NEW m \in Msg, queue' = Append(queue, m)
    PROVE  /\ queue' \in Seq(Msg)
           /\ \A a : OpenDue(a) => OpenDue(a)'
           /\ SsrDue => SsrDue'
           /\ m.msg = "ssr" => SsrDue'
           /\ m.msg = "open" => \A a \in m.mask : OpenDue(a)'
<1>1. /\ queue' \in Seq(Msg) /\ Len(queue) \in Nat
      /\ DOMAIN queue = 1 .. Len(queue) /\ DOMAIN queue' = 1 .. Len(queue) + 1
      /\ queue'[Len(queue) + 1] = m /\ \A i \in 1 .. Len(queue) : queue'[i] = queue[i]
  OBVIOUS
<1>2. Len(queue) + 1 \in DOMAIN queue'
  BY <1>1
<1>3. \A i \in DOMAIN queue : i \in DOMAIN queue' /\ queue'[i] = queue[i]
  BY <1>1
<1> QED BY <1>1, <1>2, <1>3 DEF OpenDue, SsrDue

LEMMA QueueShrinks ==
    ASSUME queue \in Seq(Msg), queue # <<>>, queue' = Tail(queue)
    PROVE  /\ queue' \in Seq(Msg) /\ Head(queue) \in Msg
           /\ \A a : OpenDue(a) => \/ OpenDue(a)'
                                   \/ Head(queue).msg = "open" /\ a \in Head(queue).mask
           /\ SsrDue => SsrDue' \/ Head(queue).msg = "ssr"
<1>1. /\ queue' \in Seq(Msg) /\ Len(queue) \in Nat /\ Len(queue) > 0
      /\ Head(queue) = queue[1] /\ Head(queue) \in Msg
      /\ DOMAIN queue = 1 .. Len(queue) /\ DOMAIN queue' = 1 .. Len(queue) - 1
      /\ \A i \in 1 .. Len(queue) - 1 : queue'[i] = queue[i + 1]
  OBVIOUS
<1>2. \A i \in DOMAIN queue : i = 1 \/ (i - 1 \in DOMAIN queue' /\ queue'[i - 1] = queue[i])
  BY <1>1
<1> QED BY <1>1, <1>2 DEF OpenDue, SsrDue

-----------------------------------------------------------------------------
(* The steps: each keeps the types *)

LEMMA InitTyped == ReportsInit => ApiTyped
<1> SUFFICES ASSUME ReportsInit PROVE ApiTyped
  OBVIOUS
<1>1. /\ mLocAdapters \in [Slot -> Adapter \cup {None}]
      /\ registrar \in [pc : {"rest", "post", "move", "clear", "close", "repost"},
                        who : Adapter \cup {None}, hole : Nat]
      /\ stage = "none" /\ opened = {} /\ up = TRUE
      /\ registrar.pc # "post"
  BY DEF ReportsInit, ApiInit, AtRest
<1>2. queue \in Seq(Msg)
  BY DEF ReportsInit, ApiInit
<1>3. scan \in [next : Int, saw : Saw, mask : SUBSET Adapter] /\ scan = NoScan /\ ~Looked(scan)
  BY DEF ReportsInit, ApiInit, NoScan, Saw, Looked
<1>4. walk \in Walk /\ walk = NoWalk /\ ~Looked(walk)
  BY DEF ReportsInit, ApiInit, NoWalk, Walk, Saw, Looked
<1> QED BY <1>1, <1>2, <1>3, <1>4 DEF ApiTyped

\* A step of the thread that adds and removes.
Registrar ==
    \/ \E a \in Adapter : AddStore(a) \/ RemoveHole(a)
    \/ AddPost \/ RemoveMove \/ RemoveClear \/ RemoveClose \/ RemoveRepost
    \/ Construct \/ Assign \/ Support

LEMMA EvtMaskTyped == ApiTyped => EvtMask \subseteq Adapter
<1> SUFFICES ASSUME ApiTyped, NEW i \in Slot, \A k \in 0 .. i : mLocAdapters[k] # None
             PROVE  mLocAdapters[i] \in Adapter
  BY DEF EvtMask
<1>1. i \in 0 .. i
  BY SlotIs
<1> QED BY <1>1 DEF ApiTyped

LEMMA RegistrarTyped == ApiInv /\ Registrar => ApiTyped'
<1> SUFFICES ASSUME ApiInv, Registrar PROVE ApiTyped'
  OBVIOUS
<1>0. ApiTyped
  BY DEF ApiInv
<1>1. ASSUME NEW a \in Adapter, AddStore(a) PROVE ApiTyped'
  <2>1. mLocAdapters' \in [Slot -> Adapter \cup {None}]
    BY <1>0, <1>1 DEF AddStore, ApiTyped
  <2>2. /\ registrar' \in [pc : {"rest", "post", "move", "clear", "close", "repost"},
                           who : Adapter \cup {None}, hole : Nat]
        /\ registrar'.who \in Adapter
    BY <1>1 DEF AddStore
  <2>3. stage' \in {"none", "base", "built", "assigned", "ready", "crashed"}
    BY <1>0, <1>1 DEF AddStore, ApiTyped
  <2> QED BY <1>0, <1>1, <2>1, <2>2, <2>3 DEF AddStore, ApiTyped, modemVars, taskVars
<1>2. ASSUME NEW a \in Adapter, RemoveHole(a) PROVE ApiTyped'
  <2>1. PICK i \in Slot : /\ mLocAdapters' = [mLocAdapters EXCEPT ![i] = None]
                          /\ registrar' = [pc |-> "move", who |-> a, hole |-> i]
    BY <1>2 DEF RemoveHole
  <2>2. mLocAdapters' \in [Slot -> Adapter \cup {None}]
    BY <1>0, <2>1 DEF ApiTyped
  <2>3. /\ registrar' \in [pc : {"rest", "post", "move", "clear", "close", "repost"},
                           who : Adapter \cup {None}, hole : Nat]
        /\ registrar'.pc = "move"
    BY <2>1, SlotIs
  <2>4. /\ walk' \in Walk /\ (walk' = NoWalk \/ walk'.next \in Nat)
        /\ walk'.saw = walk.saw /\ walk'.next = walk.next /\ walk'.taken = walk.taken
    BY <1>0, <1>2 DEF RemoveHole, ApiTyped, Walk
  <2> QED BY <1>0, <1>2, <2>2, <2>3, <2>4 DEF RemoveHole, ApiTyped, Looked, taskVars
<1>3. CASE AddPost
  <2>1. Open({registrar.who}) \in Msg
    BY <1>0, <1>3 DEF Open, Msg, ApiTyped, AddPost
  <2> QED BY <1>0, <1>3, <2>1, QueueGrows DEF AddPost, ApiTyped, AtRest, modemVars
<1>4. CASE RemoveMove
  <2>1. registrar.hole \in Slot /\ GaplessBut(registrar.hole)
    BY <1>4 DEF RemoveMove, ApiInv, ArrayInv, Removing
  <2>2. LastIndex(registrar.hole) \in Slot
    BY <1>0, <2>1, LastIndexIs
  <2>3. mLocAdapters' \in [Slot -> Adapter \cup {None}]
    BY <1>0, <1>4, <2>2 DEF RemoveMove, ApiTyped
  <2>4. /\ registrar' \in [pc : {"rest", "post", "move", "clear", "close", "repost"},
                           who : Adapter \cup {None}, hole : Nat]
        /\ registrar'.pc = "clear"
    BY <1>0, <1>4 DEF RemoveMove, ApiTyped
  <2> QED BY <1>0, <1>4, <2>3, <2>4 DEF RemoveMove, ApiTyped, modemVars, taskVars
<1>5. CASE RemoveClear
  <2>1. mLocAdapters' \in [Slot -> Adapter \cup {None}]
    BY <1>0, <1>5 DEF RemoveClear, ApiTyped
  <2>2. /\ registrar' \in [pc : {"rest", "post", "move", "clear", "close", "repost"},
                           who : Adapter \cup {None}, hole : Nat]
        /\ registrar'.pc # "post"
    BY <1>0, <1>5 DEF RemoveClear, ApiTyped
  <2> QED BY <1>0, <1>5, <2>1, <2>2 DEF RemoveClear, ApiTyped, modemVars, taskVars
<1>6. CASE RemoveClose
  BY <1>0, <1>6 DEF RemoveClose, ApiTyped, AtRest, modemVars
<1>7. CASE RemoveRepost
  <2>1. Open(EvtMask) \in Msg
    BY <1>0, EvtMaskTyped DEF Open, Msg
  <2> QED BY <1>0, <1>7, <2>1, QueueGrows DEF RemoveRepost, ApiTyped, AtRest, modemVars
<1>8. CASE Construct \/ Assign \/ Support
  BY <1>0, <1>8 DEF Construct, Assign, Support, ApiTyped, modemVars, taskVars
<1> QED BY <1>1, <1>2, <1>3, <1>4, <1>5, <1>6, <1>7, <1>8 DEF Registrar

\* A step of the MsgTask that concerns the client, or that handles a report.
TaskStep ==
    \/ DoOpen \/ DoSsr \/ ScanLook \/ ScanStep \/ ScanEnd
    \/ \E muted \in BOOLEAN : \/ \E r \in SvReport : DoSv(r, muted)
                              \/ \E p \in Position : DoPosition(p, muted)

\* What a handled report does: the rest is the cache of Nmea and, if it
\* reads the adapter too early, the end of the process.
LEMMA ReportTaken ==
    ASSUME NEW muted \in BOOLEAN,
           (\E r \in SvReport : DoSv(r, muted)) \/ (\E p \in Position : DoPosition(p, muted))
    PROVE  /\ queue # <<>> /\ queue' = Tail(queue) /\ Head(queue).msg \in {"sv", "position"}
           /\ mLocAdapters' = mLocAdapters /\ registrar' = registrar
           /\ (stage' = stage \/ (stage = "built" /\ stage' = "crashed"))
           /\ scan' = scan /\ opened' = opened /\ up' = up /\ walk' = walk
  BY DEF DoSv, DoPosition, Take, clientVars, modemVars

LEMMA TaskTyped == ApiInv /\ TaskStep => ApiTyped'
<1> SUFFICES ASSUME ApiInv, TaskStep PROVE ApiTyped'
  OBVIOUS
<1>0. ApiTyped
  BY DEF ApiInv
<1>1. CASE DoOpen
  <2>1. queue' \in Seq(Msg) /\ Head(queue) \in Msg
    BY <1>0, <1>1, QueueShrinks DEF DoOpen, ApiTyped
  <2>2. opened' \subseteq Adapter
    BY <1>0, <1>1, <2>1 DEF DoOpen, ApiTyped, Msg
  <2> QED BY <1>0, <1>1, <2>1, <2>2 DEF DoOpen, ApiTyped, clientVars, modemVars
<1>2. CASE DoSsr
  <2>1. queue' \in Seq(Msg)
    BY <1>0, <1>2, QueueShrinks DEF DoSsr, ApiTyped
  <2>2. scan' = [next |-> 0, saw |-> None, mask |-> {}]
    BY <1>2 DEF DoSsr, NoScan
  <2>3. scan' \in [next : Int, saw : Saw, mask : SUBSET Adapter] /\ scan'.next \in Nat /\ ~Looked(scan')
    BY <2>2 DEF Saw, Looked
  <2> QED BY <1>0, <1>2, <2>1, <2>3 DEF DoSsr, ApiTyped, clientVars, modemVars
<1>3. CASE ScanLook
  <2>1. scan.next \in Slot /\ mLocAdapters[scan.next] \in Adapter
    BY <1>0, <1>3 DEF ScanLook, GoesOn, ApiTyped
  <2>2. /\ scan' \in [next : Int, saw : Saw, mask : SUBSET Adapter]
        /\ scan'.next = scan.next /\ scan'.next \in Nat
    BY <1>0, <1>3, <2>1, SlotIs DEF ScanLook, ApiTyped, Saw
  <2> QED BY <1>0, <1>3, <2>1, <2>2 DEF ScanLook, ApiTyped, clientVars, modemVars
<1>6. CASE ScanStep
  <2>1. /\ scan.saw \in Adapter /\ scan.next \in Slot
        /\ scan.next \in Nat /\ scan \in [next : Int, saw : Saw, mask : SUBSET Adapter]
        /\ mLocAdapters[scan.next] \in Adapter \cup {None}
    BY <1>0, <1>6, SlotIs DEF ScanStep, Looked, ApiTyped, Saw
  <2>2. PICK a \in Callee(scan) :
            scan' = IF a = None THEN [scan EXCEPT !.saw = Crash]
                    ELSE [next |-> scan.next + 1, saw |-> None, mask |-> scan.mask \cup {a}]
    BY <1>6 DEF ScanStep
  <2>3. a \in Adapter \cup {None}
    BY <2>1 DEF Callee
  <2>4. scan' \in [next : Int, saw : Saw, mask : SUBSET Adapter] /\ scan'.next \in Nat /\ ~Looked(scan')
    <3>1. CASE a = None
      BY <2>1, <2>2, <3>1 DEF Saw, Looked
    <3>2. CASE a # None
      <4>1. scan' = [next |-> scan.next + 1, saw |-> None, mask |-> scan.mask \cup {a}] /\ a \in Adapter
        BY <2>2, <2>3, <3>2
      <4> QED BY <2>1, <4>1 DEF Saw, Looked
    <3> QED BY <3>1, <3>2
  <2> QED BY <1>0, <1>6, <2>4 DEF ScanStep, ApiTyped, clientVars, modemVars
<1>4. CASE ScanEnd
  <2>1. scan' \in [next : Int, saw : Saw, mask : SUBSET Adapter] /\ scan' = NoScan /\ ~Looked(scan')
    BY <1>4 DEF ScanEnd, NoScan, Saw, Looked
  <2>2. opened' \subseteq Adapter
    BY <1>0, <1>4 DEF ScanEnd, ApiTyped
  <2> QED BY <1>0, <1>4, <2>1, <2>2 DEF ScanEnd, ApiTyped, clientVars, modemVars
<1>5. ASSUME NEW muted \in BOOLEAN,
             (\E r \in SvReport : DoSv(r, muted)) \/ (\E p \in Position : DoPosition(p, muted))
      PROVE  ApiTyped'
  <2>1. queue' \in Seq(Msg)
    BY <1>0, <1>5, ReportTaken, QueueShrinks DEF ApiTyped
  <2> QED BY <1>0, <1>5, <2>1, ReportTaken DEF ApiTyped
<1> QED BY <1>1, <1>2, <1>3, <1>4, <1>5, <1>6 DEF TaskStep

\* A step of the modem's thread.
ModemStep ==
    \/ \E event \in {"position", "sv", "request"} : Event(event)
    \/ \E handles \in BOOLEAN : WalkStep(handles)
    \/ WalkLook \/ WalkCrash \/ WalkEnd \/ Down \/ Recover

\* How a walk begins.
LEMMA WalkStarts ==
    ASSUME ApiTyped, NEW event \in {"position", "sv", "request", "down", "up"}, WalkStart(event)
    PROVE  /\ walk' \in Walk /\ walk'.next = 0 /\ walk'.event = event /\ walk'.taken = 0
           /\ walk'.saw = None /\ ~Looked(walk')
           /\ walk'.present = Registered /\ walk'.reached = [a \in Adapter |-> 0]
           /\ walk'.disturbed = Removing /\ walk'.ready = (stage = "ready")
<1>1. walk' = [event |-> event, next |-> 0, saw |-> None, present |-> Registered,
               reached |-> [a \in Adapter |-> 0], disturbed |-> Removing, taken |-> 0,
               ready |-> (stage = "ready")]
  BY DEF WalkStart, NoWalk
<1>2. Registered \subseteq Adapter
  BY DEF Registered, ApiTyped
<1>3. Removing \in BOOLEAN /\ (stage = "ready") \in BOOLEAN
  BY DEF Removing
<1>4. walk' \in Walk
  <2>1. /\ event \in {"none", "position", "sv", "request", "down", "up"} /\ 0 \in Int
        /\ Registered \in SUBSET Adapter /\ [a \in Adapter |-> 0] \in [Adapter -> Nat]
        /\ 0 \in 0 .. 1 /\ None \in Saw
    BY <1>2 DEF Saw
  <2> QED BY <1>1, <1>3, <2>1, Zenon DEF Walk
<1>5. walk'.saw = None /\ ~Looked(walk')
  BY <1>1 DEF Looked
<1> QED BY <1>1, <1>4, <1>5

\* A call of an adapter posts a report at most.
LEMMA WalkPosts ==
    ASSUME ApiTyped, NEW a, queue' = queue \o Posted(a)
    PROVE  \/ queue' = queue
           \/ \E m \in Msg : m.msg \in {"position", "sv"} /\ queue' = Append(queue, m)
<1>1. CASE Posted(a) = <<>>
  BY <1>1, ConcatEmptySeq DEF ApiTyped
<1>2. CASE Posted(a) # <<>>
  <2>1. /\ walk.event \in {"position", "sv"}
        /\ Posted(a) = <<[msg |-> walk.event, mask |-> {}]>>
    BY <1>2 DEF Posted
  <2>2. [msg |-> walk.event, mask |-> {}] \in Msg
    BY <2>1 DEF Msg
  <2> DEFINE m == [msg |-> walk.event, mask |-> {}]
  <2>3. queue \in Seq(Msg) /\ queue' = queue \o <<m>>
    BY <2>1 DEF ApiTyped
  <2>4. m \in Msg /\ m.msg \in {"position", "sv"}
    BY <2>1, <2>2
  <2> HIDE DEF m
  <2>5. queue' = Append(queue, m)
    BY <2>3, <2>4, AppendIsConcat
  <2> QED BY <2>4, <2>5
<1> QED BY <1>1, <1>2

\* Whom a walk calls, and what it is after that.
LEMMA WalkMoves ==
    ASSUME ApiTyped, NEW handles \in BOOLEAN, WalkStep(handles)
    PROVE  \E a \in Callee(walk) :
               /\ Looked(walk) /\ walk.next \in Slot /\ a \in Adapter
               /\ walk' \in Walk /\ walk'.next = walk.next + 1 /\ walk'.saw = None
               /\ walk'.reached = [walk.reached EXCEPT ![a] = @ + 1]
               /\ walk'.event = walk.event /\ walk'.present = walk.present
               /\ walk'.disturbed = walk.disturbed /\ walk'.ready = walk.ready
               /\ (handles => walk.event = "request" /\ walk'.taken = 1)
               /\ (~handles => walk'.taken = walk.taken)
               /\ (a = hal /\ walk.event = "request" => handles = (stage = "ready"))
               /\ queue' = queue \o Posted(a)
<1>1. /\ walk \in Walk /\ walk.next \in Slot /\ walk.saw \in Adapter /\ walk.taken = 0
      /\ mLocAdapters[walk.next] \in Adapter \cup {None} /\ Looked(walk)
  BY DEF WalkStep, Looked, ApiTyped, Walk, Saw
<1>2. PICK a \in Callee(walk) \ {None} :
          /\ handles => walk.event = "request"
          /\ a = hal /\ walk.event = "request" => handles = (stage = "ready")
          /\ walk' = [walk EXCEPT !.next = @ + 1, !.saw = None, !.reached[a] = @ + 1,
                                  !.taken = IF handles THEN @ + 1 ELSE @]
          /\ queue' = queue \o Posted(a)
  BY DEF WalkStep
<1>3. a \in Adapter
  BY <1>1, <1>2 DEF Callee
<1>5. walk' \in Walk
  <2> DEFINE taken == IF handles THEN walk.taken + 1 ELSE walk.taken
             reached == [walk.reached EXCEPT ![a] = @ + 1]
  <2>1. taken \in 0 .. 1
    BY <1>1
  <2>2. walk.next + 1 \in Int /\ None \in Saw
    BY <1>1 DEF Walk, Saw
  <2>3. reached \in [Adapter -> Nat]
    <3>1. walk.reached \in [Adapter -> Nat]
      BY <1>1 DEF Walk
    <3> QED BY <1>3, <3>1
  <2>4. walk' = [walk EXCEPT !.next = walk.next + 1, !.saw = None, !.reached = reached, !.taken = taken]
    BY <1>1, <1>2, <1>3 DEF Walk
  <2> HIDE DEF taken, reached
  <2> QED BY <1>1, <2>1, <2>2, <2>3, <2>4 DEF Walk
<1>6. /\ walk'.next = walk.next + 1 /\ walk'.reached = [walk.reached EXCEPT ![a] = @ + 1]
      /\ walk'.saw = None /\ walk'.event = walk.event /\ walk'.present = walk.present
      /\ walk'.disturbed = walk.disturbed /\ walk'.ready = walk.ready
      /\ (~handles => walk'.taken = walk.taken)
      /\ (handles => walk'.taken = walk.taken + 1)
  BY <1>1, <1>2, <1>3 DEF Walk
<1>7. handles => walk'.taken = 1
  BY <1>1, <1>6
<1>8. /\ a \in Callee(walk) /\ queue' = queue \o Posted(a)
      /\ (handles => walk.event = "request")
      /\ (a = hal /\ walk.event = "request" => handles = (stage = "ready"))
  BY <1>2
<1> QED BY <1>1, <1>3, <1>5, <1>6, <1>7, <1>8

\* A walk that looks at a slot, or calls through an empty one, posts nothing.
LEMMA WalkLooks ==
    ASSUME ApiTyped, WalkLook \/ WalkCrash
    PROVE  /\ walk' \in Walk /\ walk'.next = walk.next /\ walk'.next \in Nat
           /\ (Looked(walk') => /\ walk.next \in Slot /\ walk'.saw = mLocAdapters[walk.next]
                                /\ walk'.taken = 0)
           /\ (walk'.saw = Crash => /\ WalkCrash /\ walk.next \in Slot
                                    /\ Looked(walk) /\ mLocAdapters[walk.next] = None)
           /\ walk'.reached = walk.reached /\ walk'.taken = walk.taken
           /\ walk'.event = walk.event /\ walk'.present = walk.present
           /\ walk'.disturbed = walk.disturbed /\ walk'.ready = walk.ready
<1>0. walk \in Walk /\ \A i \in Slot : i \in Nat
  BY SlotIs DEF ApiTyped
<1>1. CASE WalkLook
  <2>1. /\ walk.next \in Slot /\ mLocAdapters[walk.next] \in Adapter /\ walk.taken = 0
        /\ walk' = [walk EXCEPT !.saw = mLocAdapters[walk.next]]
    BY <1>1 DEF WalkLook, GoesOn, ApiTyped
  <2>2. mLocAdapters[walk.next] # Crash
    BY <2>1, LocApiAssumption
  <2> QED BY <1>0, <2>1, <2>2 DEF Walk, Saw
<1>2. CASE WalkCrash
  <2>1. /\ Looked(walk) /\ walk.next \in Slot /\ walk' = [walk EXCEPT !.saw = Crash]
    BY <1>2 DEF WalkCrash, ApiTyped
  <2>2. mLocAdapters[walk.next] = None
    BY <1>2 DEF WalkCrash, Looked, Callee
  <2>3. walk'.saw = Crash /\ ~Looked(walk')
    BY <1>0, <2>1 DEF Walk, Looked
  <2> QED BY <1>0, <1>2, <2>1, <2>2, <2>3 DEF Walk, Saw
<1> QED BY <1>1, <1>2

LEMMA ModemTyped == ApiInv /\ ModemStep => ApiTyped'
<1> SUFFICES ASSUME ApiInv, ModemStep PROVE ApiTyped'
  OBVIOUS
<1>0. ApiTyped
  BY DEF ApiInv
<1>1. ASSUME NEW event \in {"position", "sv", "request"}, Event(event) PROVE ApiTyped'
  <2>1. walk' \in Walk /\ walk'.next = 0 /\ ~Looked(walk')
    BY <1>0, <1>1, WalkStarts DEF Event
  <2> QED BY <1>0, <1>1, <2>1 DEF Event, ApiTyped, clientVars, taskVars
<1>2. ASSUME NEW handles \in BOOLEAN, WalkStep(handles) PROVE ApiTyped'
  <2>0. PICK a \in Callee(walk) :
            /\ walk.next \in Slot /\ walk' \in Walk /\ walk'.next = walk.next + 1
            /\ walk'.saw = None /\ queue' = queue \o Posted(a)
    BY <1>0, <1>2, WalkMoves
  <2>1. walk' \in Walk /\ walk'.next \in Nat /\ ~Looked(walk')
    BY <2>0, SlotIs DEF Looked
  <2>2. queue' \in Seq(Msg)
    <3>1. \/ queue' = queue
          \/ \E m \in Msg : m.msg \in {"position", "sv"} /\ queue' = Append(queue, m)
      BY <1>0, <2>0, WalkPosts
    <3> QED BY <1>0, <3>1, QueueGrows DEF ApiTyped
  <2> QED BY <1>0, <1>2, <2>1, <2>2 DEF WalkStep, ApiTyped, clientVars
<1>3. CASE WalkEnd
  <2>1. walk' \in Walk /\ walk' = NoWalk /\ ~Looked(walk')
    BY <1>3 DEF WalkEnd, NoWalk, Walk, Saw, Looked
  <2> QED BY <1>0, <1>3, <2>1 DEF WalkEnd, ApiTyped, clientVars, taskVars
<1>6. CASE WalkLook \/ WalkCrash
  <2>1. /\ walk' \in Walk /\ walk'.next \in Nat
        /\ (Looked(walk') => walk'.next \in Slot /\ walk'.taken = 0)
    BY <1>0, <1>6, WalkLooks
  <2> QED BY <1>0, <1>6, <2>1 DEF WalkLook, WalkCrash, ApiTyped, clientVars, taskVars
<1>4. CASE Down
  <2>1. walk' \in Walk /\ walk'.next = 0 /\ ~Looked(walk')
    BY <1>0, <1>4, WalkStarts DEF Down
  <2>2. up' \in BOOLEAN /\ opened' \subseteq Adapter
    BY <1>4 DEF Down
  <2> QED BY <1>0, <1>4, <2>1, <2>2 DEF Down, ApiTyped, clientVars
<1>5. CASE Recover
  <2>1. walk' \in Walk /\ walk'.next = 0 /\ ~Looked(walk')
    BY <1>0, <1>5, WalkStarts DEF Recover
  <2>2. Ssr \in Msg
    BY DEF Ssr, Msg
  <2>3. queue' \in Seq(Msg)
    BY <1>0, <1>5, <2>2, QueueGrows DEF Recover, ApiTyped
  <2> QED BY <1>0, <1>5, <2>1, <2>3 DEF Recover, ApiTyped, clientVars
<1> QED BY <1>1, <1>2, <1>3, <1>4, <1>5, <1>6 DEF ModemStep

LEMMA NextIs == ReportsNext => Registrar \/ TaskStep \/ ModemStep
  BY DEF ReportsNext, ApiNext, Registrar, TaskStep, ModemStep

-----------------------------------------------------------------------------
(* The array *)

\* What is not the thread that adds and removes leaves the array alone.
LEMMA OthersKeepArray ==
    ASSUME TaskStep \/ ModemStep
    PROVE  /\ mLocAdapters' = mLocAdapters /\ registrar' = registrar
           /\ (stage' = stage \/ (stage = "built" /\ stage' = "crashed"))
<1>1. ASSUME NEW muted \in BOOLEAN,
             (\E r \in SvReport : DoSv(r, muted)) \/ (\E p \in Position : DoPosition(p, muted))
      PROVE  /\ mLocAdapters' = mLocAdapters /\ registrar' = registrar
             /\ (stage' = stage \/ (stage = "built" /\ stage' = "crashed"))
  BY <1>1, ReportTaken
<1>2. CASE DoOpen \/ DoSsr \/ ScanLook \/ ScanStep \/ ScanEnd
  BY <1>2 DEF DoOpen, DoSsr, ScanLook, ScanStep, ScanEnd, clientVars
<1>3. CASE ModemStep
  BY <1>3 DEF ModemStep, Event, WalkStep, WalkLook, WalkCrash, WalkEnd, Down, Recover, clientVars
<1> QED BY <1>1, <1>2, <1>3 DEF TaskStep

\* The step that moves the last adapter into the hole.
LEMMA MoveKeepsArray == ApiInv /\ RemoveMove => ArrayInv'
<1> SUFFICES ASSUME ApiInv, RemoveMove PROVE ArrayInv'
  OBVIOUS
<1> PICK h : h = registrar.hole
  OBVIOUS
<1> PICK l : l = LastIndex(h)
  OBVIOUS
<1>1. /\ ApiTyped /\ h \in Slot /\ GaplessBut(h) /\ mLocAdapters[h] = None /\ OnceBut(-1)
      /\ (stage # "none" => hal \in Registered)
  BY DEF RemoveMove, ApiInv, ArrayInv, Removing
<1>2. /\ l \in Slot /\ h <= l
      /\ \A i \in Slot : h < i /\ i <= l => mLocAdapters[i] # None
      /\ \A i \in Slot : l < i => mLocAdapters[i] = None
  BY <1>1, LastIndexIs
<1>3. /\ registrar'.pc = "clear" /\ registrar'.hole = h /\ stage' = stage
      /\ mLocAdapters' = [mLocAdapters EXCEPT ![h] = mLocAdapters[l]]
  BY <1>1 DEF RemoveMove, ApiTyped
<1>4. /\ mLocAdapters'[h] = mLocAdapters[l]
      /\ \A i \in Slot : i # h => mLocAdapters'[i] = mLocAdapters[i]
  BY <1>1, <1>3 DEF ApiTyped
<1>5. LastIndex(registrar.hole)' = l
  <2>1. PICK free : free = {i \in Slot : i > h /\ mLocAdapters[i] = None}
    OBVIOUS
  <2>2. free = {i \in Slot : i > registrar'.hole /\ mLocAdapters'[i] = None}
    BY <1>1, <1>3, <1>4, <2>1, SlotIs
  <2>3. LastIndex(h) = IF free = {} THEN MAX_ADAPTERS - 1
                       ELSE (CHOOSE i \in free : \A j \in free : i <= j) - 1
    BY <2>1 DEF LastIndex
  <2>4. LastIndex(registrar.hole)' = IF free = {} THEN MAX_ADAPTERS - 1
                                     ELSE (CHOOSE i \in free : \A j \in free : i <= j) - 1
    BY <2>2 DEF LastIndex
  <2> QED BY <2>3, <2>4
<1>6. GaplessBut(h)'
  <2> SUFFICES ASSUME NEW i \in Slot, NEW j \in Slot, j < i, mLocAdapters'[i] # None, j # h
               PROVE  mLocAdapters'[j] # None
    BY DEF GaplessBut
  <2>1. mLocAdapters'[j] = mLocAdapters[j]
    BY <1>4
  <2>2. CASE i # h
    BY <1>1, <1>4, <2>1, <2>2 DEF GaplessBut
  <2>3. CASE i = h
    <3>1. mLocAdapters[l] # None /\ j < l
      BY <1>2, <1>4, <2>3, <1>1, SlotIs
    <3> QED BY <1>1, <1>2, <2>1, <3>1 DEF GaplessBut
  <2> QED BY <2>2, <2>3
<1>7. mLocAdapters'[h] = mLocAdapters'[l] /\ (l = h => mLocAdapters'[h] = None)
  BY <1>1, <1>2, <1>4
<1>8. OnceBut(l)'
  <2> SUFFICES ASSUME NEW i \in Slot \ {l}, NEW j \in Slot \ {l},
                      mLocAdapters'[i] = mLocAdapters'[j], mLocAdapters'[i] # None
               PROVE  i = j
    BY DEF OnceBut
  <2>1. l # -1 /\ h # -1
    BY <1>1, <1>2, SlotIs
  <2>2. i # h \/ j # h => i # -1 /\ j # -1
    BY SlotIs
  <2>3. CASE i = h /\ j # h
    <3>1. mLocAdapters[l] = mLocAdapters[j] /\ mLocAdapters[l] # None
      BY <1>4, <2>3
    <3> QED BY <1>1, <1>2, <2>1, <2>2, <2>3, <3>1 DEF OnceBut
  <2>4. CASE i # h /\ j = h
    <3>1. mLocAdapters[l] = mLocAdapters[i] /\ mLocAdapters[l] # None
      BY <1>4, <2>4
    <3> QED BY <1>1, <1>2, <2>1, <2>2, <2>4, <3>1 DEF OnceBut
  <2>5. CASE i # h /\ j # h
    <3>1. mLocAdapters[i] = mLocAdapters[j] /\ mLocAdapters[i] # None
      BY <1>4, <2>5
    <3> QED BY <1>1, <2>2, <2>5, <3>1 DEF OnceBut
  <2> QED BY <2>3, <2>4, <2>5
<1>9. stage' # "none" => hal \in Registered'
  <2> SUFFICES ASSUME stage # "none" PROVE hal \in Registered'
    BY <1>3
  <2>1. PICK i \in Slot : mLocAdapters[i] = hal
    BY <1>1 DEF Registered
  <2>2. mLocAdapters'[i] = hal
    BY <1>1, <1>4, <2>1, NoneIsNone
  <2> QED BY <2>1, <2>2, NoneIsNone DEF Registered
<1>10. GaplessBut(registrar.hole)'
  BY <1>3, <1>6 DEF GaplessBut
<1>11. OnceBut(LastIndex(registrar.hole))'
  BY <1>5, <1>8 DEF OnceBut
<1>12. (mLocAdapters[registrar.hole])' = (mLocAdapters[LastIndex(registrar.hole)])'
  BY <1>3, <1>5, <1>7
<1> QED BY <1>1, <1>3, <1>5, <1>7, <1>9, <1>10, <1>11, <1>12 DEF ArrayInv, Removing

\* The step that clears the slot of the adapter that was moved.
LEMMA ClearKeepsArray == ApiInv /\ RemoveClear => ArrayInv'
<1> SUFFICES ASSUME ApiInv, RemoveClear PROVE ArrayInv'
  OBVIOUS
<1> PICK h : h = registrar.hole
  OBVIOUS
<1> PICK l : l = LastIndex(h)
  OBVIOUS
<1>1. /\ ApiTyped /\ h \in Slot /\ GaplessBut(h) /\ OnceBut(l)
      /\ mLocAdapters[h] = mLocAdapters[l] /\ (l = h => mLocAdapters[h] = None)
      /\ (stage # "none" => hal \in Registered)
  BY DEF RemoveClear, ApiInv, ArrayInv, Removing
<1>2. /\ l \in Slot /\ h <= l
      /\ \A i \in Slot : h < i /\ i <= l => mLocAdapters[i] # None
      /\ \A i \in Slot : l < i => mLocAdapters[i] = None
  BY <1>1, LastIndexIs
<1>3. /\ registrar'.pc = (IF l = 0 THEN "close" ELSE "repost") /\ stage' = stage
      /\ mLocAdapters' = [mLocAdapters EXCEPT ![l] = None]
  BY <1>1 DEF RemoveClear, ApiTyped
<1>4. /\ mLocAdapters'[l] = None
      /\ \A i \in Slot : i # l => mLocAdapters'[i] = mLocAdapters[i]
  BY <1>1, <1>2, <1>3 DEF ApiTyped
<1>5. GaplessBut(-1)'
  <2> SUFFICES ASSUME NEW i \in Slot, NEW j \in Slot, j < i, mLocAdapters'[i] # None
               PROVE  mLocAdapters'[j] # None
    BY DEF GaplessBut
  <2>1. mLocAdapters[i] # None /\ i < l
    BY <1>2, <1>4, SlotIs
  <2>2. mLocAdapters'[j] = mLocAdapters[j]
    BY <1>2, <1>4, <2>1, SlotIs
  <2>3. CASE j = h
    <3>1. mLocAdapters[l] # None
      BY <1>1, <1>2, <2>1, <2>3, SlotIs
    <3> QED BY <1>1, <2>2, <2>3, <3>1
  <2> QED BY <1>1, <2>1, <2>2, <2>3 DEF GaplessBut
<1>6. OnceBut(-1)'
  <2> SUFFICES ASSUME NEW i \in Slot, NEW j \in Slot,
                      mLocAdapters'[i] = mLocAdapters'[j], mLocAdapters'[i] # None
               PROVE  i = j
    BY DEF OnceBut
  <2>1. i # l /\ j # l
    BY <1>4
  <2> QED BY <1>1, <1>4, <2>1 DEF OnceBut
<1>7. l = 0 => Registered' = {}
  <2> SUFFICES ASSUME l = 0, NEW i \in Slot PROVE mLocAdapters'[i] = None
    BY DEF Registered
  <2>1. i = l \/ l < i
    BY SlotIs
  <2> QED BY <1>2, <1>4, <2>1
<1>8. stage' # "none" => hal \in Registered'
  <2> SUFFICES ASSUME stage # "none" PROVE hal \in Registered'
    BY <1>3
  <2>1. PICK i \in Slot : mLocAdapters[i] = hal
    BY <1>1 DEF Registered
  <2>2. CASE i # l
    <3>1. mLocAdapters'[i] = hal
      BY <1>4, <2>1, <2>2
    <3> QED BY <3>1, NoneIsNone DEF Registered
  <2>3. CASE i = l
    <3>1. l # h
      BY <1>1, <2>1, <2>3, NoneIsNone
    <3>2. mLocAdapters'[h] = hal
      BY <1>1, <1>4, <2>1, <2>3, <3>1
    <3> QED BY <1>1, <3>2, NoneIsNone DEF Registered
  <2> QED BY <2>2, <2>3
<1> QED BY <1>3, <1>5, <1>6, <1>7, <1>8 DEF ArrayInv, Removing

\* addAdapter takes the first slot that is free.
LEMMA AddKeepsArray ==
    ASSUME ApiInv, NEW a \in Adapter, AddStore(a)
    PROVE  ArrayInv'
<1>1. /\ ApiTyped /\ GaplessBut(-1) /\ OnceBut(-1) /\ a \notin Registered
      /\ (stage # "none" => hal \in Registered)
  BY DEF AddStore, ApiInv, ArrayInv, Removing
<1>2. PICK s \in Slot : /\ mLocAdapters[s] = None /\ \A j \in 0 .. s - 1 : mLocAdapters[j] # None
                        /\ mLocAdapters' = [mLocAdapters EXCEPT ![s] = a]
  BY DEF AddStore
<1>3. mLocAdapters'[s] = a /\ \A i \in Slot : i # s => mLocAdapters'[i] = mLocAdapters[i]
  BY <1>1, <1>2 DEF ApiTyped
<1>4. a # None /\ \A i \in Slot : mLocAdapters[i] # a
  BY <1>1, NoneIsNone DEF Registered
<1>5. GaplessBut(-1)'
  <2> SUFFICES ASSUME NEW i \in Slot, NEW j \in Slot, j < i, mLocAdapters'[i] # None
               PROVE  mLocAdapters'[j] # None
    BY DEF GaplessBut
  <2>1. CASE i = s
    BY <1>2, <1>3, <2>1, SlotIs
  <2>2. CASE i # s
    <3>1. mLocAdapters[j] # None
      BY <1>1, <1>3, <2>2, SlotIs DEF GaplessBut
    <3> QED BY <1>2, <1>3, <3>1
  <2> QED BY <2>1, <2>2
<1>6. OnceBut(-1)'
  <2> SUFFICES ASSUME NEW i \in Slot, NEW j \in Slot,
                      mLocAdapters'[i] = mLocAdapters'[j], mLocAdapters'[i] # None
               PROVE  i = j
    BY DEF OnceBut
  <2>1. CASE i = s \/ j = s
    BY <1>3, <1>4, <2>1
  <2>2. CASE i # s /\ j # s
    BY <1>1, <1>3, <2>2, SlotIs DEF OnceBut
  <2> QED BY <2>1, <2>2
<1>7. stage' # "none" => hal \in Registered'
  <2>1. CASE a = hal
    BY <1>3, <2>1, NoneIsNone DEF Registered
  <2>2. CASE a # hal /\ stage # "none"
    <3>1. PICK i \in Slot : mLocAdapters[i] = hal
      BY <1>1, <2>2 DEF Registered
    <3>2. mLocAdapters'[i] = hal
      BY <1>2, <1>3, <3>1, NoneIsNone
    <3> QED BY <3>2, NoneIsNone DEF Registered
  <2> QED BY <2>1, <2>2 DEF AddStore
<1>8. registrar'.pc = "post"
  BY DEF AddStore
<1> QED BY <1>5, <1>6, <1>7, <1>8 DEF ArrayInv, Removing

LEMMA HoleKeepsArray ==
    ASSUME ApiInv, NEW a \in Adapter, RemoveHole(a)
    PROVE  ArrayInv'
<1>1. /\ ApiTyped /\ GaplessBut(-1) /\ OnceBut(-1) /\ a # hal
      /\ (stage # "none" => hal \in Registered)
  BY DEF RemoveHole, ApiInv, ArrayInv, Removing
<1>2. PICK s \in Slot : /\ mLocAdapters[s] = a
                        /\ mLocAdapters' = [mLocAdapters EXCEPT ![s] = None]
                        /\ registrar' = [pc |-> "move", who |-> a, hole |-> s]
  BY DEF RemoveHole
<1>3. mLocAdapters'[s] = None /\ \A i \in Slot : i # s => mLocAdapters'[i] = mLocAdapters[i]
  BY <1>1, <1>2 DEF ApiTyped
<1>4. GaplessBut(s)'
  BY <1>1, <1>3, SlotIs DEF GaplessBut
<1>5. OnceBut(-1)'
  <2> SUFFICES ASSUME NEW i \in Slot, NEW j \in Slot,
                      mLocAdapters'[i] = mLocAdapters'[j], mLocAdapters'[i] # None
               PROVE  i = j
    BY DEF OnceBut
  <2> QED BY <1>1, <1>3, SlotIs DEF OnceBut
<1>6. stage' # "none" => hal \in Registered'
  <2> SUFFICES ASSUME stage # "none" PROVE hal \in Registered'
    BY DEF RemoveHole
  <2>1. PICK i \in Slot : mLocAdapters[i] = hal
    BY <1>1 DEF Registered
  <2>2. mLocAdapters'[i] = hal
    BY <1>1, <1>2, <1>3, <2>1
  <2> QED BY <2>2, NoneIsNone DEF Registered
<1>7. registrar'.pc = "move" /\ registrar'.hole = s
  BY <1>2
<1>8. GaplessBut(registrar.hole)'
  BY <1>4, <1>7 DEF GaplessBut
<1> QED BY <1>3, <1>5, <1>6, <1>7, <1>8 DEF ArrayInv, Removing

\* The array as long as nobody touches it.
LEMMA ArrayStays ==
    ASSUME ApiInv, mLocAdapters' = mLocAdapters, stage' # "none" => stage # "none",
           \/ registrar' = registrar
           \/ ~Removing /\ registrar'.pc = "rest"
    PROVE  ArrayInv'
<1>1. \A h \in {-1, registrar.hole} : GaplessBut(h) = (\A i, j \in Slot :
          j < i /\ mLocAdapters'[i] # None => mLocAdapters'[j] # None \/ j = h)
  BY DEF GaplessBut
<1>2. LastIndex(registrar.hole)' = LastIndex(registrar'.hole) /\ Registered' = Registered
  BY DEF LastIndex, Registered
<1>3. CASE registrar' = registrar
  BY <1>1, <1>2, <1>3 DEF ApiInv, ArrayInv, Removing, GaplessBut, OnceBut
<1>4. CASE ~Removing /\ registrar'.pc = "rest"
  BY <1>1, <1>2, <1>4 DEF ApiInv, ArrayInv, Removing, GaplessBut, OnceBut
<1> QED BY <1>3, <1>4

LEMMA InitArray == ReportsInit => ArrayInv
  BY SlotIs DEF ReportsInit, ApiInit, AtRest, ArrayInv, Removing, GaplessBut, OnceBut, Registered

LEMMA StepKeepsArray == ApiInv /\ (Registrar \/ TaskStep \/ ModemStep) => ArrayInv'
<1> SUFFICES ASSUME ApiInv, Registrar \/ TaskStep \/ ModemStep PROVE ArrayInv'
  OBVIOUS
<1>1. CASE AddPost \/ RemoveClose \/ RemoveRepost
  BY <1>1, ArrayStays DEF AddPost, RemoveClose, RemoveRepost, AtRest, Removing
<1>2. CASE Construct \/ Assign \/ Support
  BY <1>2, ArrayStays DEF Construct, Assign, Support
<1>3. CASE TaskStep \/ ModemStep
  BY <1>3, OthersKeepArray, ArrayStays
<1> QED BY <1>1, <1>2, <1>3, AddKeepsArray, HoleKeepsArray, MoveKeepsArray, ClearKeepsArray DEF Registrar

-----------------------------------------------------------------------------
(* The subscription *)

\* A reason for the events of an adapter lasts while what it is about does.
LEMMA CoveredStays ==
    ASSUME NEW b, Covered(b), opened \subseteq opened', registrar' = registrar,
           mLocAdapters' = mLocAdapters, scan' = scan, up' = up,
           OpenDue(b) => OpenDue(b)', SsrDue => SsrDue'
    PROVE  Covered(b)'
<1>1. Scans(b) => Scans(b)'
  BY DEF Scans
<1> QED BY <1>1 DEF Covered, Removing

\* What is registered is what getEvtMask reads while nobody removes.
LEMMA GaplessReads ==
    ASSUME GaplessBut(-1), NEW b \in Registered
    PROVE  b # None /\ \E i \in Slot : mLocAdapters[i] = b /\ \A j \in 0 .. i : mLocAdapters[j] # None
<1>1. PICK i \in Slot : mLocAdapters[i] = b /\ b # None
  BY DEF Registered
<1>2. ASSUME NEW j \in 0 .. i PROVE mLocAdapters[j] # None
  <2>1. j \in Slot /\ (j < i \/ j = i) /\ j # -1
    BY SlotIs
  <2> QED BY <1>1, <2>1 DEF GaplessBut
<1> QED BY <1>1, <1>2

LEMMA RegistrarSubscribes == ApiInv /\ Registrar => SubscriptionInv'
<1> SUFFICES ASSUME ApiInv, Registrar, NEW b \in Registered' PROVE Covered(b)'
  BY DEF SubscriptionInv
<1>0. ApiTyped /\ ArrayInv /\ SubscriptionInv /\ ArrayInv'
  BY StepKeepsArray DEF ApiInv
<1>1. ASSUME NEW a \in Adapter, AddStore(a) PROVE Covered(b)'
  <2>1. PICK s \in Slot : /\ mLocAdapters[s] = None
                          /\ mLocAdapters' = [mLocAdapters EXCEPT ![s] = a]
    BY <1>1 DEF AddStore
  <2>2. mLocAdapters'[s] = a /\ \A i \in Slot : i # s => mLocAdapters'[i] = mLocAdapters[i]
    BY <1>0, <2>1 DEF ApiTyped
  <2>3. registrar.pc = "rest" /\ registrar'.pc = "post" /\ registrar'.who = a
    BY <1>1 DEF AddStore
  <2>4. CASE b = a
    BY <2>3, <2>4 DEF Covered
  <2>5. CASE b # a
    <3>1. b \in Registered
      BY <2>2, <2>5 DEF Registered
    <3>2. Covered(b)
      BY <1>0, <3>1 DEF SubscriptionInv
    <3>3. opened' = opened /\ queue' = queue /\ scan' = scan /\ up' = up
      BY <1>1 DEF AddStore, taskVars, modemVars
    <3>4. scan.next >= 0 /\ Scans(b) => Scans(b)'
      <4>1. ASSUME scan.next >= 0, b \notin scan.mask, Scans(b) PROVE Scans(b)'
        <5>1. PICK i \in Slot : /\ scan.next <= i /\ mLocAdapters[i] = b
                                /\ \A j \in scan.next .. i : mLocAdapters[j] # None
                                /\ i = scan.next => scan.saw \in {None, b}
          BY <4>1 DEF Scans
        <5>2. \A j \in scan.next .. i : j \in Slot
          BY <1>0, <4>1, SlotIs DEF ApiTyped
        <5>3. \A j \in scan.next .. i : mLocAdapters'[j] = mLocAdapters[j]
          BY <2>1, <2>2, <5>1, <5>2
        <5>4. i \in scan.next .. i
          BY <1>0, <5>1, SlotIs DEF ApiTyped
        <5> QED BY <3>3, <5>1, <5>3, <5>4 DEF Scans
      <4> QED BY <3>3, <4>1 DEF Scans
    <3>5. OpenDue(b)' = OpenDue(b) /\ SsrDue' = SsrDue
      BY <3>3 DEF OpenDue, SsrDue
    <3> QED BY <2>3, <3>2, <3>3, <3>4, <3>5 DEF Covered, Removing
  <2> QED BY <2>4, <2>5
<1>2. ASSUME NEW a \in Adapter, RemoveHole(a) PROVE Covered(b)'
  BY <1>2 DEF RemoveHole, Covered, Removing
<1>3. CASE AddPost
  <2>1. Open({registrar.who}) \in Msg
    BY <1>0, <1>3 DEF Open, Msg, ApiTyped, AddPost
  <2>2. /\ queue' = Append(queue, Open({registrar.who})) /\ queue \in Seq(Msg)
        /\ registrar.pc = "post" /\ mLocAdapters' = mLocAdapters /\ scan' = scan
        /\ opened' = opened /\ up' = up
    BY <1>0, <1>3 DEF AddPost, modemVars, ApiTyped
  <2>3. /\ Open({registrar.who}).msg = "open" /\ Open({registrar.who}).mask = {registrar.who}
    BY DEF Open
  <2>4. /\ OpenDue(b) => OpenDue(b)'
        /\ SsrDue => SsrDue'
        /\ b = registrar.who => OpenDue(b)'
    BY <2>1, <2>2, <2>3, QueueGrows
  <2>5. Scans(b)' = Scans(b) /\ Covered(b)
    BY <1>0, <2>2 DEF Scans, SubscriptionInv, Registered
  <2> QED BY <2>2, <2>4, <2>5 DEF Covered, Removing
<1>4. CASE RemoveMove
  BY <1>0, <1>4 DEF RemoveMove, Covered, Removing, ApiTyped
<1>5. CASE RemoveClear
  <2>1. registrar'.pc \in {"close", "repost"}
    BY <1>0, <1>5 DEF RemoveClear, ApiTyped
  <2> QED BY <1>0, <2>1 DEF ArrayInv, Covered
<1>6. CASE RemoveClose
  BY <1>0, <1>6 DEF RemoveClose, ArrayInv, Registered
<1>7. CASE RemoveRepost
  <2>1. GaplessBut(-1) /\ b \in Registered
    BY <1>0, <1>7 DEF RemoveRepost, ArrayInv, Removing, Registered
  <2>2. b \in EvtMask
    BY <2>1, GaplessReads DEF EvtMask
  <2>3. Open(EvtMask) \in Msg /\ Open(EvtMask).msg = "open" /\ Open(EvtMask).mask = EvtMask
    BY <1>0, EvtMaskTyped DEF Open, Msg
  <2>4. OpenDue(b)'
    BY <1>0, <1>7, <2>2, <2>3, QueueGrows DEF RemoveRepost, ApiTyped
  <2> QED BY <2>4 DEF Covered
<1>8. CASE Construct \/ Assign \/ Support
  <2>1. /\ mLocAdapters' = mLocAdapters /\ registrar' = registrar /\ queue' = queue
        /\ scan' = scan /\ opened' = opened /\ up' = up
    BY <1>8 DEF Construct, Assign, Support, modemVars, taskVars
  <2>2. Covered(b)
    BY <1>0, <2>1 DEF SubscriptionInv, Registered
  <2>3. (OpenDue(b) => OpenDue(b)') /\ (SsrDue => SsrDue')
    BY <2>1 DEF OpenDue, SsrDue
  <2> QED BY <2>1, <2>2, <2>3, CoveredStays
<1> QED BY <1>1, <1>2, <1>3, <1>4, <1>5, <1>6, <1>7, <1>8 DEF Registrar

LEMMA TaskSubscribes == ApiInv /\ TaskStep => SubscriptionInv'
<1> SUFFICES ASSUME ApiInv, TaskStep, NEW b \in Registered' PROVE Covered(b)'
  BY DEF SubscriptionInv
<1>0. /\ ApiTyped /\ ArrayInv /\ SubscriptionInv /\ queue \in Seq(Msg)
      /\ mLocAdapters' = mLocAdapters /\ registrar' = registrar
  BY OthersKeepArray DEF ApiInv, ApiTyped
<1>1. b \in Registered /\ Covered(b)
  BY <1>0 DEF Registered, SubscriptionInv
<1>2. CASE DoOpen
  <2>1. /\ queue # <<>> /\ queue' = Tail(queue) /\ Head(queue).msg = "open" /\ scan = NoScan
        /\ opened' = (IF up THEN opened \cup Head(queue).mask ELSE opened)
        /\ up' = up /\ scan' = scan
    BY <1>2 DEF DoOpen, modemVars
  <2>2. /\ OpenDue(b) => OpenDue(b)' \/ b \in Head(queue).mask
        /\ SsrDue => SsrDue'
    BY <1>0, <2>1, QueueShrinks
  <2>3. ~(scan.next >= 0)
    BY <2>1 DEF NoScan
  <2> QED BY <1>0, <1>1, <2>1, <2>2, <2>3 DEF Covered, Removing
<1>3. CASE DoSsr
  <2>1. scan' = [next |-> 0, saw |-> None, mask |-> {}] /\ up' = up
    BY <1>3 DEF DoSsr, NoScan, modemVars
  <2>2. CASE Removing \/ registrar.pc = "repost"
    BY <1>0, <2>2 DEF Covered, Removing
  <2>3. CASE ~Removing
    <3>1. PICK i \in Slot : mLocAdapters[i] = b /\ \A j \in 0 .. i : mLocAdapters[j] # None
      BY <1>0, <1>1, <2>3, GaplessReads DEF ArrayInv
    <3>2. Scans(b)'
      BY <1>0, <2>1, <3>1, SlotIs DEF Scans
    <3> QED BY <2>1, <3>2 DEF Covered
  <2> QED BY <2>2, <2>3
<1>7. CASE ScanLook
  <2>1. /\ scan.next \in Slot /\ scan.saw = None /\ scan.next \in Nat
        /\ scan'.next = scan.next /\ scan'.saw = mLocAdapters[scan.next] /\ scan'.mask = scan.mask
        /\ up' = up /\ opened' = opened /\ queue' = queue
    BY <1>0, <1>7, SlotIs DEF ScanLook, GoesOn, modemVars, ApiTyped
  <2>2. Scans(b) => Scans(b)'
    BY <1>0, <2>1 DEF Scans
  <2>3. OpenDue(b)' = OpenDue(b) /\ SsrDue' = SsrDue
    BY <2>1 DEF OpenDue, SsrDue
  <2> QED BY <1>0, <1>1, <2>1, <2>2, <2>3 DEF Covered, Removing
<1>4. CASE ScanStep
  <2>0. PICK a \in Callee(scan) :
            scan' = IF a = None THEN [scan EXCEPT !.saw = Crash]
                    ELSE [next |-> scan.next + 1, saw |-> None, mask |-> scan.mask \cup {a}]
    BY <1>4 DEF ScanStep
  <2>1. /\ Looked(scan) /\ scan.next \in Slot /\ scan.next \in Nat
        /\ up' = up /\ opened' = opened /\ queue' = queue
    BY <1>0, <1>4, SlotIs DEF ScanStep, modemVars, ApiTyped
  <2>2. ASSUME b \notin scan.mask, Scans(b) PROVE Scans(b)'
    <3>1. PICK i \in Slot : /\ scan.next <= i /\ mLocAdapters[i] = b
                            /\ \A j \in scan.next .. i : mLocAdapters[j] # None
                            /\ i = scan.next => scan.saw \in {None, b}
      BY <2>2 DEF Scans
    <3>2. a # None
      <4>1. scan.next \in scan.next .. i
        BY <2>1, <3>1, SlotIs
      <4> QED BY <2>1, <3>1, <4>1 DEF Callee, Looked
    <3>3. scan'.next = scan.next + 1 /\ scan'.saw = None /\ scan'.mask = scan.mask \cup {a}
      BY <2>0, <3>2
    <3>4. CASE i = scan.next
      <4>1. a = b
        BY <2>1, <3>1, <3>4 DEF Callee, Looked
      <4> QED BY <3>3, <4>1 DEF Scans
    <3>5. CASE i # scan.next
      BY <1>0, <2>1, <3>1, <3>3, <3>5, SlotIs DEF Scans
    <3> QED BY <3>4, <3>5
  <2>3. Scans(b) => Scans(b)'
    <3>1. b \in scan.mask => b \in scan'.mask
      BY <1>0, <2>0 DEF ApiTyped
    <3> QED BY <2>2, <3>1 DEF Scans
  <2>4. OpenDue(b)' = OpenDue(b) /\ SsrDue' = SsrDue
    BY <2>1 DEF OpenDue, SsrDue
  <2>5. scan'.next >= 0
    BY <1>0, <2>0, <2>1 DEF ApiTyped
  <2> QED BY <1>0, <1>1, <2>1, <2>3, <2>4, <2>5 DEF Covered, Removing
<1>5. CASE ScanEnd
  <2>1. /\ scan.next \in Nat /\ ~GoesOn(scan.next) /\ up' = up /\ queue' = queue
        /\ opened' = (IF up THEN opened \cup scan.mask ELSE opened)
    BY <1>0, <1>5 DEF ScanEnd, modemVars, ApiTyped
  <2>2. Scans(b) => b \in scan.mask
    <3> SUFFICES ASSUME NEW i \in Slot, scan.next <= i,
                        \A j \in scan.next .. i : mLocAdapters[j] # None
                 PROVE  FALSE
      BY DEF Scans
    <3>1. scan.next \in Slot /\ scan.next \in scan.next .. i
      BY <2>1, SlotIs
    <3> QED BY <2>1, <3>1 DEF GoesOn
  <2>3. OpenDue(b)' = OpenDue(b) /\ SsrDue' = SsrDue
    BY <2>1 DEF OpenDue, SsrDue
  <2> QED BY <1>0, <1>1, <2>1, <2>2, <2>3 DEF Covered, Removing
<1>6. ASSUME NEW muted \in BOOLEAN,
             (\E r \in SvReport : DoSv(r, muted)) \/ (\E p \in Position : DoPosition(p, muted))
      PROVE  Covered(b)'
  <2>1. (OpenDue(b) => OpenDue(b)') /\ (SsrDue => SsrDue')
    BY <1>0, <1>6, ReportTaken, QueueShrinks
  <2> QED BY <1>0, <1>1, <1>6, <2>1, ReportTaken, CoveredStays
<1> QED BY <1>2, <1>3, <1>4, <1>5, <1>6, <1>7 DEF TaskStep

LEMMA ModemSubscribes == ApiInv /\ ModemStep => SubscriptionInv'
<1> SUFFICES ASSUME ApiInv, ModemStep, NEW b \in Registered' PROVE Covered(b)'
  BY DEF SubscriptionInv
<1>0. /\ ApiTyped /\ SubscriptionInv /\ queue \in Seq(Msg)
      /\ mLocAdapters' = mLocAdapters /\ registrar' = registrar
  BY OthersKeepArray DEF ApiInv, ApiTyped
<1>1. Covered(b)
  BY <1>0 DEF Registered, SubscriptionInv
<1>2. ASSUME NEW event \in {"position", "sv", "request"}, Event(event) PROVE Covered(b)'
  BY <1>0, <1>1, <1>2, CoveredStays DEF Event, taskVars, OpenDue, SsrDue
<1>3. ASSUME NEW handles \in BOOLEAN, WalkStep(handles) PROVE Covered(b)'
  <2>1. \/ queue' = queue
        \/ \E m \in Msg : m.msg \in {"position", "sv"} /\ queue' = Append(queue, m)
    BY <1>0, <1>3, WalkMoves, WalkPosts
  <2>2. queue' = queue => (OpenDue(b) => OpenDue(b)') /\ (SsrDue => SsrDue')
    BY DEF OpenDue, SsrDue
  <2>3. (OpenDue(b) => OpenDue(b)') /\ (SsrDue => SsrDue')
    BY <1>0, <2>1, <2>2, QueueGrows
  <2> QED BY <1>0, <1>1, <1>3, <2>3, CoveredStays DEF WalkStep
<1>4. CASE WalkEnd \/ WalkLook \/ WalkCrash
  BY <1>0, <1>1, <1>4, CoveredStays DEF WalkEnd, WalkLook, WalkCrash, taskVars, OpenDue, SsrDue
<1>5. CASE Down
  BY <1>5 DEF Down, Covered
<1>6. CASE Recover
  <2>1. Ssr \in Msg /\ Ssr.msg = "ssr"
    BY DEF Ssr, Msg
  <2>2. SsrDue'
    BY <1>0, <1>6, <2>1, QueueGrows DEF Recover
  <2> QED BY <2>2 DEF Covered
<1> QED BY <1>2, <1>3, <1>4, <1>5, <1>6 DEF ModemStep

-----------------------------------------------------------------------------
(* The walk *)

\* What a walk knows lasts while the array does.
LEMMA WalkStays ==
    ASSUME WalkInv, walk' = walk, mLocAdapters' = mLocAdapters,
           ~Removing => ~Removing', stage = "ready" => stage' = "ready"
    PROVE  WalkInv'
<1>1. Registered' = Registered
  BY DEF Registered
<1>2. Undisturbed => Undisturbed'
  BY <1>1 DEF Undisturbed
<1> QED BY <1>2 DEF WalkInv

LEMMA RegistrarWalks == ApiInv /\ Registrar => WalkInv'
<1> SUFFICES ASSUME ApiInv, Registrar PROVE WalkInv'
  OBVIOUS
<1>0. ApiTyped /\ ArrayInv /\ WalkInv
  BY DEF ApiInv
<1>1. ASSUME NEW a \in Adapter, AddStore(a) PROVE WalkInv'
  <2>1. PICK s \in Slot : /\ mLocAdapters[s] = None
                          /\ mLocAdapters' = [mLocAdapters EXCEPT ![s] = a]
    BY <1>1 DEF AddStore
  <2>2. mLocAdapters'[s] = a /\ \A i \in Slot : i # s => mLocAdapters'[i] = mLocAdapters[i]
    BY <1>0, <2>1 DEF ApiTyped
  <2>3. walk' = walk /\ ~Removing' /\ (stage = "ready" => stage' = "ready")
    BY <1>1 DEF AddStore, modemVars, Removing
  <2>4. Registered \subseteq Registered'
    BY <2>1, <2>2, NoneIsNone DEF Registered
  <2>5. ASSUME Undisturbed PROVE Undisturbed'
    <3>1. \A i \in Slot : i < walk.next => i # s /\ mLocAdapters'[i] = mLocAdapters[i]
      BY <2>1, <2>2, <2>5 DEF Undisturbed
    <3>2. \A c \in Adapter : (\E i \in Slot : i < walk.next /\ mLocAdapters[i] = c)
                                <=> (\E i \in Slot : i < walk.next /\ mLocAdapters'[i] = c)
      BY <3>1
    <3>3. \A c \in Adapter : walk.reached[c] =
              IF \E i \in Slot : i < walk.next /\ mLocAdapters'[i] = c THEN 1 ELSE 0
      BY <2>5, <3>2 DEF Undisturbed
    <3>4. Looked(walk) => walk.saw = mLocAdapters'[walk.next]
      <4>1. Looked(walk) => /\ walk.next \in Slot /\ walk.saw = mLocAdapters[walk.next]
                            /\ walk.saw # None
        BY <1>0, <2>5 DEF ApiTyped, Undisturbed, Looked
      <4> QED BY <2>1, <2>2, <4>1
    <3> QED BY <2>3, <2>4, <2>5, <3>1, <3>3, <3>4 DEF Undisturbed
  <2> QED BY <1>0, <2>3, <2>5 DEF WalkInv
<1>2. ASSUME NEW a \in Adapter, RemoveHole(a) PROVE WalkInv'
  <2>1. CASE walk = NoWalk
    BY <1>0, <1>2, <2>1 DEF RemoveHole, WalkInv, NoWalk
  <2>2. CASE walk # NoWalk
    <3>1. walk'.disturbed /\ walk'.event = walk.event /\ walk'.taken = walk.taken
          /\ walk'.ready = walk.ready /\ stage' = stage
      BY <1>0, <1>2, <2>2 DEF RemoveHole, ApiTyped, Walk
    <3> QED BY <1>0, <3>1 DEF WalkInv
  <2> QED BY <2>1, <2>2
<1>3. CASE RemoveMove \/ RemoveClear
  <2>1. Removing /\ walk' = walk /\ stage' = stage
    BY <1>3 DEF RemoveMove, RemoveClear, Removing, modemVars
  <2> QED BY <1>0, <2>1 DEF WalkInv, Undisturbed
<1>4. CASE AddPost \/ RemoveClose \/ RemoveRepost
  <2>1. /\ walk' = walk /\ stage' = stage /\ mLocAdapters' = mLocAdapters /\ ~Removing'
    BY <1>4 DEF AddPost, RemoveClose, RemoveRepost, modemVars, AtRest, Removing
  <2> QED BY <1>0, <2>1, WalkStays
<1>5. CASE Construct \/ Assign \/ Support
  BY <1>0, <1>5, WalkStays DEF Construct, Assign, Support, modemVars, Removing
<1> QED BY <1>1, <1>2, <1>3, <1>4, <1>5 DEF Registrar

LEMMA TaskWalks == ApiInv /\ TaskStep => WalkInv'
<1> SUFFICES ASSUME ApiInv, TaskStep PROVE WalkInv'
  OBVIOUS
<1>1. walk' = walk
  <2>1. ASSUME NEW muted \in BOOLEAN,
               (\E r \in SvReport : DoSv(r, muted)) \/ (\E p \in Position : DoPosition(p, muted))
        PROVE  walk' = walk
    BY <2>1, ReportTaken
  <2>2. CASE DoOpen \/ DoSsr \/ ScanLook \/ ScanStep \/ ScanEnd
    BY <2>2 DEF DoOpen, DoSsr, ScanLook, ScanStep, ScanEnd, modemVars
  <2> QED BY <2>1, <2>2 DEF TaskStep
<1> QED BY <1>1, OthersKeepArray, WalkStays DEF ApiInv, Removing

\* A walk that begins has called nobody.
LEMMA StartWalks ==
    ASSUME ApiInv, NEW event \in {"position", "sv", "request", "down", "up"}, WalkStart(event),
           mLocAdapters' = mLocAdapters, registrar' = registrar, stage' = stage
    PROVE  WalkInv'
<1>1. /\ walk' \in Walk /\ walk'.next = 0 /\ walk'.event = event /\ walk'.taken = 0
      /\ walk'.saw = None /\ ~Looked(walk')
      /\ walk'.present = Registered /\ walk'.reached = [a \in Adapter |-> 0]
      /\ walk'.disturbed = Removing /\ walk'.ready = (stage = "ready")
  BY WalkStarts DEF ApiInv
<1>2. \A i \in Slot : ~(i < walk'.next)
  BY <1>1, SlotIs
<1>3. Registered' = Registered /\ Removing' = Removing
  BY DEF Registered, Removing
<1>4. ~walk'.disturbed => Undisturbed'
  BY <1>1, <1>2, <1>3 DEF Undisturbed, Crash, None
<1> QED BY <1>1, <1>4 DEF WalkInv

\* A walk calls the adapter of the next slot, which it has not called yet.
LEMMA StepWalks ==
    ASSUME ApiInv, NEW handles \in BOOLEAN, WalkStep(handles)
    PROVE  WalkInv'
<1>1. PICK a \in Callee(walk) :
          /\ Looked(walk) /\ walk.next \in Slot /\ a \in Adapter
          /\ walk' \in Walk /\ walk'.next = walk.next + 1 /\ walk'.saw = None
          /\ walk'.reached = [walk.reached EXCEPT ![a] = @ + 1]
          /\ walk'.event = walk.event /\ walk'.present = walk.present
          /\ walk'.disturbed = walk.disturbed /\ walk'.ready = walk.ready
          /\ (handles => walk.event = "request" /\ walk'.taken = 1)
          /\ (~handles => walk'.taken = walk.taken)
          /\ (a = hal /\ walk.event = "request" => handles = (stage = "ready"))
  BY WalkMoves DEF ApiInv
<1>2. mLocAdapters' = mLocAdapters /\ registrar' = registrar /\ stage' = stage
  BY DEF WalkStep, clientVars
<1>3. WalkInv /\ ArrayInv /\ ApiTyped
  BY DEF ApiInv
<1>4. ASSUME Undisturbed PROVE Undisturbed'
  <2>0. a = mLocAdapters[walk.next] /\ walk'.saw # Crash /\ ~Looked(walk')
    BY <1>1, <1>4 DEF Undisturbed, Callee, Looked, Crash, None
  <2>1. ~Removing' /\ Registered' = Registered /\ ~Removing /\ OnceBut(-1)
    BY <1>2, <1>3, <1>4 DEF Undisturbed, Removing, Registered, ArrayInv
  <2>2. \A i \in Slot : i < walk'.next <=> i < walk.next \/ i = walk.next
    BY <1>1, SlotIs
  <2>3. \A i \in Slot : i < walk.next => mLocAdapters[i] # a
    <3> SUFFICES ASSUME NEW i \in Slot, i < walk.next, mLocAdapters[i] = a PROVE FALSE
      OBVIOUS
    <3>1. i # -1 /\ walk.next # -1 /\ a # None
      BY <1>1, SlotIs, NoneIsNone
    <3>2. i = walk.next
      BY <1>1, <2>0, <2>1, <3>1 DEF OnceBut
    <3> QED BY <1>1, <3>2, SlotIs
  <2>4. walk.reached \in [Adapter -> Nat]
    BY <1>3 DEF ApiTyped, Walk
  <2>5. ASSUME NEW c \in Adapter
        PROVE  walk'.reached[c] = IF \E i \in Slot : i < walk'.next /\ mLocAdapters[i] = c THEN 1 ELSE 0
    <3>1. CASE c = a
      <4>1. walk.reached[a] = 0
        BY <1>1, <1>4, <2>3 DEF Undisturbed
      <4>2. walk'.reached[a] = 1
        BY <1>1, <2>4, <4>1
      <4> QED BY <1>1, <2>0, <2>2, <3>1, <4>2
    <3>2. CASE c # a
      <4>1. walk'.reached[c] = walk.reached[c]
        BY <1>1, <2>4, <3>2
      <4>2. (\E i \in Slot : i < walk'.next /\ mLocAdapters[i] = c)
               <=> (\E i \in Slot : i < walk.next /\ mLocAdapters[i] = c)
        BY <2>0, <2>2, <3>2
      <4> QED BY <1>4, <4>1, <4>2 DEF Undisturbed
    <3> QED BY <3>1, <3>2
  <2>6. \A i \in Slot : i < walk'.next => mLocAdapters[i] # None
    BY <1>1, <1>4, <2>0, <2>2, NoneIsNone DEF Undisturbed
  <2>7. ASSUME walk'.event = "request", walk'.ready, walk'.taken = 0
        PROVE  \A i \in Slot : i < walk'.next => mLocAdapters[i] # hal
    <3>1. ~handles /\ a # hal
      BY <1>1, <1>2, <1>3, <2>7 DEF WalkInv
    <3> QED BY <1>1, <1>2, <1>4, <2>0, <2>2, <2>7, <3>1 DEF Undisturbed
  <2> QED BY <1>1, <1>2, <1>4, <2>0, <2>1, <2>5, <2>6, <2>7 DEF Undisturbed
<1>5. walk.next >= 0
  BY <1>1, SlotIs
<1> QED BY <1>1, <1>2, <1>3, <1>4, <1>5 DEF WalkInv

\* A walk that no removal overlaps finds in the slot whom it saw there.
LEMMA LookWalks ==
    ASSUME ApiInv, WalkLook \/ WalkCrash
    PROVE  WalkInv'
<1>1. /\ walk'.next = walk.next
      /\ (Looked(walk') => walk'.saw = mLocAdapters[walk.next])
      /\ (walk'.saw = Crash => Looked(walk) /\ mLocAdapters[walk.next] = None)
      /\ walk'.reached = walk.reached /\ walk'.taken = walk.taken
      /\ walk'.event = walk.event /\ walk'.present = walk.present
      /\ walk'.disturbed = walk.disturbed /\ walk'.ready = walk.ready
  BY WalkLooks DEF ApiInv
<1>2. mLocAdapters' = mLocAdapters /\ registrar' = registrar /\ stage' = stage
  BY DEF WalkLook, WalkCrash, clientVars
<1>3. ASSUME Undisturbed PROVE Undisturbed'
  <2>1. ~Removing' /\ Registered' = Registered
    BY <1>2, <1>3 DEF Undisturbed, Removing, Registered
  <2>2. walk'.saw # Crash
    BY <1>1, <1>3 DEF Undisturbed, Looked
  <2> QED BY <1>1, <1>2, <1>3, <2>1, <2>2 DEF Undisturbed
<1> QED BY <1>1, <1>2, <1>3 DEF ApiInv, WalkInv

LEMMA ModemWalks == ApiInv /\ ModemStep => WalkInv'
<1> SUFFICES ASSUME ApiInv, ModemStep PROVE WalkInv'
  OBVIOUS
<1>1. ASSUME NEW event \in {"position", "sv", "request"}, Event(event) PROVE WalkInv'
  BY <1>1, StartWalks DEF Event, clientVars
<1>2. CASE Down
  BY <1>2, StartWalks DEF Down, clientVars
<1>3. CASE Recover
  BY <1>3, StartWalks DEF Recover, clientVars
<1>4. CASE WalkEnd
  BY <1>4 DEF WalkEnd, NoWalk, WalkInv
<1>5. CASE WalkLook \/ WalkCrash
  BY <1>5, LookWalks
<1> QED BY <1>1, <1>2, <1>3, <1>4, <1>5, StepWalks DEF ModemStep

-----------------------------------------------------------------------------
(* The theorems *)

\* The types, the shape of the array, the reasons for the events of each
\* adapter and what a walk has called hold in every state.
THEOREM ApiInvAlways == ReportsSpec => []ApiInv
<1>1. ReportsInit => ApiInv
  <2> SUFFICES ASSUME ReportsInit PROVE ApiInv
    OBVIOUS
  <2>1. Registered = {}
    BY DEF ReportsInit, ApiInit, Registered
  <2>2. SubscriptionInv
    BY <2>1 DEF SubscriptionInv
  <2>3. WalkInv
    BY DEF ReportsInit, ApiInit, WalkInv, NoWalk
  <2> QED BY <2>2, <2>3, InitTyped, InitArray DEF ApiInv
<1>2. ApiInv /\ [ReportsNext]_reportVars => ApiInv'
  <2> SUFFICES ASSUME ApiInv, [ReportsNext]_reportVars PROVE ApiInv'
    OBVIOUS
  <2>1. CASE Registrar
    BY <2>1, RegistrarTyped, StepKeepsArray, RegistrarSubscribes, RegistrarWalks DEF ApiInv
  <2>2. CASE TaskStep
    BY <2>2, TaskTyped, StepKeepsArray, TaskSubscribes, TaskWalks DEF ApiInv
  <2>3. CASE ModemStep
    BY <2>3, ModemTyped, StepKeepsArray, ModemSubscribes, ModemWalks DEF ApiInv
  <2>4. CASE UNCHANGED reportVars
    <3>1. /\ mLocAdapters' = mLocAdapters /\ registrar' = registrar /\ stage' = stage
          /\ queue' = queue /\ scan' = scan /\ opened' = opened /\ up' = up /\ walk' = walk
      BY <2>4 DEF reportVars, apiVars, clientVars, modemVars, taskVars
    <3>2. ApiTyped'
      BY <3>1 DEF ApiInv, ApiTyped
    <3>3. ArrayInv'
      BY <3>1, ArrayStays
    <3>4. SubscriptionInv'
      <4> SUFFICES ASSUME NEW b \in Registered' PROVE Covered(b)'
        BY DEF SubscriptionInv
      <4>1. Covered(b)
        BY <3>1 DEF Registered, ApiInv, SubscriptionInv
      <4>2. (OpenDue(b) => OpenDue(b)') /\ (SsrDue => SsrDue')
        BY <3>1 DEF OpenDue, SsrDue
      <4> QED BY <3>1, <4>1, <4>2, CoveredStays
    <3>5. WalkInv'
      BY <3>1, WalkStays DEF ApiInv, Removing
    <3> QED BY <3>2, <3>3, <3>4, <3>5 DEF ApiInv
  <2> QED BY <2>1, <2>2, <2>3, <2>4, NextIs
<1> QED BY <1>1, <1>2, PTL DEF ReportsSpec

\* When nothing that changes it is under way the modem sends the events of
\* every adapter that is registered, whatever was added, removed, restarted
\* and read while the array had a hole in it (Subscribed of LocApi).
THEOREM SubscribedAlways == ReportsSpec => []Subscribed
<1>1. ApiInv => Subscribed
  <2> SUFFICES ASSUME ApiInv, Quiet, NEW b \in Registered PROVE b \in opened
    BY DEF Subscribed
  <2>1. Covered(b)
    BY DEF ApiInv, SubscriptionInv
  <2>2. ~OpenDue(b) /\ ~SsrDue
    BY DEF Quiet, OpenDue, SsrDue
  <2>3. ~(scan.next >= 0)
    BY DEF Quiet, NoScan
  <2> QED BY <2>1, <2>2, <2>3 DEF Quiet, Covered, Removing
<1> QED BY <1>1, ApiInvAlways, PTL

\* At the end of a walk that no removal overlaps each adapter registered when
\* it began was called once, and a request hal is ready for was handled once
\* (ReachesOnce of LocApi).
THEOREM ReachesOnceAlways == ReportsSpec => []ReachesOnce
<1>1. ApiInv => ReachesOnce
  <2> SUFFICES ASSUME ApiInv, WalkOver, ~walk.disturbed
               PROVE  /\ walk.event # "request" => \A a \in walk.present : walk.reached[a] = 1
                      /\ \A a \in Adapter : walk.reached[a] <= 1
                      /\ walk.event = "request" /\ walk.ready => walk.taken = 1
    BY DEF ReachesOnce
  <2>1. ApiTyped /\ ArrayInv /\ WalkInv /\ Undisturbed /\ walk.next \in Nat
    BY DEF ApiInv, WalkInv, WalkOver, ApiTyped, NoWalk
  <2>2. \A a \in Adapter : walk.reached[a] <= 1
    BY <2>1 DEF Undisturbed
  <2>3. walk.taken \in 0 .. 1
    BY <2>1 DEF ApiTyped, Walk
  <2>4. ASSUME walk.taken = 0, NEW i \in Slot, mLocAdapters[i] # None PROVE i < walk.next
    <3> SUFFICES ASSUME walk.next <= i PROVE FALSE
      BY <2>1, SlotIs
    <3>1. walk.next \in Slot /\ mLocAdapters[walk.next] = None
      BY <2>1, <2>4, SlotIs DEF WalkOver, GoesOn
    <3>2. GaplessBut(-1)
      BY <2>1 DEF Undisturbed, ArrayInv
    <3> QED BY <2>4, <3>1, <3>2, SlotIs DEF GaplessBut
  <2>5. ASSUME walk.event # "request", NEW a \in walk.present PROVE walk.reached[a] = 1
    <3>1. walk.taken = 0 /\ a \in Registered
      BY <2>1, <2>5 DEF WalkInv, Undisturbed
    <3>2. PICK i \in Slot : mLocAdapters[i] = a /\ a # None
      BY <3>1 DEF Registered
    <3>3. i < walk.next /\ a \in Adapter
      BY <2>1, <2>4, <3>1, <3>2 DEF ApiTyped
    <3> QED BY <2>1, <3>2, <3>3 DEF Undisturbed
  <2>6. ASSUME walk.event = "request", walk.ready, walk.taken = 0 PROVE FALSE
    <3>1. hal \in Registered
      BY <2>1, <2>6 DEF WalkInv, ArrayInv
    <3>2. PICK i \in Slot : mLocAdapters[i] = hal /\ hal # None
      BY <3>1 DEF Registered
    <3> QED BY <2>1, <2>4, <2>6, <3>2 DEF Undisturbed
  <2> QED BY <2>2, <2>3, <2>5, <2>6
<1> QED BY <1>1, ApiInvAlways, PTL

-----------------------------------------------------------------------------
(* The pages of a satellite report *)

\* The sentences that n satellites take.
LEMMA SentencesIs ==
    ASSUME NEW n \in Nat
    PROVE  /\ Sentences(n) \in Nat
           /\ n <= 4 * Sentences(n)
           /\ \A k \in 0 .. Sentences(n) : k # Sentences(n) => 4 * k < n
<1>1. n \div 4 \in Nat /\ n % 4 \in 0 .. 3 /\ n = 4 * (n \div 4) + (n % 4)
  OBVIOUS
<1> QED BY <1>1 DEF Sentences

LEMMA ThoseIs ==
    ASSUME NEW svs \in Seq(Nat), NEW c
    PROVE  /\ Those(svs, c) \subseteq 1 .. Len(svs) /\ IndexSet(Those(svs, c))
           /\ Len(svs) \in Nat /\ CountOf(svs, c) = Cardinality(Those(svs, c)) /\ CountOf(svs, c) \in Nat
           /\ Rank(Those(svs, c), 0) = 0 /\ Rank(Those(svs, c), Len(svs)) = CountOf(svs, c)
<1> PICK T : T = Those(svs, c)
  OBVIOUS
<1>1. T \subseteq 1 .. Len(svs) /\ Len(svs) \in Nat
  BY DEF Those
<1>2. IndexSet(T)
  BY <1>1 DEF IndexSet
<1>3. Rank(T, 0) = 0
  <2>1. {j \in T : j <= 0} = {}
    BY <1>1
  <2> QED BY <2>1, FS_EmptySet DEF Rank
<1>4. Rank(T, Len(svs)) = Cardinality(T)
  <2>1. {j \in T : j <= Len(svs)} = T
    BY <1>1
  <2> QED BY <2>1 DEF Rank
<1>5. Cardinality(T) \in Nat
  BY <1>2, PickedIs
<1> QED BY <1>1, <1>2, <1>3, <1>4, <1>5 DEF CountOf

\* The satellites told when sentence k is: four by each, or all.
ToldBy(k, n) == IF 4 * k <= n THEN 4 * k ELSE n

\* Where the next sentence stops.
FourthOf(svs, c, from) ==
    {s \in Those(svs, c) : Rank(Those(svs, c), s) = Rank(Those(svs, c), from) + 4}
OneOf(svs, fourth) == IF fourth = {} THEN Len(svs) ELSE CHOOSE s \in fourth : TRUE
NextStop(svs, c, from) == OneOf(svs, FourthOf(svs, c, from))

IsStops(svs, c, g) ==
    g = [k \in 0 .. Sentences(CountOf(svs, c)) |-> IF k = 0 THEN 0 ELSE NextStop(svs, c, g[k - 1])]

\* A sentence that begins where k - 1 sentences are told stops where k are.
LEMMA NextStopIs ==
    ASSUME NEW svs \in Seq(Nat), NEW c, NEW from \in 0 .. Len(svs),
           NEW k \in 1 .. Sentences(CountOf(svs, c)),
           Rank(Those(svs, c), from) = ToldBy(k - 1, CountOf(svs, c))
    PROVE  /\ NextStop(svs, c, from) \in 0 .. Len(svs) /\ from <= NextStop(svs, c, from)
           /\ Rank(Those(svs, c), NextStop(svs, c, from)) = ToldBy(k, CountOf(svs, c))
<1> PICK T : T = Those(svs, c)
  OBVIOUS
<1> PICK n : n = CountOf(svs, c)
  OBVIOUS
<1> PICK F : F = FourthOf(svs, c, from)
  OBVIOUS
<1> PICK s : s = NextStop(svs, c, from)
  OBVIOUS
<1>1. /\ T \subseteq 1 .. Len(svs) /\ IndexSet(T) /\ Len(svs) \in Nat
      /\ n = Cardinality(T) /\ n \in Nat /\ Rank(T, Len(svs)) = n
  BY ThoseIs
<1>2. /\ Sentences(n) \in Nat /\ k \in 1 .. Sentences(n)
      /\ k - 1 \in 0 .. Sentences(n) /\ k - 1 # Sentences(n)
  <2>1. Sentences(n) \in Nat /\ k \in 1 .. Sentences(n)
    BY <1>1, SentencesIs
  <2> QED BY <2>1
<1>3. 4 * (k - 1) < n
  BY <1>1, <1>2, SentencesIs
<1>4. Rank(T, from) = 4 * k - 4
  <2>1. Rank(T, from) = ToldBy(k - 1, n)
    OBVIOUS
  <2>2. 4 * (k - 1) <= n /\ 4 * (k - 1) = 4 * k - 4
    BY <1>1, <1>2, <1>3
  <2> QED BY <2>1, <2>2 DEF ToldBy
<1>5. \A i : i \in F <=> i \in T /\ Rank(T, i) = 4 * k
  <2>1. \A i : i \in F <=> i \in T /\ Rank(T, i) = Rank(T, from) + 4
    BY DEF FourthOf
  <2>2. Rank(T, from) + 4 = 4 * k
    BY <1>2, <1>4
  <2> QED BY <2>1, <2>2
<1>6. CASE F = {}
  <2>1. s = Len(svs)
    BY <1>6 DEF NextStop, OneOf
  <2>2. ~(4 * k <= n)
    <3> SUFFICES ASSUME 4 * k <= n PROVE FALSE
      OBVIOUS
    <3>1. 4 * k \in 1 .. Cardinality(T)
      BY <1>1, <1>2
    <3>2. \E i \in T : Rank(T, i) = 4 * k
      BY <1>1, <3>1, Counted
    <3> QED BY <1>5, <1>6, <3>2
  <2> QED BY <1>1, <2>1, <2>2 DEF ToldBy
<1>7. CASE F # {}
  <2>1. s \in F
    BY <1>7 DEF NextStop, OneOf
  <2>2. s \in T /\ Rank(T, s) = 4 * k /\ s \in 0 .. Len(svs)
    BY <1>1, <1>5, <2>1
  <2>3. 4 * k <= n
    <3>1. Rank(T, s) \in 1 .. Cardinality(T)
      BY <1>1, <2>2, Counted
    <3> QED BY <1>1, <2>2, <3>1
  <2>4. from <= s
    <3>1. s \in Nat /\ from \in Nat
      BY <1>1, <2>2
    <3>2. s <= from => Rank(T, s) <= Rank(T, from)
      BY <1>1, <3>1, RankAdds
    <3>3. ~(4 * k <= 4 * k - 4)
      BY <1>2
    <3> QED BY <1>4, <2>2, <3>1, <3>2, <3>3
  <2> QED BY <2>2, <2>3, <2>4 DEF ToldBy
<1> QED BY <1>6, <1>7

\* The stops exist: the stop after sentence k depends on no more of the one
\* before than how many satellites were told up to it.
LEMMA StopsExist == ASSUME NEW svs \in Seq(Nat), NEW c PROVE \E g : IsStops(svs, c, g)
<1> PICK T : T = Those(svs, c)
  OBVIOUS
<1> PICK n : n = CountOf(svs, c)
  OBVIOUS
<1> PICK m : m = Sentences(n)
  OBVIOUS
<1>1. /\ IndexSet(T) /\ Len(svs) \in Nat /\ T \subseteq 1 .. Len(svs)
      /\ n = Cardinality(T) /\ n \in Nat /\ Rank(T, 0) = 0
  BY ThoseIs
<1>2. m \in Nat /\ \A k \in 0 .. m : k # m => 4 * k < n
  BY <1>1, SentencesIs
<1> DEFINE At(k) == CHOOSE f \in 0 .. Len(svs) : Rank(T, f) = ToldBy(k, n)
           Stop(k) == IF k = 0 THEN 0 ELSE NextStop(svs, c, At(k - 1))
<1>3. ASSUME NEW k \in 1 .. m PROVE At(k - 1) \in 0 .. Len(svs) /\ Rank(T, At(k - 1)) = ToldBy(k - 1, n)
  <2>1. k - 1 \in 0 .. m /\ k - 1 # m
    BY <1>2
  <2>2. 4 * (k - 1) < n /\ ToldBy(k - 1, n) = 4 * (k - 1)
    BY <1>1, <1>2, <2>1 DEF ToldBy
  <2>3. \E f \in 0 .. Len(svs) : Rank(T, f) = ToldBy(k - 1, n)
    <3>1. CASE k - 1 = 0
      BY <1>1, <2>2, <3>1
    <3>2. CASE k - 1 # 0
      <4>1. 4 * (k - 1) \in 1 .. Cardinality(T)
        BY <1>1, <2>1, <2>2, <3>2
      <4>2. PICK f \in T : Rank(T, f) = 4 * (k - 1)
        BY <1>1, <4>1, Counted
      <4> QED BY <1>1, <2>2, <4>2
    <3> QED BY <3>1, <3>2
  <2> QED BY <2>3
<1> HIDE DEF At
<1>4. ASSUME NEW k \in 1 .. m PROVE Stop(k - 1) \in 0 .. Len(svs) /\ Rank(T, Stop(k - 1)) = ToldBy(k - 1, n)
  <2>1. CASE k = 1
    <3>1. ToldBy(0, n) = 0
      BY <1>1 DEF ToldBy
    <3>2. Stop(k - 1) = 0 /\ k - 1 = 0
      BY <2>1
    <3> QED BY <1>1, <3>1, <3>2
  <2>2. CASE k # 1
    <3> PICK j : j = k - 1
      OBVIOUS
    <3>1. j \in 1 .. m /\ j # 0
      BY <1>2, <2>2
    <3> PICK f : f = At(j - 1)
      OBVIOUS
    <3>2. f \in 0 .. Len(svs) /\ Rank(T, f) = ToldBy(j - 1, n)
      BY <1>3, <3>1
    <3>3. NextStop(svs, c, f) \in 0 .. Len(svs) /\ Rank(T, NextStop(svs, c, f)) = ToldBy(j, n)
      BY <3>1, <3>2, NextStopIs
    <3>4. Stop(j) = NextStop(svs, c, f)
      BY <3>1
    <3> HIDE DEF Stop
    <3> QED BY <3>3, <3>4
  <2> QED BY <2>1, <2>2
<1>5. ASSUME NEW k \in 1 .. m PROVE Stop(k) = NextStop(svs, c, Stop(k - 1))
  <2> PICK a : a = At(k - 1)
    OBVIOUS
  <2> PICK b : b = Stop(k - 1)
    OBVIOUS
  <2>1. Stop(k) = NextStop(svs, c, a)
    BY <1>2
  <2>2. Rank(T, a) = Rank(T, b)
    <3> HIDE DEF Stop
    <3> QED BY <1>3, <1>4
  <2>3. FourthOf(svs, c, a) = FourthOf(svs, c, b)
    BY <2>2 DEF FourthOf
  <2>4. NextStop(svs, c, a) = NextStop(svs, c, b)
    BY <2>3 DEF NextStop
  <2> HIDE DEF Stop
  <2> QED BY <2>1, <2>4
<1> PICK g : g = [k \in 0 .. m |-> Stop(k)]
  OBVIOUS
<1>6. \A k \in 0 .. m : g[k] = IF k = 0 THEN 0 ELSE NextStop(svs, c, g[k - 1])
  <2> SUFFICES ASSUME NEW k \in 0 .. m PROVE g[k] = IF k = 0 THEN 0 ELSE NextStop(svs, c, g[k - 1])
    OBVIOUS
  <2>1. CASE k = 0
    BY <2>1
  <2>2. CASE k # 0
    <3>1. k \in 1 .. m /\ k - 1 \in 0 .. m
      BY <1>2, <2>2
    <3> HIDE DEF Stop
    <3>2. g[k] = Stop(k) /\ g[k - 1] = Stop(k - 1)
      BY <3>1
    <3> QED BY <1>5, <2>2, <3>1, <3>2
  <2> QED BY <2>1, <2>2
<1>7. g = [k \in 0 .. m |-> g[k]]
  <2> HIDE DEF Stop
  <2> QED OBVIOUS
<1> HIDE DEF Stop
<1>8. g = [k \in 0 .. m |-> IF k = 0 THEN 0 ELSE NextStop(svs, c, g[k - 1])]
  BY <1>6, <1>7
<1>9. IsStops(svs, c, g)
  BY <1>8 DEF IsStops
<1> QED BY <1>9

\* What Stops are: each goes on from the one before, as far as four more
\* satellites, or all, are told.
LEMMA StopsAre ==
    ASSUME NEW svs \in Seq(Nat), NEW c, NEW k \in 1 .. Sentences(CountOf(svs, c))
    PROVE  /\ Stops(svs, c)[k - 1] \in Nat /\ Stops(svs, c)[k] \in Nat
           /\ Stops(svs, c)[k - 1] <= Stops(svs, c)[k]
           /\ Rank(Those(svs, c), Stops(svs, c)[k - 1]) = ToldBy(k - 1, CountOf(svs, c))
           /\ Rank(Those(svs, c), Stops(svs, c)[k]) = ToldBy(k, CountOf(svs, c))
<1> PICK T : T = Those(svs, c)
  OBVIOUS
<1> PICK n : n = CountOf(svs, c)
  OBVIOUS
<1> PICK m : m = Sentences(n)
  OBVIOUS
<1>1. PICK stop : Stops(svs, c) = stop /\ IsStops(svs, c, stop)
  <2>1. Stops(svs, c) = CHOOSE g : IsStops(svs, c, g)
    BY DEF Stops, IsStops, NextStop, OneOf, FourthOf
  <2> QED BY <2>1, StopsExist
<1>2. stop = [i \in 0 .. m |-> IF i = 0 THEN 0 ELSE NextStop(svs, c, stop[i - 1])]
  BY <1>1 DEF IsStops
<1>3. Len(svs) \in Nat /\ n \in Nat /\ m \in Nat /\ Rank(T, 0) = 0 /\ k \in 1 .. m
  BY ThoseIs, SentencesIs
<1>4. stop[0] = 0 /\ \A i \in 1 .. m : stop[i] = NextStop(svs, c, stop[i - 1])
  BY <1>2, <1>3
<1> DEFINE Right(i) == stop[i] \in 0 .. Len(svs) /\ Rank(T, stop[i]) = ToldBy(i, n)
<1>5. Right(0)
  <2>1. ToldBy(0, n) = 0
    BY <1>3 DEF ToldBy
  <2> QED BY <1>3, <1>4, <2>1
<1>6. ASSUME NEW i \in 1 .. m, Right(i - 1) PROVE Right(i) /\ stop[i - 1] <= stop[i]
  <2> PICK f : f = stop[i - 1]
    OBVIOUS
  <2>1. NextStop(svs, c, f) \in 0 .. Len(svs) /\ f <= NextStop(svs, c, f)
        /\ Rank(T, NextStop(svs, c, f)) = ToldBy(i, n)
    BY <1>6, NextStopIs
  <2>2. stop[i] = NextStop(svs, c, f)
    BY <1>4
  <2> QED BY <2>1, <2>2
<1> HIDE DEF Right
<1>7. \A i \in 0 .. m : Right(i)
  <2> PICK W : W = {i \in 0 .. m : ~Right(i)}
    OBVIOUS
  <2>1. ASSUME W # {} PROVE FALSE
    <3>1. W \subseteq Nat
      BY <1>3
    <3>2. PICK i \in W : \A j \in W : i <= j
      BY <2>1, <3>1, LeastNatural
    <3>3. i \in 0 .. m /\ ~Right(i)
      BY <3>2
    <3>4. i # 0
      BY <1>5, <3>3
    <3>5. i \in 1 .. m /\ i - 1 \in 0 .. m /\ ~(i <= i - 1)
      BY <1>3, <3>3, <3>4
    <3>6. Right(i - 1)
      BY <3>2, <3>5
    <3> QED BY <1>6, <3>3, <3>5, <3>6
  <2> QED BY <2>1
<1>8. Right(k - 1) /\ Right(k) /\ stop[k - 1] <= stop[k]
  <2>1. k - 1 \in 0 .. m /\ k \in 0 .. m
    BY <1>3
  <2> QED BY <1>3, <1>6, <1>7, <2>1
<1> QED BY <1>1, <1>3, <1>8 DEF Right

\* The satellites that a page tells.
PageOf(svs, c, k) == Picked(svs, Within(Those(svs, c), Stops(svs, c)[k - 1], Stops(svs, c)[k]))

PartOf(told, k, last) == SubSeq(told, 4 * k - 3, IF k < last THEN 4 * k ELSE Len(told))

LEMMA PageIs ==
    ASSUME NEW svs \in Seq(Nat), NEW c, NEW k \in 1 .. Sentences(CountOf(svs, c))
    PROVE  /\ Len(PageOf(svs, c, k)) <= 4
           /\ PageOf(svs, c, k) = PartOf(Picked(svs, Those(svs, c)), k, Sentences(CountOf(svs, c)))
<1> PICK T : T = Those(svs, c)
  OBVIOUS
<1> PICK n : n = CountOf(svs, c)
  OBVIOUS
<1> PICK m : m = Sentences(n)
  OBVIOUS
<1> PICK a : a = Stops(svs, c)[k - 1]
  OBVIOUS
<1> PICK b : b = Stops(svs, c)[k]
  OBVIOUS
<1> PICK part : part = Within(T, a, b)
  OBVIOUS
<1> PICK told : told = Picked(svs, T)
  OBVIOUS
<1> PICK page : page = Picked(svs, part)
  OBVIOUS
<1>1. IndexSet(T) /\ T \subseteq 1 .. Len(svs) /\ n = Cardinality(T) /\ n \in Nat /\ Len(svs) \in Nat
  BY ThoseIs
<1>2. /\ m \in Nat /\ k \in 1 .. m /\ n <= 4 * m
      /\ \A i \in 0 .. m : i # m => 4 * i < n
  <2>1. k \in 1 .. m
    OBVIOUS
  <2> QED BY <1>1, <2>1, SentencesIs
<1>3. a \in Nat /\ b \in Nat /\ a <= b /\ Rank(T, a) = ToldBy(k - 1, n) /\ Rank(T, b) = ToldBy(k, n)
  BY StopsAre
<1>4. ToldBy(k - 1, n) = 4 * k - 4
  <2>1. k - 1 \in 0 .. m /\ k - 1 # m
    BY <1>2
  <2>2. 4 * (k - 1) <= n
    BY <1>1, <1>2, <2>1
  <2> QED BY <1>2, <2>2 DEF ToldBy
<1>5. ToldBy(k, n) = IF k < m THEN 4 * k ELSE n
  <2>1. CASE k < m
    <3>1. k \in 0 .. m /\ k # m
      BY <1>2, <2>1
    <3>2. 4 * k <= n
      BY <1>1, <1>2, <3>1
    <3> QED BY <2>1, <3>2 DEF ToldBy
  <2>2. CASE ~(k < m)
    <3>1. k = m
      BY <1>2, <2>2
    <3>2. m \in Nat /\ n \in Nat /\ n <= 4 * m
      BY <1>1, <1>2
    <3>3. 4 * k <= n => 4 * k = n
      BY <3>1, <3>2
    <3> QED BY <2>2, <3>3 DEF ToldBy
  <2> QED BY <2>1, <2>2
<1>6. \A i \in T : svs[i] \in Nat
  BY <1>1
<1>7. Len(told) = n
  BY <1>1, <1>6, PickedSeq
<1>8. page = SubSeq(told, 4 * k - 3, IF k < m THEN 4 * k ELSE n)
  <2>1. page = SubSeq(told, Rank(T, a) + 1, Rank(T, b))
    BY <1>1, <1>3, PickedPart
  <2>2. Rank(T, a) + 1 = 4 * k - 3
    BY <1>2, <1>3, <1>4
  <2> QED BY <1>3, <1>5, <2>1, <2>2
<1>9. Len(page) <= 4
  <2>1. Cardinality(part) = Rank(T, b) - Rank(T, a)
    BY <1>1, <1>3, RankAdds
  <2>2. ToldBy(k, n) <= 4 * k
    BY <1>1, <1>2 DEF ToldBy
  <2>3. Rank(T, b) \in Nat
    BY <1>1, <1>3, RankAdds
  <2>4. Cardinality(part) <= 4
    BY <1>2, <1>3, <1>4, <2>1, <2>2, <2>3
  <2>5. part \subseteq T
    BY DEF Within
  <2>6. IndexSet(part)
    <3>1. part \subseteq 1 .. Len(svs)
      BY <1>1, <2>5
    <3> QED BY <1>1, <3>1 DEF IndexSet
  <2>7. \A i \in part : svs[i] \in Nat
    BY <1>6, <2>5
  <2> QED BY <2>4, <2>6, <2>7, PickedSeq
<1>10. page = PageOf(svs, c, k)
  BY DEF PageOf
<1>11. page = PartOf(told, k, m)
  BY <1>7, <1>8 DEF PartOf
<1> QED BY <1>9, <1>10, <1>11

\* However long a satellite report is and whatever satellites it lists, its
\* pages of a constellation tell each of its satellites once, in order, four by
\* each page but the last (PagesTellAll of Nmea): the loop that skips the
\* satellites of the other constellation stops where the next page goes on.
THEOREM PagesTell == ASSUME NEW svs \in Seq(Nat), NEW c PROVE PagesTellAll(svs, c)
<1> PICK T : T = Those(svs, c)
  OBVIOUS
<1> PICK n : n = CountOf(svs, c)
  OBVIOUS
<1> PICK m : m = Sentences(n)
  OBVIOUS
<1> PICK told : told = Picked(svs, T)
  OBVIOUS
<1> PICK pages : pages = GsvSentences(svs, c)
  OBVIOUS
<1>1. IndexSet(T) /\ T \subseteq 1 .. Len(svs) /\ n = Cardinality(T) /\ n \in Nat
  BY ThoseIs
<1>2. m \in Nat /\ n <= 4 * m
  BY <1>1, SentencesIs
<1>3. told \in Seq(Nat) /\ Len(told) = n
  <2>1. \A i \in T : svs[i] \in Nat
    BY <1>1
  <2> QED BY <1>1, <2>1, PickedSeq
<1> SUFFICES ASSUME NEW k \in DOMAIN pages
             PROVE  /\ pages[k].of = Len(pages) /\ Len(pages[k].svs) <= 4
                    /\ pages[k].svs = SubSeq(told, 4 * k - 3, IF k < Len(pages) THEN 4 * k ELSE Len(told))
  BY DEF PagesTellAll
<1>4. CASE n = 0
  <2>1. pages = <<[of |-> 1, number |-> 1, inView |-> 0, svs |-> <<>>]>>
    BY <1>4 DEF GsvSentences
  <2>2. k = 1 /\ Len(pages) = 1 /\ pages[k].of = 1 /\ pages[k].svs = <<>>
    BY <2>1
  <2>3. SubSeq(told, 1, 0) = <<>>
    BY <1>3
  <2> QED BY <1>3, <1>4, <2>2, <2>3
<1>5. CASE n # 0
  <2>1. pages = [i \in 1 .. m |-> [of |-> m, number |-> i, inView |-> n, svs |-> PageOf(svs, c, i)]]
    BY <1>5 DEF GsvSentences, PageOf, Within
  <2>2. DOMAIN pages = 1 .. m /\ k \in 1 .. m
    BY <2>1
  <2>3. Len(pages) = m
    BY <1>2, <2>1
  <2>4. pages[k].of = m /\ pages[k].svs = PageOf(svs, c, k)
    BY <2>1, <2>2
  <2>5. Len(PageOf(svs, c, k)) <= 4 /\ PageOf(svs, c, k) = PartOf(told, k, m)
    BY <2>2, PageIs
  <2> QED BY <2>3, <2>4, <2>5 DEF PartOf
<1> QED BY <1>4, <1>5

-----------------------------------------------------------------------------
(* The sentences of a position *)

\* What sv_used_mask and the DOP may be: those of the last report that had
\* used satellites, or dropped, and no DOP without the satellites.
CacheInv ==
    /\ cache = [used |-> cache.used, dop |-> cache.dop]
    /\ latest.used \subseteq Gps /\ latest.dop \in Nat
    /\ cache.used \in {{}, latest.used}
    /\ cache.dop \in {0, latest.dop}
    /\ cache.dop > 0 => cache.used # {}

LEMMA SvKeepsCache ==
    ASSUME CacheInv, NEW r \in SvReport, NEW muted \in BOOLEAN, DoSv(r, muted)
    PROVE  CacheInv'
<1>1. r.used \subseteq Gps /\ r.dop \in Nat
  BY ReportsAssumption DEF SvReportType
<1>2. CASE muted \/ r.used = {}
  BY <1>2 DEF CacheInv, DoSv, CacheAfterSv
<1>3. CASE ~muted /\ r.used # {}
  <2>1. cache' = [used |-> r.used, dop |-> r.dop] /\ latest' = r
    BY <1>3 DEF DoSv, CacheAfterSv
  <2> QED BY <1>1, <1>3, <2>1 DEF CacheInv
<1> QED BY <1>2, <1>3

LEMMA PositionKeepsCache ==
    ASSUME CacheInv, NEW p \in Position, NEW muted \in BOOLEAN, DoPosition(p, muted)
    PROVE  CacheInv'
<1>1. latest' = latest
  BY DEF DoPosition
<1>2. \/ cache' = cache
      \/ cache' = [used |-> {}, dop |-> 0]
      \/ cache' = [used |-> cache.used, dop |-> 0]
  BY DEF DoPosition, CacheAfterPosition
<1> QED BY <1>1, <1>2 DEF CacheInv

THEOREM CacheIsOfLatest == ReportsSpec => []CacheInv
<1>1. ReportsInit => CacheInv
  BY DEF ReportsInit, CacheInv, NoCache, NoReport
<1>2. CacheInv /\ [ReportsNext]_reportVars => CacheInv'
  <2> SUFFICES ASSUME CacheInv, [ReportsNext]_reportVars PROVE CacheInv'
    OBVIOUS
  <2>1. CASE UNCHANGED <<cache, latest>>
    BY <2>1 DEF CacheInv
  <2>2. CASE ReportsNext /\ ~UNCHANGED <<cache, latest>>
    <3>1. PICK muted \in BOOLEAN :
              (\E r \in SvReport : DoSv(r, muted)) \/ (\E p \in Position : DoPosition(p, muted))
      BY <2>2 DEF ReportsNext
    <3> QED BY <3>1, SvKeepsCache, PositionKeepsCache
  <2> QED BY <2>1, <2>2 DEF reportVars
<1> QED BY <1>1, <1>2, PTL DEF ReportsSpec

\* The list of the bits of the mask.
LEMMA UsedListIs ==
    ASSUME NEW used, used \subseteq Gps
    PROVE  UsedList(used) \in Seq(used) /\ Len(UsedList(used)) = Cardinality(used) /\ Cardinality(used) \in Nat
           /\ (Cardinality(used) = 0 <=> used = {})
<1> PICK s : s = [i \in Gps |-> i]
  OBVIOUS
<1>1. IndexSet(used)
  <2>1. used \subseteq 1 .. 32
    BY DEF Gps
  <2> QED BY <2>1 DEF IndexSet
<1>2. \A i \in used : s[i] \in used
  OBVIOUS
<1>3. UsedList(used) = Picked(s, used)
  BY DEF UsedList
<1> QED BY <1>1, <1>2, <1>3, IndexSetFinite, PickedSeq

LEMMA FirstOf ==
    ASSUME NEW S, NEW q \in Seq(S), NEW e \in 0 .. Len(q)
    PROVE  SubSeq(q, 1, e) \in Seq(S) /\ Len(SubSeq(q, 1, e)) = e
<1>1. Len(q) \in Nat /\ \A i \in 1 .. e : q[i] \in S
  OBVIOUS
<1>2. SubSeq(q, 1, e) \in Seq(S) /\ Len(SubSeq(q, 1, e)) = IF 1 <= e THEN e - 1 + 1 ELSE 0
  BY <1>1, SubSeqProperties
<1> QED BY <1>1, <1>2

LEMMA GsaTells ==
    ASSUME CacheInv, NEW p \in Position
    PROVE  /\ {Gsa(cache, p).svs[i] : i \in DOMAIN Gsa(cache, p).svs} \subseteq latest.used
           /\ Gsa(cache, p).fix = "1" <=> Cardinality(cache.used) = 0
           /\ Gsa(cache, p).svs = <<>> => cache.used = {}
<1> PICK used : used = cache.used
  OBVIOUS
<1> PICK list : list = UsedList(used)
  OBVIOUS
<1> PICK n : n = Len(list)
  OBVIOUS
<1> PICK w : w = Gsa(cache, p).svs
  OBVIOUS
<1>1. used \subseteq Gps /\ used \subseteq latest.used
  BY DEF CacheInv
<1>2. list \in Seq(used) /\ n = Cardinality(used) /\ n \in Nat /\ (n = 0 <=> used = {})
  BY <1>1, UsedListIs
<1>3. w = SubSeq(list, 1, IF n <= 12 THEN n ELSE 12) /\ Gsa(cache, p).fix = IF n = 0 THEN "1" ELSE IF n <= 3 THEN "2" ELSE "3"
  BY DEF Gsa
<1>4. w \in Seq(used) /\ (Len(w) = 0 => n = 0)
  <2>1. PICK e \in 0 .. n : w = SubSeq(list, 1, e) /\ (e = 0 => n = 0)
    <3>1. (IF n <= 12 THEN n ELSE 12) \in 0 .. n
      BY <1>2
    <3> QED BY <1>2, <1>3, <3>1
  <2>2. SubSeq(list, 1, e) \in Seq(used) /\ Len(SubSeq(list, 1, e)) = e
    BY <1>2, FirstOf
  <2> QED BY <2>1, <2>2
<1>5. \A i \in DOMAIN w : w[i] \in used
  <2>1. DOMAIN w = 1 .. Len(w) /\ \A i \in 1 .. Len(w) : w[i] \in used
    BY <1>4, LenProperties, ElementOfSeq
  <2> QED BY <2>1
<1>6. w = <<>> => n = 0
  <2>1. w = <<>> => Len(w) = 0
    OBVIOUS
  <2> QED BY <1>2, <1>4, <2>1
<1> QED BY <1>1, <1>2, <1>3, <1>5, <1>6

\* Whatever reports came and were muted, dropped or overwritten, the sentences
\* of the next position tell no satellite and no DOP but the last satellite
\* report's or its own, and agree with each other (SentencesAgree of Reports).
THEOREM SentencesAlwaysAgree == ReportsSpec => []SentencesAgree
<1>1. ASSUME CacheInv, NEW p \in Position, NEW standalone, NEW told \in BOOLEAN,
             NEW s, s = PositionSentences(cache, p, told, standalone)
      PROVE  SatellitesOf(s, latest) /\ DopOf(s, p, latest) /\ PlaceAgrees(s)
  <2>0. p.dop \in Nat /\ cache.dop \in Nat /\ "latlong" # NoValue
    BY <1>1, ReportsAssumption DEF PositionType, CacheInv, NoValue
  <2>1. CASE ~told
    <3>1. s = Blank
      BY <1>1, <2>1 DEF PositionSentences
    <3>2. SatellitesOf(s, latest)
      BY <3>1 DEF Blank, SatellitesOf
    <3>3. DopOf(s, p, latest)
      BY <3>1 DEF Blank, DopOf
    <3>4. PlaceAgrees(s)
      BY <3>1 DEF Blank, PlaceAgrees
    <3> QED BY <3>2, <3>3, <3>4
  <2>2. CASE told
    <3>1. s = [gsa |-> Gsa(cache, p), vtg |-> Vtg(p, standalone), rmc |-> Rmc(p, standalone),
               gga |-> Gga(cache, p, standalone)]
      BY <1>1, <2>2 DEF PositionSentences
    <3>2. s.gga.svs = Cardinality(cache.used)
      BY <3>1 DEF Gga
    <3>3. s.gga.dop = DopTold(cache, p) /\ s.gsa.dop = DopTold(cache, p)
      BY <3>1 DEF Gga, Gsa
    <3>4. SatellitesOf(s, latest)
      <4>1. Cardinality(cache.used) \in {0, Cardinality(latest.used)}
        BY <1>1, FS_EmptySet DEF CacheInv
      <4> QED BY <1>1, <3>1, <3>2, <4>1, GsaTells DEF SatellitesOf
    <3>5. DopOf(s, p, latest)
      <4>1. DopTold(cache, p) > 0 /\ DopTold(cache, p) # p.dop =>
               DopTold(cache, p) = cache.dop /\ cache.dop > 0
        BY <2>0 DEF DopTold
      <4>2. cache.dop > 0 => cache.dop = latest.dop /\ cache.used # {}
        BY <1>1, <2>0 DEF CacheInv
      <4>3. s.gsa.svs = Gsa(cache, p).svs
        BY <3>1
      <4> QED BY <1>1, <3>3, <4>1, <4>2, <4>3, GsaTells DEF DopOf
    <3>6. PlaceAgrees(s)
      <4> PICK mode : mode = ModeOf(p, standalone)
        OBVIOUS
      <4>1. mode \in {"N", "A", "D"} /\ (mode = "N" <=> "latlong" \notin p.has)
        BY DEF ModeOf
      <4>2. s.vtg.mode = mode /\ s.rmc.mode = mode
        BY <3>1 DEF Vtg, Rmc
      <4>3. s.gga.place = Told(p, "latlong") /\ s.rmc.place = Told(p, "latlong")
        BY <3>1 DEF Gga, Rmc
      <4>4. s.gga.quality = 0 <=> mode = "N"
        <5>1. s.gga.quality = CASE mode = "N" -> 0 [] mode = "A" -> 1 [] OTHER -> 2
          BY <3>1 DEF Gga
        <5> QED BY <5>1
      <4>5. Told(p, "latlong") = NoValue <=> "latlong" \notin p.has
        BY <2>0 DEF Told
      <4> QED BY <4>1, <4>2, <4>3, <4>4, <4>5 DEF PlaceAgrees
    <3> QED BY <3>4, <3>5, <3>6
  <2> QED BY <2>1, <2>2
<1>2. PagesAgree
  <2>1. \A r \in SvReport : r.svs \in Seq(Nat)
    BY ReportsAssumption DEF SvReportType
  <2> QED BY <2>1, PagesTell DEF PagesAgree
<1>3. CacheInv => SentencesAgree
  <2> SUFFICES ASSUME CacheInv, NEW p \in Position, NEW standalone \in ReadStandalone
               PROVE  LET told == ReportedFix(p) /\ p.status # "failure"
                          s    == PositionSentences(cache, p, told, standalone)
                      IN  SatellitesOf(s, latest) /\ DopOf(s, p, latest) /\ PlaceAgrees(s)
    BY <1>2 DEF SentencesAgree
  <2> PICK told : told = (ReportedFix(p) /\ p.status # "failure")
    OBVIOUS
  <2> PICK s : s = PositionSentences(cache, p, told, standalone)
    OBVIOUS
  <2>1. told \in BOOLEAN
    OBVIOUS
  <2>2. SatellitesOf(s, latest) /\ DopOf(s, p, latest) /\ PlaceAgrees(s)
    BY <1>1, <2>1
  <2> QED BY <2>2
<1> QED BY <1>3, CacheIsOfLatest, PTL
=============================================================================
