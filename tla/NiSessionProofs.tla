--------------------------- MODULE NiSessionProofs ---------------------------
(***************************************************************************)
(* Theorems about NiSession, for any number of requests and restarts:      *)
(* OneAnswer, PayloadOwned and OneWaiter.                                  *)
(***************************************************************************)
EXTENDS NiSession, TLAPS

Reply  == Response \cup {"none"}
Answer == [resp : Reply, payload : Req \cup {NoReq}]

\* The requests made so far, the one that has no id yet included.
Made == IF mpc[1] = "id" THEN reqIDCounter + 1 ELSE reqIDCounter

Typed ==
    /\ reqIDCounter \in Nat /\ Made <= MaxReq
    /\ rawRequest \in [Session -> 0 .. Made]
    /\ resp \in [Session -> Reply]
    /\ tLock \in [Session -> Req \cup {NoReq}]
    /\ home \in [Req -> Session \cup {"none"}]
    /\ tpc \in [Req -> {"none", "start", "wait", "take", "clear", "forget", "send", "done"}]
    /\ tmsg \in [Req -> Answer \cup {NoMsg}]
    /\ queue \in Seq(Answer)
    /\ upc = Idle \/ (upc[2] \in Session /\ upc[3] \in Reply)
    /\ informed \in [Req -> Seq(Reply)]
    /\ freed \in [Req -> Nat]
    /\ downs \in Nat /\ (downs = 0 => mpc = Idle \/ mpc[1] = "id")

\* The NI threads that exist, and the one that has a session's lock.
Threads ==
    /\ \A n \in Req : tpc[n] = "none" <=> n > reqIDCounter
    /\ \A n \in Req : tpc[n] # "none" => home[n] \in Session
    /\ \A s \in Session : tLock[s] # NoReq =>
          home[tLock[s]] = s /\ tpc[tLock[s]] \in {"take", "clear"}
    /\ \A n \in Req : tpc[n] \in {"take", "clear"} => tLock[home[n]] = n

Held(n, p)  == tmsg[n] # NoMsg /\ tmsg[n].payload = p
Queued(p)   == \E i \in DOMAIN queue : queue[i].payload = p
Clearing(s) == tLock[s] # NoReq /\ tpc[tLock[s]] = "clear"

\* A payload that nobody has yet taken for an answer.
Untaken(p) == \/ p > Made
              \/ \E s \in Session : rawRequest[s] = p /\ ~Clearing(s)

\* The answer to a request is with one thread, in the queue or with the modem.
Sole(p) ==
    /\ \A m, n \in Req : Held(m, p) /\ Held(n, p) => m = n
    /\ \A i, j \in DOMAIN queue : queue[i].payload = p /\ queue[j].payload = p => i = j
    /\ (\E n \in Req : Held(n, p)) => ~Queued(p)
    /\ Len(informed[p]) <= 1
    /\ informed[p] # <<>> \/ Untaken(p) => ~Queued(p) /\ ~\E n \in Req : Held(n, p)
    /\ Untaken(p) => informed[p] = <<>>
    /\ downs = 0 =>
          /\ freed[p] <= 1
          /\ Untaken(p) \/ Queued(p) \/ (\E n \in Req : Held(n, p)) => freed[p] = 0

Inv ==
    /\ Typed
    /\ Threads
    /\ rawRequest["std"] = rawRequest["es"] => rawRequest["std"] = NoReq
    /\ \A p \in Req : Sole(p)

-----------------------------------------------------------------------------
LEMMA InitInv == Init => Inv
<1> SUFFICES ASSUME Init PROVE Inv
  OBVIOUS
<1> USE NiAssumption
<1>1. Typed
  BY DEF Init, Typed, Made, Session, NoReq, Reply, Idle
<1>2. Threads
  BY DEF Init, Threads, Session, NoReq, Req
<1>3. \A p \in Req : Sole(p)
  BY DEF Init, Sole, Held, Queued, Untaken, Session, NoReq, Req
<1> QED BY <1>1, <1>2, <1>3 DEF Inv, Init, Session

\* A payload that gets no new holder, and is untaken only if it was, keeps
\* its sole answer.
LEMMA QuietSole ==
    ASSUME NEW p \in Req, Sole(p), Untaken(p)' => Untaken(p),
           UNCHANGED <<tmsg, queue, informed>>, downs' = 0 => downs = 0 /\ freed' = freed
    PROVE  Sole(p)'
  BY DEF Sole, Held, Queued

-----------------------------------------------------------------------------
(* The MsgTask *)

\* The payload gets into its session: it has been made, and nobody took it.
LEMMA RequestStep == ASSUME NEW s \in Session, Inv, Request(s) PROVE Inv'
<1> USE NiAssumption
<1> DEFINE n == reqIDCounter + 1
<1>1. /\ n \in Req /\ n # NoReq /\ Made = reqIDCounter /\ Made' = n
      /\ rawRequest' = [rawRequest EXCEPT ![s] = n]
      /\ mpc' = <<"id", s>>
  BY DEF Request, Idle, Made, Inv, Typed, NoReq, Req
<1>2. UNCHANGED <<reqIDCounter, resp, tLock, home, tpc, tmsg, queue, upc, informed, freed, downs>>
  BY DEF Request, threadVars, history
<1>3. reqIDCounter \in Nat /\ rawRequest \in [Session -> 0 .. reqIDCounter]
  BY <1>1 DEF Inv, Typed
<1> HIDE DEF n
<1>4. Typed'
  <2>1. rawRequest' \in [Session -> 0 .. Made']
    BY <1>1, <1>3 DEF n
  <2>2. Made' <= MaxReq
    BY <1>1 DEF Req
  <2> QED BY <1>1, <1>2, <2>1, <2>2 DEF Inv, Typed
<1>5. Threads'
  BY <1>2 DEF Inv, Threads
<1>6. rawRequest'["std"] = rawRequest'["es"] => rawRequest'["std"] = NoReq
  BY <1>1, <1>3 DEF Session, n
<1>7. ASSUME NEW p \in Req PROVE Sole(p)'
  <2>1. ASSUME NEW t \in Session PROVE Clearing(t)' <=> Clearing(t)
    BY <1>2 DEF Clearing
  <2>2. Untaken(p)' => Untaken(p)
    BY <1>1, <1>3, <2>1 DEF Untaken, Req, n
  <2> QED BY <1>2, <2>2, QuietSole DEF Inv
<1> QED BY <1>4, <1>5, <1>6, <1>7 DEF Inv

\* The request gets its id and its thread.
LEMMA RequestOpenStep == ASSUME NEW s \in Session, Inv, RequestOpen(s) PROVE Inv'
<1> USE NiAssumption
<1> DEFINE n == reqIDCounter + 1
<1>1. /\ n \in Req /\ n # NoReq /\ tpc[n] = "none"
      /\ reqIDCounter' = n /\ Made = n /\ Made' = n
      /\ tpc' = [tpc EXCEPT ![n] = "start"] /\ home' = [home EXCEPT ![n] = s]
      /\ mpc' = Idle
  BY DEF RequestOpen, Idle, Made, Inv, Typed, Threads, NoReq, Req
<1>2. UNCHANGED <<rawRequest, resp, tLock, tmsg, queue, upc, informed, freed, downs>>
  BY DEF RequestOpen, history
<1> HIDE DEF n
<1>3. Typed'
  <2>1. home' \in [Req -> Session \cup {"none"}]
    BY <1>1 DEF Inv, Typed
  <2>2. tpc' \in [Req -> {"none", "start", "wait", "take", "clear", "forget", "send", "done"}]
    BY <1>1 DEF Inv, Typed
  <2>3. reqIDCounter' \in Nat /\ Made' <= MaxReq
    BY <1>1 DEF Req
  <2> QED BY <1>1, <1>2, <2>1, <2>2, <2>3 DEF Inv, Typed
<1>4. Threads'
  <2>1. ASSUME NEW m \in Req PROVE tpc'[m] = "none" <=> m > reqIDCounter'
    BY <1>1 DEF Inv, Typed, Threads, n, Req
  <2>2. ASSUME NEW m \in Req, tpc'[m] # "none" PROVE home'[m] \in Session
    BY <1>1, <2>2 DEF Inv, Typed, Threads
  <2>3. ASSUME NEW t \in Session, tLock'[t] # NoReq
        PROVE  home'[tLock'[t]] = t /\ tpc'[tLock'[t]] \in {"take", "clear"}
    <3>1. tLock'[t] = tLock[t] /\ tLock[t] \in Req
      BY <1>2, <2>3 DEF Inv, Typed
    <3>2. tpc[tLock[t]] \in {"take", "clear"} /\ home[tLock[t]] = t
      BY <1>2, <2>3 DEF Inv, Threads
    <3>3. tLock[t] # n
      BY <1>1, <3>2
    <3> QED BY <1>1, <3>1, <3>2, <3>3 DEF Inv, Typed
  <2>4. ASSUME NEW m \in Req, tpc'[m] \in {"take", "clear"} PROVE tLock'[home'[m]] = m
    <3>1. m # n
      BY <1>1, <2>4 DEF Inv, Typed
    <3> QED BY <1>1, <1>2, <2>4, <3>1 DEF Inv, Typed, Threads
  <2> QED BY <2>1, <2>2, <2>3, <2>4 DEF Threads
<1>5. ASSUME NEW p \in Req PROVE Sole(p)'
  <2>1. ASSUME NEW t \in Session PROVE Clearing(t)' <=> Clearing(t)
    <3>1. tLock[t] # NoReq => tLock[t] \in Req /\ tpc[tLock[t]] \in {"take", "clear"}
      BY DEF Inv, Typed, Threads
    <3> QED BY <1>1, <1>2, <3>1 DEF Clearing, Inv, Typed
  <2>2. Untaken(p)' => Untaken(p)
    BY <1>1, <1>2, <2>1 DEF Untaken
  <2> QED BY <1>2, <2>2, QuietSole DEF Inv
<1> QED BY <1>2, <1>3, <1>4, <1>5 DEF Inv

\* A reset takes payloads away, and never happens while downs = 0.
LEMMA ResetStep ==
    ASSUME NEW s \in Session, Inv,
           ResetStart \/ ResetLook(s) \/ ResetFree(s) \/ ResetClear(s) \/ ResetWake(s)
    PROVE  Inv'
<1> USE NiAssumption
<1>0. /\ rawRequest \in [Session -> 0 .. Made] /\ reqIDCounter \in Nat
      /\ Made \in Nat /\ Made <= MaxReq
      /\ freed \in [Req -> Nat]
  BY DEF Inv, Typed, Made
<1>1. /\ downs' \in Nat \ {0}
      /\ Made' = Made
      /\ UNCHANGED <<reqIDCounter, resp, tLock, home, tpc, tmsg, queue, upc, informed>>
      /\ freed' \in [Req -> Nat]
      /\ \/ rawRequest' = rawRequest
         \/ rawRequest' = [rawRequest EXCEPT ![s] = NoReq]
  <2>1. CASE ResetStart
    BY <2>1 DEF ResetStart, Inv, Typed, sessionVars, threadVars, Made, Idle
  <2>2. CASE ResetLook(s) \/ ResetClear(s) \/ ResetWake(s)
    <3>1. mpc # Idle /\ mpc[1] # "id" /\ mpc'[1] # "id"
      BY <2>2 DEF ResetLook, ResetClear, ResetWake, NextSession, Idle
    <3> QED BY <2>2, <3>1 DEF ResetLook, ResetClear, ResetWake, Inv, Typed, sessionVars,
                              threadVars, history, Made
  <2>3. CASE ResetFree(s)
    <3>1. freed' \in [Req -> Nat]
      <4>1. rawRequest[s] = NoReq \/ rawRequest[s] \in Req
        BY <1>0 DEF Inv, Typed, Req, NoReq
      <4>2. freed' = freed \/ freed' = [freed EXCEPT ![rawRequest[s]] = freed[rawRequest[s]] + 1]
        BY <2>3 DEF ResetFree, Free
      <4>3. rawRequest[s] \in Req => freed[rawRequest[s]] + 1 \in Nat
        BY <1>0
      <4>4. CASE rawRequest[s] = NoReq
        BY <1>0, <2>3, <4>4 DEF ResetFree, Free
      <4>5. CASE rawRequest[s] \in Req
        BY <1>0, <4>2, <4>3, <4>5
      <4> QED BY <4>1, <4>4, <4>5
    <3>2. mpc # Idle /\ mpc[1] # "id" /\ mpc'[1] # "id"
      BY <2>3 DEF ResetFree, Idle
    <3> QED BY <2>3, <3>1, <3>2 DEF ResetFree, Inv, Typed, sessionVars, threadVars, Made
  <2> QED BY <2>1, <2>2, <2>3
<1>2. Typed'
  <2>1. rawRequest' \in [Session -> 0 .. Made']
    BY <1>0, <1>1 DEF NoReq
  <2> QED BY <1>1, <2>1 DEF Inv, Typed
<1>3. Threads'
  BY <1>1 DEF Inv, Threads
<1>4. rawRequest'["std"] = rawRequest'["es"] => rawRequest'["std"] = NoReq
  <2>1. rawRequest \in [Session -> 0 .. Made]
        /\ (rawRequest["std"] = rawRequest["es"] => rawRequest["std"] = NoReq)
    BY DEF Inv, Typed
  <2> QED BY <1>1, <2>1 DEF Session
<1>5. ASSUME NEW p \in Req PROVE Sole(p)'
  <2>1. ASSUME NEW t \in Session PROVE Clearing(t)' <=> Clearing(t)
    BY <1>1 DEF Clearing
  <2>2. Untaken(p)' => Untaken(p)
    <3>1. p # NoReq
      BY DEF Req, NoReq
    <3>2. ASSUME NEW t \in Session, rawRequest'[t] = p PROVE rawRequest[t] = p
      BY <1>0, <1>1, <3>1, <3>2
    <3> QED BY <1>1, <2>1, <3>2 DEF Untaken
  <2> QED BY <1>1, <2>2, QuietSole DEF Inv
<1> QED BY <1>2, <1>3, <1>4, <1>5 DEF Inv

\* The head of the queue goes to the modem.
LEMMA InformStep == ASSUME Inv, Inform PROVE Inv'
<1> USE NiAssumption
<1> DEFINE m == Head(queue)
<1>1. /\ queue # <<>> /\ m \in Answer /\ queue' = Tail(queue) /\ queue[1] = m
      /\ queue' \in Seq(Answer) /\ Len(queue') = Len(queue) - 1
      /\ \A i \in DOMAIN queue' : queue'[i] = queue[i + 1] /\ i + 1 \in DOMAIN queue /\ i + 1 # 1
  BY DEF Inform, Inv, Typed
<1>2. UNCHANGED <<reqIDCounter, rawRequest, resp, tLock, home, tpc, tmsg, mpc, upc, downs>>
  BY DEF Inform, sessionVars, threadVars
<1> USE DEF Made
<1>3. /\ informed' = IF m.payload = NoReq THEN informed
                     ELSE [informed EXCEPT ![m.payload] = Append(@, m.resp)]
      /\ freed' = IF m.payload = NoReq THEN freed ELSE [freed EXCEPT ![m.payload] = @ + 1]
  BY DEF Inform, Free
<1>4. m.payload \in Req \cup {NoReq} /\ m.resp \in Reply
  BY <1>1 DEF Answer
<1> HIDE DEF m
<1>5. Typed'
  <2>1. informed' \in [Req -> Seq(Reply)] /\ freed' \in [Req -> Nat]
    BY <1>3, <1>4 DEF Inv, Typed
  <2> QED BY <1>1, <1>2, <2>1 DEF Inv, Typed
<1>6. Threads'
  BY <1>2 DEF Inv, Threads
<1>7. ASSUME NEW p \in Req PROVE Sole(p)'
  <2>1. (Untaken(p)' <=> Untaken(p)) /\ \A n \in Req : Held(n, p)' <=> Held(n, p)
    BY <1>2 DEF Untaken, Clearing, Held
  <2>2. /\ Queued(p)' => Queued(p)
        /\ \A i, j \in DOMAIN queue' : queue'[i].payload = p /\ queue'[j].payload = p => i = j
    <3>1. ASSUME NEW i \in DOMAIN queue', NEW j \in DOMAIN queue',
                 queue'[i].payload = p, queue'[j].payload = p
          PROVE  i = j
      <4>1. i + 1 = j + 1
        BY <1>1, <3>1 DEF Inv, Sole
      <4>2. i \in Nat /\ j \in Nat
        BY <1>1
      <4> QED BY <4>1, <4>2
    <3> QED BY <1>1, <3>1 DEF Queued
  <2>3. CASE m.payload # p
    <3>1. informed'[p] = informed[p] /\ freed'[p] = freed[p]
      BY <1>3, <1>4, <2>3 DEF Inv, Typed
    <3> QED BY <1>2, <2>1, <2>2, <3>1 DEF Inv, Sole
  <2>4. CASE m.payload = p
    <3>1. Queued(p) /\ ~Untaken(p) /\ (\A n \in Req : ~Held(n, p)) /\ informed[p] = <<>>
      BY <1>1, <2>4 DEF Inv, Sole, Queued
    <3>2. ~Queued(p)'
      BY <1>1, <2>4 DEF Inv, Sole, Queued
    <3>3. p # NoReq
      BY DEF Req, NoReq
    <3>4. informed'[p] = Append(<<>>, m.resp) /\ freed'[p] = freed[p] + 1
      BY <1>3, <2>4, <3>1, <3>3 DEF Inv, Typed
    <3>5. Len(informed'[p]) = 1
      BY <1>4, <3>4
    <3>6. downs' = 0 => freed'[p] <= 1
      BY <1>2, <3>1, <3>4 DEF Inv, Sole
    <3> QED BY <2>1, <2>2, <3>1, <3>2, <3>5, <3>6 DEF Sole
  <2> QED BY <2>3, <2>4
<1> QED BY <1>2, <1>5, <1>6, <1>7 DEF Inv

-----------------------------------------------------------------------------
(* The NI threads *)

\* The steps in which a thread neither takes a payload nor hands one on.
Advances(n) ==
    \/ /\ \/ tpc[n] = "start" /\ tpc' = [tpc EXCEPT ![n] = "wait"]
          \/ tpc[n] = "wait" /\ tpc' = [tpc EXCEPT ![n] = "forget"]
          \/ tpc[n] = "forget" /\ tpc' = [tpc EXCEPT ![n] = "send"]
       /\ tLock' = tLock
    \/ /\ tpc[n] = "wait" /\ tpc' = [tpc EXCEPT ![n] = "take"]
       /\ tLock[home[n]] = NoReq /\ tLock' = [tLock EXCEPT ![home[n]] = n]

LEMMA QuietThreadStep ==
    ASSUME NEW n \in Req, Inv,
           ThreadStart(n) \/ ThreadWake(n) \/ ThreadTimeout(n) \/ ThreadForget(n)
    PROVE  Inv'
<1> USE NiAssumption
<1>1. /\ UNCHANGED <<reqIDCounter, rawRequest, home, tmsg, mpc, queue, upc, informed, freed, downs>>
      /\ resp' \in [Session -> Reply]
      /\ Advances(n)
  <2>0. resp \in [Session -> Reply]
    BY DEF Inv, Typed
  <2>1. CASE ThreadStart(n)
    BY <2>0, <2>1 DEF ThreadStart, Advances, sessionVars, history
  <2>2. ASSUME NEW s \in Session, NEW a \in Reply, ThreadLeave(n, s, a)
        PROVE  /\ UNCHANGED <<reqIDCounter, rawRequest, home, tmsg, mpc, queue, upc, informed,
                              freed, downs>>
               /\ resp' \in [Session -> Reply]
               /\ Advances(n)
    BY <2>0, <2>2 DEF ThreadLeave, Advances, history
  <2>3. CASE ThreadWake(n)
    <3>1. PICK s \in Session : ThreadLeave(n, s, resp[s])
      BY <2>3 DEF ThreadWake
    <3>2. resp[s] \in Reply
      BY <2>0
    <3> QED BY <2>2, <3>1, <3>2
  <2>4. CASE ThreadTimeout(n)
    <3>1. PICK s \in Session : ThreadLeave(n, s, "NORESP")
      BY <2>4 DEF ThreadTimeout
    <3>2. "NORESP" \in Reply
      BY DEF Reply, Response
    <3> QED BY <2>2, <3>1, <3>2
  <2>5. CASE ThreadForget(n)
    BY <2>0, <2>5 DEF ThreadForget, Advances, history
  <2> QED BY <2>1, <2>3, <2>4, <2>5
<1> USE DEF Made
<1>2. /\ tpc \in [Req -> {"none", "start", "wait", "take", "clear", "forget", "send", "done"}]
      /\ tLock \in [Session -> Req \cup {NoReq}]
      /\ n # NoReq /\ home[n] \in Session
  <2>1. tpc[n] # "none"
    BY <1>1 DEF Advances
  <2> QED BY <2>1 DEF Inv, Typed, Threads, Req, NoReq
<1>3. Typed'
  <2>1. /\ tpc' \in [Req -> {"none", "start", "wait", "take", "clear", "forget", "send", "done"}]
        /\ tLock' \in [Session -> Req \cup {NoReq}]
    BY <1>1, <1>2 DEF Advances
  <2> QED BY <1>1, <2>1 DEF Inv, Typed
<1>4. Threads'
  <2>1. /\ \A m \in Req : tpc'[m] = "none" <=> m > reqIDCounter'
        /\ \A m \in Req : tpc'[m] # "none" => home'[m] \in Session
    BY <1>1, <1>2 DEF Advances, Inv, Threads
  <2>2. \A s \in Session : tLock[s] # n
    BY <1>1, <1>2 DEF Advances, Inv, Threads
  <2>3. ASSUME NEW s \in Session, tLock'[s] # NoReq
        PROVE  home'[tLock'[s]] = s /\ tpc'[tLock'[s]] \in {"take", "clear"}
    <3>1. CASE tLock'[s] = n
      BY <1>1, <1>2, <2>2, <3>1 DEF Advances
    <3>2. CASE tLock'[s] # n
      <4>1. tLock'[s] = tLock[s] /\ tLock[s] \in Req
        BY <1>1, <1>2, <2>3, <3>2 DEF Advances
      <4>2. home[tLock[s]] = s /\ tpc[tLock[s]] \in {"take", "clear"}
        BY <2>3, <4>1 DEF Inv, Threads
      <4> QED BY <1>1, <1>2, <3>2, <4>1, <4>2 DEF Advances
    <3> QED BY <3>1, <3>2
  <2>4. ASSUME NEW m \in Req, tpc'[m] \in {"take", "clear"} PROVE tLock'[home'[m]] = m
    <3>1. CASE m = n
      BY <1>1, <1>2, <2>4, <3>1 DEF Advances
    <3>2. CASE m # n
      <4>1. tpc[m] \in {"take", "clear"}
        BY <1>1, <1>2, <2>4, <3>2 DEF Advances
      <4>2. tLock[home[m]] = m /\ home[m] \in Session
        BY <4>1 DEF Inv, Threads
      <4>3. m # NoReq
        BY DEF Req, NoReq
      <4> QED BY <1>1, <1>2, <4>2, <4>3 DEF Advances
    <3> QED BY <3>1, <3>2
  <2> QED BY <2>1, <2>3, <2>4 DEF Threads
<1>5. ASSUME NEW p \in Req PROVE Sole(p)'
  <2>1. ASSUME NEW s \in Session PROVE Clearing(s)' <=> Clearing(s)
    BY <1>1, <1>2 DEF Clearing, Advances
  <2>2. Untaken(p)' => Untaken(p)
    BY <1>1, <2>1 DEF Untaken
  <2> QED BY <1>1, <2>2, QuietSole DEF Inv
<1> QED BY <1>1, <1>3, <1>4, <1>5 DEF Inv

\* The payload of the session becomes the thread's message, or is freed; until
\* the thread has cleared rawRequest nobody else takes it.
LEMMA TakeStep ==
    ASSUME NEW n \in Req, NEW s \in Session, home[n] = s, Inv, ThreadTake(n)
    PROVE  Inv'
<1> USE NiAssumption
<1> DEFINE q == rawRequest[s]
<1>1. /\ tpc[n] = "take" /\ tpc' = [tpc EXCEPT ![n] = "clear"]
      /\ tLock[s] = n /\ n # NoReq
      /\ UNCHANGED <<reqIDCounter, rawRequest, resp, tLock, home, mpc, queue, upc, informed, downs>>
  BY DEF ThreadTake, Inv, Typed, Threads, sessionVars, Req, NoReq
<1>0. Made' = Made
  BY <1>1 DEF Made
<1>2. \/ tmsg' = [tmsg EXCEPT ![n] = [resp |-> resp[s], payload |-> q]] /\ freed' = freed
      \/ /\ freed' = IF q = NoReq THEN freed ELSE [freed EXCEPT ![q] = @ + 1]
         /\ tmsg' = tmsg
  BY DEF ThreadTake, Free
<1>3. /\ q \in Req \cup {NoReq} /\ resp[s] \in Reply
      /\ rawRequest \in [Session -> 0 .. Made] /\ tmsg \in [Req -> Answer \cup {NoMsg}]
      /\ freed \in [Req -> Nat]
      /\ tpc \in [Req -> {"none", "start", "wait", "take", "clear", "forget", "send", "done"}]
  <2>1. /\ resp[s] \in Reply
        /\ rawRequest \in [Session -> 0 .. Made] /\ tmsg \in [Req -> Answer \cup {NoMsg}]
        /\ freed \in [Req -> Nat] /\ Made \in Nat /\ Made <= MaxReq
        /\ tpc \in [Req -> {"none", "start", "wait", "take", "clear", "forget", "send", "done"}]
    BY DEF Inv, Typed, Made
  <2>2. q \in Req \cup {NoReq}
    BY <2>1 DEF Req, NoReq
  <2> QED BY <2>1, <2>2
<1>4. Clearing(s)' /\ ~Clearing(s)
  BY <1>1, <1>3 DEF Clearing
<1>5. ASSUME NEW t \in Session, t # s PROVE Clearing(t)' <=> Clearing(t)
  <2>1. tLock[t] # n /\ tLock[t] \in Req \cup {NoReq}
    BY <1>1, <1>5 DEF Inv, Typed, Threads
  <2> QED BY <1>1, <1>3, <2>1 DEF Clearing
<1>6. \A t \in Session : t # s /\ rawRequest[t] = q => q = NoReq
  BY <1>1 DEF Inv, Session
<1> HIDE DEF q
<1>7. Typed'
  <2>1. tmsg' \in [Req -> Answer \cup {NoMsg}]
    BY <1>2, <1>3 DEF Answer
  <2>2. freed' \in [Req -> Nat]
    BY <1>2, <1>3
  <2>3. tpc' \in [Req -> {"none", "start", "wait", "take", "clear", "forget", "send", "done"}]
    BY <1>1, <1>3
  <2> QED BY <1>0, <1>1, <2>1, <2>2, <2>3 DEF Inv, Typed
<1>8. Threads'
  BY <1>1, <1>3 DEF Inv, Threads
<1>9. ASSUME NEW p \in Req PROVE Sole(p)'
  <2>1. p # NoReq
    BY DEF Req, NoReq
  <2>2. Untaken(p)' => Untaken(p) /\ p # q
    <3>1. CASE p > Made
      <4>1. q # p
        BY <1>3, <3>1 DEF q, Inv, Typed, Made, Req
      <4> QED BY <3>1, <4>1 DEF Untaken
    <3>2. ASSUME NEW t \in Session, rawRequest[t] = p, ~Clearing(t)' PROVE Untaken(p) /\ p # q
      BY <1>4, <1>5, <1>6, <2>1, <3>2 DEF Untaken
    <3> QED BY <1>0, <1>1, <3>1, <3>2 DEF Untaken
  <2>3. p = q => Untaken(p)
    BY <1>1, <1>4 DEF Untaken, q
  <2>4. CASE freed'[p] = freed[p] /\ \A m \in Req : Held(m, p)' => Held(m, p)
    BY <1>1, <2>2, <2>4 DEF Inv, Sole, Queued
  <2>5. CASE p = q /\ tmsg' = [tmsg EXCEPT ![n] = [resp |-> resp[s], payload |-> q]] /\ freed' = freed
    <3>1. ASSUME NEW m \in Req PROVE Held(m, p)' => m = n
      BY <1>3, <2>3, <2>5 DEF Inv, Sole, Held
    <3> QED BY <1>1, <2>2, <2>3, <2>5, <3>1 DEF Inv, Sole, Queued
  <2>6. CASE p = q /\ freed' = [freed EXCEPT ![q] = @ + 1] /\ tmsg' = tmsg
    <3>1. freed'[p] = freed[p] + 1
      BY <1>3, <2>6
    <3> QED BY <1>1, <2>2, <2>3, <2>6, <3>1 DEF Inv, Sole, Queued, Held
  <2>7. CASE p # q
    BY <1>2, <1>3, <2>4, <2>7 DEF Held
  <2> QED BY <1>2, <2>1, <2>5, <2>6, <2>7
<1> QED BY <1>1, <1>7, <1>8, <1>9 DEF Inv

\* It clears rawRequest before it gives the lock away.
LEMMA ClearStep ==
    ASSUME NEW n \in Req, NEW s \in Session, home[n] = s, Inv, ThreadClear(n)
    PROVE  Inv'
<1> USE NiAssumption
<1>1. /\ tpc[n] = "clear" /\ tpc' = [tpc EXCEPT ![n] = "forget"]
      /\ tLock[s] = n /\ n # NoReq
      /\ rawRequest' = [rawRequest EXCEPT ![s] = NoReq] /\ tLock' = [tLock EXCEPT ![s] = NoReq]
      /\ UNCHANGED <<reqIDCounter, resp, home, tmsg, mpc, queue, upc, informed, freed, downs>>
  BY DEF ThreadClear, Inv, Typed, Threads, history, Req, NoReq
<1>0. Made' = Made
  BY <1>1 DEF Made
<1>2. /\ rawRequest \in [Session -> 0 .. Made] /\ Made \in Nat
      /\ tLock \in [Session -> Req \cup {NoReq}]
      /\ tpc \in [Req -> {"none", "start", "wait", "take", "clear", "forget", "send", "done"}]
  BY DEF Inv, Typed, Made
<1>3. Typed'
  <2>1. /\ rawRequest' \in [Session -> 0 .. Made]
        /\ tLock' \in [Session -> Req \cup {NoReq}]
        /\ tpc' \in [Req -> {"none", "start", "wait", "take", "clear", "forget", "send", "done"}]
    BY <1>1, <1>2 DEF NoReq
  <2> QED BY <1>0, <1>1, <2>1 DEF Inv, Typed
<1>4. Threads'
  <2>1. ASSUME NEW m \in Req PROVE tpc'[m] = "none" <=> m > reqIDCounter'
    BY <1>1, <1>2 DEF Inv, Threads
  <2>2. ASSUME NEW m \in Req, tpc'[m] # "none" PROVE home'[m] \in Session
    BY <1>1, <1>2, <2>2 DEF Inv, Threads
  <2>3. ASSUME NEW t \in Session, tLock'[t] # NoReq
        PROVE  home'[tLock'[t]] = t /\ tpc'[tLock'[t]] \in {"take", "clear"}
    <3>1. t # s /\ tLock'[t] = tLock[t]
      BY <1>1, <1>2, <2>3
    <3>2. home[tLock[t]] = t /\ tpc[tLock[t]] \in {"take", "clear"}
      BY <2>3, <3>1 DEF Inv, Threads
    <3>3. tLock[t] # n
      BY <3>1, <3>2
    <3> QED BY <1>1, <1>2, <3>1, <3>2, <3>3
  <2>4. ASSUME NEW m \in Req, tpc'[m] \in {"take", "clear"} PROVE tLock'[home'[m]] = m
    <3>1. m # n /\ tpc[m] = tpc'[m]
      BY <1>1, <1>2, <2>4
    <3>2. tLock[home[m]] = m /\ home[m] \in Session
      BY <2>4, <3>1 DEF Inv, Threads
    <3>3. home[m] # s
      BY <1>1, <3>1, <3>2
    <3> QED BY <1>1, <1>2, <3>2, <3>3
  <2> QED BY <2>1, <2>2, <2>3, <2>4 DEF Threads
<1>5. rawRequest'["std"] = rawRequest'["es"] => rawRequest'["std"] = NoReq
  <2>1. rawRequest["std"] = rawRequest["es"] => rawRequest["std"] = NoReq
    BY DEF Inv
  <2> QED BY <1>1, <1>2, <2>1 DEF Session
<1>6. ASSUME NEW p \in Req PROVE Sole(p)'
  <2>1. p # NoReq
    BY DEF Req, NoReq
  <2>2. ASSUME NEW t \in Session, rawRequest'[t] = p, ~Clearing(t)'
        PROVE  rawRequest[t] = p /\ ~Clearing(t)
    <3>1. t # s /\ rawRequest[t] = p
      BY <1>1, <1>2, <2>1, <2>2
    <3>2. tLock[t] # n /\ tLock[t] \in Req \cup {NoReq}
      BY <1>1, <3>1 DEF Inv, Typed, Threads
    <3> QED BY <1>1, <1>2, <2>2, <3>1, <3>2 DEF Clearing
  <2>3. Untaken(p)' => Untaken(p)
    BY <1>0, <1>1, <2>2 DEF Untaken
  <2> QED BY <1>1, <2>3, QuietSole DEF Inv
<1> QED BY <1>1, <1>3, <1>4, <1>5, <1>6 DEF Inv

\* The message goes from the thread to the end of the queue.
LEMMA SendStep == ASSUME NEW n \in Req, Inv, ThreadSend(n) PROVE Inv'
<1> USE NiAssumption
<1>1. /\ tpc[n] = "send" /\ tpc' = [tpc EXCEPT ![n] = "done"]
      /\ tmsg' = [tmsg EXCEPT ![n] = NoMsg]
      /\ queue' = IF tmsg[n] = NoMsg THEN queue ELSE Append(queue, tmsg[n])
      /\ UNCHANGED <<reqIDCounter, rawRequest, resp, tLock, home, mpc, upc, informed, freed, downs>>
  BY DEF ThreadSend, sessionVars, history
<1>0. Made' = Made
  BY <1>1 DEF Made
<1>2. /\ tmsg \in [Req -> Answer \cup {NoMsg}] /\ queue \in Seq(Answer)
      /\ tpc \in [Req -> {"none", "start", "wait", "take", "clear", "forget", "send", "done"}]
  BY DEF Inv, Typed, Made
<1>3. Typed'
  <2>1. /\ tmsg' \in [Req -> Answer \cup {NoMsg}]
        /\ tpc' \in [Req -> {"none", "start", "wait", "take", "clear", "forget", "send", "done"}]
    BY <1>1, <1>2
  <2>2. queue' \in Seq(Answer)
    <3>1. CASE tmsg[n] = NoMsg
      BY <1>1, <1>2, <3>1
    <3>2. CASE tmsg[n] # NoMsg
      <4>1. tmsg[n] \in Answer
        BY <1>2, <3>2
      <4> QED BY <1>1, <1>2, <3>2, <4>1
    <3> QED BY <3>1, <3>2
  <2> QED BY <1>0, <1>1, <2>1, <2>2 DEF Inv, Typed
<1>4. Threads'
  BY <1>1, <1>2 DEF Inv, Threads
<1>5. ASSUME NEW t \in Session, tLock[t] # NoReq PROVE tLock[t] # n
  BY <1>1, <1>5 DEF Inv, Threads
<1>6. ASSUME NEW p \in Req PROVE Sole(p)'
  <2>1. Untaken(p)' <=> Untaken(p)
    <3>1. ASSUME NEW t \in Session PROVE Clearing(t)' <=> Clearing(t)
      <4>1. tLock[t] \in Req \cup {NoReq}
        BY DEF Inv, Typed, Made
      <4> QED BY <1>1, <1>2, <1>5, <4>1 DEF Clearing
    <3> QED BY <1>0, <1>1, <3>1 DEF Untaken
  <2>2. \A m \in Req : Held(m, p)' <=> Held(m, p) /\ m # n
    BY <1>1, <1>2 DEF Held
  <2>3. CASE tmsg[n] = NoMsg
    <3>1. queue' = queue
      BY <1>1, <2>3
    <3> QED BY <1>1, <2>1, <2>2, <3>1 DEF Inv, Sole, Queued
  <2>4. CASE tmsg[n] # NoMsg
    <3>1. /\ Len(queue') = Len(queue) + 1 /\ DOMAIN queue' = 1 .. Len(queue) + 1
          /\ DOMAIN queue = 1 .. Len(queue) /\ Len(queue) \in Nat
          /\ \A i \in DOMAIN queue : queue'[i] = queue[i]
          /\ queue'[Len(queue) + 1] = tmsg[n]
      <4>1. tmsg[n] \in Answer
        BY <1>2, <2>4
      <4> QED BY <1>1, <1>2, <2>4, <4>1
    <3>2. CASE Held(n, p)
      <4>1. /\ ~Queued(p) /\ informed[p] = <<>> /\ ~Untaken(p)
            /\ \A m \in Req : Held(m, p) => m = n
        BY <3>2 DEF Inv, Sole
      <4>2. \A i \in DOMAIN queue' : queue'[i].payload = p => i = Len(queue) + 1
        BY <3>1, <4>1 DEF Queued
      <4>3. \A m \in Req : ~Held(m, p)'
        BY <2>2, <4>1
      <4>4. downs' = 0 => freed'[p] = 0
        BY <1>1, <3>2 DEF Inv, Sole
      <4> QED BY <1>1, <2>1, <4>1, <4>2, <4>3, <4>4 DEF Sole
    <3>3. CASE ~Held(n, p)
      <4>1. tmsg[n].payload # p
        BY <2>4, <3>3 DEF Held
      <4>2. \A i \in DOMAIN queue' : queue'[i].payload = p =>
               i \in DOMAIN queue /\ queue[i].payload = p
        BY <3>1, <4>1
      <4>3. \A m \in Req : Held(m, p)' <=> Held(m, p)
        BY <2>2, <3>3
      <4> QED BY <1>1, <2>1, <4>2, <4>3 DEF Inv, Sole, Queued
    <3> QED BY <3>2, <3>3
  <2> QED BY <2>3, <2>4
<1> QED BY <1>1, <1>3, <1>4, <1>6 DEF Inv

LEMMA ThreadStep == ASSUME NEW n \in Req, Inv, NiThread(n) PROVE Inv'
<1>1. tpc[n] # "none" => home[n] \in Session
  BY DEF Inv, Threads
<1>2. ThreadTake(n) \/ ThreadClear(n) => tpc[n] # "none"
  BY DEF ThreadTake, ThreadClear
<1> QED BY <1>1, <1>2, QuietThreadStep, TakeStep, ClearStep, SendStep DEF NiThread

-----------------------------------------------------------------------------
\* loc_eng_ni_respond only says what the answer is.
Says ==
    /\ UNCHANGED <<reqIDCounter, rawRequest, tLock, home, tpc, tmsg, mpc, queue, informed, freed, downs>>
    /\ resp' \in [Session -> Reply]
    /\ \/ upc' = Idle
       \/ upc'[2] \in Session /\ upc'[3] \in Reply

LEMMA RespondStep == ASSUME Inv, Framework PROVE Inv'
<1>1. Says
  <2>0. /\ resp \in [Session -> Reply]
        /\ upc = Idle \/ (upc[2] \in Session /\ upc[3] \in Reply)
    BY DEF Inv, Typed
  <2>1. ASSUME NEW n \in Req, NEW r \in UserResponse, Respond(n, r) PROVE Says
    <3>1. r \in Reply
      BY DEF Reply, Response
    <3>2. upc' \in {<<"rival", "es", r>>, <<"set", "es", r>>, <<"set", "std", r>>, Idle}
      BY <2>1 DEF Respond
    <3> QED BY <2>0, <2>1, <3>1, <3>2 DEF Respond, Says, sessionVars, threadVars, Session
  <2>2. ASSUME NEW r \in UserResponse, RespondRival(r) PROVE Says
    BY <2>0, <2>2 DEF RespondRival, Says, sessionVars, threadVars, history, Session, Reply, Response
  <2>3. ASSUME NEW r \in UserResponse, RespondIgnore(r) PROVE Says
    BY <2>0, <2>3 DEF RespondIgnore, Store, Says, threadVars, history, Session, Reply, Response
  <2>4. ASSUME NEW r \in UserResponse, NEW s \in Session, RespondSet(s, r) PROVE Says
    BY <2>0, <2>4 DEF RespondSet, Store, Says, threadVars, history, Reply, Response
  <2> QED BY <2>1, <2>2, <2>3, <2>4 DEF Framework, RespondGoesOn
<1>2. Typed' /\ Threads'
  BY <1>1 DEF Says, Inv, Typed, Threads, Made
<1>3. ASSUME NEW p \in Req PROVE Sole(p)'
  <2>1. Untaken(p)' => Untaken(p)
    BY <1>1 DEF Says, Untaken, Clearing, Made
  <2> QED BY <1>1, <2>1, QuietSole DEF Says, Inv
<1> QED BY <1>1, <1>2, <1>3 DEF Says, Inv

LEMMA InvStep == Inv /\ [Next]_vars => Inv'
<1> SUFFICES ASSUME Inv, [Next]_vars PROVE Inv'
  OBVIOUS
<1>1. CASE MsgTask
  BY <1>1, RequestStep, RequestOpenStep, ResetStep, InformStep DEF MsgTask, MsgTaskGoesOn, Session
<1>2. CASE \E n \in Req : NiThread(n)
  BY <1>2, ThreadStep
<1>3. CASE Framework
  BY <1>3, RespondStep
<1>4. CASE UNCHANGED vars
  <2>1. ASSUME NEW p \in Req PROVE Sole(p)'
    BY <1>4, QuietSole DEF Inv, Untaken, Clearing, Made, vars, sessionVars, threadVars, history
  <2>2. Typed' /\ Threads' /\ (rawRequest'["std"] = rawRequest'["es"] => rawRequest'["std"] = NoReq)
    BY <1>4 DEF Inv, Typed, Threads, Made, vars, sessionVars, threadVars, history
  <2> QED BY <2>1, <2>2 DEF Inv
<1> QED BY <1>1, <1>2, <1>3, <1>4 DEF Next

LEMMA InvHolds == Spec => []Inv
  BY InitInv, InvStep, PTL DEF Spec

(***************************************************************************)
(* The modem hears at most one answer to a request, however often it went  *)
(* down in between and whoever took whose payload because of it.           *)
(***************************************************************************)
THEOREM ModemHearsOnce == Spec => []OneAnswer
<1>1. Inv => OneAnswer
  BY DEF Inv, Sole, OneAnswer
<1> QED BY <1>1, InvHolds, PTL

(***************************************************************************)
(* Until the modem goes down for the first time a payload is freed at most *)
(* once, and not while a session or a message refers to it.                *)
(***************************************************************************)
THEOREM PayloadsHaveOwners == Spec => []PayloadOwned
<1>1. Inv => PayloadOwned
  <2> SUFFICES ASSUME Inv, downs = 0 PROVE PayloadOwned
    BY DEF PayloadOwned
  <2>0. /\ rawRequest \in [Session -> 0 .. Made] /\ Made \in Nat
        /\ Made <= MaxReq /\ queue \in Seq(Answer)
        /\ tLock \in [Session -> Req \cup {NoReq}]
    BY DEF Inv, Typed, Made
  <2>1. \A p \in Req : freed[p] <= 1
    BY DEF Inv, Sole
  <2>2. ASSUME NEW s \in Session, rawRequest[s] # NoReq,
               ~\E t \in Req : tLock[s] = t /\ tpc[t] = "clear"
        PROVE  freed[rawRequest[s]] = 0
    <3>1. rawRequest[s] \in Req
      BY NiAssumption, <2>0, <2>2 DEF Req, NoReq
    <3>2. ~Clearing(s)
      BY <2>0, <2>2 DEF Clearing
    <3> QED BY <3>1, <3>2 DEF Inv, Sole, Untaken
  <2>3. ASSUME NEW i \in DOMAIN queue, queue[i].payload # NoReq
        PROVE  freed[queue[i].payload] = 0
    <3>1. queue[i] \in Answer
      BY <2>0
    <3>2. queue[i].payload \in Req
      BY <2>3, <3>1 DEF Answer
    <3> QED BY <3>2 DEF Inv, Sole, Queued
  <2> QED BY <2>1, <2>2, <2>3 DEF PayloadOwned
<1> QED BY <1>1, InvHolds, PTL

-----------------------------------------------------------------------------
\* While the modem stays up, the request of a thread that has not cleared it
\* is the one its session points to.
Serving(n) == tpc[n] \in {"start", "wait", "take", "clear"}

ServeInv ==
    downs = 0 =>
        /\ \A n \in Req : Serving(n) => rawRequest[home[n]] = n
        /\ \A m, n \in Req : Serving(m) /\ Serving(n) /\ m < n => home[m] = "std" /\ home[n] = "es"
        /\ \A s \in Session : mpc = <<"id", s>> =>
              /\ rawRequest[s] = reqIDCounter + 1
              /\ s = "std" => rawRequest["es"] = NoReq

\* The steps that accept no request and clear none.
LEMMA QuietServe ==
    ASSUME ServeInv, UNCHANGED <<rawRequest, home, mpc, reqIDCounter>>, downs' = downs,
           \A n \in Req : Serving(n)' => Serving(n)
    PROVE  ServeInv'
  BY DEF ServeInv

LEMMA ServeStep == Inv /\ ServeInv /\ [Next]_vars => ServeInv'
<1> SUFFICES ASSUME Inv, ServeInv, [Next]_vars PROVE ServeInv'
  OBVIOUS
<1> USE NiAssumption
<1>0. /\ tpc \in [Req -> {"none", "start", "wait", "take", "clear", "forget", "send", "done"}]
      /\ home \in [Req -> Session \cup {"none"}] /\ reqIDCounter \in Nat
      /\ rawRequest \in [Session -> 0 .. Made]
      /\ \A n \in Req : n # NoReq /\ n \in Nat
      /\ \A n \in Req : Serving(n) => home[n] \in Session /\ n <= reqIDCounter
  BY DEF Inv, Typed, Threads, Serving, Req, NoReq
<1>1. ASSUME NEW s \in Session, Request(s) PROVE ServeInv'
  <2>1. /\ rawRequest' = [rawRequest EXCEPT ![s] = reqIDCounter + 1]
        /\ rawRequest["es"] = NoReq /\ (s = "std" => rawRequest["std"] = NoReq)
        /\ mpc' = <<"id", s>> /\ UNCHANGED <<reqIDCounter, tpc, home, downs>>
    BY <1>1 DEF Request, threadVars, history
  <2> SUFFICES ASSUME downs = 0
               PROVE  /\ \A n \in Req : Serving(n) => rawRequest'[home[n]] = n
                      /\ rawRequest'[s] = reqIDCounter + 1
                      /\ s = "std" => rawRequest'["es"] = NoReq
    BY <2>1 DEF ServeInv, Serving
  <2>2. ASSUME NEW n \in Req, Serving(n) PROVE rawRequest'[home[n]] = n
    <3>1. rawRequest[home[n]] = n /\ home[n] \in Session /\ home[n] # s
      BY <1>0, <2>1, <2>2 DEF ServeInv, Session
    <3> QED BY <1>0, <2>1, <3>1
  <2> QED BY <1>0, <2>1, <2>2 DEF Session
<1>7. ASSUME NEW s \in Session, RequestOpen(s) PROVE ServeInv'
  <2> DEFINE r == reqIDCounter + 1
  <2>1. /\ mpc = <<"id", s>> /\ mpc' = Idle /\ r \in Req
        /\ UNCHANGED <<rawRequest, downs>>
        /\ tpc' = [tpc EXCEPT ![r] = "start"] /\ home' = [home EXCEPT ![r] = s]
    BY <1>0, <1>7 DEF RequestOpen, history, Inv, Typed, Made, Req
  <2> SUFFICES ASSUME downs = 0
               PROVE  /\ \A n \in Req : Serving(n)' => rawRequest[home'[n]] = n
                      /\ \A m, n \in Req : Serving(m)' /\ Serving(n)' /\ m < n
                                             => home'[m] = "std" /\ home'[n] = "es"
    BY <2>1 DEF ServeInv, Idle
  <2>2. rawRequest[s] = r /\ (s = "std" => rawRequest["es"] = NoReq)
    BY <2>1 DEF ServeInv
  <2>3. ASSUME NEW n \in Req, n # r, Serving(n)'
        PROVE  /\ Serving(n) /\ n < r /\ home'[n] = home[n] /\ rawRequest[home[n]] = n
               /\ home[n] = "std" /\ s = "es"
    <3>1. Serving(n) /\ home'[n] = home[n]
      BY <1>0, <2>1, <2>3 DEF Serving
    <3>2. rawRequest[home[n]] = n /\ home[n] \in Session /\ n <= reqIDCounter
      BY <1>0, <3>1 DEF ServeInv
    <3>3. n < r /\ home[n] # s
      BY <1>0, <2>2, <3>2
    <3> QED BY <1>0, <2>2, <3>1, <3>2, <3>3 DEF Session
  <2>4. home'[r] = s
    BY <1>0, <2>1
  <2>5. ASSUME NEW n \in Req, Serving(n)' PROVE rawRequest[home'[n]] = n
    BY <2>2, <2>3, <2>4, <2>5
  <2>6. ASSUME NEW m \in Req, NEW n \in Req, Serving(m)', Serving(n)', m < n
        PROVE  home'[m] = "std" /\ home'[n] = "es"
    <3>1. m # r
      <4>1. n # r => n < r
        BY <2>3, <2>6
      <4> QED BY <1>0, <2>6, <4>1
    <3>2. n = r
      <4>1. n # r => home[n] = "std" /\ Serving(n) /\ Serving(m)
        BY <2>3, <2>6, <3>1
      <4> QED BY <2>6, <4>1 DEF ServeInv
    <3> QED BY <2>3, <2>4, <2>6, <3>1, <3>2
  <2> QED BY <2>5, <2>6
<1>2. CASE ResetStart \/ \E s \in Session : ResetLook(s) \/ ResetFree(s) \/ ResetClear(s) \/ ResetWake(s)
  <2>1. CASE ResetStart
    BY <1>2, <2>1 DEF ResetStart, Inv, Typed, ServeInv
  <2>2. CASE ~ResetStart
    <3>1. mpc # Idle /\ mpc[1] # "id" /\ downs' = downs
      BY <1>2, <2>2 DEF ResetLook, ResetFree, ResetClear, ResetWake, Idle, history
    <3> QED BY <3>1 DEF Inv, Typed, ServeInv
  <2> QED BY <2>1, <2>2
<1>3. CASE Inform
  BY <1>3, QuietServe DEF Inform, sessionVars, threadVars, Serving
<1>4. ASSUME NEW n \in Req, NiThread(n) PROVE ServeInv'
  <2>1. CASE ThreadStart(n) \/ ThreadTake(n)
    <3>1. \A m \in Req : Serving(m)' => Serving(m)
      BY <1>0, <2>1 DEF ThreadStart, ThreadTake, Serving
    <3> QED BY <2>1, <3>1, QuietServe DEF ThreadStart, ThreadTake, sessionVars, history
  <2>2. CASE ThreadWake(n) \/ ThreadTimeout(n)
    <3>1. PICK s \in Session : ThreadLeave(n, s, resp[s]) \/ ThreadLeave(n, s, "NORESP")
      BY <2>2 DEF ThreadWake, ThreadTimeout
    <3>2. \A m \in Req : Serving(m)' => Serving(m)
      BY <1>0, <3>1 DEF ThreadLeave, Serving
    <3> QED BY <3>1, <3>2, QuietServe DEF ThreadLeave, history
  <2>3. CASE ThreadForget(n) \/ ThreadSend(n)
    <3>1. \A m \in Req : Serving(m)' => Serving(m)
      BY <1>0, <2>3 DEF ThreadForget, ThreadSend, Serving
    <3> QED BY <2>3, <3>1, QuietServe DEF ThreadForget, ThreadSend, sessionVars, history
  <2>4. CASE ThreadClear(n)
    <3>1. /\ tpc[n] = "clear" /\ tpc' = [tpc EXCEPT ![n] = "forget"]
          /\ rawRequest' = [rawRequest EXCEPT ![home[n]] = NoReq]
          /\ UNCHANGED <<home, downs, mpc, reqIDCounter>>
      BY <2>4 DEF ThreadClear, history
    <3>2. ASSUME NEW m \in Req, Serving(m)', downs = 0
          PROVE  Serving(m) /\ rawRequest'[home'[m]] = m
      <4>1. m # n /\ Serving(m) /\ Serving(n)
        BY <1>0, <3>1, <3>2 DEF Serving
      <4>2. rawRequest[home[m]] = m /\ rawRequest[home[n]] = n /\ home[m] \in Session
        BY <1>0, <3>2, <4>1 DEF ServeInv
      <4> QED BY <1>0, <3>1, <4>1, <4>2
    <3>3. ASSUME NEW s \in Session, mpc = <<"id", s>>, downs = 0
          PROVE  rawRequest'[s] = reqIDCounter + 1 /\ (s = "std" => rawRequest'["es"] = NoReq)
      <4>1. rawRequest[s] = reqIDCounter + 1 /\ (s = "std" => rawRequest["es"] = NoReq)
        BY <3>3 DEF ServeInv
      <4>2. rawRequest[home[n]] = n /\ n <= reqIDCounter /\ home[n] \in Session
        BY <1>0, <3>1, <3>3 DEF ServeInv, Serving
      <4>3. home[n] # s
        BY <1>0, <4>1, <4>2
      <4> QED BY <1>0, <3>1, <4>1, <4>3 DEF Session
    <3> QED BY <3>1, <3>2, <3>3 DEF ServeInv
  <2> QED BY <1>4, <2>1, <2>2, <2>3, <2>4 DEF NiThread
<1>5. CASE Framework
  BY <1>5, QuietServe DEF Framework, Respond, RespondGoesOn, RespondRival, RespondIgnore,
                          RespondSet, Store, sessionVars,
                          threadVars, history, Serving
<1>6. CASE UNCHANGED vars
  BY <1>6, QuietServe DEF vars, sessionVars, threadVars, history, Serving
<1> QED BY <1>1, <1>2, <1>3, <1>4, <1>5, <1>6, <1>7 DEF Next, MsgTask, MsgTaskGoesOn

(***************************************************************************)
(* While the modem stays up a session serves one request at a time, and an *)
(* ordinary request is never accepted beside an emergency one.             *)
(***************************************************************************)
THEOREM OneAtATime == Spec => []OneWaiter
<1>1. Init => ServeInv
  BY DEF Init, ServeInv, Serving, Idle
<1>2. Inv /\ ServeInv => OneWaiter
  <2> SUFFICES ASSUME Inv, ServeInv PROVE OneWaiter
    OBVIOUS
  <2>1. Accepted \subseteq Req
    BY NiAssumption DEF Inv, Typed, Made, Accepted, Req
  <2> QED BY <2>1 DEF OneWaiter, ServeInv, Serving
<1> QED BY <1>1, <1>2, InvHolds, ServeStep, PTL DEF Spec
=============================================================================
