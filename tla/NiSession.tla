------------------------------ MODULE NiSession ------------------------------
(***************************************************************************)
(* Network-initiated (NI) location requests: loc_eng_ni.cpp.  The modem    *)
(* asks whether it may locate the phone, the user answers or a timeout     *)
(* answers for him, and the modem is informed.  Three kinds of threads     *)
(* share a session:                                                        *)
(*   - the MsgTask, which accepts requests, resets the sessions when the   *)
(*     modem goes down and delivers the answers;                           *)
(*   - one detached NI thread per accepted request (ni_thread_proc);       *)
(*   - the framework's thread that calls loc_eng_ni_respond.               *)
(* The lock tLock guards respRecvd and resp only: rawRequest and reqID are *)
(* read and written without it, so such an access is a step of its own.    *)
(* Elapsed time is abstracted: a wait may time out at any moment.          *)
(***************************************************************************)
EXTENDS Naturals, Sequences, FiniteSets

CONSTANTS MaxReq,     \* bound: requests the modem makes
          Restarts    \* bound: how often the modem goes down

ASSUME NiAssumption == MaxReq \in Nat /\ Restarts \in Nat

Session == {"std", "es"}      \* session and sessionEs
Req     == 1 .. MaxReq        \* a request, its payload and its NI thread
NoReq   == 0                  \* NULL, and the id 0 of no session
UserResponse == {"ACCEPT", "DENY"}
Response     == UserResponse \cup {"NORESP", "IGNORE"}

VARIABLES
    reqIDCounter,  \* requests accepted so far
    rawRequest,    \* the payload each session points to
    reqID,         \* the id a session compares answers with
    respRecvd,     \* an answer was received
    resp,          \* the answer (valid when respRecvd, else stale)
    tLock,         \* the NI thread inside the critical section, per session
    home,          \* the session of each NI thread
    tpc,           \* where each NI thread is
    tmsg,          \* the message an NI thread is going to send
    mpc,           \* what the MsgTask is doing: <<step, session>>
    queue,         \* LocEngInformNiResponse messages in the MsgTask queue
    upc,           \* what the respond call is doing: <<step, session, answer>>
    \* history
    said,          \* what the user said to each request
    informed,      \* what the modem was told about each request
    freed,         \* how often each payload was freed
    dropped,       \* the requests that a reset dropped
    downs          \* how often the modem went down

sessionVars == <<rawRequest, reqID, respRecvd, resp, tLock>>
threadVars  == <<home, tpc, tmsg>>
history     == <<said, informed, freed, dropped, downs>>
vars == <<reqIDCounter, sessionVars, threadVars, mpc, queue, upc, history>>

Idle == <<"idle">>
NoMsg == <<>>

Init ==
    /\ reqIDCounter = 0
    /\ rawRequest = [s \in Session |-> NoReq]
    /\ reqID = [s \in Session |-> NoReq]
    /\ respRecvd = [s \in Session |-> FALSE]
    /\ resp = [s \in Session |-> "none"]
    /\ tLock = [s \in Session |-> NoReq]
    /\ home = [n \in Req |-> "none"]
    /\ tpc = [n \in Req |-> "none"]
    /\ tmsg = [n \in Req |-> NoMsg]
    /\ mpc = Idle
    /\ queue = <<>>
    /\ upc = Idle
    /\ said = [n \in Req |-> "none"]
    /\ informed = [n \in Req |-> <<>>]
    /\ freed = [n \in Req |-> 0]
    /\ dropped = {}
    /\ downs = 0

\* free() of a payload; free(NULL) does nothing.
Free(p) == freed' = IF p = NoReq THEN freed ELSE [freed EXCEPT ![p] = @ + 1]

-----------------------------------------------------------------------------
(* The MsgTask *)

\* Mutant: an ordinary request is accepted beside an emergency one.
RequestUnderEs(s) ==
    /\ mpc = Idle
    /\ reqIDCounter + 1 \in Req
    /\ rawRequest[s] = NoReq
    /\ rawRequest' = [rawRequest EXCEPT ![s] = reqIDCounter + 1]
    /\ mpc' = <<"id", s>>
    /\ UNCHANGED <<reqIDCounter, reqID, respRecvd, resp, tLock, threadVars, queue,
                   upc, history>>

(***************************************************************************)
(* loc_eng_ni_request_handler, for a request that is not ignored: an       *)
(* emergency request needs its own session free, any other both.  First    *)
(* the payload is saved...                                                 *)
(***************************************************************************)
Request(s) ==
    /\ mpc = Idle
    /\ reqIDCounter + 1 \in Req
    /\ rawRequest["es"] = NoReq
    /\ s = "std" => rawRequest["std"] = NoReq
    /\ rawRequest' = [rawRequest EXCEPT ![s] = reqIDCounter + 1]
    /\ mpc' = <<"id", s>>
    /\ UNCHANGED <<reqIDCounter, reqID, respRecvd, resp, tLock, threadVars, queue,
                   upc, history>>

\* ...and then it gets its id, the NI thread is spawned and the user notified.
RequestOpen(s) ==
    LET n == reqIDCounter + 1 IN
    /\ mpc = <<"id", s>>
    /\ reqIDCounter' = n
    /\ reqID' = [reqID EXCEPT ![s] = n]
    /\ home' = [home EXCEPT ![n] = s]
    /\ tpc' = [tpc EXCEPT ![n] = "start"]
    /\ mpc' = Idle
    /\ UNCHANGED <<rawRequest, respRecvd, resp, tLock, tmsg, queue, upc, history>>

(***************************************************************************)
(* loc_eng_ni_reset_on_engine_restart, first the emergency session, then   *)
(* the other: look at rawRequest, free it, clear it, and only then take    *)
(* the lock to wake the NI thread.                                         *)
(***************************************************************************)
ResetStart ==
    /\ mpc = Idle
    /\ downs < Restarts
    /\ downs' = downs + 1
    /\ mpc' = <<"look", "es">>
    /\ UNCHANGED <<reqIDCounter, sessionVars, threadVars, queue, upc,
                   said, informed, freed, dropped>>

NextSession(s) == IF s = "es" THEN <<"look", "std">> ELSE Idle

ResetLook(s) ==
    /\ mpc = <<"look", s>>
    /\ mpc' = IF rawRequest[s] # NoReq THEN <<"free", s>> ELSE NextSession(s)
    /\ UNCHANGED <<reqIDCounter, sessionVars, threadVars, queue, upc, history>>

ResetFree(s) ==
    /\ mpc = <<"free", s>>
    /\ Free(rawRequest[s])
    /\ dropped' = dropped \cup ({rawRequest[s]} \ {NoReq})
    /\ mpc' = <<"clear", s>>
    /\ UNCHANGED <<reqIDCounter, sessionVars, threadVars, queue, upc,
                   said, informed, downs>>

ResetClear(s) ==
    /\ mpc = <<"clear", s>>
    /\ rawRequest' = [rawRequest EXCEPT ![s] = NoReq]
    /\ mpc' = <<"wake", s>>
    /\ UNCHANGED <<reqIDCounter, reqID, respRecvd, resp, tLock, threadVars,
                   queue, upc, history>>

ResetWake(s) ==
    /\ mpc = <<"wake", s>>
    /\ tLock[s] = NoReq
    /\ respRecvd' = [respRecvd EXCEPT ![s] = TRUE]
    /\ mpc' = NextSession(s)
    /\ UNCHANGED <<reqIDCounter, rawRequest, reqID, resp, tLock, threadVars,
                   queue, upc, history>>

\* LocEngInformNiResponse: proc() informs the modem, the destructor frees.
Inform ==
    /\ mpc = Idle
    /\ queue # <<>>
    /\ LET m == Head(queue) IN
        /\ informed' = IF m.payload = NoReq THEN informed
                       ELSE [informed EXCEPT ![m.payload] = Append(@, m.resp)]
        /\ Free(m.payload)
    /\ queue' = Tail(queue)
    /\ UNCHANGED <<reqIDCounter, sessionVars, threadVars, mpc, upc,
                   said, dropped, downs>>

-----------------------------------------------------------------------------
(* ni_thread_proc *)

\* The thread takes the lock and starts to wait.
ThreadStart(n) ==
    /\ tpc[n] = "start"
    /\ tLock[home[n]] = NoReq
    /\ tpc' = [tpc EXCEPT ![n] = "wait"]
    /\ UNCHANGED <<reqIDCounter, sessionVars, home, tmsg, mpc, queue, upc, history>>

\* It leaves the loop with an answer, or with a timeout that overrides one;
\* either way it resets the flag and looks at rawRequest.  It keeps the lock
\* if there is a request to take, else it is done with the session.
ThreadLeave(n, s, answer) ==
    /\ tpc[n] = "wait"
    /\ home[n] = s
    /\ tLock[s] = NoReq
    /\ resp' = [resp EXCEPT ![s] = answer]
    /\ respRecvd' = [respRecvd EXCEPT ![s] = FALSE]
    /\ \/ /\ rawRequest[s] # NoReq
          /\ tLock' = [tLock EXCEPT ![s] = n]
          /\ tpc' = [tpc EXCEPT ![n] = "take"]
       \/ /\ rawRequest[s] = NoReq
          /\ tpc' = [tpc EXCEPT ![n] = "forget"]
          /\ UNCHANGED tLock
    /\ UNCHANGED <<reqIDCounter, rawRequest, reqID, home, tmsg, mpc, queue,
                   upc, history>>

ThreadWake(n) ==
    \E s \in Session : respRecvd[s] /\ ThreadLeave(n, s, resp[s])

ThreadTimeout(n) ==
    \E s \in Session : ThreadLeave(n, s, "NORESP")

\* Mutant: the payload of an ignored request is not freed.
ThreadTakeLeaks(n) ==
    LET s == home[n] IN
    /\ tpc[n] = "take"
    /\ tmsg' = IF resp[s] = "IGNORE" THEN tmsg
               ELSE [tmsg EXCEPT ![n] = [resp |-> resp[s], payload |-> rawRequest[s]]]
    /\ tpc' = [tpc EXCEPT ![n] = "clear"]
    /\ UNCHANGED <<reqIDCounter, sessionVars, home, mpc, queue, upc, history>>

\* It reads rawRequest again and makes a message of it, or frees it.
ThreadTake(n) ==
    LET s == home[n] IN
    /\ tpc[n] = "take"
    /\ \/ /\ resp[s] # "IGNORE"
          /\ tmsg' = [tmsg EXCEPT ![n] = [resp |-> resp[s], payload |-> rawRequest[s]]]
          /\ UNCHANGED freed
       \/ /\ resp[s] = "IGNORE"
          /\ Free(rawRequest[s])
          /\ UNCHANGED tmsg
    /\ tpc' = [tpc EXCEPT ![n] = "clear"]
    /\ UNCHANGED <<reqIDCounter, sessionVars, home, mpc, queue, upc,
                   said, informed, dropped, downs>>

\* Mutant: it unlocks and leaves rawRequest where it is.
ThreadClearKeeps(n) ==
    /\ tpc[n] = "clear"
    /\ tLock' = [tLock EXCEPT ![home[n]] = NoReq]
    /\ tpc' = [tpc EXCEPT ![n] = "forget"]
    /\ UNCHANGED <<reqIDCounter, rawRequest, reqID, respRecvd, resp, home, tmsg,
                   mpc, queue, upc, history>>

\* It clears rawRequest and unlocks.
ThreadClear(n) ==
    /\ tpc[n] = "clear"
    /\ rawRequest' = [rawRequest EXCEPT ![home[n]] = NoReq]
    /\ tLock' = [tLock EXCEPT ![home[n]] = NoReq]
    /\ tpc' = [tpc EXCEPT ![n] = "forget"]
    /\ UNCHANGED <<reqIDCounter, reqID, respRecvd, resp, home, tmsg, mpc,
                   queue, upc, history>>

\* After the unlock the id is cleared, and then the message is sent.
ThreadForget(n) ==
    /\ tpc[n] = "forget"
    /\ reqID' = [reqID EXCEPT ![home[n]] = NoReq]
    /\ tpc' = [tpc EXCEPT ![n] = "send"]
    /\ UNCHANGED <<reqIDCounter, rawRequest, respRecvd, resp, tLock, home, tmsg,
                   mpc, queue, upc, history>>

\* Mutant: the message is posted twice.
ThreadSendTwice(n) ==
    /\ tpc[n] = "send"
    /\ queue' = IF tmsg[n] = NoMsg THEN queue ELSE queue \o <<tmsg[n], tmsg[n]>>
    /\ tmsg' = [tmsg EXCEPT ![n] = NoMsg]
    /\ tpc' = [tpc EXCEPT ![n] = "done"]
    /\ UNCHANGED <<reqIDCounter, sessionVars, home, mpc, upc, history>>

ThreadSend(n) ==
    /\ tpc[n] = "send"
    /\ queue' = IF tmsg[n] = NoMsg THEN queue ELSE Append(queue, tmsg[n])
    /\ tmsg' = [tmsg EXCEPT ![n] = NoMsg]
    /\ tpc' = [tpc EXCEPT ![n] = "done"]
    /\ UNCHANGED <<reqIDCounter, sessionVars, home, mpc, upc, history>>

-----------------------------------------------------------------------------
(* loc_eng_ni_respond, on the framework's thread *)

(***************************************************************************)
(* The user answers a notification: its id is compared with the sessions', *)
(* and the session must have a request.  These reads are one step: an id   *)
(* is stored in one session only, and of that session the answer is stored *)
(* later anyway, for whatever request it has by then.                      *)
(***************************************************************************)
Respond(n, r) ==
    /\ upc = Idle
    /\ n <= reqIDCounter /\ said[n] = "none"
    /\ said' = [said EXCEPT ![n] = r]
    /\ LET matches(s) == reqID[s] = n /\ rawRequest[s] # NoReq IN
       upc' = CASE matches("es") -> <<IF r = "ACCEPT" THEN "rival" ELSE "set", "es", r>>
                [] ~matches("es") /\ matches("std") -> <<"set", "std", r>>
                [] OTHER -> Idle
    /\ UNCHANGED <<reqIDCounter, sessionVars, threadVars, mpc, queue,
                   informed, freed, dropped, downs>>

\* Accepting an emergency request first ignores a pending ordinary one.
RespondRival(r) ==
    /\ upc = <<"rival", "es", r>>
    /\ upc' = <<IF rawRequest["std"] # NoReq THEN "ignore" ELSE "set", "es", r>>
    /\ UNCHANGED <<reqIDCounter, sessionVars, threadVars, mpc, queue, history>>

\* Under the lock of the session an answer is stored and the thread woken.
Store(s, r) ==
    /\ tLock[s] = NoReq
    /\ resp' = [resp EXCEPT ![s] = r]
    /\ respRecvd' = [respRecvd EXCEPT ![s] = TRUE]
    /\ UNCHANGED <<reqIDCounter, rawRequest, reqID, tLock, threadVars, mpc,
                   queue, history>>

RespondIgnore(r) ==
    /\ upc = <<"ignore", "es", r>>
    /\ Store("std", "IGNORE")
    /\ upc' = <<"set", "es", r>>

RespondSet(s, r) ==
    /\ upc = <<"set", s, r>>
    /\ Store(s, r)
    /\ upc' = Idle

-----------------------------------------------------------------------------
\* What the MsgTask has begun, or finds in its queue.
MsgTaskGoesOn ==
    \/ \E s \in Session : RequestOpen(s)
    \/ \E s \in Session : ResetLook(s) \/ ResetFree(s) \/ ResetClear(s) \/ ResetWake(s)
    \/ Inform

MsgTask ==
    \/ \E s \in Session : Request(s)
    \/ ResetStart
    \/ MsgTaskGoesOn

NiThread(n) ==
    \/ ThreadStart(n) \/ ThreadWake(n) \/ ThreadTimeout(n)
    \/ ThreadTake(n) \/ ThreadClear(n)
    \/ ThreadForget(n) \/ ThreadSend(n)

\* The rest of a call of loc_eng_ni_respond.
RespondGoesOn ==
    \E r \in UserResponse :
        \/ RespondRival(r) \/ RespondIgnore(r)
        \/ \E s \in Session : RespondSet(s, r)

Framework ==
    \/ \E n \in Req, r \in UserResponse : Respond(n, r)
    \/ RespondGoesOn

Next ==
    \/ MsgTask
    \/ \E n \in Req : NiThread(n)
    \/ Framework

(***************************************************************************)
(* Fairness: every thread keeps running and every wait times out.  The     *)
(* modem, the user and the restarts need not act.                          *)
(***************************************************************************)
Fairness ==
    /\ \A n \in Req : WF_vars(NiThread(n))
    /\ WF_vars(MsgTaskGoesOn)
    /\ WF_vars(RespondGoesOn)

Spec == Init /\ [][Next]_vars /\ Fairness

-----------------------------------------------------------------------------
Accepted == 1 .. reqIDCounter

NiTypeOK ==
    /\ reqIDCounter \in 0 .. MaxReq
    /\ rawRequest \in [Session -> Req \cup {NoReq}]
    /\ reqID \in [Session -> Req \cup {NoReq}]
    /\ respRecvd \in [Session -> BOOLEAN]
    /\ resp \in [Session -> Response \cup {"none"}]
    /\ tLock \in [Session -> Req \cup {NoReq}]
    /\ \A n \in Accepted : home[n] \in Session /\ tpc[n] # "none"
    /\ \A i \in DOMAIN queue : queue[i].resp \in Response
    /\ said \in [Req -> UserResponse \cup {"none"}]
    /\ dropped \subseteq Req

(***************************************************************************)
(* Every payload has one owner as long as the modem stays up (a reset      *)
(* takes the payload without the lock): it is freed at most once, and is   *)
(* alive while a session, a thread's message or the queue refers to it.    *)
(***************************************************************************)
PayloadOwned ==
    downs = 0 =>
    /\ \A n \in Req : freed[n] <= 1
    /\ \A s \in Session :
          /\ rawRequest[s] # NoReq
          /\ ~\E t \in Req : tLock[s] = t /\ tpc[t] = "clear"
          => freed[rawRequest[s]] = 0
    /\ \A i \in DOMAIN queue : queue[i].payload # NoReq => freed[queue[i].payload] = 0

(***************************************************************************)
(* The modem hears at most one answer to a request.                        *)
(***************************************************************************)
OneAnswer == \A n \in Req : Len(informed[n]) <= 1

(***************************************************************************)
(* A session serves one request at a time: at most one NI thread waits on  *)
(* it, and an emergency request can run beside an ordinary one but not the *)
(* other way round, unless a reset emptied a session under its thread.     *)
(***************************************************************************)
OneWaiter ==
    downs = 0 => \A m, n \in Accepted :
        /\ tpc[m] \in {"start", "wait", "take", "clear"}
        /\ tpc[n] \in {"start", "wait", "take", "clear"}
        /\ m < n
        => home[m] = "std" /\ home[n] = "es"

(***************************************************************************)
(* Nothing is forgotten: every request the phone accepts is answered or    *)
(* its payload discarded, in the end, whatever the user does and however   *)
(* often the modem restarts.                                               *)
(***************************************************************************)
Resolved == \A n \in Req : (n <= reqIDCounter) ~> (freed[n] >= 1)

(***************************************************************************)
(* No session stays occupied: a request pending now is not pending for     *)
(* ever, across any number of modem restarts, so the next one is served.   *)
(***************************************************************************)
SessionFrees ==
    \A n \in Req :
        (\E s \in Session : rawRequest[s] = n) ~> (\A s \in Session : rawRequest[s] # n)
=============================================================================
