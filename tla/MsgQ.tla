-------------------------------- MODULE MsgQ --------------------------------
(***************************************************************************)
(* The message queue of the GPS library: msg_q.c on top of linked_list.c.  *)
(* Any number of threads send and receive.  Every function holds           *)
(* list_mutex from its first access to its last, so a call is one step;    *)
(* only a receiver that waits on list_cond gives the mutex up and takes it *)
(* again later, which makes its call several steps.  A wait may also end   *)
(* for no reason (a spurious wake-up).                                     *)
(*                                                                         *)
(* linked_list_add inserts at the head and linked_list_remove takes the    *)
(* tail: msg_list is written from head to tail, the newest message first.  *)
(***************************************************************************)
EXTENDS Naturals, Sequences, FiniteSets

CONSTANTS Sender,    \* threads that send
          Receiver,  \* threads that receive
          MaxSends   \* bound: messages each sender sends

ASSUME MsgQAssumption == IsFiniteSet(Receiver) /\ MaxSends \in Nat

Message == Sender \X (1 .. MaxSends)   \* the k-th message of a sender

VARIABLES
    msg_list,   \* the linked list, from p_head to p_tail
    unblocked,  \* msg_q_unblock was called
    rpc,        \* where each receiver is: "out", "wait" or "awake"
    sends,      \* how many messages each sender has made
    \* history
    kept,       \* the messages accepted and not flushed, oldest first
    taken       \* the messages received, in the order of their removal

qVars == <<msg_list, unblocked, rpc, sends, kept, taken>>

Waiting == {r \in Receiver : rpc[r] = "wait"}
Awake   == {r \in Receiver : rpc[r] = "awake"}

QInit ==
    /\ msg_list = <<>>
    /\ unblocked = FALSE
    /\ rpc = [r \in Receiver |-> "out"]
    /\ sends = [s \in Sender |-> 0]
    /\ kept = <<>>
    /\ taken = <<>>

-----------------------------------------------------------------------------
\* Mutant: the sender signals nobody.
SignalNobody == UNCHANGED rpc

\* pthread_cond_signal: one waiter wakes up, if there is one.
Signal ==
    \/ Waiting = {} /\ UNCHANGED rpc
    \/ \E r \in Waiting : rpc' = [rpc EXCEPT ![r] = "awake"]

\* linked_list_add: the new element becomes the head.
ListAdd(m) == msg_list' = <<m>> \o msg_list

\* linked_list_flush: every element is freed.
ListFlush == msg_list' = <<>>

\* msg_q_snd: refused when the queue was unblocked.
SndRefused(s) ==
    /\ unblocked
    /\ sends[s] < MaxSends
    /\ sends' = [sends EXCEPT ![s] = @ + 1]
    /\ UNCHANGED <<msg_list, unblocked, rpc, kept, taken>>

\* msg_q_snd otherwise: the message becomes the new head, a receiver wakes.
Snd(s) ==
    LET m == <<s, sends[s] + 1>> IN
    /\ ~unblocked
    /\ sends[s] < MaxSends
    /\ sends' = [sends EXCEPT ![s] = @ + 1]
    /\ ListAdd(m)
    /\ kept' = Append(kept, m)
    /\ Signal
    /\ UNCHANGED <<unblocked, taken>>

\* Mutant: linked_list_remove takes the head.
RemoveHead(r) ==
    /\ msg_list # <<>>
    /\ taken' = Append(taken, Head(msg_list))
    /\ msg_list' = Tail(msg_list)
    /\ rpc' = [rpc EXCEPT ![r] = "out"]
    /\ UNCHANGED <<unblocked, sends, kept>>

\* linked_list_remove: the tail, that is the oldest message.
ListRemove(r) ==
    /\ msg_list # <<>>
    /\ taken' = Append(taken, msg_list[Len(msg_list)])
    /\ msg_list' = SubSeq(msg_list, 1, Len(msg_list) - 1)
    /\ rpc' = [rpc EXCEPT ![r] = "out"]
    /\ UNCHANGED <<unblocked, sends, kept>>

Wait(r) ==
    /\ msg_list = <<>> /\ ~unblocked
    /\ rpc' = [rpc EXCEPT ![r] = "wait"]
    /\ UNCHANGED <<msg_list, unblocked, sends, kept, taken>>

\* msg_q_rcv when the queue is not unblocked: a message, or the first wait.
RcvTake(r) == rpc[r] = "out" /\ ~unblocked /\ ListRemove(r)
RcvWait(r) == rpc[r] = "out" /\ Wait(r)

\* After a wake-up the condition of the while loop is evaluated again.
ResumeTake(r) == rpc[r] = "awake" /\ ListRemove(r)
ResumeWait(r) == rpc[r] = "awake" /\ Wait(r)

\* Mutant: the wait is not in a loop.
RcvFailsOnce(r) ==
    \/ unblocked /\ rpc[r] = "out"
    \/ rpc[r] = "awake" /\ msg_list = <<>>

\* msg_q_rcv fails at the call, or with an empty list after a wake-up.
RcvFails(r) ==
    \/ unblocked /\ rpc[r] = "out"
    \/ unblocked /\ rpc[r] = "awake" /\ msg_list = <<>>

RcvFail(r) ==
    /\ RcvFails(r)
    /\ rpc' = [rpc EXCEPT ![r] = "out"]
    /\ UNCHANGED <<msg_list, unblocked, sends, kept, taken>>

Spurious(r) ==
    /\ rpc[r] = "wait"
    /\ rpc' = [rpc EXCEPT ![r] = "awake"]
    /\ UNCHANGED <<msg_list, unblocked, sends, kept, taken>>

\* msg_q_flush, and the flush that linked_list_destroy makes.
Flush ==
    /\ ListFlush
    /\ kept' = taken
    /\ UNCHANGED <<unblocked, rpc, sends, taken>>

\* Mutant: nobody is woken.
UnblockQuiet ==
    /\ ~unblocked
    /\ unblocked' = TRUE
    /\ UNCHANGED <<msg_list, rpc, sends, kept, taken>>

\* msg_q_unblock: all waiters wake up.  A second call changes nothing.
Unblock ==
    /\ ~unblocked
    /\ unblocked' = TRUE
    /\ rpc' = [r \in Receiver |-> IF rpc[r] = "wait" THEN "awake" ELSE rpc[r]]
    /\ UNCHANGED <<msg_list, sends, kept, taken>>

Receive(r) ==
    RcvTake(r) \/ RcvWait(r) \/ ResumeTake(r) \/ ResumeWait(r) \/ RcvFail(r)

QNext ==
    \/ \E s \in Sender : Snd(s) \/ SndRefused(s)
    \/ \E r \in Receiver : Receive(r) \/ Spurious(r)
    \/ Flush
    \/ Unblock

\* A receiver is fair: it is back in msg_q_rcv, or woken up and runs again.
QSpec == QInit /\ [][QNext]_qVars /\ \A r \in Receiver : WF_qVars(Receive(r))

-----------------------------------------------------------------------------
QTypeOK ==
    /\ msg_list \in Seq(Message)
    /\ unblocked \in BOOLEAN
    /\ rpc \in [Receiver -> {"out", "wait", "awake"}]
    /\ sends \in [Sender -> 0 .. MaxSends]
    /\ kept \in Seq(Message)
    /\ taken \in Seq(Message)

(***************************************************************************)
(* First in, first out, nothing lost and nothing twice: what was received  *)
(* and then what is in the list, read from its tail, are the messages that *)
(* msg_q_snd accepted and nobody flushed, in the order of the calls.       *)
(***************************************************************************)
Fifo ==
    /\ Len(kept) = Len(taken) + Len(msg_list)
    /\ \A i \in 1 .. Len(taken) : taken[i] = kept[i]
    /\ \A i \in 1 .. Len(msg_list) : msg_list[i] = kept[Len(kept) + 1 - i]

(***************************************************************************)
(* No wake-up is lost: while a receiver waits, at least as many others are *)
(* awake as there are messages, and none waits on an unblocked queue.      *)
(***************************************************************************)
NoLostWakeup ==
    /\ Waiting # {} => Len(msg_list) <= Cardinality(Awake)
    /\ unblocked => Waiting = {}
=============================================================================
