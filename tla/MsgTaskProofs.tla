---------------------------- MODULE MsgTaskProofs ----------------------------
(***************************************************************************)
(* The queue is first in, first out and loses no wake-up, for every set of *)
(* senders, every finite set of receivers and every number of messages.    *)
(* The message task on top of it accounts for every message, ends only     *)
(* when it is asked to, and keeps the order of the channel its users see.  *)
(***************************************************************************)
EXTENDS MsgTask, FiniteSetTheorems, SequenceTheorems, TLAPS

QInv == QTypeOK /\ Fifo /\ NoLostWakeup

USE MsgQAssumption

(***************************************************************************)
(* The receivers that are awake can be counted, and a receiver that wakes  *)
(* up or stops being awake changes the count by one.                       *)
(***************************************************************************)
LEMMA AwakeFinite == IsFiniteSet(Awake) /\ Cardinality(Awake) \in Nat
  <1>1. Awake \subseteq Receiver
    BY DEF Awake
  <1>2. IsFiniteSet(Awake)
    BY <1>1, FS_Subset
  <1> QED
    BY <1>2, FS_CardinalityType

LEMMA WakeOne ==
  ASSUME QTypeOK, NEW r \in Waiting, rpc' = [rpc EXCEPT ![r] = "awake"]
  PROVE  /\ Awake' = Awake \cup {r}
         /\ Waiting' = Waiting \ {r}
         /\ Cardinality(Awake') = Cardinality(Awake) + 1
  <1>1. Awake' = Awake \cup {r} /\ Waiting' = Waiting \ {r}
    BY DEF Awake, Waiting, QTypeOK
  <1>2. r \notin Awake
    BY DEF Awake, Waiting
  <1>3. Cardinality(Awake \cup {r}) = Cardinality(Awake) + 1
    BY <1>2, AwakeFinite, FS_AddElement
  <1> QED
    BY <1>1, <1>3

LEMMA LeaveAwake ==
  ASSUME QTypeOK, NEW r \in Awake, rpc' = [rpc EXCEPT ![r] = "out"]
  PROVE  /\ Awake' = Awake \ {r}
         /\ Waiting' = Waiting
         /\ Cardinality(Awake') = Cardinality(Awake) - 1
  <1>1. Awake' = Awake \ {r} /\ Waiting' = Waiting
    BY DEF Awake, Waiting, QTypeOK
  <1>2. Cardinality(Awake \ {r}) = Cardinality(Awake) - 1
    BY AwakeFinite, FS_RemoveElement
  <1> QED
    BY <1>1, <1>2

-----------------------------------------------------------------------------
(***************************************************************************)
(* The three parts of the invariant, operation by operation.               *)
(***************************************************************************)
LEMMA QInit_QInv == QInit => QInv
  <1> SUFFICES ASSUME QInit PROVE QInv
    OBVIOUS
  <1>1. QTypeOK
    <2>1. sends \in [Sender -> 0 .. MaxSends]
      BY DEF QInit
    <2>2. rpc \in [Receiver -> {"out", "wait", "awake"}]
      BY DEF QInit
    <2>3. <<>> \in Seq(Message)
      BY EmptySeq
    <2> QED
      BY <2>1, <2>2, <2>3 DEF QInit, QTypeOK
  <1>4. Fifo
    BY DEF QInit, Fifo
  <1>2. Waiting = {}
    BY DEF QInit, Waiting
  <1>3. NoLostWakeup
    BY <1>2 DEF NoLostWakeup
  <1> QED
    BY <1>1, <1>3, <1>4 DEF QInv

(***************************************************************************)
(* The lengths are numbers.                                                *)
(***************************************************************************)
LEMMA Lengths ==
  ASSUME QTypeOK
  PROVE  Len(msg_list) \in Nat /\ Len(kept) \in Nat /\ Len(taken) \in Nat
  BY DEF QTypeOK

\* An added message is the newest one, and somebody wakes up for it.
LEMMA Snd_QInv ==
  ASSUME QInv, NEW s \in Sender, Snd(s)
  PROVE  QInv'
  <1> DEFINE m == <<s, sends[s] + 1>>
  <1>1. m \in Message
    BY DEF Snd, Message, QInv, QTypeOK
  <1>2. Len(msg_list') = Len(msg_list) + 1 /\ msg_list' \in Seq(Message)
        /\ msg_list'[1] = m
        /\ \A i \in 2 .. Len(msg_list') : msg_list'[i] = msg_list[i - 1]
    BY <1>1 DEF Snd, ListAdd, QInv, QTypeOK
  <1>3. rpc' \in [Receiver -> {"out", "wait", "awake"}]
    BY DEF Snd, Signal, QInv, QTypeOK
  <1>4. QTypeOK'
    BY <1>1, <1>2, <1>3 DEF Snd, ListAdd, QInv, QTypeOK
  <1>5. Fifo'
    <2>1. /\ Len(kept') = Len(kept) + 1 /\ kept'[Len(kept')] = m
          /\ \A i \in 1 .. Len(kept) : kept'[i] = kept[i]
      BY <1>1 DEF Snd, ListAdd, QInv, QTypeOK
    <2>2. \A i \in 1 .. Len(msg_list') : msg_list'[i] = kept'[Len(kept') + 1 - i]
      <3> TAKE i \in 1 .. Len(msg_list')
      <3>1. CASE i = 1
        BY <3>1, <1>2, <2>1 DEF QInv, QTypeOK
      <3>2. CASE i # 1
        <4>1. i - 1 \in 1 .. Len(msg_list)
          BY <3>2, <1>2 DEF QInv, QTypeOK
        <4>2. msg_list[i - 1] = kept[Len(kept) + 1 - (i - 1)]
          BY <4>1 DEF QInv, Fifo
        <4>3. Len(kept) + 1 - (i - 1) \in 1 .. Len(kept)
          BY <4>1 DEF QInv, Fifo, QTypeOK
        <4>4. msg_list'[i] = msg_list[i - 1]
          BY <3>2, <1>2, Lengths DEF QInv
        <4>5. kept'[Len(kept) + 1 - (i - 1)] = kept[Len(kept) + 1 - (i - 1)]
          BY <2>1, <4>3
        <4>6. Len(kept) + 1 - (i - 1) = Len(kept') + 1 - i
          BY <2>1, Lengths DEF QInv
        <4> QED
          BY <4>2, <4>4, <4>5, <4>6
      <3> QED
        BY <3>1, <3>2
    <2>3. Len(kept') = Len(taken') + Len(msg_list')
      BY <1>2, <2>1, Lengths DEF Snd, QInv, Fifo
    <2>4. \A i \in 1 .. Len(taken') : taken'[i] = kept'[i]
      BY <2>1, Lengths DEF Snd, QInv, Fifo
    <2> QED
      BY <2>2, <2>3, <2>4 DEF Fifo
  <1>6. NoLostWakeup'
    <2>1. CASE Waiting = {} /\ UNCHANGED rpc
      BY <2>1 DEF NoLostWakeup, Waiting
    <2>2. ASSUME NEW r \in Waiting, rpc' = [rpc EXCEPT ![r] = "awake"]
          PROVE  NoLostWakeup'
      <3>1. Len(msg_list) <= Cardinality(Awake) /\ ~unblocked'
        BY DEF NoLostWakeup, QInv, Snd
      <3>2. Cardinality(Awake') = Cardinality(Awake) + 1
        BY <2>2, WakeOne DEF QInv
      <3> QED
        BY <1>2, <3>1, <3>2, AwakeFinite, Lengths DEF NoLostWakeup, QInv
    <2> QED
      BY <2>1, <2>2 DEF Snd, Signal
  <1> QED
    BY <1>4, <1>5, <1>6 DEF QInv

\* The removed message is the oldest one.
LEMMA ListRemove_Fifo ==
  ASSUME QInv, NEW r \in Receiver, ListRemove(r)
  PROVE  QTypeOK' /\ Fifo' /\ Len(msg_list') = Len(msg_list) - 1
  <1>1. Len(msg_list) \in Nat \ {0}
    BY DEF ListRemove, QInv, QTypeOK
  <1>2. /\ msg_list' \in Seq(Message) /\ Len(msg_list') = Len(msg_list) - 1
        /\ \A i \in 1 .. Len(msg_list') : msg_list'[i] = msg_list[i]
    <2>1. msg_list' = SubSeq(msg_list, 1, Len(msg_list) - 1)
      BY DEF ListRemove
    <2>2. msg_list \in Seq(Message) /\ Len(msg_list) - 1 \in 1 - 1 .. Len(msg_list)
      BY <1>1 DEF QInv, QTypeOK
    <2>3. /\ msg_list' \in Seq(Message)
          /\ Len(msg_list') = IF 1 <= Len(msg_list) - 1 THEN Len(msg_list) - 1 - 1 + 1 ELSE 0
          /\ \A i \in 1 .. Len(msg_list) - 1 - 1 + 1 : msg_list'[i] = msg_list[1 + i - 1]
      BY <2>1, <2>2, <1>1, SubSeqProperties
    <2>4. Len(msg_list') = Len(msg_list) - 1
      <3> DEFINE n == Len(msg_list)
      <3>1. n \in Nat /\ n # 0
        BY <1>1
      <3>2. Len(msg_list') = IF 1 <= n - 1 THEN n - 1 - 1 + 1 ELSE 0
        BY <2>3
      <3> HIDE DEF n
      <3>3. Len(msg_list') = n - 1
        BY <3>1, <3>2
      <3> QED
        BY <3>3 DEF n
    <2>5. ASSUME NEW i \in 1 .. Len(msg_list') PROVE msg_list'[i] = msg_list[i]
      <3>1. i \in 1 .. Len(msg_list) - 1 - 1 + 1 /\ 1 + i - 1 = i
        BY <2>4, <1>1
      <3> QED
        BY <3>1, <2>3
    <2> QED
      BY <2>3, <2>4, <2>5
  <1>3. /\ taken' \in Seq(Message) /\ Len(taken') = Len(taken) + 1
        /\ \A i \in 1 .. Len(taken) : taken'[i] = taken[i]
        /\ taken'[Len(taken')] = msg_list[Len(msg_list)]
    BY <1>1 DEF ListRemove, QInv, QTypeOK
  <1>4. msg_list[Len(msg_list)] = kept[Len(taken) + 1]
    <2>1. msg_list[Len(msg_list)] = kept[Len(kept) + 1 - Len(msg_list)]
      BY <1>1 DEF QInv, Fifo
    <2>2. Len(kept) + 1 - Len(msg_list) = Len(taken) + 1
      BY Lengths DEF QInv, Fifo
    <2> QED
      BY <2>1, <2>2
  <1>5. QTypeOK'
    BY <1>2, <1>3 DEF ListRemove, QInv, QTypeOK
  <1>6. \A i \in 1 .. Len(taken') : taken'[i] = kept[i]
    BY <1>3, <1>4 DEF QInv, QTypeOK, Fifo
  <1>7. Fifo'
    <2>1. kept' = kept
      BY DEF ListRemove
    <2>2. Len(kept) = Len(taken') + Len(msg_list')
      <3>1. Len(kept) = Len(taken) + Len(msg_list)
        BY DEF QInv, Fifo
      <3> QED
        BY <3>1, <1>1, <1>2, <1>3, Lengths DEF QInv
    <2>3. ASSUME NEW i \in 1 .. Len(msg_list')
          PROVE  msg_list'[i] = kept[Len(kept) + 1 - i]
      <3>1. i \in 1 .. Len(msg_list)
        BY <1>1, <1>2
      <3>2. msg_list[i] = kept[Len(kept) + 1 - i]
        BY <3>1 DEF QInv, Fifo
      <3> QED
        BY <3>2, <1>2
    <2> QED
      BY <1>6, <2>1, <2>2, <2>3 DEF Fifo
  <1> QED
    BY <1>2, <1>5, <1>7

LEMMA Receive_QInv ==
  ASSUME QInv, NEW r \in Receiver, Receive(r)
  PROVE  QInv'
  <1> USE DEF QInv
  <1>1. CASE RcvTake(r)
    <2>1. Waiting' = Waiting /\ Awake' = Awake /\ ~unblocked'
      BY <1>1 DEF RcvTake, ListRemove, Waiting, Awake, QTypeOK
    <2>2. QTypeOK' /\ Fifo' /\ Len(msg_list') = Len(msg_list) - 1
      BY <1>1, ListRemove_Fifo DEF RcvTake
    <2>3. NoLostWakeup'
      BY <2>1, <2>2, AwakeFinite DEF NoLostWakeup, QTypeOK
    <2> QED
      BY <2>2, <2>3
  <1>2. CASE ResumeTake(r)
    <2>1. r \in Awake
      BY <1>2 DEF ResumeTake, Awake
    <2>2. Waiting' = Waiting /\ Cardinality(Awake') = Cardinality(Awake) - 1
      BY <1>2, <2>1, LeaveAwake DEF ResumeTake, ListRemove
    <2>3. QTypeOK' /\ Fifo' /\ Len(msg_list') = Len(msg_list) - 1
      BY <1>2, ListRemove_Fifo DEF ResumeTake
    <2>4. unblocked' = unblocked
      BY <1>2 DEF ResumeTake, ListRemove
    <2>5. NoLostWakeup'
      BY <2>2, <2>3, <2>4, AwakeFinite DEF NoLostWakeup, QTypeOK
    <2> QED
      BY <2>3, <2>5
  <1>3. CASE RcvWait(r) \/ ResumeWait(r)
    <2>1. QTypeOK' /\ msg_list' = <<>> /\ ~unblocked'
      BY <1>3 DEF RcvWait, ResumeWait, Wait, QTypeOK
    <2>4. Fifo'
      BY <1>3 DEF RcvWait, ResumeWait, Wait, Fifo
    <2>2. Cardinality(Awake)' \in Nat
      <3>1. Awake' \subseteq Receiver
        BY DEF Awake
      <3> QED
        BY <3>1, FS_Subset, FS_CardinalityType
    <2>3. NoLostWakeup'
      <3>1. Len(msg_list') = 0
        BY <2>1
      <3> QED
        BY <2>1, <2>2, <3>1 DEF NoLostWakeup
    <2> QED
      BY <2>1, <2>3, <2>4
  <1>4. CASE RcvFail(r)
    <2>1. QTypeOK' /\ Fifo'
      BY <1>4 DEF RcvFail, QTypeOK, Fifo
    <2>2. Waiting = {} /\ rpc' = [rpc EXCEPT ![r] = "out"]
      BY <1>4 DEF RcvFail, RcvFails, NoLostWakeup
    <2>3. Waiting' = {}
      BY <2>2 DEF Waiting, QTypeOK
    <2>4. NoLostWakeup'
      BY <2>3 DEF NoLostWakeup
    <2> QED
      BY <2>1, <2>4
  <1> QED
    BY <1>1, <1>2, <1>3, <1>4 DEF Receive

LEMMA Spurious_QInv ==
  ASSUME QInv, NEW r \in Receiver, Spurious(r)
  PROVE  QInv'
  <1> USE DEF QInv
  <1>1. QTypeOK' /\ Fifo' /\ msg_list' = msg_list /\ unblocked' = unblocked
    BY DEF Spurious, QTypeOK, Fifo
  <1>2. r \in Waiting
    BY DEF Spurious, Waiting
  <1>3. Waiting' \subseteq Waiting /\ Cardinality(Awake') = Cardinality(Awake) + 1
    BY <1>2, WakeOne DEF Spurious
  <1>4. NoLostWakeup'
    BY <1>1, <1>2, <1>3, AwakeFinite DEF NoLostWakeup, QTypeOK
  <1> QED
    BY <1>1, <1>4

LEMMA Flush_QInv ==
  ASSUME QInv, Flush
  PROVE  QInv'
  <1> USE DEF QInv
  <1>1. QTypeOK' /\ Fifo'
    BY DEF Flush, ListFlush, QTypeOK, Fifo
  <1>2. Waiting' = Waiting /\ Awake' = Awake /\ Len(msg_list') = 0
    BY DEF Flush, ListFlush, Waiting, Awake
  <1>3. NoLostWakeup'
    BY <1>2, AwakeFinite DEF NoLostWakeup, Flush
  <1> QED
    BY <1>1, <1>3

LEMMA Unblock_QInv ==
  ASSUME QInv, Unblock
  PROVE  QInv'
  <1> USE DEF QInv
  <1>1. QTypeOK' /\ Fifo'
    BY DEF Unblock, QTypeOK, Fifo
  <1>2. Waiting' = {}
    BY DEF Unblock, Waiting, QTypeOK
  <1>3. NoLostWakeup'
    BY <1>2 DEF NoLostWakeup
  <1> QED
    BY <1>1, <1>3

LEMMA QNext_QInv == QInv /\ [QNext]_qVars => QInv'
  <1> SUFFICES ASSUME QInv, [QNext]_qVars PROVE QInv'
    OBVIOUS
  <1>1. ASSUME NEW s \in Sender, Snd(s) PROVE QInv'
    BY <1>1, Snd_QInv
  <1>2. ASSUME NEW s \in Sender, SndRefused(s) PROVE QInv'
    <2>1. QTypeOK'
      BY <1>2 DEF SndRefused, QInv, QTypeOK
    <2>2. Fifo' /\ NoLostWakeup'
      BY <1>2 DEF SndRefused, QInv, Fifo, NoLostWakeup, Waiting, Awake
    <2> QED
      BY <2>1, <2>2 DEF QInv
  <1>3. ASSUME NEW r \in Receiver, Receive(r) PROVE QInv'
    BY <1>3, Receive_QInv
  <1>4. ASSUME NEW r \in Receiver, Spurious(r) PROVE QInv'
    BY <1>4, Spurious_QInv
  <1>5. CASE Flush
    BY <1>5, Flush_QInv
  <1>6. CASE Unblock
    BY <1>6, Unblock_QInv
  <1>7. CASE UNCHANGED qVars
    BY <1>7 DEF qVars, QInv, QTypeOK, Fifo, NoLostWakeup, Waiting, Awake
  <1> QED
    BY <1>1, <1>2, <1>3, <1>4, <1>5, <1>6, <1>7 DEF QNext

-----------------------------------------------------------------------------
(***************************************************************************)
(* The invariant of the queue holds in every behaviour.                    *)
(***************************************************************************)
THEOREM QueueInvariant == QSpec => []QInv
  BY QInit_QInv, QNext_QInv, PTL DEF QSpec

(***************************************************************************)
(* Type correctness of the queue.                                          *)
(***************************************************************************)
THEOREM QueueTyping == QSpec => []QTypeOK
  <1>1. QInv => QTypeOK
    BY DEF QInv
  <1> QED
    BY <1>1, QueueInvariant, PTL

(***************************************************************************)
(* msg_q_rcv delivers what msg_q_snd accepted, in that order.              *)
(***************************************************************************)
THEOREM QueueIsFifo == QSpec => []Fifo
  <1>1. QInv => Fifo
    BY DEF QInv
  <1> QED
    BY <1>1, QueueInvariant, PTL

(***************************************************************************)
(* One pthread_cond_signal per message is enough for any number of         *)
(* receivers, also when others take the message first.                     *)
(***************************************************************************)
THEOREM WakeupsAreKept == QSpec => []NoLostWakeup
  <1>1. QInv => NoLostWakeup
    BY DEF QInv
  <1> QED
    BY <1>1, QueueInvariant, PTL

-----------------------------------------------------------------------------
(***************************************************************************)
(* The task on top of the queue: what a send and a removal do to the sets  *)
(* in which a message can be.                                              *)
(***************************************************************************)
TaskTypeOK ==
    /\ lpc \in {"rcv", "proc", "exit"}
    /\ deleted \subseteq Message
    /\ leaked \subseteq Message
    /\ lpc = "proc" => taken # <<>>

\* No message is twice in the list.
Distinct == \A i, j \in DOMAIN msg_list : msg_list[i] = msg_list[j] => i = j

TaskInv == QInv /\ TaskTypeOK /\ Accounted /\ ExitsWhenAsked

\* A new message was nowhere before.
LEMMA MadeOne ==
  ASSUME QTypeOK, NEW s \in Sender, sends[s] < MaxSends,
         sends' = [sends EXCEPT ![s] = @ + 1]
  PROVE  /\ <<s, sends[s] + 1>> \in Message
         /\ <<s, sends[s] + 1>> \notin Made
         /\ Made' = Made \cup {<<s, sends[s] + 1>>}
         /\ sends'[s] = sends[s] + 1
  <1> DEFINE m == <<s, sends[s] + 1>>
  <1>1. sends \in [Sender -> 0 .. MaxSends] /\ MaxSends \in Nat
    BY DEF QTypeOK
  <1>2. m \in Message /\ sends'[s] = sends[s] + 1
    BY <1>1 DEF Message
  <1>3. m \notin Made
    BY <1>1 DEF Made
  <1>4. ASSUME NEW x \in Message PROVE x \in Made' <=> x \in Made \cup {m}
    <2>1. PICK a \in Sender, k \in 1 .. MaxSends : x = <<a, k>>
      BY DEF Message
    <2>2. x \in Made' <=> k <= sends'[a]
      BY <2>1 DEF Made
    <2>3. x \in Made <=> k <= sends[a]
      BY <2>1 DEF Made
    <2>4. x = m <=> a = s /\ k = sends[s] + 1
      BY <2>1
    <2> QED
      BY <1>1, <1>2, <2>2, <2>3, <2>4
  <1>5. Made \subseteq Message /\ Made' \subseteq Message
    BY DEF Made, Message
  <1> QED
    BY <1>2, <1>3, <1>4, <1>5

\* linked_list_add, seen as a set.
LEMMA ListAddSet ==
  ASSUME QTypeOK, NEW m \in Message, ListAdd(m)
  PROVE  /\ Listed' = Listed \cup {m}
         /\ Distinct /\ m \notin Listed => Distinct'
  <1>1. /\ DOMAIN msg_list = 1 .. Len(msg_list) /\ Len(msg_list) \in Nat
        /\ DOMAIN msg_list' = 1 .. Len(msg_list) + 1
        /\ msg_list'[1] = m
        /\ \A i \in 1 .. Len(msg_list) : msg_list'[i + 1] = msg_list[i]
    BY DEF ListAdd, QTypeOK
  <1>2. \A i \in DOMAIN msg_list' : i # 1 =>
            i - 1 \in DOMAIN msg_list /\ msg_list'[i] = msg_list[i - 1]
    <2> TAKE i \in DOMAIN msg_list'
    <2> HAVE i # 1
    <2>1. i - 1 \in 1 .. Len(msg_list) /\ (i - 1) + 1 = i
      BY <1>1
    <2> QED
      BY <1>1, <2>1
  <1>3. Listed' = Listed \cup {m}
    <2>1. m \in Listed'
      BY <1>1 DEF Listed
    <2>2. ASSUME NEW i \in DOMAIN msg_list PROVE msg_list[i] \in Listed'
      <3>1. i + 1 \in DOMAIN msg_list' /\ msg_list'[i + 1] = msg_list[i]
        BY <1>1
      <3> QED
        BY <3>1 DEF Listed
    <2>3. ASSUME NEW i \in DOMAIN msg_list' PROVE msg_list'[i] \in Listed \cup {m}
      BY <1>1, <1>2 DEF Listed
    <2> QED
      BY <2>1, <2>2, <2>3 DEF Listed
  <1>4. ASSUME Distinct, m \notin Listed PROVE Distinct'
    <2> SUFFICES ASSUME NEW i \in DOMAIN msg_list', NEW j \in DOMAIN msg_list',
                        msg_list'[i] = msg_list'[j]
                 PROVE  i = j
      BY DEF Distinct
    <2>1. \A k \in DOMAIN msg_list : msg_list[k] # m
      BY <1>4 DEF Listed
    <2>2. i # 1 /\ j # 1 => i - 1 = j - 1
      BY <1>2, <1>4 DEF Distinct
    <2> QED
      BY <1>1, <1>2, <2>1, <2>2
  <1> QED
    BY <1>3, <1>4

\* linked_list_remove, seen as a set.
LEMMA ListRemoveSet ==
  ASSUME QTypeOK, NEW r \in Receiver, ListRemove(r), Distinct
  PROVE  /\ taken' # <<>>
         /\ taken'[Len(taken')] \in Listed
         /\ Listed' = Listed \ {taken'[Len(taken')]}
         /\ Distinct'
  <1> DEFINE n == Len(msg_list)
             e == msg_list[n]
  <1>1. n \in Nat /\ n # 0 /\ DOMAIN msg_list = 1 .. n
    BY DEF ListRemove, QTypeOK
  <1>2. taken' # <<>> /\ taken'[Len(taken')] = e /\ e \in Listed
    <2>1. taken' = Append(taken, e) /\ taken \in Seq(Message) /\ e \in Message
      BY <1>1 DEF ListRemove, QTypeOK
    <2>2. Len(taken') = Len(taken) + 1 /\ taken'[Len(taken')] = e /\ Len(taken) \in Nat
      BY <2>1
    <2>3. taken' # <<>>
      BY <2>1, <2>2
    <2> QED
      BY <1>1, <2>2, <2>3 DEF Listed
  <1>3. DOMAIN msg_list' = 1 .. n - 1 /\ \A i \in 1 .. n - 1 : msg_list'[i] = msg_list[i]
    <2>1. msg_list' = SubSeq(msg_list, 1, n - 1) /\ msg_list \in Seq(Message)
      BY DEF ListRemove, QTypeOK
    <2> HIDE DEF n
    <2>2. msg_list' = [i \in 1 .. n - 1 |-> msg_list[i]]
      BY <1>1, <2>1
    <2> QED
      BY <2>2
  <1>4. \A i \in 1 .. n - 1 : msg_list[i] # e /\ msg_list[i] \in Listed
    BY <1>1 DEF Distinct, Listed
  <1>5. Listed' = Listed \ {e}
    <2>1. Listed' \subseteq Listed \ {e}
      BY <1>3, <1>4 DEF Listed
    <2>2. ASSUME NEW i \in DOMAIN msg_list, msg_list[i] # e PROVE msg_list[i] \in Listed'
      <3>1. i \in 1 .. n - 1
        BY <1>1, <2>2
      <3> QED
        BY <1>3, <3>1 DEF Listed
    <2> QED
      BY <2>1, <2>2 DEF Listed
  <1>6. Distinct'
    BY <1>1, <1>3 DEF Distinct
  <1> QED
    BY <1>2, <1>5, <1>6

-----------------------------------------------------------------------------
(***************************************************************************)
(* The invariant of the task, action by action.                            *)
(***************************************************************************)
LEMMA TaskInit_TaskInv == TaskInit => TaskInv
  <1> SUFFICES ASSUME TaskInit PROVE TaskInv
    OBVIOUS
  <1>1. QInv
    BY QInit_QInv DEF TaskInit
  <1>2. TaskTypeOK /\ ExitsWhenAsked
    BY DEF TaskInit, TaskTypeOK, ExitsWhenAsked
  <1>3. Made = {}
    <2>1. ASSUME NEW m \in Message PROVE m \notin Made
      BY MsgQAssumption DEF TaskInit, QInit, Made, Message
    <2> QED
      BY <2>1 DEF Made
  <1>4. msg_list = <<>> /\ Listed = {} /\ InHand = {}
    BY DEF TaskInit, QInit, Listed, InHand
  <1>5. Accounted
    BY <1>3, <1>4 DEF TaskInit, Accounted
  <1> QED
    BY <1>1, <1>2, <1>5 DEF TaskInv

\* A message that is posted is accepted or leaked.
LEMMA Send_TaskInv ==
  ASSUME TaskInv, NEW s \in Sender, SendMsg(s) \/ SendMsgRefused(s)
  PROVE  TaskInv'
  <1> DEFINE m == <<s, sends[s] + 1>>
  <1>1. QInv'
    <2>1. QNext
      BY DEF SendMsg, SendMsgRefused, QNext
    <2> QED
      BY <2>1, QNext_QInv DEF TaskInv
  <1>2. m \in Message /\ m \notin Made /\ Made' = Made \cup {m} /\ sends'[s] = sends[s] + 1
    BY MadeOne DEF SendMsg, SendMsgRefused, Snd, SndRefused, TaskInv, QInv
  <1>3. /\ InHand' = InHand
        /\ lpc' = lpc /\ lpc # "exit" /\ deleted' = deleted /\ taken' = taken
    BY DEF SendMsg, SendMsgRefused, Snd, SndRefused, InHand
  <1>4. TaskTypeOK' /\ ExitsWhenAsked'
    BY <1>2, <1>3 DEF SendMsg, SendMsgRefused, TaskTypeOK, ExitsWhenAsked, TaskInv
  <1>5. CASE SendMsg(s)
    <2>1. ListAdd(m) /\ leaked' = leaked
      BY <1>5 DEF SendMsg, Snd
    <2>2. Listed' = Listed \cup {m} /\ Distinct'
      BY <1>2, <2>1, ListAddSet DEF TaskInv, QInv, Accounted, Distinct
    <2>3. Accounted'
      BY <1>2, <1>3, <2>1, <2>2 DEF TaskInv, Accounted, Distinct
    <2> QED
      BY <1>1, <1>4, <2>3 DEF TaskInv
  <1>6. CASE SendMsgRefused(s)
    <2>1. msg_list' = msg_list /\ leaked' = leaked \cup {m}
      BY <1>2, <1>6 DEF SendMsgRefused, SndRefused
    <2>2. Listed' = Listed
      BY <2>1 DEF Listed
    <2>3. Accounted'
      BY <1>2, <1>3, <2>1, <2>2 DEF TaskInv, Accounted
    <2> QED
      BY <1>1, <1>4, <2>3 DEF TaskInv
  <1> QED
    BY <1>5, <1>6

\* The thread takes the oldest message in hand.
LEMMA LoopTake_TaskInv ==
  ASSUME TaskInv, LoopTake
  PROVE  TaskInv'
  <1>1. loop \in Receiver /\ ListRemove(loop)
    BY TaskAssumption DEF LoopTake, RcvTake, ResumeTake
  <1>2. QInv'
    <2>1. QNext
      BY <1>1 DEF LoopTake, QNext, Receive
    <2> QED
      BY <2>1, QNext_QInv DEF TaskInv
  <1>3. /\ taken' # <<>> /\ taken'[Len(taken')] \in Listed
        /\ Listed' = Listed \ {taken'[Len(taken')]} /\ Distinct'
    BY <1>1, ListRemoveSet DEF TaskInv, QInv, Accounted, Distinct
  <1>4. /\ InHand = {} /\ InHand' = {taken'[Len(taken')]}
        /\ deleted' = deleted /\ leaked' = leaked /\ lpc' = "proc"
    BY DEF LoopTake, InHand
  <1>5. Made' = Made
    BY <1>1 DEF ListRemove, Made
  <1>6. Accounted'
    BY <1>3, <1>4, <1>5 DEF TaskInv, Accounted, Distinct
  <1>7. TaskTypeOK' /\ ExitsWhenAsked'
    BY <1>3, <1>4 DEF TaskTypeOK, ExitsWhenAsked, TaskInv
  <1> QED
    BY <1>2, <1>6, <1>7 DEF TaskInv

\* The message in hand is deleted.
LEMMA LoopProc_TaskInv ==
  ASSUME TaskInv, LoopProc
  PROVE  TaskInv'
  <1> DEFINE e == taken[Len(taken)]
  <1>1. QInv' /\ Listed' = Listed /\ Made' = Made /\ msg_list' = msg_list
    <2>1. UNCHANGED qVars
      BY DEF LoopProc
    <2>2. QInv'
      BY <2>1, QNext_QInv DEF TaskInv
    <2> QED
      BY <2>1, <2>2 DEF qVars, Listed, Made
  <1>2. /\ InHand = {e} /\ InHand' = {} /\ deleted' = deleted \cup {e}
        /\ leaked' = leaked /\ lpc' = "rcv"
    BY DEF LoopProc, InHand
  <1>3. e \in Message
    BY <1>2 DEF TaskInv, Accounted, Made
  <1>4. Accounted'
    BY <1>1, <1>2 DEF TaskInv, Accounted
  <1>5. TaskTypeOK' /\ ExitsWhenAsked'
    BY <1>2, <1>3 DEF TaskTypeOK, ExitsWhenAsked, TaskInv
  <1> QED
    BY <1>1, <1>4, <1>5 DEF TaskInv

\* The end of the thread: the rest of the list is deleted unhandled.
LEMMA LoopExit_TaskInv ==
  ASSUME TaskInv, LoopExit
  PROVE  TaskInv'
  <1>1. /\ unblocked /\ unblocked' = unblocked /\ msg_list' = <<>> /\ kept' = taken
        /\ taken' = taken /\ sends' = sends /\ rpc' = [rpc EXCEPT ![loop] = "out"]
        /\ lpc = "rcv" /\ lpc' = "exit" /\ leaked' = leaked
        /\ deleted' = deleted \cup Listed
    BY DEF LoopExit, RcvFails, ListFlush, Listed
  <1>2. QTypeOK'
    <2>1. <<>> \in Seq(Message)
      BY EmptySeq
    <2> QED
      BY <1>1, <2>1 DEF TaskInv, QInv, QTypeOK
  <1>3. Fifo'
    <2>1. Len(taken) \in Nat
      BY Lengths DEF TaskInv, QInv
    <2>2. Len(<<>>) = 0
      BY EmptySeq
    <2> QED
      BY <1>1, <2>1, <2>2 DEF Fifo
  <1>4. Waiting' = {}
    BY <1>1 DEF TaskInv, QInv, QTypeOK, NoLostWakeup, Waiting
  <1>5. NoLostWakeup'
    BY <1>4 DEF NoLostWakeup
  <1>6. Listed' = {} /\ Distinct'
    BY <1>1 DEF Listed, Distinct
  <1>7. InHand = {} /\ InHand' = {} /\ Made' = Made
    BY <1>1 DEF InHand, Made
  <1>8. Accounted'
    BY <1>1, <1>6, <1>7 DEF TaskInv, Accounted, Distinct
  <1>9. TaskTypeOK' /\ ExitsWhenAsked'
    <2>1. Listed \subseteq Message
      BY DEF TaskInv, Accounted, Made
    <2> QED
      BY <1>1, <2>1 DEF TaskInv, TaskTypeOK, ExitsWhenAsked
  <1> QED
    BY <1>2, <1>3, <1>5, <1>8, <1>9 DEF TaskInv, QInv

\* A wait, a spurious wake-up and the unblock move no message.
LEMMA Idle_TaskInv ==
  ASSUME TaskInv, LoopWait \/ LoopSpurious \/ Delete
  PROVE  TaskInv'
  <1>1. QNext
    BY TaskAssumption DEF LoopWait, LoopSpurious, Delete, QNext, Receive
  <1>2. QInv'
    BY <1>1, QNext_QInv DEF TaskInv
  <1>3. /\ msg_list' = msg_list /\ taken' = taken /\ sends' = sends
        /\ lpc' = lpc /\ deleted' = deleted /\ leaked' = leaked
        /\ (lpc = "exit" /\ unblocked => unblocked')
    BY DEF LoopWait, RcvWait, ResumeWait, Wait, LoopSpurious, Spurious, Delete, Unblock
  <1>4. Listed' = Listed /\ InHand' = InHand /\ Made' = Made
    BY <1>3 DEF Listed, InHand, Made
  <1>5. Accounted'
    BY <1>3, <1>4 DEF TaskInv, Accounted
  <1>6. TaskTypeOK' /\ ExitsWhenAsked'
    BY <1>3 DEF TaskInv, TaskTypeOK, ExitsWhenAsked
  <1> QED
    BY <1>2, <1>5, <1>6 DEF TaskInv

LEMMA TaskNext_TaskInv == TaskInv /\ [TaskNext]_taskVars => TaskInv'
  <1> SUFFICES ASSUME TaskInv, [TaskNext]_taskVars PROVE TaskInv'
    OBVIOUS
  <1>1. ASSUME NEW s \in Sender, SendMsg(s) \/ SendMsgRefused(s) PROVE TaskInv'
    BY <1>1, Send_TaskInv
  <1>2. CASE LoopTake
    BY <1>2, LoopTake_TaskInv
  <1>3. CASE LoopProc
    BY <1>3, LoopProc_TaskInv
  <1>4. CASE LoopExit
    BY <1>4, LoopExit_TaskInv
  <1>5. CASE LoopWait \/ LoopSpurious \/ Delete
    BY <1>5, Idle_TaskInv
  <1>6. CASE UNCHANGED taskVars
    <2>1. UNCHANGED qVars /\ lpc' = lpc /\ deleted' = deleted /\ leaked' = leaked
      BY <1>6 DEF taskVars
    <2>2. QInv'
      BY <2>1, QNext_QInv DEF TaskInv
    <2>3. /\ msg_list' = msg_list /\ taken' = taken /\ sends' = sends
          /\ unblocked' = unblocked
      BY <2>1 DEF qVars
    <2>4. Listed' = Listed /\ InHand' = InHand /\ Made' = Made
      BY <2>1, <2>3 DEF Listed, InHand, Made
    <2>5. Accounted'
      BY <2>1, <2>3, <2>4 DEF TaskInv, Accounted
    <2> QED
      BY <2>1, <2>2, <2>3, <2>5 DEF TaskInv, TaskTypeOK, ExitsWhenAsked
  <1> QED
    BY <1>1, <1>2, <1>3, <1>4, <1>5, <1>6 DEF TaskNext, Loop

(***************************************************************************)
(* The invariant of the task holds in every behaviour.                     *)
(***************************************************************************)
THEOREM TaskInvariant == TaskSpec => []TaskInv
  BY TaskInit_TaskInv, TaskNext_TaskInv, PTL DEF TaskSpec

(***************************************************************************)
(* No message is forgotten, handled after its deletion or deleted twice:   *)
(* each is in the list, in its handler, deleted or refused by msg_q_snd.   *)
(***************************************************************************)
THEOREM MessagesAccountedFor == TaskSpec => []Accounted
  <1>1. TaskInv => Accounted
    BY DEF TaskInv
  <1> QED
    BY <1>1, TaskInvariant, PTL

(***************************************************************************)
(* The thread of a MsgTask ends only after the task was unblocked, with an *)
(* empty queue.                                                            *)
(***************************************************************************)
THEOREM EndsOnlyWhenAsked == TaskSpec => []ExitsWhenAsked
  <1>1. TaskInv => ExitsWhenAsked
    BY DEF TaskInv
  <1> QED
    BY <1>1, TaskInvariant, PTL

(***************************************************************************)
(* The queue keeps its order and its wake-ups also when it is used and     *)
(* destroyed by the thread of a MsgTask.                                   *)
(***************************************************************************)
THEOREM TaskQueueIsSound == TaskSpec => []Fifo /\ []NoLostWakeup
  <1>1. TaskInv => Fifo /\ NoLostWakeup
    BY DEF TaskInv, QInv
  <1> QED
    BY <1>1, TaskInvariant, PTL

-----------------------------------------------------------------------------
(***************************************************************************)
(* The task implements the channel: initial states map to initial states,  *)
(* and every step to a step of the channel or to a stutter.                *)
(***************************************************************************)
LEMMA Reversed ==
  ASSUME NEW S, NEW l \in Seq(S), NEW c,
         c = [i \in DOMAIN l |-> l[Len(l) + 1 - i]]
  PROVE  /\ c \in Seq(S)
         /\ Len(c) = Len(l)
         /\ \A i \in 1 .. Len(l) : c[i] = l[Len(l) + 1 - i]
  <1>1. Len(l) \in Nat /\ DOMAIN l = 1 .. Len(l) /\ \A i \in 1 .. Len(l) : l[i] \in S
    OBVIOUS
  <1>2. c = [i \in 1 .. Len(l) |-> l[Len(l) + 1 - i]]
    BY <1>1
  <1>3. ASSUME NEW i \in 1 .. Len(l) PROVE l[Len(l) + 1 - i] \in S
    BY <1>1
  <1>4. c \in [1 .. Len(l) -> S]
    BY <1>2, <1>3
  <1> QED
    BY <1>1, <1>2, <1>4

LEMMA OrderType ==
  ASSUME msg_list \in Seq(Message)
  PROVE  /\ OldestFirst \in Seq(Message)
         /\ Len(OldestFirst) = Len(msg_list)
         /\ \A i \in 1 .. Len(msg_list) : OldestFirst[i] = msg_list[Len(msg_list) + 1 - i]
  BY Reversed DEF OldestFirst

LEMMA OrderTypeNext ==
  ASSUME msg_list' \in Seq(Message)
  PROVE  /\ OldestFirst' \in Seq(Message)
         /\ Len(OldestFirst') = Len(msg_list')
         /\ \A i \in 1 .. Len(msg_list') : OldestFirst'[i] = msg_list'[Len(msg_list') + 1 - i]
  <1>1. OldestFirst' = [i \in DOMAIN msg_list' |-> msg_list'[Len(msg_list') + 1 - i]]
    BY DEF OldestFirst
  <1> QED
    BY <1>1, Reversed

\* An empty list is an empty channel, before and after a step.
LEMMA OrderEmpty ==
  /\ msg_list = <<>> => OldestFirst = <<>>
  /\ msg_list' = <<>> => OldestFirst' = <<>>
  <1>1. ASSUME msg_list = <<>> PROVE OldestFirst = <<>>
    <2>1. msg_list \in Seq(Message) /\ Len(msg_list) = 0
      BY <1>1, EmptySeq
    <2> QED
      BY <2>1, OrderType, EmptySeq
  <1>2. ASSUME msg_list' = <<>> PROVE OldestFirst' = <<>>
    <2>1. msg_list' \in Seq(Message) /\ Len(msg_list') = 0
      BY <1>2, EmptySeq
    <2> QED
      BY <2>1, OrderTypeNext, EmptySeq
  <1> QED
    BY <1>1, <1>2

\* Adding at the head of the list appends to the channel.
LEMMA OrderAdd ==
  ASSUME QTypeOK, QTypeOK', NEW m \in Message, ListAdd(m)
  PROVE  OldestFirst' = Append(OldestFirst, m)
  <1> DEFINE n == Len(msg_list)
             c == Append(OldestFirst, m)
  <1>1. /\ n \in Nat /\ Len(msg_list') = n + 1 /\ msg_list'[1] = m
        /\ \A i \in 1 .. n : msg_list'[i + 1] = msg_list[i]
    BY DEF ListAdd, QTypeOK
  <1>2. /\ OldestFirst \in Seq(Message) /\ Len(OldestFirst) = n
        /\ \A i \in 1 .. n : OldestFirst[i] = msg_list[n + 1 - i]
    BY OrderType DEF QTypeOK
  <1>3. /\ OldestFirst' \in Seq(Message) /\ Len(OldestFirst') = n + 1
        /\ \A i \in 1 .. n + 1 : OldestFirst'[i] = msg_list'[n + 1 + 1 - i]
    <2>1. msg_list' \in Seq(Message)
      BY DEF QTypeOK
    <2>2. /\ OldestFirst' \in Seq(Message)
          /\ Len(OldestFirst') = Len(msg_list')
          /\ \A i \in 1 .. Len(msg_list') : OldestFirst'[i] = msg_list'[Len(msg_list') + 1 - i]
      BY <2>1, OrderTypeNext
    <2> QED
      BY <1>1, <2>2
  <1> HIDE DEF n
  <1>4. /\ c \in Seq(Message) /\ Len(c) = n + 1 /\ c[n + 1] = m
        /\ \A i \in 1 .. n : c[i] = OldestFirst[i]
    BY <1>1, <1>2
  <1> HIDE DEF c
  <1>5. ASSUME NEW i \in 1 .. n + 1 PROVE OldestFirst'[i] = c[i]
    <2>1. CASE i = n + 1
      BY <2>1, <1>1, <1>3, <1>4
    <2>2. CASE i # n + 1
      <3>1. i \in 1 .. n /\ n + 1 - i \in 1 .. n /\ (n + 1 - i) + 1 = n + 1 + 1 - i
        BY <2>2, <1>1
      <3>2. OldestFirst'[i] = msg_list'[n + 1 + 1 - i] /\ c[i] = msg_list[n + 1 - i]
        BY <3>1, <1>2, <1>3, <1>4
      <3>3. msg_list'[(n + 1 - i) + 1] = msg_list[n + 1 - i]
        BY <3>1, <1>1
      <3> QED
        BY <3>1, <3>2, <3>3
    <2> QED
      BY <2>1, <2>2
  <1>6. OldestFirst' = c
    BY <1>1, <1>3, <1>4, <1>5, SeqEqual
  <1> QED
    BY <1>6 DEF c

\* Removing the tail of the list takes the head of the channel.
LEMMA OrderRemove ==
  ASSUME QInv, QInv', NEW r \in Receiver, ListRemove(r)
  PROVE  /\ OldestFirst # <<>>
         /\ OldestFirst' = Tail(OldestFirst)
         /\ taken' = Append(taken, Head(OldestFirst))
  <1> DEFINE n == Len(msg_list)
             c == Tail(OldestFirst)
  <1>1. n \in Nat /\ n # 0 /\ msg_list \in Seq(Message)
    BY DEF ListRemove, QInv, QTypeOK
  <1>2. msg_list' \in Seq(Message) /\ Len(msg_list') = n - 1
        /\ \A i \in 1 .. n - 1 : msg_list'[i] = msg_list[i]
    <2>1. msg_list' = SubSeq(msg_list, 1, n - 1)
      BY DEF ListRemove
    <2> HIDE DEF n
    <2>2. msg_list' = [i \in 1 .. n - 1 |-> msg_list[i]]
      BY <1>1, <2>1
    <2>3. n - 1 \in Nat
      BY <1>1
    <2>4. msg_list' \in Seq(Message)
      BY DEF QInv, QTypeOK
    <2> QED
      BY <2>2, <2>3, <2>4
  <1>3. /\ OldestFirst \in Seq(Message) /\ Len(OldestFirst) = n
        /\ \A i \in 1 .. n : OldestFirst[i] = msg_list[n + 1 - i]
    BY <1>1, OrderType
  <1>4. /\ OldestFirst' \in Seq(Message) /\ Len(OldestFirst') = n - 1
        /\ \A i \in 1 .. n - 1 : OldestFirst'[i] = msg_list'[n - 1 + 1 - i]
    <2>1. /\ OldestFirst' \in Seq(Message)
          /\ Len(OldestFirst') = Len(msg_list')
          /\ \A i \in 1 .. Len(msg_list') : OldestFirst'[i] = msg_list'[Len(msg_list') + 1 - i]
      BY <1>2, OrderTypeNext
    <2> QED
      BY <1>2, <2>1
  <1>5. taken' = Append(taken, msg_list[n])
    BY DEF ListRemove
  <1> HIDE DEF n
  <1>6. OldestFirst # <<>> /\ Head(OldestFirst) = msg_list[n]
    <2>1. 1 \in 1 .. n /\ n + 1 - 1 = n
      BY <1>1
    <2>2. Head(OldestFirst) = OldestFirst[1] /\ OldestFirst # <<>>
      BY <1>1, <1>3
    <2> QED
      BY <1>3, <2>1, <2>2
  <1>7. /\ c \in Seq(Message) /\ Len(c) = n - 1
        /\ \A i \in 1 .. n - 1 : c[i] = OldestFirst[i + 1]
    BY <1>1, <1>3, <1>6
  <1> HIDE DEF c
  <1>8. ASSUME NEW i \in 1 .. n - 1 PROVE OldestFirst'[i] = c[i]
    <2>1. i + 1 \in 1 .. n /\ n + 1 - (i + 1) = n - 1 + 1 - i /\ n - 1 + 1 - i \in 1 .. n - 1
      BY <1>1
    <2>2. OldestFirst'[i] = msg_list[n - 1 + 1 - i]
      BY <2>1, <1>2, <1>4
    <2>3. c[i] = msg_list[n + 1 - (i + 1)]
      BY <2>1, <1>3, <1>7
    <2> QED
      BY <2>1, <2>2, <2>3
  <1>9. OldestFirst' = c
    BY <1>1, <1>4, <1>7, <1>8, SeqEqual
  <1> QED
    BY <1>5, <1>6, <1>9 DEF c

LEMMA ChannelInit == TaskInit => Channel!ChanInit
  <1> SUFFICES ASSUME TaskInit PROVE Channel!ChanInit
    OBVIOUS
  <1>1. msg_list = <<>> /\ unblocked = FALSE /\ taken = <<>>
    BY DEF TaskInit, QInit
  <1>2. OldestFirst = <<>>
    BY <1>1, OrderEmpty
  <1> QED
    BY <1>1, <1>2 DEF Channel!ChanInit

LEMMA ChannelStep ==
    TaskInv /\ TaskInv' /\ [TaskNext]_taskVars => [Channel!ChanNext]_(Channel!chanVars)
  <1> SUFFICES ASSUME TaskInv, TaskInv', [TaskNext]_taskVars
               PROVE  Channel!ChanNext \/ UNCHANGED Channel!chanVars
    OBVIOUS
  <1>1. ASSUME NEW s \in Sender, SendMsg(s) PROVE Channel!Put
    <2> DEFINE m == <<s, sends[s] + 1>>
    <2>1. ~unblocked /\ unblocked' = unblocked /\ taken' = taken /\ ListAdd(m)
      BY <1>1 DEF SendMsg, Snd
    <2>2. m \in Message
      BY <1>1, MadeOne DEF SendMsg, Snd, TaskInv, QInv
    <2>3. OldestFirst' = Append(OldestFirst, m)
      BY <2>1, <2>2, OrderAdd DEF TaskInv, QInv
    <2> QED
      BY <2>1, <2>2, <2>3 DEF Channel!Put
  <1>2. CASE LoopTake
    <2>1. loop \in Receiver /\ ListRemove(loop) /\ unblocked' = unblocked
      BY <1>2, TaskAssumption DEF LoopTake, RcvTake, ResumeTake, ListRemove
    <2>2. /\ OldestFirst # <<>>
          /\ OldestFirst' = Tail(OldestFirst)
          /\ taken' = Append(taken, Head(OldestFirst))
      BY <2>1, OrderRemove DEF TaskInv
    <2>3. Channel!Take
      BY <2>1, <2>2 DEF Channel!Take
    <2> QED
      BY <2>3 DEF Channel!ChanNext
  <1>3. CASE LoopExit
    <2>1. unblocked /\ unblocked' = unblocked /\ taken' = taken /\ msg_list' = <<>>
      BY <1>3 DEF LoopExit, RcvFails, ListFlush
    <2>2. OldestFirst' = <<>>
      BY <2>1, OrderEmpty
    <2>3. Channel!Discard
      BY <2>1, <2>2 DEF Channel!Discard
    <2> QED
      BY <2>3 DEF Channel!ChanNext
  <1>4. CASE Delete
    <2>1. ~unblocked /\ unblocked' = TRUE /\ msg_list' = msg_list /\ taken' = taken
      BY <1>4 DEF Delete, Unblock
    <2>2. OldestFirst' = OldestFirst
      BY <2>1 DEF OldestFirst
    <2>3. Channel!Close
      BY <2>1, <2>2 DEF Channel!Close
    <2> QED
      BY <2>3 DEF Channel!ChanNext
  <1>5. ASSUME \/ \E s \in Sender : SendMsgRefused(s)
               \/ LoopWait \/ LoopProc \/ LoopSpurious \/ UNCHANGED taskVars
        PROVE  UNCHANGED Channel!chanVars
    <2>1. msg_list' = msg_list /\ unblocked' = unblocked /\ taken' = taken
      BY <1>5 DEF SendMsgRefused, SndRefused, LoopWait, RcvWait, ResumeWait, Wait,
                  LoopProc, LoopSpurious, Spurious, taskVars, qVars
    <2>2. OldestFirst' = OldestFirst
      BY <2>1 DEF OldestFirst
    <2> QED
      BY <2>1, <2>2 DEF Channel!chanVars
  <1>6. ASSUME NEW s \in Sender, SendMsg(s) PROVE Channel!ChanNext
    BY <1>1, <1>6 DEF Channel!ChanNext
  <1> QED
    BY <1>2, <1>3, <1>4, <1>5, <1>6 DEF TaskNext, Loop

(***************************************************************************)
(* What the users of a MsgTask see is one channel: the messages are taken  *)
(* up in the order in which they were posted, each once, and none is       *)
(* dropped before the task is deleted.                                     *)
(***************************************************************************)
THEOREM TaskIsAChannel == TaskSpec => Channel!ChanSafe
  BY TaskInvariant, ChannelInit, ChannelStep, PTL DEF TaskSpec, Channel!ChanSafe
=============================================================================
