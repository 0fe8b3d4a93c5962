------------------------------- MODULE MsgTask -------------------------------
(***************************************************************************)
(* MsgTask.cpp: a queue and the one detached thread that receives from it, *)
(* handles each message and deletes it, until a receive fails; then the    *)
(* thread destroys the queue and exits.  ~MsgTask unblocks the queue.      *)
(* Other threads post with sendMsg, and so does the handler of a message.  *)
(*                                                                         *)
(* sendMsg does not look at what msg_q_snd returns: a message that the     *)
(* queue refuses is neither handled nor deleted (`leaked').  A MsgTask is  *)
(* posted to only while its queue exists: that is the duty of whoever      *)
(* deletes it.                                                             *)
(***************************************************************************)
EXTENDS MsgQ

CONSTANT loop   \* the thread that runs loopMain

ASSUME TaskAssumption ==
    /\ Receiver = {loop}
    /\ loop \in Sender        \* a handler may post

VARIABLES lpc,      \* what the thread does: "rcv", "proc" or "exit"
          deleted,  \* the messages deleted, after their handling or unhandled
          leaked    \* the messages that the queue refused

taskVars == <<qVars, lpc, deleted, leaked>>

TaskInit ==
    /\ QInit
    /\ lpc = "rcv"
    /\ deleted = {}
    /\ leaked = {}

\* sendMsg, by another thread at any time and by loop from a handler.
SendMsg(s) ==
    /\ s = loop => lpc = "proc"
    /\ lpc # "exit"
    /\ Snd(s)
    /\ UNCHANGED <<lpc, deleted, leaked>>

SendMsgRefused(s) ==
    /\ s = loop => lpc = "proc"
    /\ lpc # "exit"
    /\ SndRefused(s)
    /\ leaked' = leaked \cup {<<s, sends'[s]>>}
    /\ UNCHANGED <<lpc, deleted>>

\* The receive waits, is woken up or waits again.
LoopWait ==
    /\ lpc = "rcv"
    /\ RcvWait(loop) \/ ResumeWait(loop)
    /\ UNCHANGED <<lpc, deleted, leaked>>

LoopSpurious ==
    /\ lpc = "rcv"
    /\ Spurious(loop)
    /\ UNCHANGED <<lpc, deleted, leaked>>

LoopTake ==
    /\ lpc = "rcv"
    /\ RcvTake(loop) \/ ResumeTake(loop)
    /\ lpc' = "proc"
    /\ UNCHANGED <<deleted, leaked>>

\* Mutant: the handled message is not deleted.
LoopProcKeeps ==
    /\ lpc = "proc"
    /\ lpc' = "rcv"
    /\ UNCHANGED <<qVars, deleted, leaked>>

\* proc() is over and the message is deleted.
LoopProc ==
    /\ lpc = "proc"
    /\ deleted' = deleted \cup {taken[Len(taken)]}
    /\ lpc' = "rcv"
    /\ UNCHANGED <<qVars, leaked>>

\* A failed receive: msg_q_destroy deletes what the list still holds.
LoopExit ==
    /\ lpc = "rcv"
    /\ RcvFails(loop)
    /\ ListFlush
    /\ kept' = taken
    /\ rpc' = [rpc EXCEPT ![loop] = "out"]
    /\ deleted' = deleted \cup {msg_list[i] : i \in DOMAIN msg_list}
    /\ lpc' = "exit"
    /\ UNCHANGED <<unblocked, sends, taken, leaked>>

\* ~MsgTask of the owner's object.
Delete ==
    /\ Unblock
    /\ UNCHANGED <<lpc, deleted, leaked>>

Loop == LoopWait \/ LoopTake \/ LoopProc \/ LoopExit

TaskNext ==
    \/ \E s \in Sender : SendMsg(s) \/ SendMsgRefused(s)
    \/ Loop
    \/ LoopSpurious
    \/ Delete

\* The thread keeps running and every handler returns.
TaskSpec == TaskInit /\ [][TaskNext]_taskVars /\ WF_taskVars(Loop)

-----------------------------------------------------------------------------
\* The messages made so far, where those are that are not deleted or leaked.
Made   == {m \in Message : m[2] <= sends[m[1]]}
Listed == {msg_list[i] : i \in DOMAIN msg_list}
InHand == IF lpc = "proc" THEN {taken[Len(taken)]} ELSE {}

(***************************************************************************)
(* A message is in one place: in the list, once, in its handler, deleted   *)
(* or leaked.  So none is deleted twice, none is handled after it was      *)
(* deleted and none is forgotten.                                          *)
(***************************************************************************)
Accounted ==
    /\ \A i, j \in DOMAIN msg_list : msg_list[i] = msg_list[j] => i = j
    /\ Listed \cap (deleted \cup leaked) = {}
    /\ InHand \cap (Listed \cup deleted \cup leaked) = {}
    /\ deleted \cap leaked = {}
    /\ Listed \cup InHand \cup deleted \cup leaked = Made

(***************************************************************************)
(* The thread ends only when its owner deleted the MsgTask, and leaves an  *)
(* empty queue; its receive never fails for another reason.                *)
(***************************************************************************)
ExitsWhenAsked == lpc = "exit" => unblocked /\ msg_list = <<>>

(***************************************************************************)
(* A deleted MsgTask stops: the thread destroys the queue and exits.       *)
(***************************************************************************)
Stops == unblocked ~> lpc = "exit"

\* The list from its tail to its head.
OldestFirst == [i \in DOMAIN msg_list |-> msg_list[Len(msg_list) + 1 - i]]

(***************************************************************************)
(* The message task is the channel that its users count on.                *)
(***************************************************************************)
Channel == INSTANCE MsgChannel WITH
    Post <- Message, chan <- OldestFirst, closed <- unblocked, handled <- taken

IsChannel == Channel!ChanSpec
=============================================================================
