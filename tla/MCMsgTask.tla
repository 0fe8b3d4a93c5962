------------------------------ MODULE MCMsgTask ------------------------------
(***************************************************************************)
(* MsgTask for TLC: two threads that post and the thread of the task.      *)
(***************************************************************************)
EXTENDS MsgTask
=============================================================================
