----------------------------- MODULE MCLocTimer -----------------------------
(***************************************************************************)
(* LocTimer for TLC, and the claims that the code does not keep.           *)
(***************************************************************************)
EXTENDS LocTimer

(***************************************************************************)
(* loc_timer.h: "Returns the handle, which can be used to stop the timer". *)
(* A timer that was stopped does not call back any more.                   *)
(***************************************************************************)
StoppedIsSilent == [][aborted # "never" => ~(pc = "woken" /\ pc' = "callback")]_timerVars

(***************************************************************************)
(* loc_timer.h: "handle becomes invalid upon the return of the callback".  *)
(* The timer_data of a timer that nobody stopped lives until it calls back.*)
(***************************************************************************)
ValidUntilCallback == memory = "freed" /\ aborted = "never" => ret = "timeout"

(***************************************************************************)
(* loc_timer.c: the retries give "enough time for loc_timer_stop to        *)
(* complete".  A stop that began while the handle was valid, before the    *)
(* callback returned, never uses freed memory or a destroyed mutex.        *)
(***************************************************************************)
StopCompletes ==
    [][\A c \in Stopper : spc[c] = "locking" /\ spc'[c] = "out" => ~misused']_timerVars
=============================================================================
