------------------------------ MODULE LocTimer ------------------------------
(***************************************************************************)
(* One timer of loc_timer.c: loc_timer_start creates the timer_data and a  *)
(* detached thread that waits, calls back when the wait timed out, and     *)
(* frees the timer_data; any thread that has the handle may call           *)
(* loc_timer_stop, which looks at the state before it takes timer_mutex.   *)
(*                                                                         *)
(* Time is abstracted: the wait may time out at any moment, and a mutex    *)
(* that is busy when the thread wants to destroy it may stay busy for the  *)
(* five seconds of its six tries.  Then the thread unlocks the mutex of    *)
(* whoever has it and frees the timer, whatever the seventh try says.      *)
(***************************************************************************)
EXTENDS Naturals

CONSTANTS Stopper,   \* the threads that call loc_timer_stop
          MaxStops   \* bound: calls made by each of them

Nobody == "nobody"

ASSUME TimerAssumption == MaxStops \in Nat /\ Nobody \notin Stopper

VARIABLES
    state,    \* t->state
    holder,   \* the stopper inside the critical section, or Nobody
    memory,   \* "live", "unlocked" (the mutex is destroyed) or "freed"
    pc,       \* where timer_thread is
    ret,      \* how its wait ended
    spc,      \* where each stopper is: "out", "locking" or "in"
    \* history
    stops,    \* calls each stopper has made
    aborted,  \* what pc was when a stop set ABORT
    forced,   \* the thread gave up waiting and unlocked the mutex itself
    misused   \* a stopper used freed memory or a destroyed mutex

usage     == <<stops, aborted, forced, misused>>
timerVars == <<state, holder, memory, pc, ret, spc, usage>>

TimerInit ==
    /\ state = "READY"
    /\ holder = Nobody
    /\ memory = "live"
    /\ pc = "start"
    /\ ret = "cancelled"
    /\ spc = [c \in Stopper |-> "out"]
    /\ stops = [c \in Stopper |-> 0]
    /\ aborted = "never"
    /\ forced = FALSE
    /\ misused = FALSE

-----------------------------------------------------------------------------
(* timer_thread *)

\* Mutant: the thread waits whatever the state is.
EnterAlways ==
    /\ pc = "start"
    /\ holder = Nobody
    /\ state' = "WAITING"
    /\ pc' = "wait"
    /\ UNCHANGED <<holder, memory, ret, spc, usage>>

\* A timer that was stopped before its thread ran is not waited for.
Enter ==
    /\ pc = "start"
    /\ holder = Nobody
    /\ \/ /\ state = "READY"
          /\ state' = "WAITING"
          /\ pc' = "wait"
       \/ /\ state # "READY"
          /\ pc' = "destroy"
          /\ UNCHANGED state
    /\ UNCHANGED <<holder, memory, ret, spc, usage>>

\* The wait times out; the thread has yet to take the mutex again.
TimeOut ==
    /\ pc = "wait"
    /\ pc' = "woken"
    /\ ret' = "timeout"
    /\ UNCHANGED <<state, holder, memory, spc, usage>>

\* The wait is not in a loop: a spurious wake-up ends it like a stop.
SpuriousWakeup ==
    /\ pc = "wait"
    /\ pc' = "woken"
    /\ ret' = "stopped"
    /\ UNCHANGED <<state, holder, memory, spc, usage>>

Leave ==
    /\ pc = "woken"
    /\ holder = Nobody
    /\ state' = "DONE"
    /\ pc' = IF ret = "timeout" THEN "callback" ELSE "destroy"
    /\ UNCHANGED <<holder, memory, ret, spc, usage>>

\* The callback runs without the mutex and returns.
Callback ==
    /\ pc = "callback"
    /\ pc' = "destroy"
    /\ UNCHANGED <<state, holder, memory, ret, spc, usage>>

\* Mutant: the mutex is destroyed although it is busy.
DestroyBusy ==
    /\ pc = "destroy"
    /\ memory' = "unlocked"
    /\ pc' = "free"
    /\ UNCHANGED <<state, holder, ret, spc, usage>>

\* One of the first six tries finds the mutex free.
Destroy ==
    /\ pc = "destroy"
    /\ holder = Nobody
    /\ memory' = "unlocked"
    /\ pc' = "free"
    /\ UNCHANGED <<state, holder, ret, spc, usage>>

\* All of them find it busy: it is unlocked...
DestroyFails ==
    /\ pc = "destroy"
    /\ holder # Nobody
    /\ pc' = "force"
    /\ UNCHANGED <<state, holder, memory, ret, spc, usage>>

GiveUp ==
    /\ pc = "force"
    /\ forced' = TRUE
    /\ holder' = Nobody
    /\ pc' = "last"
    /\ UNCHANGED <<state, memory, ret, spc, stops, aborted, misused>>

\* ...and destroyed, unless another stop has locked it in between.
DestroyLast ==
    /\ pc = "last"
    /\ memory' = IF holder = Nobody THEN "unlocked" ELSE memory
    /\ pc' = "free"
    /\ UNCHANGED <<state, holder, ret, spc, usage>>

FreeTimer ==
    /\ pc = "free"
    /\ memory' = "freed"
    /\ pc' = "exit"
    /\ UNCHANGED <<state, holder, ret, spc, usage>>

-----------------------------------------------------------------------------
(* loc_timer_stop *)

\* The state is read without the mutex, perhaps from freed memory, in which
\* case the call may also go on to lock.
StopLook(c) ==
    /\ spc[c] = "out"
    /\ stops[c] < MaxStops
    /\ stops' = [stops EXCEPT ![c] = @ + 1]
    /\ misused' = (misused \/ memory = "freed")
    /\ \/ /\ state \in {"READY", "WAITING"} \/ memory = "freed"
          /\ spc' = [spc EXCEPT ![c] = "locking"]
       \/ /\ state \in {"DONE", "ABORT"} \/ memory = "freed"
          /\ UNCHANGED spc
    /\ UNCHANGED <<state, holder, memory, pc, ret, aborted, forced>>

\* Locking a destroyed mutex fails or corrupts memory; the call ends here.
StopLock(c) ==
    /\ spc[c] = "locking"
    /\ \/ /\ memory = "live" /\ holder = Nobody
          /\ holder' = c
          /\ spc' = [spc EXCEPT ![c] = "in"]
          /\ UNCHANGED misused
       \/ /\ memory # "live"
          /\ misused' = TRUE
          /\ spc' = [spc EXCEPT ![c] = "out"]
          /\ UNCHANGED holder
    /\ UNCHANGED <<state, memory, pc, ret, stops, aborted, forced>>

\* Mutant: a stop that comes too late returns with the mutex locked.
StopInHeld(c) ==
    /\ spc[c] = "in"
    /\ \/ /\ state \in {"READY", "WAITING"}
          /\ state' = "ABORT"
          /\ aborted' = pc
          /\ pc' = IF pc = "wait" THEN "woken" ELSE pc
          /\ ret' = IF pc = "wait" THEN "stopped" ELSE ret
          /\ holder' = Nobody
       \/ /\ state \in {"DONE", "ABORT"}
          /\ UNCHANGED <<state, aborted, pc, ret, holder>>
    /\ spc' = [spc EXCEPT ![c] = "out"]
    /\ misused' = (misused \/ memory # "live")
    /\ UNCHANGED <<memory, stops, forced>>

\* The state is checked again; the signal wakes the thread if it waits.  The
\* unlock succeeds, also when it is somebody else's lock by then.
StopIn(c) ==
    /\ spc[c] = "in"
    /\ \/ /\ state \in {"READY", "WAITING"}
          /\ state' = "ABORT"
          /\ aborted' = pc
          /\ pc' = IF pc = "wait" THEN "woken" ELSE pc
          /\ ret' = IF pc = "wait" THEN "stopped" ELSE ret
       \/ /\ state \in {"DONE", "ABORT"}
          /\ UNCHANGED <<state, aborted, pc, ret>>
    /\ holder' = Nobody
    /\ spc' = [spc EXCEPT ![c] = "out"]
    /\ misused' = (misused \/ memory # "live")
    /\ UNCHANGED <<memory, stops, forced>>

TimerThread ==
    \/ Enter \/ TimeOut \/ Leave \/ Callback
    \/ Destroy \/ DestroyFails \/ GiveUp \/ DestroyLast
    \/ FreeTimer

Stop(c) == StopLook(c) \/ StopLock(c) \/ StopIn(c)

TimerNext ==
    \/ TimerThread
    \/ SpuriousWakeup
    \/ \E c \in Stopper : Stop(c)

\* The thread runs, its wait times out, and a stop that has begun ends.
TimerSpec ==
    /\ TimerInit /\ [][TimerNext]_timerVars
    /\ WF_timerVars(TimerThread)
    /\ \A c \in Stopper : WF_timerVars(StopLock(c) \/ StopIn(c))

-----------------------------------------------------------------------------
TimerTypeOK ==
    /\ state \in {"READY", "WAITING", "DONE", "ABORT"}
    /\ holder \in Stopper \cup {Nobody}
    /\ memory \in {"live", "unlocked", "freed"}
    /\ pc \in {"start", "wait", "woken", "callback", "destroy", "force", "last",
               "free", "exit"}
    /\ ret \in {"cancelled", "stopped", "timeout"}
    /\ spc \in [Stopper -> {"out", "locking", "in"}]
    /\ stops \in [Stopper -> 0 .. MaxStops]
    /\ aborted \in {"never", "start", "wait", "woken"}
    /\ forced \in BOOLEAN
    /\ misused \in BOOLEAN

(***************************************************************************)
(* A stop that comes before the wait has timed out keeps the timer from    *)
(* calling back, whether its thread waits already or has not yet run.      *)
(***************************************************************************)
StoppedInTime == aborted \in {"start", "wait"} => pc # "callback" /\ ret # "timeout"

(***************************************************************************)
(* A stop that holds the mutex holds it alone and on live memory: the      *)
(* thread waits for it before it destroys the mutex and frees the timer.   *)
(* Only when the thread gives up waiting and unlocks the mutex itself may  *)
(* a stop be left in a timer that goes.                                    *)
(***************************************************************************)
HolderIsSafe ==
    ~forced => \A c \in Stopper : spc[c] = "in" => holder = c /\ memory = "live"

(***************************************************************************)
(* Stopped or not, a timer is freed in the end, whatever the stoppers do.  *)
(***************************************************************************)
FreedInTheEnd == <>(memory = "freed")
=============================================================================
