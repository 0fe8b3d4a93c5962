------------------------------- MODULE AgpsNif -------------------------------
(***************************************************************************)
(* One network interface (NIF) of the location engine: AgpsStateMachine    *)
(* of loc_eng_agps.cpp with its four states and its list of subscribers.   *)
(* Clients (ATL connections of the modem, the BIT daemon, the WIFI users)  *)
(* subscribe for the data connection; the machine asks the Android         *)
(* framework for it once, on behalf of all of them, and passes on what the *)
(* framework answers.  Every action runs on the MsgTask thread.            *)
(*                                                                         *)
(* The list is a set: list order only decides whose address goes into a    *)
(* request, and addSubscriber keeps every subscriber in it at most once.   *)
(***************************************************************************)
EXTENDS Sequences, FiniteSets, Naturals

CONSTANTS Subscriber,       \* the clients that may use this NIF
          WaitForClose,     \* do its subscribers stay until the NIF is closed
                            \* (waitForCloseComplete(): TRUE for WIFI and DS,
                            \* FALSE for ATL and BIT)
          EnforceSingle,    \* mEnforceSingleSubscriber (TRUE for wifi_nif)
          ModemClient,      \* the subscribers that die with the modem (ATL)
          StaleMatch,       \* the subscribers that a freed subscriber object
                            \* may compare equal to (see Leave)
          MaxCmds           \* bound: commands the framework has not yet taken

ASSUME NifAssumption ==
    /\ WaitForClose \in BOOLEAN
    /\ EnforceSingle \in BOOLEAN
    /\ ModemClient \subseteq Subscriber
    /\ StaleMatch \subseteq Subscriber
    /\ MaxCmds \in Nat

VARIABLES
    mState,        \* which of the four AgpsState objects mStatePtr points to
    mSubscribers,  \* the subscribers in the linked list
    mInactive,     \* those of them whose mIsInactive is set
    cmds,          \* the commands sent to the framework and not yet taken
    lastCmd,       \* the last command sent to the framework
    told,          \* where each client believes it stands (see View)
    orphaned       \* a modem restart emptied the list in Pending or Acquired

nifVars == <<mState, mSubscribers, mInactive, cmds, lastCmd, told, orphaned>>

State   == {"Released", "Pending", "Acquired", "Releasing"}
Command == {"REQUEST", "RELEASE"}

(***************************************************************************)
(* What a client was last told, or last asked for if that is more recent.  *)
(* "denied" and "released" end a subscription; "refused" answers a         *)
(* subscription that was turned away at a NIF for a single subscriber;     *)
(* "closing" is a client that waits for the NIF to close.                  *)
(***************************************************************************)
View == {"idle", "asked", "granted", "closing",
         "denied", "refused", "released"}

mActive == mSubscribers \ mInactive

NifInit ==
    /\ mState = "Released"
    /\ mSubscribers = {}
    /\ mInactive = {}
    /\ cmds = <<>>
    /\ lastCmd = "RELEASE"
    /\ told = [s \in Subscriber |-> "idle"]
    /\ orphaned = FALSE

-----------------------------------------------------------------------------
(***************************************************************************)
(* sendRsrcRequest: the servicer is called only when a RELEASE is sent for *)
(* a list with no active subscriber, or a REQUEST for one that has some.   *)
(* "active" is the set of active subscribers after the list was changed.   *)
(***************************************************************************)
SendRsrcRequest(action, active) ==
    IF (active = {}) <=> (action = "RELEASE")
    THEN cmds' = Append(cmds, action) /\ lastCmd' = action
    ELSE UNCHANGED <<cmds, lastCmd>>

\* notifySubscribers: every client of group is told what.
Notify(group, what) ==
    told' = [s \in Subscriber |-> IF s \in group THEN what ELSE told[s]]

-----------------------------------------------------------------------------
(* subscribeRsrc *)

\* A NIF for a single subscriber turns away everybody while it has one.
Refuse(s) ==
    /\ EnforceSingle
    /\ mSubscribers # {}
    /\ Notify({s}, "refused")
    /\ UNCHANGED <<mState, mSubscribers, mInactive, cmds, lastCmd, orphaned>>

\* Mutant: only an active subscriber closes the door.
AdmittedUnlessActive == ~(EnforceSingle /\ mActive # {})

Admitted == ~(EnforceSingle /\ mSubscribers # {})

\* AgpsReleasedState, RSRC_SUBSCRIBE.
SubscribeReleased(s) ==
    /\ Admitted
    /\ mState = "Released"
    /\ mSubscribers' = mSubscribers \cup {s}
    /\ SendRsrcRequest("REQUEST", mSubscribers' \ mInactive)
    /\ mState' = "Pending"
    /\ Notify({s}, "asked")
    /\ orphaned' = FALSE
    /\ UNCHANGED mInactive

\* AgpsPendingState and AgpsReleasingState, RSRC_SUBSCRIBE: only listed.
SubscribeQueued(s) ==
    /\ Admitted
    /\ mState \in {"Pending", "Releasing"}
    /\ mSubscribers' = mSubscribers \cup {s}
    /\ Notify({s}, "asked")
    /\ orphaned' = FALSE
    /\ UNCHANGED <<mState, mInactive, cmds, lastCmd>>

\* AgpsAcquiredState, RSRC_SUBSCRIBE: granted at once, then listed.
SubscribeAcquired(s) ==
    /\ Admitted
    /\ mState = "Acquired"
    /\ mSubscribers' = mSubscribers \cup {s}
    /\ Notify({s}, "granted")
    /\ orphaned' = FALSE
    /\ UNCHANGED <<mState, mInactive, cmds, lastCmd>>

Subscribe(s) ==
    \/ Refuse(s)
    \/ SubscribeReleased(s)
    \/ SubscribeQueued(s)
    \/ SubscribeAcquired(s)

-----------------------------------------------------------------------------
(***************************************************************************)
(* unsubscribeRsrc, for a subscriber that is in the list (for any other    *)
(* one it returns false and changes nothing).  The list object itself is   *)
(* the receiver of the notification.                                       *)
(*                                                                         *)
(* notifySubscribers deletes that object and then searches the list again, *)
(* comparing the deleted receiver with every element that is left: the     *)
(* read of a freed ID may match one of StaleMatch, which is then told and  *)
(* deleted too.  The object of a waiting subscriber is only marked.        *)
(***************************************************************************)
Leave(s) ==
    /\ s \in mSubscribers
    /\ \/ /\ WaitForClose
          /\ mInactive' = mInactive \cup {s}
          /\ Notify({s}, "closing")
          /\ UNCHANGED mSubscribers
       \/ /\ ~WaitForClose
          /\ \E also \in SUBSET (StaleMatch \cap mSubscribers) :
                /\ mSubscribers' = mSubscribers \ ({s} \cup also)
                /\ mInactive' = mInactive \ ({s} \cup also)
                /\ Notify({s} \cup also, "released")

\* Mutant: the state is not left with the last subscriber.
UnsubscribeHeldStays(s) ==
    /\ mState \in {"Pending", "Acquired"}
    /\ Leave(s)
    /\ \/ /\ mSubscribers' \ mInactive' = {}
          /\ SendRsrcRequest("RELEASE", {})
       \/ /\ mSubscribers' \ mInactive' # {}
          /\ UNCHANGED <<cmds, lastCmd>>
    /\ UNCHANGED <<mState, orphaned>>

\* Mutant: the framework is not told that the last subscriber left.
UnsubscribeHeldSilent(s) ==
    /\ mState \in {"Pending", "Acquired"}
    /\ Leave(s)
    /\ mState' = CASE mSubscribers' = {} -> "Released"
                   [] mSubscribers' # {} /\ mSubscribers' \ mInactive' = {} -> "Releasing"
                   [] OTHER -> mState
    /\ UNCHANGED <<cmds, lastCmd, orphaned>>

\* AgpsPendingState and AgpsAcquiredState, RSRC_UNSUBSCRIBE.
UnsubscribeHeld(s) ==
    /\ mState \in {"Pending", "Acquired"}
    /\ Leave(s)
    /\ \/ /\ mSubscribers' = {}
          /\ mState' = "Released"
          /\ SendRsrcRequest("RELEASE", {})
       \/ /\ mSubscribers' # {}
          /\ mSubscribers' \ mInactive' = {}
          /\ mState' = "Releasing"
          /\ SendRsrcRequest("RELEASE", {})
       \/ /\ mSubscribers' \ mInactive' # {}
          /\ UNCHANGED <<mState, cmds, lastCmd>>
    /\ UNCHANGED orphaned

\* Mutant: the last active subscriber to leave releases once more.
UnsubscribeReleasingAgain(s) ==
    /\ mState = "Releasing"
    /\ Leave(s)
    /\ mState' = IF mSubscribers' = {} THEN "Released" ELSE mState
    /\ SendRsrcRequest("RELEASE", mSubscribers' \ mInactive')
    /\ UNCHANGED orphaned

\* AgpsReleasingState, RSRC_UNSUBSCRIBE.
UnsubscribeReleasing(s) ==
    /\ mState = "Releasing"
    /\ Leave(s)
    /\ mState' = IF mSubscribers' = {} THEN "Released" ELSE mState
    /\ UNCHANGED <<cmds, lastCmd, orphaned>>

Unsubscribe(s) == UnsubscribeHeld(s) \/ UnsubscribeReleasing(s)

-----------------------------------------------------------------------------
(* onRsrcEvent: the answers of the framework *)

\* RSRC_GRANTED counts only in Pending.
OnGranted ==
    \/ /\ mState = "Pending"
       /\ mState' = "Acquired"
       /\ Notify(mActive, "granted")
       /\ UNCHANGED <<mSubscribers, mInactive, cmds, lastCmd, orphaned>>
    \/ mState # "Pending" /\ UNCHANGED nifVars

\* The NIF is gone: everybody is told and forgotten.
DropAll(what) ==
    /\ mState' = "Released"
    /\ Notify(mSubscribers, what)
    /\ mSubscribers' = {}
    /\ mInactive' = {}
    /\ orphaned' = FALSE
    /\ UNCHANGED <<cmds, lastCmd>>

\* The answer to the RELEASE: those who waited for it leave; for those who
\* subscribed in the meantime the NIF is requested again.
CloseComplete(what) ==
    /\ mState = "Releasing"
    /\ Notify(mInactive, what)
    /\ mSubscribers' = mActive
    /\ mInactive' = {}
    /\ \/ /\ mActive # {}
          /\ mState' = "Pending"
          /\ SendRsrcRequest("REQUEST", mActive)
       \/ /\ mActive = {}
          /\ mState' = "Released"
          /\ UNCHANGED <<cmds, lastCmd>>
    /\ UNCHANGED orphaned

\* Mutant: a RELEASED that nobody asked for is ignored.
OnReleasedWhenAsked ==
    \/ CloseComplete("released")
    \/ mState # "Releasing" /\ UNCHANGED nifVars

\* Mutant: the close is not awaited.
OnReleasedForced ==
    \/ mState = "Acquired" /\ DropAll("released")
    \/ mState # "Acquired" /\ UNCHANGED nifVars

\* RSRC_RELEASED is ignored in Pending and Released.
OnReleased ==
    \/ mState = "Acquired" /\ DropAll("released")
    \/ CloseComplete("released")
    \/ mState \in {"Released", "Pending"} /\ UNCHANGED nifVars

\* Mutant: a DENIED in Pending is taken for a late one.
OnDeniedLate ==
    \/ CloseComplete("denied")
    \/ mState # "Releasing" /\ UNCHANGED nifVars

\* RSRC_DENIED is ignored in Acquired and Released.
OnDenied ==
    \/ mState = "Pending" /\ DropAll("denied")
    \/ CloseComplete("denied")
    \/ mState \in {"Released", "Acquired"} /\ UNCHANGED nifVars

-----------------------------------------------------------------------------
(***************************************************************************)
(* loc_eng_handle_engine_up: after a modem restart dropAllSubscribers      *)
(* empties the lists of agnss_nif and internet_nif, the NIFs whose         *)
(* subscribers never wait.  Nobody is told, the framework is not told, and *)
(* mStatePtr stays where it is.  The ATL clients died with the modem.      *)
(***************************************************************************)
EngineUp ==
    /\ ~WaitForClose
    /\ mSubscribers # {}
    /\ Notify(mSubscribers \cap ModemClient, "idle")
    /\ mSubscribers' = {}
    /\ mInactive' = {}
    /\ orphaned' = (mState \in {"Pending", "Acquired"})
    /\ UNCHANGED <<mState, cmds, lastCmd>>

\* The framework takes the oldest command (external).
AfwTakes ==
    /\ cmds # <<>>
    /\ cmds' = Tail(cmds)
    /\ UNCHANGED <<mState, mSubscribers, mInactive, lastCmd, told, orphaned>>

\* Bound: the environment acts only while the commands it can cause fit.
Room == Len(cmds) < MaxCmds

ClientStep == \E s \in Subscriber : Subscribe(s) \/ Unsubscribe(s)
AnswerStep == OnGranted \/ OnReleased \/ OnDenied

Next ==
    \/ Room /\ (ClientStep \/ AnswerStep)
    \/ EngineUp
    \/ AfwTakes

Spec == NifInit /\ [][Next]_nifVars
=============================================================================
