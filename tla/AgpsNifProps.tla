----------------------------- MODULE AgpsNifProps -----------------------------
(***************************************************************************)
(* What AgpsNif promises: the state, the list of subscribers, the          *)
(* framework and the clients never disagree about the connection.          *)
(***************************************************************************)
EXTENDS AgpsNif

NifTypeOK ==
    /\ mState \in State
    /\ mSubscribers \subseteq Subscriber
    /\ mInactive \subseteq mSubscribers
    /\ cmds \in Seq(Command)
    /\ lastCmd \in Command
    /\ told \in [Subscriber -> View]
    /\ orphaned \in BOOLEAN

(***************************************************************************)
(* The list fits the state: "subscriber list not empty!!!" is never logged *)
(* (so the UNSUBSCRIBE branch of the released state is dead code), Pending *)
(* and Acquired are left when the last active subscriber leaves, and only  *)
(* somebody waiting for the close keeps a NIF in Releasing.                *)
(***************************************************************************)
ListFitsState ==
    /\ mState = "Released" => mSubscribers = {}
    /\ mState = "Releasing" => WaitForClose /\ mInactive # {}
    /\ mState \in {"Pending", "Acquired"} /\ ~orphaned => mActive # {}

(***************************************************************************)
(* The framework was last asked for what the state says: it was asked for  *)
(* the connection in Pending and Acquired, and asked to drop it in         *)
(* Releasing, whatever answers arrived in between and even across a modem  *)
(* restart.                                                                *)
(***************************************************************************)
CommandFitsState ==
    /\ mState \in {"Pending", "Acquired"} => lastCmd = "REQUEST"
    /\ mState = "Releasing" => lastCmd = "RELEASE"

(***************************************************************************)
(* Every client that is still counted as a user was told what the state    *)
(* means: granted in Acquired, nothing yet in Pending and Releasing.  So   *)
(* nobody uses a connection that is being requested or released.           *)
(***************************************************************************)
ActiveKnow ==
    \A s \in mActive :
        told[s] \in (IF mState = "Acquired" THEN {"granted"} ELSE {"asked"})
                    \cup (IF EnforceSingle THEN {"refused"} ELSE {})

(***************************************************************************)
(* The four views of the connection agree at every step: the list of       *)
(* subscribers, the state, what the framework was asked for and what the   *)
(* clients believe.                                                        *)
(***************************************************************************)
ViewsAgree == ListFitsState /\ CommandFitsState /\ ActiveKnow

(***************************************************************************)
(* A client that waits for an answer is in the list and will get the next  *)
(* answer of the framework.  Two kinds of clients are exempt.  A modem     *)
(* restart drops the requests of the BIT daemon, which survives it, and    *)
(* tells it nothing.  At a NIF that closes slowly and admits several       *)
(* subscribers, a client that asks again while it waits for the close is   *)
(* still marked inactive, and only hears of the close.                     *)
(***************************************************************************)
NoLostRequest ==
    \A s \in Subscriber :
        /\ told[s] = "asked"
        /\ WaitForClose \/ s \in ModemClient
        => /\ mState # "Released"
           /\ s \in mSubscribers
           /\ (WaitForClose => EnforceSingle) => s \in mActive

(***************************************************************************)
(* A NIF for a single subscriber never serves two.                         *)
(***************************************************************************)
SingleUser ==
    EnforceSingle => \A s, t \in mSubscribers : s = t

(***************************************************************************)
(* Requests are neither lost nor let in beside another: who waits for an   *)
(* answer gets the next one, and a NIF for one subscriber has one, also    *)
(* while the first still waits for the close.                              *)
(***************************************************************************)
RequestsServed == NoLostRequest /\ SingleUser

\* A command is sent in this step.
Sends(c) == Len(cmds') = Len(cmds) + 1 /\ cmds'[Len(cmds')] = c

(***************************************************************************)
(* The framework is told to drop the connection only after it was asked    *)
(* for it, never twice, and never while somebody still uses the NIF.       *)
(***************************************************************************)
ReleaseOnce ==
    [][Sends("RELEASE") => /\ lastCmd = "REQUEST"
                           /\ mState \in {"Pending", "Acquired"}
                           /\ mSubscribers' \ mInactive' = {}]_nifVars

(***************************************************************************)
(* The connection is requested only by a NIF that holds none, and is       *)
(* requested for somebody.                                                 *)
(***************************************************************************)
RequestOnce ==
    [][Sends("REQUEST") => /\ mState \in {"Released", "Releasing"}
                           /\ mSubscribers' \ mInactive' # {}]_nifVars

(***************************************************************************)
(* REQUEST and RELEASE alternate, whatever the framework answers, clients  *)
(* that come during the close and modem restarts in between.               *)
(***************************************************************************)
CommandsOnce == ReleaseOnce /\ RequestOnce
=============================================================================
