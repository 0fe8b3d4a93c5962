------------------------------- MODULE AgpsAfw -------------------------------
(***************************************************************************)
(* A NIF and the Android framework (AFW) that serves it.  The two talk in  *)
(* one direction through the callback agps_status_cb and in the other      *)
(* through messages to the MsgTask; neither command nor answer carries     *)
(* anything that says which request it belongs to.  The NIF is AgpsNif;    *)
(* the framework is external and is modelled as an honest server that      *)
(* takes the commands in order.                                            *)
(***************************************************************************)
EXTENDS AgpsNifProps

VARIABLES
    holds,     \* the framework holds the data connection
    answers,   \* answers posted to the MsgTask and not yet handled
    unclaimed  \* history: the last GRANTED was handled in Released, which
               \* drops it, and the connection was not given up since

afwVars == <<holds, answers, unclaimed>>
vars    == <<nifVars, afwVars>>

Answer == {"GRANTED", "RELEASED", "DENIED"}

Init ==
    /\ NifInit
    /\ holds = FALSE
    /\ answers = <<>>
    /\ unclaimed = FALSE

\* Nothing is under way between the two.
Quiet == cmds = <<>> /\ answers = <<>>

Asked(c)  == \E i \in DOMAIN cmds : cmds[i] = c
Posted(a) == \E i \in DOMAIN answers : answers[i] = a

\* Bound: clients and network act only while fewer than MaxCmds commands
\* and answers are under way.
AfwRoom == Len(cmds) + Len(answers) < MaxCmds

Post(a) == answers' = Append(answers, a)

\* A request is granted, or denied.
AfwRequest ==
    /\ cmds # <<>> /\ Head(cmds) = "REQUEST"
    /\ AfwTakes
    /\ \/ Post("GRANTED") /\ holds' = TRUE
       \/ Post("DENIED") /\ UNCHANGED holds
    /\ UNCHANGED unclaimed

\* A release is confirmed; when there is nothing to release, perhaps not.
AfwRelease ==
    /\ cmds # <<>> /\ Head(cmds) = "RELEASE"
    /\ AfwTakes
    /\ \/ Post("RELEASED")
       \/ ~holds /\ UNCHANGED answers
    /\ holds' = FALSE
    /\ unclaimed' = FALSE

\* The network goes away under the connection.
AfwLoses ==
    /\ AfwRoom
    /\ holds
    /\ holds' = FALSE
    /\ unclaimed' = FALSE
    /\ Post("RELEASED")
    /\ UNCHANGED nifVars

\* The MsgTask handles the oldest answer: loc_eng_agps_open, _closed and
\* _open_failed have posted LocEngAtlOpenSuccess, -Closed and -OpenFailed.
Deliver ==
    /\ answers # <<>>
    /\ answers' = Tail(answers)
    /\ \/ Head(answers) = "GRANTED" /\ OnGranted /\ unclaimed' = (mState = "Released")
       \/ Head(answers) = "RELEASED" /\ OnReleased /\ UNCHANGED unclaimed
       \/ Head(answers) = "DENIED" /\ OnDenied /\ UNCHANGED unclaimed
    /\ UNCHANGED holds

Client ==
    /\ AfwRoom
    /\ ClientStep
    /\ UNCHANGED afwVars

Restart == EngineUp /\ UNCHANGED afwVars

AfwNext ==
    \/ Client
    \/ Restart
    \/ Deliver
    \/ AfwRequest
    \/ AfwRelease
    \/ AfwLoses

(***************************************************************************)
(* Fairness: the MsgTask keeps handling messages and the framework keeps   *)
(* taking commands.  Clients, the network and the modem need not act.      *)
(***************************************************************************)
AfwSpec ==
    /\ Init /\ [][AfwNext]_vars
    /\ WF_vars(Deliver)
    /\ WF_vars(AfwRequest \/ AfwRelease)

-----------------------------------------------------------------------------
AfwTypeOK ==
    /\ NifTypeOK
    /\ holds \in BOOLEAN
    /\ answers \in Seq(Answer)
    /\ unclaimed \in BOOLEAN

(***************************************************************************)
(* Nobody is stranded on a dead connection: while the NIF says Acquired,   *)
(* the framework holds the connection, or the bad news is on its way.      *)
(***************************************************************************)
UsersCovered ==
    mState = "Acquired" => holds \/ Posted("RELEASED")

(***************************************************************************)
(* No connection is leaked, in whatever order commands and answers cross.  *)
(* When nothing is under way and the framework holds the connection, it    *)
(* was last asked for it (so nothing is held once the last user has left), *)
(* and either the NIF is Acquired on behalf of somebody or the leak is one *)
(* of the two the code has: a modem restart emptied the list in Acquired,  *)
(* or the GRANTED came to a NIF that DENIED or RELEASED, the answers to    *)
(* something else, had brought back to Released, where it is dropped.      *)
(***************************************************************************)
NoLeak ==
    Quiet /\ holds =>
        /\ lastCmd = "REQUEST"
        /\ \/ mState = "Acquired" /\ (mActive # {} \/ orphaned)
           \/ unclaimed

(***************************************************************************)
(* A NIF that waits is owed an answer.  In Pending a REQUEST or its answer *)
(* is under way, in Releasing a RELEASE or something that ends it: the     *)
(* machine never waits for an answer that will not come.                   *)
(***************************************************************************)
Owed ==
    /\ mState = "Pending" =>
          Asked("REQUEST") \/ Posted("GRANTED") \/ Posted("DENIED")
    /\ mState = "Releasing" =>
          \/ holds /\ Asked("RELEASE")
          \/ Asked("REQUEST")
          \/ Posted("RELEASED") \/ Posted("DENIED")

(***************************************************************************)
(* Every client that asks is answered in the end, whatever the order in    *)
(* which commands, answers, losses of the network and other clients come.  *)
(***************************************************************************)
Answered ==
    \A s \in Subscriber :
        (told[s] = "asked" /\ (WaitForClose \/ s \in ModemClient))
            ~> told[s] # "asked"

\* A client that waits for the close hears of it.
CloseHeard ==
    \A s \in Subscriber : told[s] = "closing" ~> told[s] # "closing"
=============================================================================
