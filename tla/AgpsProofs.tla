------------------------------ MODULE AgpsProofs ------------------------------
(***************************************************************************)
(* For every set of clients, every kind of NIF and every bound on the      *)
(* commands.  First the machine alone, whatever the framework answers:     *)
(* AgpsNif keeps its types, its list fits its state, and the commands it   *)
(* sends alternate.  Then the machine with the framework (AgpsAfw): users  *)
(* are covered, a machine that waits is owed an answer, no connection      *)
(* leaks.                                                                  *)
(***************************************************************************)
EXTENDS AgpsAfw, TLAPS

(***************************************************************************)
(* The inductive invariant.  To the safety properties it adds what their   *)
(* preservation rests on: a subscriber that need not wait is never marked  *)
(* inactive (so an immediate NIF never gets to Releasing), and a NIF is an *)
(* orphan only as long as its list is empty.                               *)
(***************************************************************************)
NifInv ==
    /\ NifTypeOK
    /\ ListFitsState
    /\ CommandFitsState
    /\ ActiveKnow
    /\ SingleUser
    /\ NoLostRequest
    /\ mInactive # {} => WaitForClose
    /\ orphaned => mSubscribers = {}

USE NifAssumption

LEMMA NifInitInv == NifInit => NifInv
<1> SUFFICES ASSUME NifInit PROVE NifInv
  OBVIOUS
<1> USE DEF NifInit
<1>1. NifTypeOK
  <2>1. cmds \in Seq(Command)
    OBVIOUS
  <2>2. told \in [Subscriber -> View]
    BY DEF View
  <2> QED
    BY <2>1, <2>2 DEF NifTypeOK, State, Command
<1>2. ListFitsState /\ CommandFitsState /\ SingleUser
  BY DEF ListFitsState, CommandFitsState, SingleUser
<1>3. ActiveKnow
  BY DEF ActiveKnow, mActive
<1>4. NoLostRequest
  BY DEF NoLostRequest
<1> QED
  BY <1>1, <1>2, <1>3, <1>4 DEF NifInv

LEMMA SubscribeInv ==
  ASSUME NifInv, NEW s \in Subscriber, Subscribe(s)
  PROVE  NifInv'
<1> USE DEF NifInv, NifTypeOK, ListFitsState, CommandFitsState, ActiveKnow,
            SingleUser, NoLostRequest, State, Command, View, mActive, Notify
<1>1. CASE Refuse(s)
  BY <1>1 DEF Refuse
<1>2. CASE SubscribeReleased(s)
  <2>1. cmds' \in Seq(Command) /\ lastCmd' = "REQUEST"
    BY <1>2 DEF SubscribeReleased, SendRsrcRequest
  <2>2. mSubscribers' = {s} /\ mInactive' = {}
    BY <1>2 DEF SubscribeReleased
  <2> QED
    BY <1>2, <2>1, <2>2 DEF SubscribeReleased, Admitted
<1>3. CASE SubscribeQueued(s)
  BY <1>3 DEF SubscribeQueued, Admitted
<1>4. CASE SubscribeAcquired(s)
  BY <1>4 DEF SubscribeAcquired, Admitted
<1> QED
  BY <1>1, <1>2, <1>3, <1>4 DEF Subscribe

LEMMA UnsubscribeInv ==
  ASSUME NifInv, NEW s \in Subscriber, Unsubscribe(s)
  PROVE  NifInv'
<1> USE DEF NifInv, NifTypeOK, ListFitsState, CommandFitsState, ActiveKnow,
            SingleUser, NoLostRequest, State, Command, View, mActive, Notify
<1>1. CASE UnsubscribeHeld(s)
  <2>1. CASE mSubscribers' = {}
    BY <1>1, <2>1 DEF UnsubscribeHeld, Leave, SendRsrcRequest
  <2>2. CASE mSubscribers' # {} /\ mSubscribers' \ mInactive' = {}
    BY <1>1, <2>2 DEF UnsubscribeHeld, Leave, SendRsrcRequest
  <2>3. CASE mSubscribers' \ mInactive' # {}
    BY <1>1, <2>3 DEF UnsubscribeHeld, Leave
  <2> QED
    BY <2>1, <2>2, <2>3
<1>2. CASE UnsubscribeReleasing(s)
  BY <1>2 DEF UnsubscribeReleasing, Leave
<1> QED
  BY <1>1, <1>2 DEF Unsubscribe

LEMMA DropAllInv ==
  ASSUME NifInv, NEW what \in {"released", "denied"}, DropAll(what)
  PROVE  NifInv'
  BY DEF NifInv, NifTypeOK, ListFitsState, CommandFitsState, ActiveKnow,
         SingleUser, NoLostRequest, State, Command, View, mActive, Notify, DropAll

LEMMA CloseCompleteInv ==
  ASSUME NifInv, NEW what \in {"released", "denied"}, CloseComplete(what)
  PROVE  NifInv'
<1> USE DEF NifInv, NifTypeOK, ListFitsState, CommandFitsState, ActiveKnow,
            SingleUser, NoLostRequest, State, Command, View, mActive, Notify
<1>1. CASE mActive # {}
  BY <1>1 DEF CloseComplete, SendRsrcRequest
<1>2. CASE mActive = {}
  BY <1>2 DEF CloseComplete
<1> QED
  BY <1>1, <1>2

LEMMA UnchangedInv == NifInv /\ UNCHANGED nifVars => NifInv'
  BY DEF NifInv, NifTypeOK, ListFitsState, CommandFitsState, ActiveKnow,
         SingleUser, NoLostRequest, mActive, nifVars

LEMMA AnswerInv ==
  ASSUME NifInv, AnswerStep
  PROVE  NifInv'
<1>1. CASE OnGranted
  BY <1>1, UnchangedInv
     DEF OnGranted, NifInv, NifTypeOK, ListFitsState, CommandFitsState, ActiveKnow,
         SingleUser, NoLostRequest, State, Command, View, mActive, Notify
<1>2. CASE OnReleased
  BY <1>2, UnchangedInv, DropAllInv, CloseCompleteInv DEF OnReleased
<1>3. CASE OnDenied
  BY <1>3, UnchangedInv, DropAllInv, CloseCompleteInv DEF OnDenied
<1> QED
  BY <1>1, <1>2, <1>3 DEF AnswerStep

LEMMA EngineUpInv ==
  ASSUME NifInv, EngineUp
  PROVE  NifInv'
  BY DEF NifInv, NifTypeOK, ListFitsState, CommandFitsState, ActiveKnow, SingleUser,
         NoLostRequest, State, Command, View, mActive, Notify, EngineUp

LEMMA AfwTakesInv ==
  ASSUME NifInv, AfwTakes
  PROVE  NifInv'
  BY DEF NifInv, NifTypeOK, ListFitsState, CommandFitsState, ActiveKnow,
         SingleUser, NoLostRequest, mActive, AfwTakes

\* What happens to the machine, without the bound on the commands.
NifStep == ClientStep \/ AnswerStep \/ EngineUp \/ AfwTakes

LEMMA NifStepInv == NifInv /\ [NifStep]_nifVars => NifInv'
<1> SUFFICES ASSUME NifInv, [NifStep]_nifVars PROVE NifInv'
  OBVIOUS
<1>1. CASE ClientStep
  BY <1>1, SubscribeInv, UnsubscribeInv DEF ClientStep
<1>2. CASE AnswerStep
  BY <1>2, AnswerInv
<1>3. CASE EngineUp
  BY <1>3, EngineUpInv
<1>4. CASE AfwTakes
  BY <1>4, AfwTakesInv
<1>5. CASE UNCHANGED nifVars
  BY <1>5, UnchangedInv
<1> QED
  BY <1>1, <1>2, <1>3, <1>4, <1>5 DEF NifStep

LEMMA NextIsNifStep == [Next]_nifVars => [NifStep]_nifVars
  BY DEF Next, NifStep

(***************************************************************************)
(* Every reachable state satisfies the inductive invariant, and so all the *)
(* safety properties of AgpsNifProps.                                      *)
(***************************************************************************)
THEOREM NifInvariant == Spec => []NifInv
<1>1. NifInit => NifInv
  BY NifInitInv
<1>2. NifInv /\ [Next]_nifVars => NifInv'
  BY NifStepInv, NextIsNifStep
<1> QED
  BY <1>1, <1>2, PTL DEF Spec

-----------------------------------------------------------------------------
(***************************************************************************)
(* The properties the runs check, as consequences.                         *)
(***************************************************************************)

\* The variables keep their types.
THEOREM NifTyping == Spec => []NifTypeOK
<1>1. NifInv => NifTypeOK
  BY DEF NifInv
<1> QED
  BY <1>1, NifInvariant, PTL

\* The list of subscribers fits the state of the machine: the list is empty
\* in Released, and Pending and Acquired are left with the last active user.
THEOREM ListAlwaysFits == Spec => []ListFitsState
<1>1. NifInv => ListFitsState
  BY DEF NifInv
<1> QED
  BY <1>1, NifInvariant, PTL

\* The framework was last asked for what the state says.
THEOREM CommandAlwaysFits == Spec => []CommandFitsState
<1>1. NifInv => CommandFitsState
  BY DEF NifInv
<1> QED
  BY <1>1, NifInvariant, PTL

\* Whoever counts as a user was told what the state means.
THEOREM UsersAlwaysKnow == Spec => []ActiveKnow
<1>1. NifInv => ActiveKnow
  BY DEF NifInv
<1> QED
  BY <1>1, NifInvariant, PTL

\* No request is lost while nobody restarts the modem under it.
THEOREM RequestsAreKept == Spec => []NoLostRequest
<1>1. NifInv => NoLostRequest
  BY DEF NifInv
<1> QED
  BY <1>1, NifInvariant, PTL

\* A NIF for one subscriber serves one.
THEOREM OneUser == Spec => []SingleUser
<1>1. NifInv => SingleUser
  BY DEF NifInv
<1> QED
  BY <1>1, NifInvariant, PTL

\* List, state, last command and the views of the clients agree.
THEOREM ViewsAlwaysAgree == Spec => []ViewsAgree
<1>1. ListFitsState /\ CommandFitsState /\ ActiveKnow => ViewsAgree
  BY DEF ViewsAgree
<1> QED
  BY <1>1, ListAlwaysFits, CommandAlwaysFits, UsersAlwaysKnow, PTL

\* Requests are kept, and a NIF for one subscriber serves one.
THEOREM RequestsAreServed == Spec => []RequestsServed
<1>1. NoLostRequest /\ SingleUser => RequestsServed
  BY DEF RequestsServed
<1> QED
  BY <1>1, RequestsAreKept, OneUser, PTL

(***************************************************************************)
(* What a step can send.  A step that appends a command is an unsubscribe  *)
(* in Pending or Acquired that left no active user (RELEASE), the first    *)
(* subscription in Released, or the completion of a close with users left  *)
(* (REQUEST).                                                              *)
(***************************************************************************)
LEMMA WhoSends ==
  ASSUME NifInv, NifStep
  PROVE  \/ Len(cmds') # Len(cmds) + 1
         \/ /\ cmds' = Append(cmds, "RELEASE")
            /\ mState \in {"Pending", "Acquired"}
            /\ mSubscribers' \ mInactive' = {}
         \/ /\ cmds' = Append(cmds, "REQUEST")
            /\ mState \in {"Released", "Releasing"}
            /\ mSubscribers' \ mInactive' # {}
<1> DEFINE Same == cmds' = cmds
<1>0. cmds \in Seq(Command)
  BY DEF NifInv, NifTypeOK
<1>1. Same => Len(cmds') # Len(cmds) + 1
  BY <1>0
<1>2. ASSUME NEW s \in Subscriber, Subscribe(s)
      PROVE  Same \/ /\ cmds' = Append(cmds, "REQUEST")
                     /\ mState = "Released"
                     /\ mSubscribers' \ mInactive' # {}
  <2>1. CASE SubscribeReleased(s)
    <3>1. mInactive = {}
      BY <2>1 DEF SubscribeReleased, NifInv, NifTypeOK, ListFitsState
    <3> QED
      BY <2>1, <3>1 DEF SubscribeReleased, SendRsrcRequest
  <2> QED
    BY <1>2, <2>1 DEF Subscribe, Refuse, SubscribeQueued, SubscribeAcquired
<1>3. ASSUME NEW s \in Subscriber, Unsubscribe(s)
      PROVE  Same \/ /\ cmds' = Append(cmds, "RELEASE")
                     /\ mState \in {"Pending", "Acquired"}
                     /\ mSubscribers' \ mInactive' = {}
  BY <1>3 DEF Unsubscribe, UnsubscribeHeld, UnsubscribeReleasing, SendRsrcRequest
<1>4. ASSUME NEW what, CloseComplete(what)
      PROVE  Same \/ /\ cmds' = Append(cmds, "REQUEST")
                     /\ mState = "Releasing"
                     /\ mSubscribers' \ mInactive' # {}
  BY <1>4 DEF CloseComplete, SendRsrcRequest
<1>5. ASSUME AnswerStep
      PROVE  Same \/ /\ cmds' = Append(cmds, "REQUEST")
                     /\ mState = "Releasing"
                     /\ mSubscribers' \ mInactive' # {}
  BY <1>4, <1>5 DEF AnswerStep, OnGranted, OnReleased, OnDenied, DropAll, nifVars
<1>6. CASE EngineUp
  BY <1>1, <1>6 DEF EngineUp
<1>7. CASE AfwTakes
  <2>1. Len(cmds') = Len(cmds) - 1
    BY <1>0, <1>7 DEF AfwTakes
  <2>2. Len(cmds) \in Nat
    BY <1>0
  <2> QED
    BY <2>1, <2>2
<1> QED
  BY <1>1, <1>2, <1>3, <1>5, <1>6, <1>7 DEF NifStep, ClientStep

\* The last of a sequence that was appended to.
LEMMA LastOfAppend ==
  ASSUME NEW c, NEW d, cmds \in Seq(Command), c \in Command, cmds' = Append(cmds, c),
         Sends(d)
  PROVE  c = d
  BY DEF Sends

LEMMA ReleaseFits ==
  ASSUME NifInv, NifStep, Sends("RELEASE")
  PROVE  /\ lastCmd = "REQUEST"
         /\ mState \in {"Pending", "Acquired"}
         /\ mSubscribers' \ mInactive' = {}
<1>1. cmds' # Append(cmds, "REQUEST")
  BY LastOfAppend DEF NifInv, NifTypeOK, Command
<1>2. Len(cmds') = Len(cmds) + 1
  BY DEF Sends
<1> QED
  BY <1>1, <1>2, WhoSends DEF NifInv, CommandFitsState

LEMMA RequestFits ==
  ASSUME NifInv, NifStep, Sends("REQUEST")
  PROVE  /\ mState \in {"Released", "Releasing"}
         /\ mSubscribers' \ mInactive' # {}
<1>1. cmds' # Append(cmds, "RELEASE")
  BY LastOfAppend DEF NifInv, NifTypeOK, Command
<1>2. Len(cmds') = Len(cmds) + 1
  BY DEF Sends
<1> QED
  BY <1>1, <1>2, WhoSends

\* RELEASE is sent once per REQUEST, and only when the last user has left.
THEOREM ReleasedOnce == Spec => ReleaseOnce
<1>1. NifInv /\ [NifStep]_nifVars =>
        [Sends("RELEASE") => /\ lastCmd = "REQUEST"
                             /\ mState \in {"Pending", "Acquired"}
                             /\ mSubscribers' \ mInactive' = {}]_nifVars
  BY ReleaseFits
<1>2. [Next]_nifVars => [NifStep]_nifVars
  BY NextIsNifStep
<1> QED
  BY <1>1, <1>2, NifInvariant, PTL DEF Spec, ReleaseOnce

\* REQUEST is sent only by a NIF that holds nothing, for somebody.
THEOREM RequestedOnce == Spec => RequestOnce
<1>1. NifInv /\ [NifStep]_nifVars =>
        [Sends("REQUEST") => /\ mState \in {"Released", "Releasing"}
                             /\ mSubscribers' \ mInactive' # {}]_nifVars
  BY RequestFits
<1>2. [Next]_nifVars => [NifStep]_nifVars
  BY NextIsNifStep
<1> QED
  BY <1>1, <1>2, NifInvariant, PTL DEF Spec, RequestOnce

\* REQUEST and RELEASE alternate: both theorems together.
THEOREM CommandsAlternate == Spec => CommandsOnce
BY ReleasedOnce, RequestedOnce DEF CommandsOnce

-----------------------------------------------------------------------------
(***************************************************************************)
(* The machine with the framework that serves it.  Every step of AgpsAfw   *)
(* is a step of the machine or leaves it alone, so the invariant carries   *)
(* over.                                                                   *)
(***************************************************************************)
AfwTyping ==
    /\ holds \in BOOLEAN
    /\ answers \in Seq(Answer)
    /\ unclaimed \in BOOLEAN

LEMMA AfwStepIsNifStep == [AfwNext]_vars => [NifStep]_nifVars
  BY DEF AfwNext, Client, Restart, Deliver, AfwRequest, AfwRelease, AfwLoses,
         NifStep, AnswerStep, vars

LEMMA PostTyped ==
  ASSUME NEW a \in Answer, answers \in Seq(Answer), Post(a)
  PROVE  answers' \in Seq(Answer)
  BY DEF Post

LEMMA AfwTypingStep == AfwTyping /\ [AfwNext]_vars => AfwTyping'
<1> SUFFICES ASSUME AfwTyping, [AfwNext]_vars PROVE AfwTyping'
  OBVIOUS
<1> USE DEF AfwTyping, Answer
<1>1. CASE Client
  BY <1>1 DEF Client, afwVars
<1>2. CASE Restart
  BY <1>2 DEF Restart, afwVars
<1>3. CASE Deliver
  <2>1. unclaimed' \in BOOLEAN
    BY <1>3 DEF Deliver
  <2> QED
    BY <1>3, <2>1 DEF Deliver
<1>4. CASE AfwRequest
  BY <1>4, PostTyped DEF AfwRequest
<1>5. CASE AfwRelease
  BY <1>5, PostTyped DEF AfwRelease
<1>6. CASE AfwLoses
  BY <1>6, PostTyped DEF AfwLoses
<1>7. CASE UNCHANGED vars
  BY <1>7 DEF vars, afwVars
<1> QED
  BY <1>1, <1>2, <1>3, <1>4, <1>5, <1>6, <1>7 DEF AfwNext

\* The machine's invariant and the types of the framework's side.
THEOREM AfwInvariant == AfwSpec => [](NifInv /\ AfwTyping)
<1>1. Init => NifInv /\ AfwTyping
  <2>1. <<>> \in Seq(Answer)
    OBVIOUS
  <2> QED
    BY <2>1, NifInitInv DEF Init, AfwTyping
<1>2. NifInv /\ AfwTyping /\ [AfwNext]_vars => (NifInv /\ AfwTyping)'
  BY NifStepInv, AfwTypingStep, AfwStepIsNifStep
<1> QED
  BY <1>1, <1>2, PTL DEF AfwSpec

\* List, state, last command and the views of the clients agree, whatever
\* the framework answers and when.
THEOREM AfwViewsAgree == AfwSpec => []ViewsAgree
<1>1. NifInv => ViewsAgree
  BY DEF NifInv, ViewsAgree
<1> QED
  BY <1>1, AfwInvariant, PTL

\* Requests are kept, and a NIF for one subscriber serves one, with a
\* framework that answers.
THEOREM AfwServes == AfwSpec => []RequestsServed
<1>1. NifInv => RequestsServed
  BY DEF NifInv, RequestsServed
<1> QED
  BY <1>1, AfwInvariant, PTL

\* The framework is sent REQUEST and RELEASE in turn.
THEOREM AfwHearsOnce == AfwSpec => CommandsOnce
<1>1. NifInv /\ [NifStep]_nifVars =>
        /\ [Sends("RELEASE") => /\ lastCmd = "REQUEST"
                                /\ mState \in {"Pending", "Acquired"}
                                /\ mSubscribers' \ mInactive' = {}]_nifVars
        /\ [Sends("REQUEST") => /\ mState \in {"Released", "Releasing"}
                                /\ mSubscribers' \ mInactive' # {}]_nifVars
  BY ReleaseFits, RequestFits
<1>2. [AfwNext]_vars => [NifStep]_nifVars
  BY AfwStepIsNifStep
<1> QED
  BY <1>1, <1>2, AfwInvariant, PTL DEF AfwSpec, CommandsOnce, ReleaseOnce, RequestOnce

-----------------------------------------------------------------------------
(***************************************************************************)
(* Users are covered.  What the framework granted it still holds, or it    *)
(* has posted the loss behind the GRANTED; so when the machine comes to    *)
(* the GRANTED, the connection is there or the bad news is on its way.     *)
(***************************************************************************)
GrantCovered ==
    \A i \in DOMAIN answers :
        answers[i] = "GRANTED" =>
            holds \/ \E j \in DOMAIN answers : j > i /\ answers[j] = "RELEASED"

CoverInv == UsersCovered /\ GrantCovered

LEMMA PostKeeps ==
  ASSUME AfwTyping, NEW a \in Answer, Post(a)
  PROVE  /\ DOMAIN answers' = 1 .. Len(answers) + 1
         /\ DOMAIN answers = 1 .. Len(answers)
         /\ Len(answers) \in Nat
         /\ answers'[Len(answers) + 1] = a
         /\ \A i \in DOMAIN answers : answers'[i] = answers[i]
  BY DEF AfwTyping, Post

LEMMA DeliverShifts ==
  ASSUME AfwTyping, Deliver
  PROVE  /\ Len(answers) \in Nat \ {0}
         /\ DOMAIN answers = 1 .. Len(answers)
         /\ DOMAIN answers' = 1 .. Len(answers) - 1
         /\ \A i \in DOMAIN answers' : answers'[i] = answers[i + 1]
         /\ Head(answers) = answers[1]
  BY DEF AfwTyping, Deliver

\* Answers that are there stay there when another is posted behind them.
LEMMA PostCovers ==
  ASSUME AfwTyping, CoverInv, NEW a \in Answer, Post(a), mState' = mState,
         a = "GRANTED" => holds',
         ~holds' => ~holds \/ a = "RELEASED"
  PROVE  CoverInv'
<1>1. GrantCovered'
  <2> SUFFICES ASSUME NEW i \in DOMAIN answers', answers'[i] = "GRANTED", ~holds'
               PROVE  \E j \in DOMAIN answers' : j > i /\ answers'[j] = "RELEASED"
    BY DEF GrantCovered
  <2>1. i \in DOMAIN answers /\ answers[i] = "GRANTED"
    BY PostKeeps
  <2>2. CASE a = "RELEASED"
    BY <2>1, <2>2, PostKeeps
  <2>3. CASE ~holds
    BY <2>1, <2>3, PostKeeps DEF CoverInv, GrantCovered
  <2> QED
    BY <2>2, <2>3
<1>2. UsersCovered'
  BY PostKeeps DEF CoverInv, UsersCovered, Posted
<1> QED
  BY <1>1, <1>2 DEF CoverInv

LEMMA DeliverCovers ==
  ASSUME AfwTyping, CoverInv, Deliver
  PROVE  CoverInv'
<1>1. GrantCovered'
  <2> SUFFICES ASSUME NEW i \in DOMAIN answers', answers'[i] = "GRANTED", ~holds'
               PROVE  \E j \in DOMAIN answers' : j > i /\ answers'[j] = "RELEASED"
    BY DEF GrantCovered
  <2>1. /\ i + 1 \in DOMAIN answers
        /\ answers[i + 1] = "GRANTED"
        /\ ~holds
    BY DeliverShifts DEF Deliver
  <2>2. PICK j \in DOMAIN answers : j > i + 1 /\ answers[j] = "RELEASED"
    BY <2>1 DEF CoverInv, GrantCovered
  <2>3. j - 1 \in DOMAIN answers' /\ answers'[j - 1] = "RELEASED" /\ j - 1 > i
    BY <2>2, DeliverShifts
  <2> QED
    BY <2>3
<1>2. UsersCovered'
  <2> SUFFICES ASSUME mState' = "Acquired", ~holds
               PROVE  \E i \in DOMAIN answers' : answers'[i] = "RELEASED"
    BY DEF UsersCovered, Posted, Deliver
  <2>1. \E j \in DOMAIN answers : j > 1 /\ answers[j] = "RELEASED"
    <3>1. CASE Head(answers) = "GRANTED" /\ OnGranted /\ mState = "Pending"
      BY <3>1, DeliverShifts DEF CoverInv, GrantCovered
    <3>2. CASE mState = "Acquired" /\ Head(answers) # "RELEASED"
      <4>1. PICK j \in DOMAIN answers : answers[j] = "RELEASED"
        BY <3>2 DEF CoverInv, UsersCovered, Posted
      <4> QED
        BY <3>2, <4>1, DeliverShifts
    <3> QED
      BY <3>1, <3>2 DEF Deliver, OnGranted, OnReleased, OnDenied, DropAll,
                        CloseComplete, nifVars
  <2>2. PICK j \in DOMAIN answers : j > 1 /\ answers[j] = "RELEASED"
    BY <2>1
  <2>3. j - 1 \in DOMAIN answers' /\ answers'[j - 1] = "RELEASED"
    BY <2>2, DeliverShifts
  <2> QED
    BY <2>3
<1> QED
  BY <1>1, <1>2 DEF CoverInv

LEMMA CoverStep ==
  ASSUME AfwTyping, CoverInv, [AfwNext]_vars
  PROVE  CoverInv'
<1>1. CASE Client \/ Restart \/ UNCHANGED vars
  <2>1. UNCHANGED <<holds, answers>>
    BY <1>1 DEF Client, Restart, afwVars, vars
  <2>2. mState' = "Acquired" => mState = "Acquired"
    BY <1>1 DEF Client, Restart, vars, nifVars, ClientStep, Subscribe, Refuse,
                SubscribeReleased, SubscribeQueued, SubscribeAcquired, Unsubscribe,
                UnsubscribeHeld, UnsubscribeReleasing, EngineUp
  <2> QED
    BY <2>1, <2>2 DEF CoverInv, UsersCovered, Posted, GrantCovered
<1>2. CASE Deliver
  BY <1>2, DeliverCovers
<1>3. CASE AfwRequest
  BY <1>3, PostCovers DEF AfwRequest, AfwTakes, Answer
<1>4. CASE AfwRelease
  <2>1. CASE Post("RELEASED")
    BY <1>4, <2>1, PostCovers DEF AfwRelease, AfwTakes, Answer
  <2>2. CASE ~holds /\ UNCHANGED answers
    BY <1>4, <2>2 DEF AfwRelease, AfwTakes, CoverInv, UsersCovered, Posted, GrantCovered
  <2> QED
    BY <1>4, <2>1, <2>2 DEF AfwRelease
<1>5. CASE AfwLoses
  BY <1>5, PostCovers DEF AfwLoses, nifVars, Answer
<1> QED
  BY <1>1, <1>2, <1>3, <1>4, <1>5 DEF AfwNext

LEMMA Covering == AfwSpec => []CoverInv
<1>1. Init => CoverInv
  BY DEF Init, NifInit, CoverInv, UsersCovered, GrantCovered
<1>2. AfwTyping /\ CoverInv /\ [AfwNext]_vars => CoverInv'
  BY CoverStep
<1> QED
  BY <1>1, <1>2, AfwInvariant, PTL DEF AfwSpec

\* Nobody is stranded on a dead connection: in Acquired the framework holds
\* it, or the news of its loss is under way.
THEOREM UsersAlwaysCovered == AfwSpec => []UsersCovered
<1>1. CoverInv => UsersCovered
  BY DEF CoverInv
<1> QED
  BY <1>1, Covering, PTL

-----------------------------------------------------------------------------
(***************************************************************************)
(* A machine that waits is owed an answer.  The command that ends the      *)
(* queue is the last one sent: so when a machine in Releasing loses the    *)
(* REQUEST that was still to be taken, its RELEASE is behind it.           *)
(***************************************************************************)
LastFits == cmds # <<>> => cmds[Len(cmds)] = lastCmd

\* Commands are only added by the machine, at the end.
LEMMA CommandsMove ==
  ASSUME ClientStep \/ AnswerStep \/ EngineUp
  PROVE  \/ UNCHANGED <<cmds, lastCmd>>
         \/ \E c \in Command : cmds' = Append(cmds, c) /\ lastCmd' = c
<1> USE DEF Command
<1>1. ASSUME NEW s \in Subscriber, Subscribe(s)
      PROVE  \/ UNCHANGED <<cmds, lastCmd>>
             \/ cmds' = Append(cmds, "REQUEST") /\ lastCmd' = "REQUEST"
  BY <1>1 DEF Subscribe, Refuse, SubscribeReleased, SubscribeQueued,
              SubscribeAcquired, SendRsrcRequest
<1>2. ASSUME NEW s \in Subscriber, Unsubscribe(s)
      PROVE  \/ UNCHANGED <<cmds, lastCmd>>
             \/ cmds' = Append(cmds, "RELEASE") /\ lastCmd' = "RELEASE"
  BY <1>2 DEF Unsubscribe, UnsubscribeHeld, UnsubscribeReleasing, SendRsrcRequest
<1>3. ASSUME AnswerStep
      PROVE  \/ UNCHANGED <<cmds, lastCmd>>
             \/ cmds' = Append(cmds, "REQUEST") /\ lastCmd' = "REQUEST"
  BY <1>3 DEF AnswerStep, OnGranted, OnReleased, OnDenied, DropAll, CloseComplete,
              SendRsrcRequest, nifVars
<1>4. CASE EngineUp
  BY <1>4 DEF EngineUp
<1> QED
  BY <1>1, <1>2, <1>3, <1>4 DEF ClientStep

LEMMA AppendKeeps ==
  ASSUME NifTypeOK, NEW c \in Command, cmds' = Append(cmds, c)
  PROVE  /\ cmds' # <<>> /\ cmds'[Len(cmds')] = c
         /\ Asked(c)'
         /\ \A d : Asked(d) => Asked(d)'
<1>1. /\ Len(cmds) \in Nat
      /\ DOMAIN cmds = 1 .. Len(cmds)
      /\ DOMAIN cmds' = 1 .. Len(cmds) + 1
      /\ Len(cmds') = Len(cmds) + 1
      /\ cmds'[Len(cmds) + 1] = c
      /\ \A i \in DOMAIN cmds : cmds'[i] = cmds[i]
  BY DEF NifTypeOK
<1>2. cmds' # <<>>
  BY <1>1
<1> QED
  BY <1>1, <1>2 DEF Asked

LEMMA TakeShifts ==
  ASSUME NifTypeOK, AfwTakes
  PROVE  /\ Len(cmds) \in Nat \ {0}
         /\ DOMAIN cmds = 1 .. Len(cmds)
         /\ DOMAIN cmds' = 1 .. Len(cmds) - 1
         /\ Len(cmds') = Len(cmds) - 1
         /\ \A i \in DOMAIN cmds' : cmds'[i] = cmds[i + 1]
         /\ Head(cmds) = cmds[1]
         /\ cmds' = <<>> <=> Len(cmds) = 1
<1>1. cmds # <<>> /\ cmds \in Seq(Command) /\ cmds' = Tail(cmds)
  BY DEF NifTypeOK, AfwTakes
<1>2. Len(cmds) \in Nat \ {0} /\ Head(cmds) = cmds[1]
  BY <1>1
<1>3. /\ DOMAIN cmds = 1 .. Len(cmds)
      /\ DOMAIN cmds' = 1 .. Len(cmds) - 1
      /\ Len(cmds') = Len(cmds) - 1
      /\ \A i \in DOMAIN cmds' : cmds'[i] = cmds[i + 1]
  BY <1>1
<1>4. cmds' \in Seq(Command)
  BY <1>1
<1>5. cmds' = <<>> <=> Len(cmds') = 0
  BY <1>4
<1> QED
  BY <1>2, <1>3, <1>5

\* What was asked for behind the command that is taken is asked for still.
LEMMA TakeKeeps ==
  ASSUME NifTypeOK, AfwTakes, NEW d, Asked(d), Head(cmds) # d
  PROVE  Asked(d)'
<1>1. PICK i \in DOMAIN cmds : cmds[i] = d
  BY DEF Asked
<1>2. i - 1 \in DOMAIN cmds' /\ cmds'[i - 1] = d
  BY <1>1, TakeShifts
<1> QED
  BY <1>2 DEF Asked

\* So is what was posted behind the answer that is handled.
LEMMA DeliverKeeps ==
  ASSUME AfwTyping, Deliver, NEW a, Posted(a), Head(answers) # a
  PROVE  Posted(a)'
<1>1. PICK i \in DOMAIN answers : answers[i] = a
  BY DEF Posted
<1>2. i - 1 \in DOMAIN answers' /\ answers'[i - 1] = a
  BY <1>1, DeliverShifts
<1> QED
  BY <1>2 DEF Posted

LEMMA PostPosts ==
  ASSUME AfwTyping, NEW a \in Answer, Post(a)
  PROVE  Posted(a)' /\ \A b : Posted(b) => Posted(b)'
  BY PostKeeps DEF Posted

LEMMA LastStep ==
  ASSUME NifTypeOK, LastFits, [AfwNext]_vars
  PROVE  LastFits'
<1>1. CASE AfwTakes
  BY <1>1, TakeShifts DEF LastFits, AfwTakes
<1>2. CASE ClientStep \/ AnswerStep \/ EngineUp
  BY <1>2, CommandsMove, AppendKeeps DEF LastFits
<1>3. CASE UNCHANGED nifVars
  BY <1>3 DEF LastFits, nifVars
<1> QED
  BY <1>1, <1>2, <1>3, AfwStepIsNifStep DEF NifStep

\* Clients and answers: whatever is owed stays owed, and a machine that
\* begins to wait has just sent the command.
LEMMA ClientOwes ==
  ASSUME NifInv, AfwTyping, CoverInv, Owed, Client
  PROVE  Owed'
<1>1. NifTypeOK /\ UNCHANGED <<holds, answers>>
  BY DEF NifInv, Client, afwVars
<1>2. \A d : Asked(d) => Asked(d)'
  BY <1>1, CommandsMove, AppendKeeps DEF Client, Asked
<1>3. mState' = "Pending" => Asked("REQUEST")' \/ Posted("GRANTED")' \/ Posted("DENIED")'
  <2>1. CASE mState = "Pending"
    BY <1>1, <1>2, <2>1 DEF Owed, Asked, Posted
  <2>2. ASSUME NEW s \in Subscriber, SubscribeReleased(s)
        PROVE  Asked("REQUEST")'
    <3>1. mSubscribers' \ mInactive # {}
      BY <2>2 DEF SubscribeReleased, NifInv, NifTypeOK, ListFitsState
    <3>2. cmds' = Append(cmds, "REQUEST")
      BY <2>2, <3>1 DEF SubscribeReleased, SendRsrcRequest
    <3> QED
      BY <1>1, <3>2, AppendKeeps DEF Command
  <2> QED
    BY <2>1, <2>2 DEF Client, ClientStep, Subscribe, Refuse, SubscribeQueued,
                      SubscribeAcquired, Unsubscribe, UnsubscribeHeld,
                      UnsubscribeReleasing
<1>4. mState' = "Releasing" => \/ holds' /\ Asked("RELEASE")'
                              \/ Asked("REQUEST")'
                              \/ Posted("RELEASED")' \/ Posted("DENIED")'
  <2>1. CASE mState = "Releasing"
    BY <1>1, <1>2, <2>1 DEF Owed, Asked, Posted
  <2>2. ASSUME NEW s \in Subscriber, UnsubscribeHeld(s), mState' = "Releasing"
        PROVE  \/ holds' /\ Asked("RELEASE")'
               \/ Asked("REQUEST")'
               \/ Posted("RELEASED")' \/ Posted("DENIED")'
    <3>1. cmds' = Append(cmds, "RELEASE")
      BY <2>2 DEF UnsubscribeHeld, SendRsrcRequest
    <3>2. Asked("RELEASE")'
      BY <1>1, <3>1, AppendKeeps DEF Command
    <3>3. CASE mState = "Acquired"
      BY <1>1, <3>2, <3>3 DEF CoverInv, UsersCovered, Posted
    <3>4. CASE mState = "Pending"
      BY <1>1, <1>2, <3>2, <3>4 DEF CoverInv, GrantCovered, Owed, Posted, Asked
    <3> QED
      BY <2>2, <3>3, <3>4 DEF UnsubscribeHeld
  <2> QED
    BY <2>1, <2>2 DEF Client, ClientStep, Subscribe, Refuse, SubscribeReleased,
                      SubscribeQueued, SubscribeAcquired, Unsubscribe,
                      UnsubscribeReleasing
<1> QED
  BY <1>3, <1>4 DEF Owed, Asked, Posted

LEMMA DeliverOwes ==
  ASSUME NifInv, AfwTyping, Owed, Deliver
  PROVE  Owed'
<1>1. NifTypeOK /\ holds' = holds
  BY DEF NifInv, Deliver
<1>2. AnswerStep
  BY DEF Deliver, AnswerStep
<1>3. \A d : Asked(d) => Asked(d)'
  BY <1>1, <1>2, CommandsMove, AppendKeeps DEF Asked
<1>4. mState' = "Pending" => Asked("REQUEST")' \/ Posted("GRANTED")' \/ Posted("DENIED")'
  <2>1. CASE mState = "Pending" /\ Head(answers) = "RELEASED"
    BY <1>3, <2>1, DeliverKeeps DEF Owed, Asked, Posted
  <2>2. ASSUME NEW what, CloseComplete(what), mState' = "Pending"
        PROVE  Asked("REQUEST")'
    <3>1. cmds' = Append(cmds, "REQUEST")
      BY <2>2 DEF CloseComplete, SendRsrcRequest
    <3> QED
      BY <1>1, <3>1, AppendKeeps DEF Command
  <2> QED
    BY <2>1, <2>2 DEF Deliver, OnGranted, OnReleased, OnDenied, DropAll, nifVars
<1>5. mState' = "Releasing" => mState = "Releasing" /\ Head(answers) = "GRANTED"
  BY DEF Deliver, OnGranted, OnReleased, OnDenied, DropAll, CloseComplete, nifVars
<1>6. mState' = "Releasing" => \/ holds' /\ Asked("RELEASE")'
                              \/ Asked("REQUEST")'
                              \/ Posted("RELEASED")' \/ Posted("DENIED")'
  BY <1>1, <1>3, <1>5, DeliverKeeps DEF Owed, Asked, Posted
<1> QED
  BY <1>4, <1>6 DEF Owed, Asked, Posted

LEMMA RequestTakenOwes ==
  ASSUME NifInv, AfwTyping, LastFits, Owed, AfwRequest
  PROVE  Owed'
<1>1. NifTypeOK /\ AfwTakes /\ Head(cmds) = "REQUEST" /\ mState' = mState
  BY DEF NifInv, AfwRequest, AfwTakes
<1>2. CASE Post("DENIED")
  <2>1. Posted("DENIED")'
    BY <1>2, PostPosts DEF Answer
  <2> QED
    BY <2>1 DEF Owed, Posted
<1>3. CASE Post("GRANTED") /\ holds' = TRUE
  <2>1. Posted("GRANTED")'
    BY <1>3, PostPosts DEF Answer
  <2>2. mState = "Releasing" => Asked("RELEASE")'
    <3> SUFFICES ASSUME mState = "Releasing" PROVE Asked("RELEASE")'
      OBVIOUS
    <3>1. lastCmd = "RELEASE"
      BY DEF NifInv, CommandFitsState
    <3>2. cmds[Len(cmds)] = "RELEASE"
      BY <1>1, <3>1 DEF LastFits, AfwTakes
    <3>3. Len(cmds) # 1
      BY <1>1, <3>2, TakeShifts
    <3>4. Len(cmds) - 1 \in DOMAIN cmds' /\ cmds'[Len(cmds) - 1] = "RELEASE"
      BY <1>1, <3>2, <3>3, TakeShifts
    <3> QED
      BY <3>4 DEF Asked
  <2> QED
    BY <1>1, <1>3, <2>1, <2>2 DEF Owed, Posted, Asked
<1> QED
  BY <1>2, <1>3 DEF AfwRequest

LEMMA ReleaseTakenOwes ==
  ASSUME NifInv, AfwTyping, Owed, AfwRelease
  PROVE  Owed'
<1>1. NifTypeOK /\ AfwTakes /\ Head(cmds) = "RELEASE" /\ mState' = mState
  BY DEF NifInv, AfwRelease, AfwTakes
<1>2. Asked("REQUEST") => Asked("REQUEST")'
  BY <1>1, TakeKeeps
<1>3. \A a : Posted(a) => Posted(a)'
  BY PostPosts DEF AfwRelease, Posted, Answer
<1>4. holds => Posted("RELEASED")'
  BY PostPosts DEF AfwRelease, Answer
<1> QED
  BY <1>1, <1>2, <1>3, <1>4 DEF Owed, Asked, Posted

LEMMA LossOwes ==
  ASSUME AfwTyping, Owed, AfwLoses
  PROVE  Owed'
<1>1. Posted("RELEASED")' /\ \A a : Posted(a) => Posted(a)'
  BY PostPosts DEF AfwLoses, Answer
<1>2. UNCHANGED <<mState, cmds>>
  BY DEF AfwLoses, nifVars
<1> QED
  BY <1>1, <1>2 DEF Owed, Asked, Posted

LEMMA OwedStep ==
  ASSUME NifInv, AfwTyping, CoverInv, LastFits, Owed, [AfwNext]_vars
  PROVE  Owed'
<1>1. CASE Restart \/ UNCHANGED vars
  BY <1>1 DEF Restart, EngineUp, afwVars, vars, nifVars, Owed, Asked, Posted
<1> QED
  BY <1>1, ClientOwes, DeliverOwes, RequestTakenOwes, ReleaseTakenOwes, LossOwes
     DEF AfwNext

\* A machine that waits is owed an answer: it never waits for one that does
\* not come.
THEOREM WaitersAreOwed == AfwSpec => []Owed
<1>1. Init => LastFits /\ Owed
  BY DEF Init, NifInit, LastFits, Owed
<1>2. NifInv /\ AfwTyping /\ CoverInv /\ LastFits /\ Owed /\ [AfwNext]_vars
        => (LastFits /\ Owed)'
  BY OwedStep, LastStep DEF NifInv
<1> QED
  BY <1>1, <1>2, AfwInvariant, Covering, PTL DEF AfwSpec

-----------------------------------------------------------------------------
(***************************************************************************)
(* No leak.  The framework takes the commands in order, so what it holds   *)
(* against the last command it has yet to be told to drop; a loss that is  *)
(* still to be handled was followed by a new grant; and a connection that  *)
(* nobody is about to give up or to claim is the machine's, or its GRANTED *)
(* was dropped.                                                            *)
(***************************************************************************)
DropAsked == holds /\ lastCmd = "RELEASE" => Asked("RELEASE")

GrantedSince ==
    \A i \in DOMAIN answers :
        answers[i] = "RELEASED" /\ holds =>
            \E j \in DOMAIN answers : j > i /\ answers[j] = "GRANTED"

Accounted ==
    holds => Asked("RELEASE") \/ Posted("GRANTED") \/ mState = "Acquired" \/ unclaimed

LeakInv == DropAsked /\ GrantedSince /\ Accounted

\* A command to take that is the last word is not the one that is taken now,
\* unless it is the same.
LEMMA LastWordStays ==
  ASSUME NifTypeOK, LastFits, AfwTakes, Head(cmds) = "REQUEST", lastCmd = "RELEASE"
  PROVE  Asked("RELEASE")'
<1>1. cmds[Len(cmds)] = "RELEASE"
  BY DEF LastFits, AfwTakes
<1>2. Len(cmds) # 1
  BY <1>1, TakeShifts
<1>3. Len(cmds) - 1 \in DOMAIN cmds' /\ cmds'[Len(cmds) - 1] = "RELEASE"
  BY <1>1, <1>2, TakeShifts
<1> QED
  BY <1>3 DEF Asked

\* Steps of the machine: the last command is in the queue or was the last
\* one before.
LEMMA SentAsks ==
  ASSUME NifTypeOK, ClientStep \/ AnswerStep \/ EngineUp, DropAsked, holds' = holds
  PROVE  DropAsked' /\ \A d : Asked(d) => Asked(d)'
<1>1. CASE UNCHANGED <<cmds, lastCmd>>
  BY <1>1 DEF DropAsked, Asked
<1>2. ASSUME NEW c \in Command, cmds' = Append(cmds, c), lastCmd' = c
      PROVE  DropAsked' /\ \A d : Asked(d) => Asked(d)'
  BY <1>2, AppendKeeps DEF DropAsked
<1> QED
  BY <1>1, <1>2, CommandsMove

LEMMA ClientLeaks ==
  ASSUME NifInv, LeakInv, Client
  PROVE  LeakInv'
<1>1. NifTypeOK /\ UNCHANGED <<holds, answers, unclaimed>> /\ ClientStep
  BY DEF NifInv, Client, afwVars
<1>2. DropAsked' /\ \A d : Asked(d) => Asked(d)'
  BY <1>1, SentAsks DEF LeakInv
<1>3. GrantedSince'
  BY <1>1 DEF LeakInv, GrantedSince
<1>4. mState = "Acquired" => mState' = "Acquired" \/ Asked("RELEASE")'
  <2>1. ASSUME NEW s \in Subscriber, UnsubscribeHeld(s), mState' # mState
        PROVE  Asked("RELEASE")'
    <3>1. cmds' = Append(cmds, "RELEASE")
      BY <2>1 DEF UnsubscribeHeld, SendRsrcRequest
    <3> QED
      BY <1>1, <3>1, AppendKeeps DEF Command
  <2> QED
    BY <1>1, <2>1 DEF ClientStep, Subscribe, Refuse, SubscribeReleased, SubscribeQueued,
                      SubscribeAcquired, Unsubscribe, UnsubscribeReleasing
<1>5. Accounted'
  BY <1>1, <1>2, <1>4 DEF LeakInv, Accounted, Posted
<1> QED
  BY <1>2, <1>3, <1>5 DEF LeakInv

LEMMA DeliverLeaks ==
  ASSUME NifInv, AfwTyping, LeakInv, Deliver
  PROVE  LeakInv'
<1>1. NifTypeOK /\ holds' = holds /\ AnswerStep
  BY DEF NifInv, Deliver, AnswerStep
<1>2. DropAsked' /\ \A d : Asked(d) => Asked(d)'
  BY <1>1, SentAsks DEF LeakInv
<1>3. GrantedSince'
  <2> SUFFICES ASSUME NEW i \in DOMAIN answers', answers'[i] = "RELEASED", holds
               PROVE  \E j \in DOMAIN answers' : j > i /\ answers'[j] = "GRANTED"
    BY <1>1 DEF GrantedSince
  <2>1. i + 1 \in DOMAIN answers /\ answers[i + 1] = "RELEASED"
    BY DeliverShifts
  <2>2. PICK j \in DOMAIN answers : j > i + 1 /\ answers[j] = "GRANTED"
    BY <2>1 DEF LeakInv, GrantedSince
  <2>3. j - 1 \in DOMAIN answers' /\ answers'[j - 1] = "GRANTED" /\ j - 1 > i
    BY <2>2, DeliverShifts
  <2> QED
    BY <2>3
<1>4. Accounted'
  <2> SUFFICES ASSUME holds, ~Asked("RELEASE")'
               PROVE  Posted("GRANTED")' \/ mState' = "Acquired" \/ unclaimed'
    BY <1>1 DEF Accounted
  <2>1. ~Asked("RELEASE") /\ lastCmd # "RELEASE"
    BY <1>2 DEF LeakInv, DropAsked
  <2>2. Posted("GRANTED") \/ mState = "Acquired" \/ unclaimed
    BY <2>1 DEF LeakInv, Accounted
  <2>3. CASE Head(answers) = "GRANTED"
    <3>1. mState # "Releasing"
      BY <2>1 DEF NifInv, CommandFitsState
    <3> QED
      BY <1>1, <2>3, <3>1 DEF Deliver, OnGranted, NifTypeOK, State, nifVars
  <2>4. CASE Head(answers) # "GRANTED" /\ Posted("GRANTED")
    BY <2>4, DeliverKeeps
  <2>5. CASE Head(answers) = "RELEASED"
    <3>1. 1 \in DOMAIN answers /\ answers[1] = "RELEASED"
      BY <2>5, DeliverShifts
    <3>2. Posted("GRANTED")
      BY <3>1 DEF LeakInv, GrantedSince, Posted
    <3> QED
      BY <2>5, <3>2, DeliverKeeps
  <2>6. CASE Head(answers) = "DENIED" /\ (mState = "Acquired" \/ unclaimed)
    BY <2>6 DEF Deliver, OnDenied, DropAll, CloseComplete, nifVars
  <2> QED
    BY <2>2, <2>3, <2>4, <2>5, <2>6 DEF Deliver
<1> QED
  BY <1>2, <1>3, <1>4 DEF LeakInv

LEMMA RequestTakenLeaks ==
  ASSUME NifInv, AfwTyping, LastFits, LeakInv, AfwRequest
  PROVE  LeakInv'
<1>1. /\ NifTypeOK /\ AfwTakes /\ Head(cmds) = "REQUEST"
      /\ UNCHANGED <<mState, lastCmd, unclaimed>>
  BY DEF NifInv, AfwRequest, AfwTakes
<1>2. DropAsked'
  BY <1>1, LastWordStays DEF DropAsked
<1>3. Asked("RELEASE") => Asked("RELEASE")'
  BY <1>1, TakeKeeps
<1>4. CASE Post("DENIED") /\ holds' = holds
  <2>1. GrantedSince'
    BY <1>4, PostKeeps DEF LeakInv, GrantedSince, Answer
  <2>2. Posted("GRANTED") => Posted("GRANTED")'
    BY <1>4, PostPosts DEF Answer
  <2> QED
    BY <1>1, <1>2, <1>3, <1>4, <2>1, <2>2 DEF LeakInv, Accounted
<1>5. CASE Post("GRANTED")
  <2>1. GrantedSince'
    BY <1>5, PostKeeps DEF GrantedSince, Answer
  <2>2. Posted("GRANTED")'
    BY <1>5, PostPosts DEF Answer
  <2> QED
    BY <1>2, <2>1, <2>2 DEF LeakInv, Accounted
<1> QED
  BY <1>4, <1>5 DEF AfwRequest

LEMMA LeakStep ==
  ASSUME NifInv, AfwTyping, LastFits, LeakInv, [AfwNext]_vars
  PROVE  LeakInv'
<1>1. CASE Client
  BY <1>1, ClientLeaks
<1>2. CASE Deliver
  BY <1>2, DeliverLeaks
<1>3. CASE Restart \/ UNCHANGED vars
  BY <1>3 DEF Restart, EngineUp, afwVars, vars, nifVars,
              LeakInv, DropAsked, GrantedSince, Accounted, Asked, Posted
<1>4. CASE AfwRequest
  BY <1>4, RequestTakenLeaks
<1>5. CASE AfwRelease \/ AfwLoses
  <2>1. holds' = FALSE
    BY <1>5 DEF AfwRelease, AfwLoses
  <2> QED
    BY <2>1 DEF LeakInv, DropAsked, GrantedSince, Accounted
<1> QED
  BY <1>1, <1>2, <1>3, <1>4, <1>5 DEF AfwNext

\* No connection is leaked but by a restart in Acquired or by a GRANTED that
\* is dropped in Released, in whatever order commands and answers cross.
THEOREM NothingLeaks == AfwSpec => []NoLeak
<1>1. Init => LastFits /\ LeakInv
  BY DEF Init, NifInit, LastFits, LeakInv, DropAsked, GrantedSince, Accounted
<1>2. NifInv /\ AfwTyping /\ LastFits /\ LeakInv /\ [AfwNext]_vars
        => (LastFits /\ LeakInv)'
  BY LeakStep, LastStep DEF NifInv
<1>3. NifInv /\ LeakInv => NoLeak
  <2> SUFFICES ASSUME NifInv, LeakInv, Quiet, holds
               PROVE  /\ lastCmd = "REQUEST"
                      /\ \/ mState = "Acquired" /\ (mActive # {} \/ orphaned)
                         \/ unclaimed
    BY DEF NoLeak
  <2>1. ~Asked("RELEASE") /\ ~Posted("GRANTED")
    BY DEF Quiet, Asked, Posted
  <2>2. lastCmd = "REQUEST"
    BY <2>1 DEF LeakInv, DropAsked, NifInv, NifTypeOK, Command
  <2>3. mState = "Acquired" \/ unclaimed
    BY <2>1 DEF LeakInv, Accounted
  <2> QED
    BY <2>2, <2>3 DEF NifInv, ListFitsState
<1> QED
  BY <1>1, <1>2, <1>3, AfwInvariant, PTL DEF AfwSpec
=============================================================================
