----------------------------- MODULE MsgChannel -----------------------------
(***************************************************************************)
(* What the message task promises to the code that posts to it: one        *)
(* channel for all threads, messages are handled in the order in which     *)
(* they were posted, each at most once, and every message is handled       *)
(* unless the task is closed; a closed task takes no more messages and     *)
(* gets rid of those it still has.                                         *)
(***************************************************************************)
EXTENDS Sequences

CONSTANT Post  \* what can be posted

VARIABLES chan,    \* posted and not yet taken up, oldest first
          closed,  \* the task was told to stop
          handled  \* what was taken up, in order

chanVars == <<chan, closed, handled>>

ChanInit ==
    /\ chan = <<>>
    /\ closed = FALSE
    /\ handled = <<>>

Put ==
    /\ ~closed
    /\ \E m \in Post : chan' = Append(chan, m)
    /\ UNCHANGED <<closed, handled>>

Take ==
    /\ chan # <<>>
    /\ handled' = Append(handled, Head(chan))
    /\ chan' = Tail(chan)
    /\ UNCHANGED closed

Close ==
    /\ ~closed
    /\ closed' = TRUE
    /\ UNCHANGED <<chan, handled>>

Discard ==
    /\ closed
    /\ chan' = <<>>
    /\ UNCHANGED <<closed, handled>>

ChanNext == Put \/ Take \/ Close \/ Discard

\* The order of what happens, and that what was posted is not left lying.
ChanSafe == ChanInit /\ [][ChanNext]_chanVars
ChanSpec == ChanSafe /\ WF_chanVars(Take \/ Discard)
=============================================================================
