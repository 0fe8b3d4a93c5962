-------------------------------- MODULE Ril --------------------------------
(***************************************************************************)
(* d2lteRIL.java: the radio interface layer of the phone process.  A       *)
(* request is put on mRequestList and written to the socket of the modem's *)
(* daemon; one receiver thread reads what the daemon writes.  The class    *)
(* pre-processes the replies of three requests itself and leaves the       *)
(* others to its super class, whose code (outside this repository) removes *)
(* the request, decodes the reply with the methods overridden here, and    *)
(* answers an exception when the decoding throws.  In this class nothing   *)
(* catches: what a decoding throws ends the connection, and the super      *)
(* class answers the requests that are still on the list.                  *)
(***************************************************************************)
EXTENDS Integers, Sequences, Operators

CONSTANTS Serial,      \* the requests
          Version,     \* the versions a daemon may have
          MaxReplies,  \* bound: replies to one request
          MaxChanges   \* bound: changes of the phone type

ASSUME RilAssumption == Version \subseteq Nat /\ MaxReplies \in Nat /\ MaxChanges \in Nat

OwnKind  == {"voice", "data", "operator"}
Kind     == OwnKind \cup {"calls", "ims", "other"}
AtOnce   == {"static"}  \* the hardware configuration, the radio capability
NoReply  == [serial |-> "none", error |-> FALSE, body |-> "none", data |-> "none", at |-> 0]

VARIABLES
    kind,      \* what each request asks for, "unsent" before it is made
    list,      \* mRequestList
    sending,   \* the request whose write to the socket has not returned
    sent,      \* requests the daemon of this connection may reply to
    wire,      \* the replies in the socket
    pc,        \* where the receiver thread is
    reply,     \* the reply it handles
    seenGSM,   \* what isGSM was when it read it first in responseCallList
    isGSM,
    cache,     \* the static fields of Operators
    version,   \* mRilVersion, 0 before the first connection
    asked,     \* what was asked of the radio on this connection
    \* history
    answers,   \* answers each request has had
    lost,      \* requests whose reply could not be decoded here
    replies,   \* replies written to each request
    changes    \* changes of the phone type

requestVars == <<kind, list, sending, sent, answers, lost>>
radioVars   == <<version, asked>>
rilVars     == <<requestVars, radioVars, wire, pc, reply, seenGSM, isGSM, cache, replies, changes>>

RilInit ==
    /\ kind = [s \in Serial |-> "unsent"]
    /\ list = {} /\ sending = {} /\ sent = {} /\ wire = <<>>
    /\ pc = "idle" /\ reply = NoReply /\ seenGSM = FALSE
    /\ isGSM = FALSE
    /\ cache = EmptyCache
    /\ version = 0 /\ asked = {}
    /\ answers = [s \in Serial |-> 0]
    /\ lost = {}
    /\ replies = [s \in Serial |-> 0]
    /\ changes = 0

Answer(s) == answers' = [answers EXCEPT ![s] = @ + 1]

\* The receiver has handled a reply and reads the next.
Done == pc' = "idle" /\ reply' = NoReply

-----------------------------------------------------------------------------
(* The requests *)

\* dial and the requests of the super class: its sender thread lists one
\* and writes it before it takes the next.
Send(s, k) ==
    /\ kind[s] = "unsent" /\ sending = {}
    /\ k = "ims" => version >= 8
    /\ kind' = [kind EXCEPT ![s] = k]
    /\ list' = list \cup {s}
    /\ sending' = sending \cup {s}
    /\ sent' = sent \cup {s}
    /\ UNCHANGED <<answers, lost, radioVars, wire, pc, reply, seenGSM, isGSM, cache,
                   replies, changes>>

\* getHardwareConfig, getRadioCapability, getImsRegistrationState of an old RIL.
AnswerAtOnce(s, k) ==
    /\ kind[s] = "unsent"
    /\ k = "ims" => version < 8
    /\ kind' = [kind EXCEPT ![s] = k]
    /\ Answer(s)
    /\ UNCHANGED <<list, sending, sent, lost, radioVars, wire, pc, reply, seenGSM, isGSM, cache,
                   replies, changes>>

\* The sender thread of the super class.  A write that fails, perhaps after
\* the daemon has the request, answers what is still on the list.
WriteReturns(s) ==
    /\ s \in sending
    /\ sending' = sending \ {s}
    /\ UNCHANGED <<kind, list, sent, answers, lost, radioVars, wire, pc, reply, seenGSM,
                   isGSM, cache, replies, changes>>

WriteFails(s) ==
    /\ s \in sending
    /\ sending' = sending \ {s}
    /\ list' = list \ {s}
    /\ IF s \in list THEN Answer(s) ELSE UNCHANGED answers
    /\ UNCHANGED <<kind, sent, lost, radioVars, wire, pc, reply, seenGSM, isGSM, cache, replies,
                   changes>>

\* What the daemon may write for a request, and in which state of the phone.
Data(k) ==
    CASE k = "operator" -> (Text \cup {NoString}) \X (Text \cup {NoString})
      [] k = "calls"    -> {IF isGSM THEN "gsm" ELSE "cdma", "noCall"}
      [] k \in {"voice", "data"} -> {"fine", "notHex", "firstNull"}
      [] OTHER          -> {"fine"}

Reply(s, error, body, data) ==
    /\ s \in sent /\ asked # {}
    /\ replies[s] < MaxReplies
    /\ replies' = [replies EXCEPT ![s] = @ + 1]
    /\ wire' = Append(wire, [serial |-> s, error |-> error, body |-> body, data |-> data,
                             at |-> changes])
    /\ UNCHANGED <<requestVars, radioVars, pc, reply, seenGSM, isGSM, cache, changes>>

-----------------------------------------------------------------------------
(* What the decoding of a reply gives *)

\* responseVoiceDataRegistrationState: a GSM phone compares the first field
\* of a data registration, a CDMA phone reads four fields as numbers.
RegistrationThrows(k, d, gsm) ==
    \/ gsm /\ k = "data" /\ d = "firstNull"
    \/ ~gsm /\ k \in {"voice", "data"} /\ d = "notHex"

\* responseIccCardStatus: one USIM of a CDMA phone is told as three
\* applications; cdma is the index of the CDMA subscription.
CardStatus(apps, gsm) ==
    IF apps = <<"usim">> /\ ~gsm
    THEN [apps |-> <<"usim", "csim", "isim">>, cdma |-> 1]
    ELSE [apps |-> apps, cdma |-> IF Len(apps) = 2 THEN 1 ELSE -1]

-----------------------------------------------------------------------------
(* The receiver thread: processSolicited *)

\* Mutant: a reply to one of its own requests that says nothing is dropped.
LookupDrops ==
    /\ pc = "idle" /\ wire # <<>>
    /\ wire' = Tail(wire)
    /\ LET r == Head(wire)  own == r.serial \in list /\ kind[r.serial] \in OwnKind
       IN  IF own /\ r.error /\ r.body = "none" THEN Done
           ELSE reply' = r /\ pc' = IF own THEN "remove" ELSE "super"
    /\ UNCHANGED <<requestVars, radioVars, seenGSM, isGSM, cache, replies, changes>>

\* Under the lock of the list: is it a request of its own, with something
\* to decode?
Lookup ==
    /\ pc = "idle" /\ wire # <<>>
    /\ reply' = Head(wire)
    /\ wire' = Tail(wire)
    /\ LET r == Head(wire)
       IN  pc' = IF /\ r.serial \in list
                    /\ ~r.error \/ r.body # "none"
                    /\ kind[r.serial] \in OwnKind
                 THEN "remove" ELSE "super"
    /\ UNCHANGED <<requestVars, radioVars, seenGSM, isGSM, cache, replies, changes>>

\* Mutant: the request is read from the list and stays on it.
RemoveKept ==
    /\ pc = "remove"
    /\ IF reply.serial \in list THEN pc' = "decode" /\ UNCHANGED reply ELSE Done
    /\ UNCHANGED <<requestVars, radioVars, wire, seenGSM, isGSM, cache, replies, changes>>

\* findAndRemoveRequestFromList, which may find nothing any more.
Remove ==
    /\ pc = "remove"
    /\ IF reply.serial \in list THEN pc' = "decode" /\ UNCHANGED reply ELSE Done
    /\ list' = list \ {reply.serial}
    /\ UNCHANGED <<kind, sending, sent, answers, lost, radioVars, wire, seenGSM, isGSM,
                   cache, replies, changes>>

\* Strings that are no strings, an operator without two of them, or a
\* registration as above; no strings at all are no registration's fault.
Throws ==
    \/ reply.body = "odd"
    \/ reply.body = "none" /\ kind[reply.serial] = "operator"
    \/ reply.body = "data" /\ RegistrationThrows(kind[reply.serial], reply.data, isGSM)

\* The answer has no error even when the reply has one.
Decode ==
    /\ pc = "decode" /\ ~Throws
    /\ Done
    /\ Answer(reply.serial)
    /\ cache' = IF kind[reply.serial] = "operator" THEN CacheAfterBoth(cache, reply.data) ELSE cache
    /\ UNCHANGED <<kind, list, sending, sent, lost, radioVars, wire, seenGSM, isGSM, replies,
                   changes>>

\* What it throws ends the receiver's loop: the connection is closed and
\* clearRequestList answers the requests that are listed, which this one
\* no longer is.
Disconnect ==
    /\ answers' = [s \in Serial |-> IF s \in list THEN answers[s] + 1 ELSE answers[s]]
    /\ list' = {} /\ sent' = {} /\ wire' = <<>> /\ asked' = {}
    /\ Done

DecodeThrows ==
    /\ pc = "decode" /\ Throws
    /\ lost' = lost \cup {reply.serial}
    /\ Disconnect
    /\ UNCHANGED <<kind, sending, version, seenGSM, isGSM, cache, replies,
                   changes>>

\* The socket fails while the receiver waits for it.
ConnectionLost ==
    /\ pc = "idle" /\ sent # {}
    /\ Disconnect
    /\ UNCHANGED <<kind, sending, lost, version, seenGSM, isGSM, cache,
                   replies, changes>>

\* super.processSolicited: the reply is dropped, or answered as an error or
\* with what was decoded; a list of calls is decoded in steps.
SuperTake ==
    /\ pc = "super"
    /\ list' = list \ {reply.serial}
    /\ LET known == reply.serial \in list
           calls == /\ kind[reply.serial] = "calls" /\ ~reply.error
                    /\ reply.body = "data" /\ reply.data # "noCall"
       IN  \/ /\ ~known
              /\ Done
              /\ UNCHANGED answers
           \/ /\ known /\ ~calls
              /\ Done
              /\ Answer(reply.serial)
           \/ /\ known /\ calls
              /\ pc' = "call"
              /\ UNCHANGED <<reply, answers>>
    /\ UNCHANGED <<kind, sending, sent, lost, radioVars, wire, seenGSM, isGSM, cache, replies,
                   changes>>

\* responseCallList reads isGSM twice for a call, for the extra field after
\* the voice settings and for the three after the voice privacy.
CallBegin ==
    /\ pc = "call"
    /\ seenGSM' = isGSM
    /\ pc' = "callEnd"
    /\ UNCHANGED <<requestVars, radioVars, wire, reply, isGSM, cache, replies, changes>>

CallEnd ==
    /\ pc = "callEnd"
    /\ Done
    /\ seenGSM' = FALSE
    /\ Answer(reply.serial)
    /\ UNCHANGED <<kind, list, sending, sent, lost, radioVars, wire, isGSM, cache, replies,
                   changes>>

-----------------------------------------------------------------------------
(* processUnsolicited, and the phone type *)

\* RIL_UNSOL_RIL_CONNECTED, what a daemon writes first: mRilVersion is compared before it is set.
RilConnected(v) ==
    /\ pc = "idle" /\ asked = {}
    /\ asked' = {"powerOff", "networkType", "cdmaSource"}
                  \cup (IF version >= 8 THEN {"cellInfoRate"} ELSE {})
    /\ version' = v
    /\ UNCHANGED <<requestVars, wire, pc, reply, seenGSM, isGSM, cache, replies, changes>>

\* The framework's thread.
SetPhoneType(gsm) ==
    /\ changes < MaxChanges /\ gsm # isGSM
    /\ isGSM' = gsm
    /\ changes' = changes + 1
    /\ UNCHANGED <<requestVars, radioVars, wire, pc, reply, seenGSM, cache, replies>>

Receiver ==
    \/ Lookup \/ Remove \/ Decode \/ DecodeThrows
    \/ SuperTake \/ CallBegin \/ CallEnd

Requests ==
    \E s \in Serial :
        \/ \E k \in Kind : Send(s, k)
        \/ \E k \in AtOnce \cup {"ims"} : AnswerAtOnce(s, k)
        \/ WriteReturns(s)
        \/ WriteFails(s)

Daemon ==
    \/ \E s \in Serial, error \in BOOLEAN : \E body \in {"none", "odd", "data"} :
           \E data \in IF body = "data" THEN Data(kind[s]) ELSE {"none"} :
               Reply(s, error, body, data)
    \/ ConnectionLost
    \/ \E v \in Version : RilConnected(v)

RilNext ==
    \/ Requests
    \/ Daemon
    \/ Receiver
    \/ \E gsm \in BOOLEAN : SetPhoneType(gsm)

\* The receiver thread runs as long as there is something to read.
RilSpec == RilInit /\ [][RilNext]_rilVars /\ WF_rilVars(Receiver)
-----------------------------------------------------------------------------
RilTypeOK ==
    /\ kind \in [Serial -> Kind \cup AtOnce \cup {"unsent"}]
    /\ list \subseteq Serial /\ sending \subseteq Serial /\ sent \subseteq Serial
    /\ pc \in {"idle", "remove", "decode", "super", "call", "callEnd"}
    /\ pc # "idle" => reply.serial \in Serial
    /\ \A i \in DOMAIN wire : wire[i].serial \in Serial
    /\ seenGSM \in BOOLEAN /\ isGSM \in BOOLEAN
    /\ version \in Version \cup {0}
    /\ answers \in [Serial -> Nat]
    /\ lost \subseteq Serial
    /\ replies \in [Serial -> 0 .. MaxReplies]
    /\ changes \in 0 .. MaxChanges

\* The request the receiver has taken from the list and not yet answered.
InHand == IF pc \in {"decode", "call", "callEnd"} THEN {reply.serial} ELSE {}

(***************************************************************************)
(* A request that was made is in one place only: on the list, in the hands *)
(* of the receiver, or answered, once; or it was lost because its own      *)
(* reply could not be decoded.  The receiver, the sender thread and the    *)
(* end of a connection all take requests from the list to answer them.     *)
(***************************************************************************)
AccountedOnce ==
    /\ InHand \cap list = {}
    /\ \A s \in Serial :
           LET open == s \in list \cup InHand
           IN  /\ open => answers[s] = 0 /\ s \notin lost
               /\ s \in lost => answers[s] = 0
               /\ ~open /\ kind[s] # "unsent" /\ s \notin lost => answers[s] = 1

(***************************************************************************)
(* What replies are told as.  The names of an operator are those that a    *)
(* lookup without the remembered last one gives, whatever replies came     *)
(* before; a list of calls is read in the layout it was written in, unless *)
(* the phone type has changed since; and the CDMA subscription of a card   *)
(* is an application that the card is told to have.                        *)
(***************************************************************************)
OperatorsRight ==
    \A p \in (Text \cup {NoString}) \X (Text \cup {NoString}) :
        CheckedNames(cache, p) = <<Replaced(p[1]), Replaced(p[2])>>
CallsInFrame ==
    pc = "callEnd" /\ changes = reply.at => {seenGSM, isGSM} = {reply.data = "gsm"}
CardsRight ==
    \A apps \in {<<"usim">>, <<"sim">>, <<"usim", "csim">>} :
        LET card == CardStatus(apps, isGSM)
        IN  card.cdma = -1 \/ card.apps[card.cdma + 1] = "csim"
ToldRight == OperatorsRight /\ CallsInFrame /\ CardsRight

(***************************************************************************)
(* A request that the daemon has replied to is answered in the end, with   *)
(* the reply, an error, or the end of the connection, unless it is lost.   *)
(***************************************************************************)
RepliedIsAnswered ==
    \A s \in Serial :
        (\E i \in DOMAIN wire : wire[i].serial = s) ~> (answers[s] > 0 \/ s \in lost)
=============================================================================
