------------------------------- MODULE DmnConn -------------------------------
(***************************************************************************)
(* The connection of the data daemons (loc_eng_dmn_conn*.c[pp]): a thread  *)
(* made by the thread helper opens a named pipe from which it reads the    *)
(* daemons' requests, and one pipe per daemon for the answers.  Requests   *)
(* become messages of the MsgTask; the AGPS machines (AgpsNif) answer.     *)
(*                                                                         *)
(* A message is one write and two reads: its first field, msgsz, and then  *)
(* the rest.  Writes are shorter than PIPE_BUF and hence not interleaved.  *)
(* An open or a read may fail; a read is not repeated.  loc_api_handle is  *)
(* set before the thread exists and never NULL.  loc_eng_cleanup's calls   *)
(* of unblock and join are compiled out: they are modelled as interface.   *)
(***************************************************************************)
EXTENDS Naturals, Sequences

CONSTANTS
    Daemon,     \* IF_REQUEST_SENDER_ID_QUIPC, MSAPM, MSAPU, GPSONE_DAEMON
    Message,    \* the ctrl_msgbufs that they may send
    MaxSent,    \* bound: how many messages they send
    MaxFaults,  \* bound: how many opens or reads fail
    Spurious    \* whether pthread_cond_wait may return without a signal

RequestType == {"SUPL", "WIFI", "ANY"}
Server      == "server"   \* the pipe GPSONE_LOC_API_Q_PATH
Pipe        == {Server} \cup Daemon

\* What unblock_proc sends; only ctrl_type is set.
GPSONE_UNBLOCK == [ctrl |-> "UNBLOCK", type |-> "unset", sender |-> "unset", fits |-> TRUE]

\* fits: the message is not longer than the buffer of loc_api_server_proc.
ASSUME DmnAssumption ==
    /\ Server \notin Daemon
    /\ \A m \in Message : DOMAIN m = {"ctrl", "type", "sender", "fits"} /\ m.fits \in BOOLEAN
    /\ MaxSent \in Nat /\ MaxFaults \in Nat /\ Spurious \in BOOLEAN

VARIABLES
    fd,            \* each *_msgqid: "unset" (0), "open", "failed" (-1) or "closed"
    pipe,          \* what waits in the server's pipe
    thread_ready,
    thread_exit,
    lpc,           \* loc_eng_dmn_conn_launch_thelper
    tpc,           \* thelper_main and loc_api_server_proc
    msg,           \* *p_cmsgbuf
    upc,           \* the thread that calls unblock and join
    posted,        \* what the handlers sent to the MsgTask
    known,         \* daemons of whom the MsgTask took a request
    \* history
    read,          \* how many messages the thread has begun to read
    from,          \* the place in sent of every posted message
    served,        \* how many posted messages the MsgTask has taken
    sent,          \* what was written to the server's pipe
    faults,        \* how many opens and reads failed
    gaveUp,        \* loc_api_server_proc returned an error
    met            \* the states of the descriptors that were written to

helperVars  == <<thread_ready, thread_exit, lpc, upc>>
postVars    == <<posted, from>>
machineVars == <<postVars, known, served, read>>
dmnVars == <<fd, pipe, helperVars, tpc, msg, machineVars, sent, faults, gaveUp, met>>

DmnInit ==
    /\ fd = [p \in Pipe |-> "unset"]
    /\ pipe = <<>>
    /\ thread_ready = FALSE /\ thread_exit = FALSE
    /\ lpc = "idle" /\ tpc = "none" /\ upc = "out"
    /\ msg = GPSONE_UNBLOCK
    /\ posted = <<>> /\ from = <<>> /\ read = 0 /\ served = 0 /\ known = {}
    /\ sent = <<>> /\ faults = 0 /\ gaveUp = FALSE /\ met = {}

\* One write of a whole message: only an open pipe keeps it.
Units(m) == <<[part |-> "msgsz", of |-> m], [part |-> "rest", of |-> m]>>

msgsnd(m) ==
    IF fd[Server] = "open"
    THEN pipe' = pipe \o Units(m) /\ sent' = Append(sent, m)
    ELSE UNCHANGED <<pipe, sent>>

-----------------------------------------------------------------------------
(* The launch, on the framework's thread *)

\* thelper_signal_init and pthread_create.
Launch ==
    /\ lpc = "idle"
    /\ lpc' = "created"
    /\ tpc' = "start"
    /\ thread_ready' = FALSE /\ thread_exit' = FALSE
    /\ UNCHANGED <<fd, pipe, upc, msg, machineVars, sent, faults, gaveUp, met>>

\* Mutant: the wait does not look whether the thread is ready already.
WaitBlindly ==
    /\ lpc = "created"
    /\ lpc' = "waiting"
    /\ UNCHANGED <<fd, pipe, thread_ready, thread_exit, upc, tpc, msg, machineVars,
                   sent, faults, gaveUp, met>>

\* thelper_signal_wait up to the wait.
Wait ==
    /\ lpc = "created"
    /\ lpc' = IF thread_ready \/ thread_exit THEN "returned" ELSE "waiting"
    /\ UNCHANGED <<fd, pipe, thread_ready, thread_exit, upc, tpc, msg, machineVars,
                   sent, faults, gaveUp, met>>

\* The wait stands in an if: whatever ends it ends the launch.
Woken ==
    /\ \/ lpc = "woken"
       \/ lpc = "waiting" /\ Spurious
    /\ lpc' = "returned"
    /\ UNCHANGED <<fd, pipe, thread_ready, thread_exit, upc, tpc, msg, machineVars,
                   sent, faults, gaveUp, met>>

-----------------------------------------------------------------------------
(* thelper_main *)

\* pthread_cond_signal wakes the launch if it waits.
signal == lpc' = IF lpc = "waiting" THEN "woken" ELSE lpc

\* Mutant: the thread says that it is ready before it has opened the pipes.
StartReady ==
    /\ tpc = "start"
    /\ tpc' = "open"
    /\ thread_ready' = TRUE /\ signal
    /\ UNCHANGED <<fd, pipe, thread_exit, upc, msg, machineVars, sent, faults, gaveUp, met>>

Start ==
    /\ tpc = "start"
    /\ tpc' = "open"
    /\ UNCHANGED <<fd, pipe, helperVars, msg, machineVars, sent, faults, gaveUp, met>>

\* loc_api_server_proc_init opens the server's pipe first ...
OpenServer ==
    /\ tpc = "open"
    /\ tpc' = "open_answers"
    /\ \/ fd' = [fd EXCEPT ![Server] = "open"] /\ UNCHANGED faults
       \/ /\ faults < MaxFaults
          /\ faults' = faults + 1
          /\ fd' = [fd EXCEPT ![Server] = "failed"]
    /\ UNCHANGED <<pipe, helperVars, msg, machineVars, sent, gaveUp, met>>

\* ... then those of the answers; it returns 0 whatever happened.
OpenAnswers ==
    /\ tpc = "open_answers"
    /\ tpc' = "ready"
    /\ \E failing \in {{}} \cup {{d} : d \in Daemon} :
          /\ faults + (IF failing = {} THEN 0 ELSE 1) <= MaxFaults
          /\ faults' = faults + (IF failing = {} THEN 0 ELSE 1)
          /\ fd' = [p \in Pipe |-> IF p = Server THEN fd[p]
                                   ELSE IF p \in failing THEN "failed" ELSE "open"]
    /\ UNCHANGED <<pipe, helperVars, msg, machineVars, sent, gaveUp, met>>

\* thelper_signal_ready.
Ready ==
    /\ tpc = "ready"
    /\ tpc' = "msgsz"
    /\ thread_ready' = TRUE
    /\ signal
    /\ UNCHANGED <<fd, pipe, thread_exit, upc, msg, machineVars, sent, faults, gaveUp, met>>

\* Mutant: the thread reads again after an error, as the log says.
TryAgain ==
    /\ tpc \in {"msgsz", "rest"}
    /\ fd[Server] = "open"
    /\ faults < MaxFaults
    /\ faults' = faults + 1
    /\ gaveUp' = TRUE
    /\ tpc' = "test"
    /\ UNCHANGED <<fd, pipe, helperVars, msg, machineVars, sent, met>>

\* A read fails: loc_api_server_proc returns -1 and thelper_main leaves its loop.
ReadFails ==
    /\ tpc \in {"msgsz", "rest"}
    /\ \/ fd[Server] = "open" /\ faults < MaxFaults /\ faults' = faults + 1
       \/ fd[Server] # "open" /\ UNCHANGED faults
    /\ gaveUp' = TRUE
    /\ thread_exit' = TRUE
    /\ tpc' = "test"
    /\ UNCHANGED <<fd, pipe, thread_ready, lpc, upc, msg, machineVars, sent, met>>

\* The first read of msgrcv; a message that does not fit is an error as well.
ReadSize ==
    /\ tpc = "msgsz"
    /\ fd[Server] = "open"
    /\ pipe # <<>>
    /\ pipe' = Tail(pipe)
    /\ msg' = Head(pipe).of
    /\ read' = read + 1
    /\ \/ msg'.fits /\ tpc' = "rest" /\ UNCHANGED <<thread_exit, gaveUp>>
       \/ ~msg'.fits /\ tpc' = "test" /\ thread_exit' = TRUE /\ gaveUp' = TRUE
    /\ UNCHANGED <<fd, thread_ready, lpc, upc, postVars, known, served, sent, faults, met>>

\* The second read.
ReadRest ==
    /\ tpc = "rest"
    /\ fd[Server] = "open"
    /\ pipe # <<>>
    /\ pipe' = Tail(pipe)
    /\ tpc' = "handle"
    /\ UNCHANGED <<fd, helperVars, msg, machineVars, sent, faults, gaveUp, met>>

\* The messages for which the two handlers post a LocEngReqRelWifi or a
\* LocEngReqRelBIT.
if_request(m) == m.ctrl = "IF_REQUEST" /\ m.type \in RequestType /\ m.sender \in Daemon
if_release(m) == m.ctrl = "IF_RELEASE" /\ m.type \in RequestType /\ m.sender \in Daemon
IsRequest(m)  == if_request(m) \/ if_release(m)

\* LocEngReqRelWifi or LocEngReqRelBIT is sent to the MsgTask.
LocEngReqRel == posted' = Append(posted, msg) /\ from' = Append(from, read)

\* Mutant: a message that comes with the end of the thread is dropped.
HandleUnlessExit ==
    /\ tpc = "handle"
    /\ tpc' = "test"
    /\ IF IsRequest(msg) /\ ~thread_exit THEN LocEngReqRel ELSE UNCHANGED postVars
    /\ UNCHANGED <<fd, pipe, helperVars, msg, known, served, read, sent, faults, gaveUp, met>>

\* The switch of loc_api_server_proc, which ignores what the handlers return.
Handle ==
    /\ tpc = "handle"
    /\ tpc' = "test"
    /\ IF IsRequest(msg) THEN LocEngReqRel ELSE UNCHANGED postVars
    /\ UNCHANGED <<fd, pipe, helperVars, msg, known, served, read, sent, faults, gaveUp, met>>

\* while (thread_exit == 0)
Test ==
    /\ tpc = "test"
    /\ tpc' = IF thread_exit THEN "post" ELSE "msgsz"
    /\ UNCHANGED <<fd, pipe, helperVars, msg, machineVars, sent, faults, gaveUp, met>>

\* loc_api_server_proc_post closes and unlinks all pipes; the ids stay.
Post ==
    /\ tpc = "post"
    /\ tpc' = "ended"
    /\ fd' = [p \in Pipe |-> "closed"]
    /\ pipe' = <<>>
    /\ UNCHANGED <<helperVars, msg, machineVars, sent, faults, gaveUp, met>>

-----------------------------------------------------------------------------
(* Unblock and join, by the thread that launched *)

\* loc_eng_dmn_conn_unblock_thelper, without the mutex.
UnblockFlag ==
    /\ upc = "out" /\ lpc = "returned"
    /\ upc' = "flagged"
    /\ thread_exit' = TRUE
    /\ UNCHANGED <<fd, pipe, thread_ready, lpc, tpc, msg, machineVars,
                   sent, faults, gaveUp, met>>

\* loc_eng_dmn_conn_unblock_proc.
UnblockSend ==
    /\ upc = "flagged"
    /\ upc' = "joining"
    /\ msgsnd(GPSONE_UNBLOCK)
    /\ met' = met \cup {fd[Server]}
    /\ UNCHANGED <<fd, thread_ready, thread_exit, lpc, tpc, msg, machineVars, faults, gaveUp>>

Join ==
    /\ upc = "joining"
    /\ tpc = "ended"
    /\ upc' = "joined"
    /\ UNCHANGED <<fd, pipe, thread_ready, thread_exit, lpc, tpc, msg, machineVars,
                   sent, faults, gaveUp, met>>

-----------------------------------------------------------------------------
(* The daemons (external) and the MsgTask *)

DaemonSends(m) ==
    /\ fd[Server] = "open"
    /\ Len(sent) < MaxSent
    /\ msgsnd(m)
    /\ UNCHANGED <<fd, helperVars, tpc, msg, machineVars, faults, gaveUp, met>>

\* LocEngReqRelWifi::proc and LocEngReqRelBIT::proc.
Serve ==
    /\ served < Len(posted)
    /\ served' = served + 1
    /\ LET m == posted[served + 1] IN
       known' = IF m.ctrl = "IF_REQUEST" THEN known \cup {m.sender} ELSE known
    /\ UNCHANGED <<fd, pipe, helperVars, tpc, msg, postVars, read, sent, faults, gaveUp, met>>

\* loc_eng_dmn_conn_loc_api_server_data_conn, called whenever a subscriber is
\* granted, denied or released.
Answer(d) ==
    /\ d \in known
    /\ met' = met \cup {fd[d]}
    /\ UNCHANGED <<fd, pipe, helperVars, tpc, msg, machineVars, sent, faults, gaveUp>>

Launcher == Launch \/ Wait \/ Woken

Thread == \/ Start \/ OpenServer \/ OpenAnswers \/ Ready
          \/ ReadFails \/ ReadSize \/ ReadRest \/ Handle \/ Test \/ Post

Unblocker == UnblockFlag \/ UnblockSend \/ Join

DmnNext == \/ Launcher \/ Thread \/ Unblocker \/ Serve
           \/ \E m \in Message : DaemonSends(m)
           \/ \E d \in Daemon : Answer(d)

(***************************************************************************)
(* The threads run, and a launch or an unblock that began goes on.  The    *)
(* daemons, the AGPS machines and the first call of unblock are free.      *)
(***************************************************************************)
DmnSpec ==
    /\ DmnInit /\ [][DmnNext]_dmnVars
    /\ WF_dmnVars(Wait) /\ WF_dmnVars(Woken)
    /\ WF_dmnVars(Thread)
    /\ WF_dmnVars(UnblockSend) /\ WF_dmnVars(Join)

-----------------------------------------------------------------------------
(* Properties *)

(***************************************************************************)
(* The thread never takes the middle of a message for its length, although *)
(* either of the two reads may fail: a failed read is the thread's last.   *)
(***************************************************************************)
InFrame ==
    pipe # <<>> =>
        /\ tpc \in {"msgsz", "handle"} => Head(pipe).part = "msgsz"
        /\ tpc = "rest" => Head(pipe) = [part |-> "rest", of |-> msg]

\* The j-th message was posted, is in the thread's hands, or waits untouched in
\* the pipe, behind the rest of the one in hand and the ones written before it.
Behind    == IF tpc = "rest" THEN 1 ELSE 0
Posted(j) == \E i \in DOMAIN from : from[i] = j
InHand(j) == tpc \in {"rest", "handle"} /\ j = read /\ msg = sent[j]
InPipe(j) ==
    LET at == Behind + 2 * (j - read) IN
    /\ j > read /\ at <= Len(pipe)
    /\ pipe[at - 1] = [part |-> "msgsz", of |-> sent[j]]
    /\ pipe[at] = [part |-> "rest", of |-> sent[j]]

(***************************************************************************)
(* The MsgTask gets the requests of all daemons once each, in the order in *)
(* which they were written and without a gap; while the thread runs none   *)
(* is lost, also the ones that were written before the end was asked for.  *)
(***************************************************************************)
RequestsKept ==
    /\ Len(from) = Len(posted)
    /\ \A i \in DOMAIN from :
          from[i] \in 1 .. read /\ posted[i] = sent[from[i]] /\ IsRequest(posted[i])
    /\ \A i, k \in DOMAIN from : i < k => from[i] < from[k]
    /\ \A j \in DOMAIN sent : IsRequest(sent[j]) =>
          /\ j < read => Posted(j)
          /\ tpc \in {"msgsz", "rest", "handle", "test"} /\ ~gaveUp =>
                Posted(j) \/ InHand(j) \/ InPipe(j)

(***************************************************************************)
(* No answer and no unblock is written to a descriptor before it is opened *)
(* (it is 0 then, which is somebody else's file): the launch returns and   *)
(* requests are read only when all pipes have been opened.                 *)
(***************************************************************************)
NoStrayWrite == "unset" \notin met

(***************************************************************************)
(* A launch returns, whoever is faster, and so does a join after an        *)
(* unblock: the signal and the last message are not missed.                *)
(***************************************************************************)
CallsReturn == /\ lpc = "created" ~> lpc = "returned"
               /\ upc = "flagged" ~> upc = "joined"
=============================================================================
