----------------------------- MODULE MCDmnConn ------------------------------
(***************************************************************************)
(* DmnConn for TLC, and the claims that the code does not keep.            *)
(***************************************************************************)
EXTENDS DmnConn

CONSTANTS QUIPC, GPSONE_DAEMON, MODEM   \* two of the daemons; MODEM is refused

Ctrl(c, t, s) == [ctrl |-> c, type |-> t, sender |-> s, fits |-> TRUE]

\* Requests of a daemon of either kind, a release, ones that the handlers and
\* the switch refuse, and one that is too long for the buffer.
MCMessage ==
    { Ctrl("IF_REQUEST", "SUPL", GPSONE_DAEMON), Ctrl("IF_REQUEST", "WIFI", QUIPC),
      Ctrl("IF_RELEASE", "WIFI", QUIPC), Ctrl("IF_REQUEST", "SUPL", MODEM),
      Ctrl("IF_REQUEST", "invalid", QUIPC), Ctrl("RESPONSE", "ANY", QUIPC),
      [Ctrl("IF_REQUEST", "ANY", GPSONE_DAEMON) EXCEPT !.fits = FALSE] }

(***************************************************************************)
(* loc_eng_dmn_conn.cpp:138: "fail receiving msg from gpsone_daemon, retry *)
(* later".  The thread ends only when it was asked to.                     *)
(***************************************************************************)
RetriesLater == tpc = "ended" => upc # "out"

(***************************************************************************)
(* loc_eng_dmn_conn_thread_helper.c:108: thelper_signal_wait "will be      *)
(* blocked on the conditional variable until thelper_signal_ready is       *)
(* called".  With spurious wake-ups (Spurious = TRUE) it is not, and then  *)
(* neither NoStrayWrite nor CallsReturn holds.                             *)
(***************************************************************************)
WaitsUntilReady == lpc = "returned" => thread_ready

(***************************************************************************)
(* loc_eng_dmn_conn_thread_helper.c:291: "0: success".  A launch that      *)
(* returns 0 has opened the server's pipe.                                 *)
(***************************************************************************)
LaunchedServes == lpc = "returned" /\ ~thread_exit => fd[Server] = "open"
=============================================================================
