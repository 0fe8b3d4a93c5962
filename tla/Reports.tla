------------------------------ MODULE Reports ------------------------------
(***************************************************************************)
(* The way of a report from the modem to the framework: LocApi walks the   *)
(* adapters, the LocEngAdapter posts what it is told to the MsgTask, and   *)
(* the handlers LocEngReportPosition and LocEngReportSv of loc_eng.cpp     *)
(* report it and have Nmea make its sentences.                             *)
(*                                                                         *)
(* What a report holds matters only to its handler and is chosen there;    *)
(* so are the mute of the session and the position mode, which are         *)
(* LocEngine's.                                                            *)
(***************************************************************************)
EXTENDS LocApi, Nmea

CONSTANTS SvReport, Position,
          INTERMEDIATE_POS   \* of gps.conf

ASSUME ReportsAssumption ==
    /\ SvReport \subseteq SvReportType
    /\ Position \subseteq PositionType
    /\ INTERMEDIATE_POS \in BOOLEAN

VARIABLES
    cache,   \* sv_used_mask and the DOP of loc_eng_data
    latest   \* history: the last satellite report with used satellites that was not muted

reportVars == <<apiVars, cache, latest>>

NoReport == [svs |-> <<>>, used |-> {}, dop |-> 0]

ReportsInit == ApiInit /\ cache = NoCache /\ latest = NoReport

Take(msg) ==
    /\ scan = NoScan /\ queue # <<>> /\ Head(queue).msg = msg
    /\ queue' = Tail(queue)

\* LocEngReportSv::proc
DoSv(r, muted) ==
    /\ Take("sv")
    /\ cache' = IF muted THEN cache ELSE CacheAfterSv(cache, r)
    /\ latest' = IF muted \/ r.used = {} THEN latest ELSE r
    /\ UNCHANGED <<clientVars, modemVars, scan, opened>>

\* Is the framework told: a failure, a final fix of satellites or sensors, or
\* any fix that is accurate enough where intermediate ones are wanted.
ReportedFix(p) ==
    \/ p.status = "failure"
    \/ p.status = "success" /\ p.tech
    \/ INTERMEDIATE_POS /\ p.accurate

\* LocEngReportPosition::proc.  Of a reported fix it reads the position mode
\* in loc_eng_data.adapter, which loc_eng_init may not have set: the end of
\* the process.  The blank sentences need no adapter.
DoPosition(p, muted) ==
    /\ Take("position")
    /\ LET reported == ReportedFix(p)
       IN  /\ stage' = IF ~muted /\ reported /\ stage = "built" THEN "crashed" ELSE stage
           /\ cache' = IF ~muted /\ p.gnss /\ p.tech
                       THEN CacheAfterPosition(cache, reported /\ p.status # "failure") ELSE cache
    /\ UNCHANGED <<mLocAdapters, registrar, changes, modemVars, scan, opened, latest>>

\* How the sentences may read the position mode: a single fix closes the
\* session and clears the mode before they do.
ReadStandalone ==
    {mode = "standalone" /\ ~single : mode \in {"standalone", "assisted"}, single \in BOOLEAN}

ReportsNext ==
    /\ stage # "crashed" /\ CallsReach
    /\ \/ ApiNext /\ UNCHANGED <<cache, latest>>
       \/ \E muted \in BOOLEAN :
              \/ \E r \in SvReport : DoSv(r, muted)
              \/ \E p \in Position : DoPosition(p, muted)

ReportsSpec == ReportsInit /\ [][ReportsNext]_reportVars
-----------------------------------------------------------------------------
ReportsTypeOK ==
    /\ mLocAdapters \in [Slot -> Adapter \cup {None}]
    /\ registrar \in [pc : {"rest", "post", "move", "clear", "close", "repost"},
                      who : Adapter \cup {None}, hole : Slot]
    /\ stage \in {"none", "base", "built", "assigned", "ready", "crashed"}
    /\ scan \in [next : -1 .. MAX_ADAPTERS, saw : Adapter \cup {None, Crash}, mask : SUBSET Adapter]
    /\ opened \subseteq Adapter /\ up \in BOOLEAN
    /\ walk.next \in -1 .. MAX_ADAPTERS /\ walk.taken \in 0 .. 1
    /\ cache \in [used : SUBSET Gps, dop : Nat]
    /\ latest \in SvReport \cup {NoReport}

PagesAgree == \A r \in SvReport : PagesTellAll(r.svs, Gps) /\ PagesTellAll(r.svs, Glonass)

(***************************************************************************)
(* Whatever position comes now, its sentences tell no satellite and no     *)
(* DOP but those of the last satellite report that had used ones, or its   *)
(* own; they agree on whether there is a place, and the number and the DOP *)
(* of $GPGGA are those of $GPGSA.  The pages of a satellite report tell    *)
(* each satellite of a constellation once.                                 *)
(***************************************************************************)
SentencesAgree ==
    /\ \A p \in Position, standalone \in ReadStandalone :
           LET told == ReportedFix(p) /\ p.status # "failure"
               s    == PositionSentences(cache, p, told, standalone)
           IN  SatellitesOf(s, latest) /\ DopOf(s, p, latest) /\ PlaceAgrees(s)
    /\ PagesAgree
=============================================================================
