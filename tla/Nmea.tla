-------------------------------- MODULE Nmea --------------------------------
(***************************************************************************)
(* loc_eng_nmea.cpp: the NMEA sentences that the engine makes of satellite *)
(* and position reports when the modem makes none.  A satellite report     *)
(* tells the satellites in view at once and caches which of them were used *)
(* for the fix (sv_used_mask) and its dilution of precision; the position  *)
(* report that follows tells those.                                        *)
(*                                                                         *)
(* A number of a report is told as it is, a value is told or is not: a     *)
(* field is the name of the value, or None.  The returns on an error of    *)
(* snprintf are left out: 200 characters hold every sentence.              *)
(***************************************************************************)
EXTENDS Integers, Sequences, FiniteSets, Picking

Gps     == 1 .. 32
Glonass == 65 .. 96
NoValue == "none"

\* A satellite report: the satellites in view (sv_list), the used_in_fix_mask
\* as the set of the satellites whose bit it has, and the DOP, 0 if it has none.
SvReportType == [svs : Seq(Nat), used : SUBSET Gps, dop : Nat]

\* What a position may hold, and what it is.
Flag == {"latlong", "bearing", "speed", "altitude", "meanSea", "magDev"}
PositionType == [has : SUBSET Flag, dop : Nat, status : {"success", "intermediate", "failure"},
                 tech : BOOLEAN, gnss : BOOLEAN, accurate : BOOLEAN]

\* sv_used_mask, and pdop, hdop and vdop.
NoCache == [used |-> {}, dop |-> 0]
-----------------------------------------------------------------------------
(* loc_eng_nmea_generate_sv *)

\* The indices of the satellites of the constellation c.
Those(svs, c) == {i \in DOMAIN svs : svs[i] \in c}

CountOf(svs, c) == Cardinality(Those(svs, c))

Sentences(n) == n \div 4 + (IF n % 4 # 0 THEN 1 ELSE 0)

\* svNumber after each sentence: four satellites of the constellation
\* further, or at the end of the list.
Stops(svs, c) ==
    LET Fourth(from) == {s \in Those(svs, c) :
                             Rank(Those(svs, c), s) = Rank(Those(svs, c), from) + 4}
        stop[k \in 0 .. Sentences(CountOf(svs, c))] ==
            IF k = 0 THEN 0
            ELSE IF Fourth(stop[k - 1]) = {} THEN Len(svs)
            ELSE CHOOSE s \in Fourth(stop[k - 1]) : TRUE
    IN  stop

\* $GPGSV and $GLGSV: a sentence for four satellites, one that has none
\* when none is in view.
GsvSentences(svs, c) ==
    LET n     == CountOf(svs, c)
        Of(k) == Picked(svs, {i \in Those(svs, c) : Stops(svs, c)[k - 1] < i /\ i <= Stops(svs, c)[k]})
    IN  IF n = 0 THEN <<[of |-> 1, number |-> 1, inView |-> 0, svs |-> <<>>]>>
        ELSE [k \in 1 .. Sentences(n) |->
                 [of |-> Sentences(n), number |-> k, inView |-> n, svs |-> Of(k)]]

\* Mutant: a report without DOP leaves the DOP of the last one.
CacheAfterSvKeepsDop(cache, r) ==
    IF r.used = {} THEN cache
    ELSE [used |-> r.used, dop |-> IF r.dop > 0 THEN r.dop ELSE cache.dop]

\* A report of no used satellite is followed by no position: it tells the
\* blank sentences at once and leaves the cache.
CacheAfterSv(cache, r) ==
    IF r.used = {} THEN cache ELSE [used |-> r.used, dop |-> r.dop]
-----------------------------------------------------------------------------
(* loc_eng_nmea_generate_pos *)

\* svUsedList: the bits of the mask in ascending order.
UsedList(used) == Picked([i \in Gps |-> i], used)

\* The position's own DOP, or the one of the satellite report.
DopTold(cache, p) == IF p.dop > 0 THEN p.dop ELSE cache.dop

\* $GPGSA has room for twelve satellites.
Gsa(cache, p) ==
    LET svUsedList == UsedList(cache.used)
        n          == Len(svUsedList)
    IN  [fix |-> IF n = 0 THEN "1" ELSE IF n <= 3 THEN "2" ELSE "3",
         svs |-> SubSeq(svUsedList, 1, IF n <= 12 THEN n ELSE 12),
         dop |-> DopTold(cache, p)]

Told(p, flag) == IF flag \in p.has THEN flag ELSE NoValue

\* N: no fix, A: autonomous, D: differential.
ModeOf(p, standalone) ==
    IF "latlong" \notin p.has THEN "N" ELSE IF standalone THEN "A" ELSE "D"

\* The magnetic track is the bearing, too: the deviation is subtracted in a
\* variable of an inner scope.
Vtg(p, standalone) ==
    [track |-> Told(p, "bearing"), magnetic |-> Told(p, "bearing"), speed |-> Told(p, "speed"),
     mode |-> ModeOf(p, standalone)]

\* The status is A, valid, whether or not the position has a place.
Rmc(p, standalone) ==
    [status |-> "A", place |-> Told(p, "latlong"), speed |-> Told(p, "speed"),
     track |-> Told(p, "bearing"), variation |-> Told(p, "magDev"), mode |-> ModeOf(p, standalone)]

Gga(cache, p, standalone) ==
    [place |-> Told(p, "latlong"), svs |-> Cardinality(cache.used),
     quality |-> CASE ModeOf(p, standalone) = "N" -> 0 [] ModeOf(p, standalone) = "A" -> 1 [] OTHER -> 2,
     dop |-> DopTold(cache, p), altitude |-> Told(p, "meanSea"),
     geoid |-> IF {"altitude", "meanSea"} \subseteq p.has THEN "altitude" ELSE NoValue]

\* The four sentences that tell nothing.
Blank ==
    [gsa |-> [fix |-> "1", svs |-> <<>>, dop |-> 0],
     vtg |-> [track |-> NoValue, magnetic |-> NoValue, speed |-> NoValue, mode |-> "N"],
     rmc |-> [status |-> "V", place |-> NoValue, speed |-> NoValue, track |-> NoValue,
              variation |-> NoValue, mode |-> "N"],
     gga |-> [place |-> NoValue, svs |-> 0, quality |-> 0, dop |-> 0, altitude |-> NoValue,
              geoid |-> NoValue]]

PositionSentences(cache, p, told, standalone) ==
    IF told THEN [gsa |-> Gsa(cache, p), vtg |-> Vtg(p, standalone), rmc |-> Rmc(p, standalone),
                  gga |-> Gga(cache, p, standalone)]
    ELSE Blank

\* The satellites are told once; the DOP is dropped by any position.
CacheAfterPosition(cache, told) ==
    [used |-> IF told THEN {} ELSE cache.used, dop |-> 0]
-----------------------------------------------------------------------------
\* The parts of SentencesAgree, of a cache, the last satellite report that
\* had used satellites, and a position.
SatellitesOf(s, latest) ==
    /\ {s.gsa.svs[i] : i \in DOMAIN s.gsa.svs} \subseteq latest.used
    /\ s.gga.svs \in {0, Cardinality(latest.used)}
    /\ s.gsa.fix = "1" <=> s.gga.svs = 0

DopOf(s, p, latest) ==
    /\ s.gga.dop = s.gsa.dop
    /\ s.gsa.dop > 0 /\ s.gsa.dop # p.dop => s.gsa.dop = latest.dop /\ s.gsa.svs # <<>>

PlaceAgrees(s) ==
    /\ s.vtg.mode = s.rmc.mode /\ (s.gga.quality = 0 <=> s.rmc.mode = "N")
    /\ s.gga.place = s.rmc.place /\ (s.gga.place = NoValue <=> s.gga.quality = 0)

\* The pages tell every satellite of the constellation, in order.
PagesTellAll(svs, c) ==
    LET pages == GsvSentences(svs, c)
        told  == Picked(svs, Those(svs, c))
    IN  \A k \in DOMAIN pages :
            /\ pages[k].of = Len(pages) /\ Len(pages[k].svs) <= 4
            /\ pages[k].svs = SubSeq(told, 4 * k - 3, IF k < Len(pages) THEN 4 * k ELSE Len(told))
=============================================================================
