------------------------- MODULE SettingsRilProofs --------------------------
(***************************************************************************)
(* Theorems for any constants about the settings of the modem and about    *)
(* the radio interface layer; the two share no variable.                   *)
(*                                                                         *)
(* DataStatusAgrees and Configured of LocSettings are about states in      *)
(* which nothing is under way.  StatusInv and TaughtInv say them of all    *)
(* states: where the last data status and each parameter are while         *)
(* something is, or why they will be sent again.  That what is sent is     *)
(* what the files say rests on ConfigRead.                                 *)
(*                                                                         *)
(* AccountedOnce and ToldRight of Ril are for any requests, versions,      *)
(* operators and bounds.                                                   *)
(***************************************************************************)
EXTENDS LocSettings, Ril, PickingProofs

\* A sequence of messages.
IsQueue(q) == \E S : q \in Seq(S)

\* A modem, whatever it was told.
IsModem(m) ==
    m \in [up : BOOLEAN, open : BOOLEAN, lock : {m.lock},
           told : [conf : {m.told.conf}, data : {m.told.data}, apn : {m.told.apn}, server : {m.told.server}]]

SettingsTyped ==
    /\ IsQueue(queue)
    /\ IsModem(modem)
    /\ wanted \in [data : DataStatus, server : {wanted.server}, lock : {wanted.lock}]

\* Is the client open when the message at index i is handled.
Opens(i) == modem.open \/ \E j \in DOMAIN queue : j < i /\ queue[j].of \in {"open", "ssr"}

\* The last data status that is on its way is the one that is wanted.
Newest ==
    \/ untold \/ raced \/ fpc # NoData
    \/ mpc # NoData /\ mpc.data.enable = wanted.data
    \/ /\ mpc = NoData
       /\ \/ \E i \in DOMAIN queue :
                 /\ queue[i].of = "data" /\ queue[i].enable = wanted.data
                 /\ \A j \in DOMAIN queue : i < j => queue[j].of # "data"
          \/ /\ \A i \in DOMAIN queue : queue[i].of # "data"
             /\ modem.told.data = wanted.data

\* Everything will be sent again, to a client that is open by then.
Renewed ==
    \/ ~modem.up
    \/ upDue /\ Opens(Len(queue) + 1)
    \/ \E i \in DOMAIN queue : queue[i].of \in {"init", "up"} /\ Opens(i)

StatusInv ==
    /\ agpsStatus = wanted.data
    /\ fpc # NoData => adapter /\ fpc.of = "data" /\ fpc.enable = wanted.data
    /\ mpc # NoData => mpc.data.of = "data"
    /\ adapter => Renewed \/ (modem.open /\ Newest)

\* A step that takes no reason away to send everything again.
Renews == Renewed => Renewed'

LEMMA Posted ==
    ASSUME IsQueue(queue), NEW ms, IsQueue(ms), queue' = queue \o ms
    PROVE  /\ IsQueue(queue') /\ Len(queue) \in Nat /\ Len(ms) \in Nat
           /\ DOMAIN queue = 1 .. Len(queue) /\ DOMAIN ms = 1 .. Len(ms)
           /\ Len(queue') = Len(queue) + Len(ms) /\ DOMAIN queue' = 1 .. Len(queue) + Len(ms)
           /\ \A i \in 1 .. Len(queue) : queue'[i] = queue[i]
           /\ \A i \in 1 .. Len(ms) : queue'[Len(queue) + i] = ms[i]
<1>1. PICK S, T : queue \in Seq(S) /\ ms \in Seq(T)
  BY DEF IsQueue
<1>2. queue \in Seq(S \cup T) /\ ms \in Seq(S \cup T)
  BY <1>1
<1>3. queue' \in Seq(S \cup T)
  BY <1>2
<1> QED BY <1>2, <1>3 DEF IsQueue

LEMMA TakenHead ==
    ASSUME IsQueue(queue), queue # <<>>, NEW ms, IsQueue(ms), queue' = Tail(queue) \o ms
    PROVE  /\ IsQueue(queue') /\ Len(queue) \in Nat \ {0} /\ Len(ms) \in Nat
           /\ Head(queue) = queue[1]
           /\ DOMAIN queue = 1 .. Len(queue) /\ DOMAIN ms = 1 .. Len(ms)
           /\ Len(queue') = Len(queue) - 1 + Len(ms) /\ DOMAIN queue' = 1 .. Len(queue) - 1 + Len(ms)
           /\ \A i \in 2 .. Len(queue) : queue'[i - 1] = queue[i]
           /\ \A i \in 1 .. Len(ms) : queue'[Len(queue) - 1 + i] = ms[i]
<1>1. PICK S, T : queue \in Seq(S) /\ ms \in Seq(T)
  BY DEF IsQueue
<1>2. queue \in Seq(S \cup T) /\ ms \in Seq(S \cup T) /\ Len(queue) \in Nat \ {0}
  BY <1>1
<1> PICK t : t = Tail(queue)
  OBVIOUS
<1>3. /\ t \in Seq(S \cup T) /\ Len(t) = Len(queue) - 1
      /\ \A i \in 1 .. Len(t) : t[i] = queue[i + 1]
  BY <1>2
<1>4. queue' = t \o ms
  OBVIOUS
<1>5. /\ queue' \in Seq(S \cup T) /\ Len(queue') = Len(t) + Len(ms)
      /\ \A i \in 1 .. Len(t) : queue'[i] = t[i]
      /\ \A i \in 1 .. Len(ms) : queue'[Len(t) + i] = ms[i]
  BY <1>2, <1>3, <1>4
<1>6. \A i \in 2 .. Len(queue) : queue'[i - 1] = queue[i]
  BY <1>2, <1>3, <1>5
<1> QED BY <1>2, <1>3, <1>5, <1>6 DEF IsQueue

\* What is posted brings neither a data status nor a reopened client.
Apart(ms) == IsQueue(ms) /\ \A i \in DOMAIN ms : ms[i].of \in {"lock", "server", "conf"}

LEMMA BufferedApart == Apart(Buffered) /\ \A i \in DOMAIN Buffered : Buffered[i].of = "server"
<1> DEFINE Of(t) == IF buffered[t] = Unknown THEN <<>> ELSE <<SetServer(t, buffered[t])>>
<1>1. ASSUME NEW t PROVE Of(t) \in Seq({m \in {SetServer(t, buffered[t])} : m.of = "server"})
  <2> PICK m : m = SetServer(t, buffered[t])
    OBVIOUS
  <2>1. m.of = "server"
    BY DEF SetServer
  <2>2. Of(t) = <<>> \/ Of(t) = <<m>>
    OBVIOUS
  <2>3. m \in {x \in {m} : x.of = "server"}
    BY <2>1
  <2>4. <<>> \in Seq({x \in {m} : x.of = "server"}) /\ <<m>> \in Seq({x \in {m} : x.of = "server"})
    BY <2>3
  <2> HIDE DEF Of
  <2> QED BY <2>2, <2>4
<1> HIDE DEF Of
<1> PICK s : s = Of("SUPL")
  OBVIOUS
<1> PICK c : c = Of("C2K")
  OBVIOUS
<1>2. Buffered = s \o c
  BY DEF Buffered, Of
<1> PICK S : S = {m \in {SetServer("SUPL", buffered["SUPL"]), SetServer("C2K", buffered["C2K"])} : m.of = "server"}
  OBVIOUS
<1>3. s \in Seq(S) /\ c \in Seq(S)
  <2>1. s \in Seq({m \in {SetServer("SUPL", buffered["SUPL"])} : m.of = "server"})
    BY <1>1
  <2>2. c \in Seq({m \in {SetServer("C2K", buffered["C2K"])} : m.of = "server"})
    BY <1>1
  <2> QED BY <2>1, <2>2
<1>4. Buffered \in Seq(S)
  BY <1>2, <1>3
<1>5. \A i \in DOMAIN Buffered : Buffered[i].of = "server"
  BY <1>4
<1> QED BY <1>4, <1>5 DEF Apart, IsQueue

\* The messages of loc_eng_reinit that have something to tell.
Due == {i \in DOMAIN Setting : Told(Setting[i]) # {}}

LEMMA ConfigurationIs ==
    /\ Configuration \in Seq(Range(Configuration))
    /\ \A n \in DOMAIN Configuration :
           \E i \in Due : Configuration[n] = ConfMsg(Restrict(conf.value, Told(Setting[i])))
    /\ \A i \in Due :
           \E n \in DOMAIN Configuration :
               Configuration[n] = ConfMsg(Restrict(conf.value, Told(Setting[i])))
<1> PICK l : l = Len(Setting)
  OBVIOUS
<1> PICK at : at = Due
  OBVIOUS
<1> PICK due : due = Picked(Setting, at)
  OBVIOUS
<1> PICK k : k = Cardinality(at)
  OBVIOUS
<1>1. l \in Nat /\ DOMAIN Setting = 1 .. l
  BY SettingsAssumption
<1>2. IndexSet(at)
  <2>1. at \subseteq 1 .. l
    BY <1>1 DEF Due
  <2> QED BY <1>1, <2>1 DEF IndexSet
<1>3. k \in Nat /\ DOMAIN due = 1 .. k
  BY <1>2, PickedIs
<1>4. Configuration = [n \in DOMAIN due |-> ConfMsg(Restrict(conf.value, Told(due[n])))]
  BY DEF Configuration, Due
<1>5. \A i \in at : Rank(at, i) \in 1 .. k /\ due[Rank(at, i)] = Setting[i]
  <2>1. \A i \in at : Rank(at, i) \in 1 .. Cardinality(at) /\ Picked(Setting, at)[Rank(at, i)] = Setting[i]
    BY <1>2, PickedIs
  <2> QED BY <2>1
<1>6. \A n \in 1 .. k : \E i \in at : due[n] = Setting[i]
  <2>1. \A n \in 1 .. Cardinality(at) : \E i \in at : Rank(at, i) = n /\ Picked(Setting, at)[n] = Setting[i]
    BY <1>2, PickedIs
  <2> QED BY <2>1
<1>7. Configuration \in Seq(Range(Configuration))
  <2> PICK w : w = Configuration
    OBVIOUS
  <2>1. w = [n \in 1 .. k |-> w[n]]
    BY <1>3, <1>4
  <2>2. DOMAIN w = 1 .. k /\ \A n \in 1 .. k : w[n] \in Range(w)
    BY <2>1 DEF Range
  <2>3. w \in [1 .. k -> Range(w)]
    BY <2>1, <2>2
  <2> QED BY <1>3, <2>3
<1>8. ASSUME NEW n \in DOMAIN Configuration
      PROVE  \E i \in at : Configuration[n] = ConfMsg(Restrict(conf.value, Told(Setting[i])))
  <2>1. n \in DOMAIN due /\ Configuration[n] = ConfMsg(Restrict(conf.value, Told(due[n])))
    BY <1>4
  <2>2. PICK i \in at : due[n] = Setting[i]
    BY <1>3, <1>6, <2>1
  <2> QED BY <2>1, <2>2
<1>9. ASSUME NEW i \in at
      PROVE  \E n \in DOMAIN Configuration : Configuration[n] = ConfMsg(Restrict(conf.value, Told(Setting[i])))
  <2> PICK n : n = Rank(at, i)
    OBVIOUS
  <2>1. n \in DOMAIN due /\ due[n] = Setting[i]
    BY <1>3, <1>5
  <2>2. n \in DOMAIN Configuration /\ Configuration[n] = ConfMsg(Restrict(conf.value, Told(due[n])))
    BY <1>4, <2>1
  <2> QED BY <2>1, <2>2
<1> QED BY <1>7, <1>8, <1>9

LEMMA ConfigurationApart == Apart(Configuration)
<1>1. \A v : ConfMsg(v).of = "conf"
  BY DEF ConfMsg
<1>2. \A i \in DOMAIN Configuration : Configuration[i].of = "conf"
  BY <1>1, ConfigurationIs
<1> QED BY <1>2, ConfigurationIs DEF Apart, IsQueue

\* What is posted at the tail changes nothing of what was on its way.
LEMMA PostKeeps ==
    ASSUME SettingsTyped, StatusInv, adapter' = adapter, NEW ms, Apart(ms), queue' = queue \o ms,
           agpsStatus' = agpsStatus, modem' = modem, upDue' = upDue, fpc' = fpc, mpc' = mpc,
           wanted'.data = wanted.data, untold' = untold, raced' = raced
    PROVE  StatusInv' /\ Renews
<1> PICK n : n = Len(queue)
  OBVIOUS
<1> PICK k : k = Len(ms)
  OBVIOUS
<1>1. /\ n \in Nat /\ k \in Nat /\ DOMAIN queue = 1 .. n /\ DOMAIN queue' = 1 .. n + k
      /\ Len(queue') = n + k
      /\ \A i \in 1 .. n : queue'[i] = queue[i]
      /\ \A i \in n + 1 .. n + k : queue'[i].of # "data"
  <2>1. /\ Len(queue) \in Nat /\ Len(ms) \in Nat /\ DOMAIN ms = 1 .. Len(ms)
        /\ DOMAIN queue = 1 .. Len(queue) /\ DOMAIN queue' = 1 .. Len(queue) + Len(ms)
        /\ Len(queue') = Len(queue) + Len(ms)
        /\ \A i \in 1 .. Len(queue) : queue'[i] = queue[i]
        /\ \A i \in 1 .. Len(ms) : queue'[Len(queue) + i] = ms[i]
    BY Posted DEF SettingsTyped, Apart
  <2>2. ASSUME NEW i \in n + 1 .. n + k PROVE queue'[i].of # "data"
    <3>1. i - n \in 1 .. Len(ms) /\ i = Len(queue) + (i - n)
      BY <2>1
    <3> QED BY <2>1, <3>1 DEF Apart
  <2> QED BY <2>1, <2>2
<1>2. Renewed => Renewed'
  <2>1. ASSUME NEW i \in Nat, Opens(i) PROVE Opens(i)'
    BY <1>1, <2>1 DEF Opens
  <2>2. Opens(n + 1) => Opens(n + k + 1)'
    BY <1>1 DEF Opens
  <2> QED BY <1>1, <2>1, <2>2 DEF Renewed
<1>3. Newest => Newest'
  <2>0. \A j \in 1 .. n + k : j \in 1 .. n \/ j \in n + 1 .. n + k
    BY <1>1
  <2>1. ASSUME NEW i \in DOMAIN queue, queue[i].of = "data", queue[i].enable = wanted.data,
               \A j \in DOMAIN queue : i < j => queue[j].of # "data"
        PROVE  /\ i \in DOMAIN queue' /\ queue'[i].of = "data" /\ queue'[i].enable = wanted.data
               /\ \A j \in DOMAIN queue' : i < j => queue'[j].of # "data"
    BY <1>1, <2>0, <2>1
  <2>2. (\A i \in DOMAIN queue : queue[i].of # "data") => (\A i \in DOMAIN queue' : queue'[i].of # "data")
    BY <1>1, <2>0
  <2> QED BY <2>1, <2>2 DEF Newest
<1> QED BY <1>2, <1>3 DEF StatusInv, Renews

\* Nor does the handling of a message that is of none of these.
LEMMA TakeKeeps ==
    ASSUME SettingsTyped, StatusInv, queue # <<>>, Head(queue).of \in {"lock", "server", "conf"},
           queue' = Tail(queue) \o <<>>, adapter' = adapter, agpsStatus' = agpsStatus,
           modem'.up = modem.up, modem'.open = modem.open,
           modem.open => modem'.told.data = modem.told.data,
           upDue' = upDue, fpc' = fpc, mpc' = mpc, wanted' = wanted, untold' = untold, raced' = raced
    PROVE  StatusInv' /\ Renews
<1> PICK n : n = Len(queue)
  OBVIOUS
<1>1. /\ n \in Nat \ {0} /\ DOMAIN queue = 1 .. n /\ DOMAIN queue' = 1 .. n - 1
      /\ Len(queue') = n - 1 /\ queue[1].of \in {"lock", "server", "conf"}
      /\ \A i \in 2 .. n : i - 1 \in DOMAIN queue' /\ queue'[i - 1] = queue[i]
      /\ \A i \in 1 .. n - 1 : i + 1 \in DOMAIN queue /\ queue'[i] = queue[i + 1]
  <2>1. IsQueue(<<>>) /\ Len(<<>>) = 0
    BY DEF IsQueue
  <2>2. /\ n \in Nat \ {0} /\ DOMAIN queue = 1 .. n /\ DOMAIN queue' = 1 .. n - 1
        /\ Len(queue') = n - 1 /\ Head(queue) = queue[1]
        /\ \A i \in 2 .. n : queue'[i - 1] = queue[i]
    BY <2>1, TakenHead DEF SettingsTyped
  <2>3. \A i \in 1 .. n - 1 : i + 1 \in 2 .. n /\ i = (i + 1) - 1
    BY <2>2
  <2> QED BY <2>2, <2>3
<1>2. Renewed => Renewed'
  <2>1. ASSUME NEW i \in 2 .. n + 1, Opens(i) PROVE Opens(i - 1)'
    <3> SUFFICES ASSUME ~modem.open PROVE \E j \in DOMAIN queue' : j < i - 1 /\ queue'[j].of \in {"open", "ssr"}
      BY DEF Opens
    <3>1. PICK j \in DOMAIN queue : j < i /\ queue[j].of \in {"open", "ssr"}
      BY <2>1 DEF Opens
    <3>2. j \in 2 .. n /\ j - 1 < i - 1
      BY <1>1, <3>1
    <3> QED BY <1>1, <3>1, <3>2
  <2>2. Opens(n + 1) => Opens(n)'
    BY <1>1, <2>1
  <2>3. ASSUME NEW i \in DOMAIN queue, queue[i].of \in {"init", "up"}, Opens(i)
        PROVE  \E k \in DOMAIN queue' : queue'[k].of \in {"init", "up"} /\ Opens(k)'
    BY <1>1, <2>1, <2>3, SMTT(30)
  <2> QED BY <1>1, <2>2, <2>3 DEF Renewed
<1>3. modem.open /\ Newest => Newest'
  <2>1. ASSUME NEW i \in DOMAIN queue, queue[i].of = "data", queue[i].enable = wanted.data,
               \A j \in DOMAIN queue : i < j => queue[j].of # "data"
        PROVE  /\ i - 1 \in DOMAIN queue' /\ queue'[i - 1].of = "data" /\ queue'[i - 1].enable = wanted.data
               /\ \A j \in DOMAIN queue' : i - 1 < j => queue'[j].of # "data"
    BY <1>1, <2>1
  <2>2. (\A i \in DOMAIN queue : queue[i].of # "data") => (\A i \in DOMAIN queue' : queue'[i].of # "data")
    BY <1>1
  <2> QED BY <2>1, <2>2 DEF Newest
<1> QED BY <1>2, <1>3 DEF StatusInv, Renews

LEMMA QueueOfOne == ASSUME NEW m PROVE IsQueue(<<m>>) /\ Len(<<m>>) = 1 /\ <<m>>[1] = m
<1>1. <<m>> \in Seq({m})
  OBVIOUS
<1> QED BY <1>1 DEF IsQueue

LEMMA QueueOfThree ==
    ASSUME NEW l, NEW m, NEW r
    PROVE  /\ IsQueue(<<l, m, r>>) /\ Len(<<l, m, r>>) = 3
           /\ <<l, m, r>>[1] = l /\ <<l, m, r>>[2] = m /\ <<l, m, r>>[3] = r
<1>1. <<l, m, r>> \in Seq({l, m, r})
  OBVIOUS
<1> QED BY <1>1 DEF IsQueue

LEMMA QueueOfNone == IsQueue(<<>>) /\ Len(<<>>) = 0
  BY DEF IsQueue

LEMMA ApartOne == ASSUME NEW m, m.of \in {"lock", "server", "conf"} PROVE Apart(<<m>>)
<1>1. IsQueue(<<m>>) /\ Len(<<m>>) = 1 /\ <<m>>[1] = m
  BY QueueOfOne
<1> PICK ms : ms = <<m>>
  OBVIOUS
<1>2. DOMAIN ms = 1 .. 1
  BY <1>1 DEF IsQueue
<1> QED BY <1>1, <1>2 DEF Apart

\* NoData is no data status.
LEMMA NoDataIs ==
    /\ NoData.of = "none"
    /\ \A v, apn : EnableData(v, apn) # NoData /\ EnableData(v, apn).of = "data"
                      /\ EnableData(v, apn).enable = v
    /\ \A d, after : [data |-> d, after |-> after] # NoData
<1>1. NoData.of = "none" /\ DOMAIN NoData = {"of"}
  BY DEF NoData, Plain
<1>2. \A v, apn : EnableData(v, apn).of = "data" /\ EnableData(v, apn).enable = v
  BY DEF EnableData
<1>3. \A d, after : DOMAIN [data |-> d, after |-> after] = {"data", "after"}
  OBVIOUS
<1> QED BY <1>1, <1>2, <1>3

-----------------------------------------------------------------------------
(* The data status *)

\* What is told changes nothing but what the modem was told.
Hears(status) ==
    /\ IsModem(modem') /\ modem'.up = modem.up /\ modem'.open = modem.open
    /\ modem.open => modem'.told.data = status

\* What DoConf makes of the values that the modem has.
Overlaid(new, was) == [p \in DOMAIN new \cup DOMAIN was |-> IF p \in DOMAIN new THEN new[p] ELSE was[p]]

LEMMA ModemHears ==
    ASSUME SettingsTyped
    PROVE  /\ (DoConf \/ DoSetServer \/ DoLock) => Hears(modem.told.data)
           /\ DoEnableData => Hears(Head(queue).enable)
           /\ (DoEnableData \/ DoSetServer \/ DoLock) => modem'.told.conf = modem.told.conf
           /\ DoConf => modem'.told.conf = IF modem.open THEN Overlaid(Head(queue).values, modem.told.conf)
                                                        ELSE modem.told.conf
<1> PICK m : m = modem
  OBVIOUS
<1> PICK k : k = modem'
  OBVIOUS
<1> PICK t : t = m.told
  OBVIOUS
<1>0. IsModem(m)
  BY DEF SettingsTyped
<1>1. t = [conf |-> t.conf, data |-> t.data, apn |-> t.apn, server |-> t.server]
  BY <1>0 DEF IsModem
<1>2. ASSUME DoEnableData PROVE Hears(Head(queue).enable) /\ modem'.told.conf = modem.told.conf
  <2> PICK v : v = Head(queue).enable
    OBVIOUS
  <2> PICK w : w = (m.told.apn \/ Head(queue).apn)
    OBVIOUS
  <2>0. \/ k = m /\ ~m.open
        \/ k = [m EXCEPT !.told.data = v, !.told.apn = w]
    BY <1>0, <1>2 DEF DoEnableData, Tell, IsModem
  <2>1. CASE k = [m EXCEPT !.told.data = v, !.told.apn = w]
    <3> PICK u : u = [t EXCEPT !.data = v, !.apn = w]
      OBVIOUS
    <3>1. k = [m EXCEPT !.told = u]
      BY <1>0, <2>1 DEF IsModem
    <3>2. u = [conf |-> t.conf, data |-> v, apn |-> w, server |-> t.server]
      BY <1>1
    <3>3. k = [up |-> m.up, open |-> m.open, lock |-> m.lock, told |-> u]
      BY <1>0, <3>1 DEF IsModem
    <3>4. IsModem(k) /\ k.up = m.up /\ k.open = m.open /\ k.told.data = Head(queue).enable
          /\ k.told.conf = m.told.conf
      BY <1>0, <3>2, <3>3 DEF IsModem
    <3> QED BY <3>4 DEF Hears
  <2> QED BY <1>0, <2>0, <2>1 DEF Hears
<1>3. ASSUME DoConf
      PROVE  /\ Hears(modem.told.data)
             /\ modem'.told.conf = IF modem.open THEN Overlaid(Head(queue).values, modem.told.conf)
                                               ELSE modem.told.conf
  <2> DEFINE laid == Overlaid(Head(queue).values, m.told.conf)
  <2> PICK v : v = laid
    OBVIOUS
  <2>0. \/ k = m /\ ~m.open
        \/ k = [m EXCEPT !.told.conf = laid] /\ m.open
    BY <1>0, <1>3 DEF DoConf, Tell, IsModem, Overlaid
  <2> HIDE DEF laid
  <2>1. CASE k = [m EXCEPT !.told.conf = laid] /\ m.open
    <3> PICK u : u = [t EXCEPT !.conf = v]
      OBVIOUS
    <3>1. k = [m EXCEPT !.told = u]
      BY <1>0, <2>1 DEF IsModem
    <3>2. u = [conf |-> v, data |-> t.data, apn |-> t.apn, server |-> t.server]
      BY <1>1
    <3>3. k = [up |-> m.up, open |-> m.open, lock |-> m.lock, told |-> u]
      BY <1>0, <3>1 DEF IsModem
    <3>4. /\ IsModem(k) /\ k.up = m.up /\ k.open = m.open /\ k.told.data = modem.told.data
          /\ k.told.conf = laid
      BY <1>0, <3>2, <3>3 DEF IsModem
    <3> QED BY <2>1, <3>4 DEF Hears, laid
  <2> QED BY <1>0, <2>0, <2>1 DEF Hears
<1>4. ASSUME DoSetServer PROVE Hears(modem.told.data) /\ modem'.told.conf = modem.told.conf
  <2> PICK v : v = Head(queue).addr
    OBVIOUS
  <2> PICK w : w = Head(queue).type
    OBVIOUS
  <2> PICK x : x = [t.server EXCEPT ![w] = v]
    OBVIOUS
  <2>0. \/ k = m
        \/ k = [m EXCEPT !.told.server[w] = v]
    BY <1>0, <1>4 DEF DoSetServer, Tell, IsModem
  <2>1. CASE k = [m EXCEPT !.told.server[w] = v]
    <3> PICK u : u = [t EXCEPT !.server = x]
      OBVIOUS
    <3>1. k = [m EXCEPT !.told = u]
      BY <1>0, <2>1 DEF IsModem
    <3>2. u = [conf |-> t.conf, data |-> t.data, apn |-> t.apn, server |-> x]
      BY <1>1
    <3>3. k = [up |-> m.up, open |-> m.open, lock |-> m.lock, told |-> u]
      BY <1>0, <3>1 DEF IsModem
    <3>4. /\ IsModem(k) /\ k.up = m.up /\ k.open = m.open /\ k.told.data = modem.told.data
          /\ k.told.conf = modem.told.conf
      BY <1>0, <3>2, <3>3 DEF IsModem
    <3> QED BY <3>4 DEF Hears
  <2> QED BY <1>0, <2>0, <2>1 DEF Hears
<1>5. ASSUME DoLock PROVE Hears(modem.told.data) /\ modem'.told.conf = modem.told.conf
  <2> PICK v : v = Head(queue).value
    OBVIOUS
  <2>1. \/ k = m
        \/ k = [m EXCEPT !.lock = v]
    BY <1>5 DEF DoLock, Tell
  <2>2. k.told = m.told /\ k.up = m.up /\ k.open = m.open /\ IsModem(k)
    BY <1>0, <2>1 DEF IsModem
  <2> QED BY <2>2 DEF Hears
<1> QED BY <1>2, <1>3, <1>4, <1>5

\* The queue after a call or a handler has posted.
LEMMA PostTyped ==
    ASSUME SettingsTyped, NEW ms, IsQueue(ms), queue' = queue \o ms, modem' = modem,
           wanted' \in [data : DataStatus, server : {wanted'.server}, lock : {wanted'.lock}]
    PROVE  SettingsTyped'
<1>1. IsQueue(queue')
  BY Posted DEF SettingsTyped
<1>2. IsModem(modem')
  BY DEF SettingsTyped
<1> QED BY <1>1, <1>2 DEF SettingsTyped

LEMMA InitKeepsStatus ==
    SettingsTyped /\ StatusInv /\ LocInit
        => SettingsTyped' /\ StatusInv' /\ Renews /\ (~adapter => Renewed')
<1> SUFFICES ASSUME SettingsTyped, StatusInv, LocInit
             PROVE  SettingsTyped' /\ StatusInv' /\ Renews /\ (~adapter => Renewed')
  OBVIOUS
<1>1. /\ wanted' \in [data : DataStatus, server : {wanted'.server}, lock : {wanted'.lock}]
      /\ wanted'.data = wanted.data
  BY DEF LocInit, SettingsTyped
<1>2. /\ modem' = modem /\ upDue' = upDue /\ mpc' = mpc /\ fpc' = fpc /\ agpsStatus' = agpsStatus
      /\ untold' = untold /\ raced' = raced /\ adapter' = TRUE /\ fpc = NoData
  BY DEF LocInit, Call
<1>3. CASE ~adapter
  <2> PICK o : o = Plain("open")
    OBVIOUS
  <2> PICK i : i = Plain("init")
    OBVIOUS
  <2> PICK l : l = Lock(1)
    OBVIOUS
  <2> PICK ms : ms = <<o, i, l>>
    OBVIOUS
  <2>1. IsQueue(ms) /\ Len(ms) = 3 /\ ms[1] = o /\ ms[2] = i
    BY QueueOfThree
  <2>2. queue' = queue \o ms
    BY <1>3 DEF LocInit, Post
  <2> PICK n : n = Len(queue)
    OBVIOUS
  <2>3. n \in Nat /\ DOMAIN queue' = 1 .. n + 3 /\ queue'[n + 1] = o /\ queue'[n + 2] = i
    <3>1. /\ Len(queue) \in Nat /\ DOMAIN queue' = 1 .. Len(queue) + 3
          /\ \A j \in 1 .. 3 : queue'[Len(queue) + j] = ms[j]
      BY <2>1, <2>2, Posted DEF SettingsTyped
    <3> QED BY <2>1, <3>1
  <2>4. o.of = "open" /\ i.of = "init"
    BY DEF Plain
  <2>5. Opens(n + 2)'
    BY <2>3, <2>4 DEF Opens
  <2>6. Renewed'
    <3>1. n + 2 \in DOMAIN queue' /\ queue'[n + 2].of \in {"init", "up"}
      BY <2>3, <2>4
    <3> QED BY <2>5, <3>1 DEF Renewed
  <2>7. StatusInv'
    BY <1>1, <1>2, <2>6 DEF StatusInv
  <2>8. SettingsTyped'
    BY <1>1, <1>2, <2>1, <2>2, PostTyped
  <2> QED BY <2>6, <2>7, <2>8 DEF Renews
<1>4. CASE adapter
  <2>1. queue' = queue \o <<Lock(1)>> /\ adapter' = adapter
    BY <1>2, <1>4 DEF LocInit, Post
  <2>2. Apart(<<Lock(1)>>)
    BY ApartOne DEF Lock
  <2> QED BY <1>1, <1>2, <1>4, <2>1, <2>2, PostKeeps, PostTyped DEF Apart
<1> QED BY <1>3, <1>4

LEMMA CallsKeepStatus ==
    SettingsTyped /\ StatusInv
        /\ (GetInterface \/ AgpsInit \/ Cleanup \/ \E t \in ServerType, a \in Address : SetServerProxy(t, a))
        => SettingsTyped' /\ StatusInv' /\ Renews
<1> SUFFICES ASSUME SettingsTyped, StatusInv PROVE
             /\ GetInterface => SettingsTyped' /\ StatusInv' /\ Renews
             /\ AgpsInit => SettingsTyped' /\ StatusInv' /\ Renews
             /\ Cleanup => SettingsTyped' /\ StatusInv' /\ Renews
             /\ \A t \in ServerType, a \in Address : SetServerProxy(t, a) => SettingsTyped' /\ StatusInv' /\ Renews
  OBVIOUS
<1>0. wanted \in [data : DataStatus, server : {wanted.server}, lock : {wanted.lock}]
  BY DEF SettingsTyped
<1>1. ASSUME GetInterface PROVE SettingsTyped' /\ StatusInv' /\ Renews
  BY <1>1 DEF GetInterface, bounds, SettingsTyped, IsQueue, IsModem, StatusInv, Renewed, Newest, Opens, Renews
<1>2. ASSUME AgpsInit PROVE SettingsTyped' /\ StatusInv' /\ Renews
  <2> PICK ms : ms = Buffered
    OBVIOUS
  <2>1. Apart(ms) /\ IsQueue(ms)
    BY BufferedApart DEF Apart
  <2>2. /\ queue' = queue \o ms /\ modem' = modem /\ upDue' = upDue /\ mpc' = mpc /\ fpc' = fpc
        /\ agpsStatus' = agpsStatus /\ untold' = untold /\ raced' = raced /\ adapter' = adapter
        /\ wanted' = wanted
    BY <1>2 DEF AgpsInit, Call, Post
  <2> QED BY <1>0, <2>1, <2>2, PostKeeps, PostTyped
<1>3. ASSUME Cleanup PROVE SettingsTyped' /\ StatusInv' /\ Renews
  <2>1. Apart(<<Lock(4)>>) /\ IsQueue(<<Lock(4)>>)
    BY ApartOne DEF Lock, Apart
  <2>2. /\ queue' = queue \o <<Lock(4)>> /\ modem' = modem /\ upDue' = upDue /\ mpc' = mpc
        /\ fpc' = fpc /\ agpsStatus' = agpsStatus /\ untold' = untold /\ raced' = raced
        /\ adapter' = adapter
    BY <1>3 DEF Cleanup, Call, Post, engine
  <2>3. /\ wanted' \in [data : DataStatus, server : {wanted'.server}, lock : {wanted'.lock}]
        /\ wanted'.data = wanted.data
    BY <1>0, <1>3 DEF Cleanup
  <2> QED BY <2>1, <2>2, <2>3, PostKeeps, PostTyped
<1>4. ASSUME NEW t \in ServerType, NEW a \in Address, SetServerProxy(t, a)
      PROVE  SettingsTyped' /\ StatusInv' /\ Renews
  <2>1. /\ modem' = modem /\ upDue' = upDue /\ mpc' = mpc /\ fpc' = fpc /\ agpsStatus' = agpsStatus
        /\ untold' = untold /\ raced' = raced /\ adapter' = adapter
    BY <1>4 DEF SetServerProxy, Call
  <2>2. /\ wanted' \in [data : DataStatus, server : {wanted'.server}, lock : {wanted'.lock}]
        /\ wanted'.data = wanted.data
    BY <1>0, <1>4 DEF SetServerProxy
  <2>3. CASE queue' = queue \o <<SetServer(t, a)>>
    <3>1. Apart(<<SetServer(t, a)>>) /\ IsQueue(<<SetServer(t, a)>>)
      BY ApartOne DEF SetServer, Apart
    <3> QED BY <2>1, <2>2, <2>3, <3>1, PostKeeps, PostTyped
  <2>4. CASE queue' = queue
    BY <2>1, <2>2, <2>4 DEF SettingsTyped, IsQueue, IsModem, StatusInv, Renewed, Newest, Opens, Renews
  <2> QED BY <1>4, <2>3, <2>4 DEF SetServerProxy, Post
<1> QED BY <1>1, <1>2, <1>3, <1>4

LEMMA UpdateKeepsStatus ==
    ASSUME SettingsTyped, StatusInv, NEW v \in DataStatus, NEW apn \in BOOLEAN, UpdateAvailability(v, apn)
    PROVE  SettingsTyped' /\ StatusInv' /\ Renews
<1>1. /\ modem' = modem /\ upDue' = upDue /\ mpc' = mpc /\ queue' = queue /\ adapter' = adapter
      /\ raced' = raced /\ agpsStatus' = v /\ untold' = (adapter /\ ~apn)
      /\ fpc' = IF adapter /\ apn THEN EnableData(v, TRUE) ELSE NoData
  BY DEF UpdateAvailability, Call, engine
<1>2. /\ wanted' \in [data : DataStatus, server : {wanted'.server}, lock : {wanted'.lock}]
      /\ wanted'.data = v
  BY DEF UpdateAvailability, SettingsTyped
<1>3. SettingsTyped'
  BY <1>1, <1>2 DEF SettingsTyped, IsQueue, IsModem
<1>4. fpc' # NoData => adapter' /\ fpc'.of = "data" /\ fpc'.enable = v
  BY <1>1, NoDataIs
<1>5. adapter => Newest'
  <2>1. CASE adapter /\ apn
    <3>1. fpc' # NoData
      BY <1>1, <2>1, NoDataIs
    <3> QED BY <3>1 DEF Newest, NoData, Plain
  <2>2. CASE adapter /\ ~apn
    BY <1>1, <2>2 DEF Newest
  <2> QED BY <2>1, <2>2
<1>6. Renewed => Renewed'
  BY <1>1 DEF Renewed, Opens
<1>7. adapter' => Renewed' \/ (modem'.open /\ Newest')
  BY <1>1, <1>5, <1>6 DEF StatusInv
<1>8. mpc' # NoData => mpc'.data.of = "data"
  BY <1>1 DEF StatusInv
<1>9. agpsStatus' = wanted'.data
  BY <1>1, <1>2
<1> QED BY <1>2, <1>3, <1>4, <1>6, <1>7, <1>8, <1>9 DEF StatusInv, Renews, NoData, Plain

\* The last data status on its way.
LastIs(v) ==
    \E i \in DOMAIN queue :
        /\ queue[i].of = "data" /\ queue[i].enable = v
        /\ \A j \in DOMAIN queue : i < j => queue[j].of # "data"

\* A data status that is posted is the last one.
LEMMA LastOne ==
    ASSUME SettingsTyped, NEW d, d.of = "data", NEW ms, Apart(ms),
           queue' = queue \o (<<d>> \o ms), modem' = modem, upDue' = upDue
    PROVE  LastIs(d.enable)' /\ (Renewed => Renewed')
<1> PICK n : n = Len(queue)
  OBVIOUS
<1> PICK k : k = Len(ms)
  OBVIOUS
<1> PICK one : one = <<d>>
  OBVIOUS
<1> PICK all : all = one \o ms
  OBVIOUS
<1>1. /\ IsQueue(all) /\ k \in Nat /\ Len(all) = k + 1 /\ DOMAIN all = 1 .. k + 1 /\ all[1] = d
      /\ \A i \in 2 .. k + 1 : all[i].of # "data"
  <2>1. IsQueue(one) /\ Len(one) = 1 /\ one[1] = d
    BY QueueOfOne
  <2>2. PICK S, T : one \in Seq(S) /\ ms \in Seq(T)
    BY <2>1 DEF Apart, IsQueue
  <2>3. one \in Seq(S \cup T) /\ ms \in Seq(S \cup T)
    BY <2>2
  <2>4. /\ all \in Seq(S \cup T) /\ Len(all) = k + 1 /\ all[1] = d /\ k \in Nat
        /\ \A i \in 1 .. k : all[1 + i] = ms[i]
    BY <2>1, <2>3
  <2>5. DOMAIN ms = 1 .. k /\ DOMAIN all = 1 .. k + 1
    BY <2>3, <2>4
  <2>6. ASSUME NEW i \in 2 .. k + 1 PROVE all[i].of # "data"
    <3>1. i - 1 \in 1 .. k /\ i = 1 + (i - 1)
      BY <2>4
    <3> QED BY <2>4, <2>5, <3>1 DEF Apart
  <2> QED BY <2>4, <2>5, <2>6 DEF IsQueue
<1>2. /\ n \in Nat /\ DOMAIN queue = 1 .. n /\ DOMAIN queue' = 1 .. n + k + 1 /\ Len(queue') = n + k + 1
      /\ queue'[n + 1] = d
      /\ \A i \in 1 .. n : queue'[i] = queue[i]
      /\ \A i \in n + 2 .. n + k + 1 : queue'[i].of # "data"
  <2>1. /\ Len(queue) \in Nat /\ DOMAIN queue = 1 .. Len(queue)
        /\ Len(queue') = Len(queue) + Len(all) /\ DOMAIN queue' = 1 .. Len(queue) + Len(all)
        /\ \A i \in 1 .. Len(queue) : queue'[i] = queue[i]
        /\ \A i \in 1 .. Len(all) : queue'[Len(queue) + i] = all[i]
    BY <1>1, Posted DEF SettingsTyped
  <2>2. ASSUME NEW i \in n + 2 .. n + k + 1 PROVE queue'[i].of # "data"
    <3> PICK p : p = i - n
      OBVIOUS
    <3>1. p \in 2 .. k + 1 /\ p \in 1 .. Len(all) /\ i = Len(queue) + p
      BY <1>1, <2>1
    <3>2. queue'[Len(queue) + p] = all[p]
      BY <2>1, <3>1
    <3>3. queue'[i] = all[p]
      BY <3>1, <3>2
    <3> QED BY <1>1, <3>1, <3>3
  <2> QED BY <1>1, <2>1, <2>2
<1>3. /\ n + 1 \in DOMAIN queue' /\ queue'[n + 1].of = "data" /\ queue'[n + 1].enable = d.enable
      /\ \A j \in DOMAIN queue' : n + 1 < j => queue'[j].of # "data"
  BY <1>1, <1>2
<1>4. Renewed => Renewed'
  <2>1. ASSUME NEW i \in Nat, Opens(i) PROVE Opens(i)'
    BY <1>1, <1>2, <2>1 DEF Opens
  <2>2. Opens(n + 1) => Opens(n + k + 2)'
    BY <1>1, <1>2 DEF Opens
  <2> QED BY <1>1, <1>2, <2>1, <2>2 DEF Renewed
<1> QED BY <1>3, <1>4 DEF LastIs

LEMMA NoneApart == Apart(<<>>)
<1>1. IsQueue(<<>>) /\ DOMAIN <<>> = {}
  BY QueueOfNone DEF IsQueue
<1> QED BY <1>1 DEF Apart

LEMMA SendKeepsStatus == SettingsTyped /\ StatusInv /\ SendAvailability => SettingsTyped' /\ StatusInv' /\ Renews
<1> SUFFICES ASSUME SettingsTyped, StatusInv, SendAvailability PROVE SettingsTyped' /\ StatusInv' /\ Renews
  OBVIOUS
<1> PICK d : d = fpc
  OBVIOUS
<1>1. /\ modem' = modem /\ upDue' = upDue /\ mpc' = mpc /\ adapter' = adapter /\ wanted' = wanted
      /\ agpsStatus' = agpsStatus /\ untold' = untold /\ fpc' = NoData
      /\ raced' = (mpc # NoData) /\ queue' = queue \o <<d>>
  BY DEF SendAvailability, engine, Post
<1>2. d.of = "data" /\ d.enable = wanted.data /\ fpc # NoData
  BY DEF SendAvailability, StatusInv
<1>3. <<d>> = <<d>> \o <<>>
  <2>1. <<d>> \in Seq({d})
    OBVIOUS
  <2> QED BY <2>1
<1>4. LastIs(d.enable)' /\ (Renewed => Renewed')
  <2>1. queue' = queue \o (<<d>> \o <<>>)
    BY <1>1, <1>3
  <2> QED BY <1>1, <1>2, <2>1, LastOne, NoneApart
<1>5. Newest'
  <2>1. CASE mpc = NoData
    <3>1. mpc' = NoData
      BY <1>1, <2>1
    <3> QED BY <1>1, <1>2, <1>4, <3>1 DEF Newest, LastIs, NoData, Plain
  <2>2. CASE mpc # NoData
    BY <1>1, <2>2 DEF Newest
  <2> QED BY <2>1, <2>2
<1>6. StatusInv'
  <2>1. adapter' => Renewed' \/ (modem'.open /\ Newest')
    BY <1>1, <1>4, <1>5 DEF StatusInv
  <2>2. mpc' # NoData => mpc'.data.of = "data"
    BY <1>1 DEF StatusInv
  <2> QED BY <1>1, <2>1, <2>2 DEF StatusInv, NoData, Plain
<1>7. SettingsTyped'
  <2>1. IsQueue(<<d>>)
    BY QueueOfOne
  <2> QED BY <1>1, <2>1, PostTyped DEF SettingsTyped
<1> QED BY <1>4, <1>6, <1>7 DEF Renews

LEMMA ReinitSendKeepsStatus == SettingsTyped /\ StatusInv /\ ReinitSend => SettingsTyped' /\ StatusInv' /\ Renews
<1> SUFFICES ASSUME SettingsTyped, StatusInv, ReinitSend PROVE SettingsTyped' /\ StatusInv' /\ Renews
  OBVIOUS
<1> PICK d : d = mpc.data
  OBVIOUS
<1> PICK ms : ms = IF mpc.after = "up" /\ agpsCb THEN Buffered ELSE <<>>
  OBVIOUS
<1>1. /\ modem' = modem /\ upDue' = upDue /\ adapter' = adapter /\ wanted' = wanted
      /\ agpsStatus' = agpsStatus /\ untold' = untold /\ fpc' = fpc /\ mpc' = NoData /\ mpc # NoData
      /\ raced' = raced /\ queue' = queue \o (<<d>> \o ms)
  BY DEF ReinitSend, engine, Post
<1>2. Apart(ms) /\ d.of = "data"
  BY <1>1, BufferedApart, NoneApart DEF StatusInv
<1>4. LastIs(d.enable)' /\ (Renewed => Renewed')
  BY <1>1, <1>2, LastOne
<1>5. Newest => Newest'
  <2>1. CASE d.enable = wanted.data
    <3>1. mpc' = NoData /\ wanted'.data = d.enable
      BY <1>1, <2>1
    <3> QED BY <1>4, <3>1 DEF Newest, LastIs
  <2>2. CASE untold \/ raced
    BY <1>1, <2>2 DEF Newest
  <2>3. CASE fpc # NoData
    BY <1>1, <2>3 DEF Newest, NoData, Plain
  <2> QED BY <1>1, <2>1, <2>2, <2>3 DEF Newest
<1>6. StatusInv'
  BY <1>1, <1>4, <1>5 DEF StatusInv, NoData, Plain
<1>7. SettingsTyped'
  <2> PICK all : all = <<d>> \o ms
    OBVIOUS
  <2>1. IsQueue(all)
    <3>1. PICK S : ms \in Seq(S)
      BY <1>2 DEF Apart, IsQueue
    <3>2. <<d>> \in Seq(S \cup {d}) /\ ms \in Seq(S \cup {d})
      BY <3>1
    <3>3. all \in Seq(S \cup {d})
      BY <3>2
    <3> QED BY <3>3 DEF IsQueue
  <2> QED BY <1>1, <2>1, PostTyped DEF SettingsTyped
<1> QED BY <1>4, <1>6, <1>7 DEF Renews

LEMMA HandlersKeepStatus ==
    SettingsTyped /\ StatusInv /\ (DoConf \/ DoSetServer \/ DoLock \/ DoEnableData)
        => SettingsTyped' /\ StatusInv' /\ Renews
<1> SUFFICES ASSUME SettingsTyped, StatusInv, DoConf \/ DoSetServer \/ DoLock \/ DoEnableData
             PROVE  SettingsTyped' /\ StatusInv' /\ Renews
  OBVIOUS
<1>1. /\ queue # <<>> /\ queue' = Tail(queue) \o <<>> /\ adapter' = adapter /\ agpsStatus' = agpsStatus
      /\ upDue' = upDue /\ fpc' = fpc /\ mpc' = mpc /\ mpc = NoData /\ wanted' = wanted
      /\ untold' = untold /\ raced' = raced
  BY DEF DoConf, DoSetServer, DoLock, DoEnableData, Handle, engine
<1>2. IsModem(modem') /\ modem'.up = modem.up /\ modem'.open = modem.open
  BY ModemHears DEF Hears
<1>3. /\ Len(queue) \in Nat \ {0} /\ Head(queue) = queue[1] /\ IsQueue(queue')
      /\ DOMAIN queue = 1 .. Len(queue) /\ DOMAIN queue' = 1 .. Len(queue) - 1
      /\ Len(queue') = Len(queue) - 1
      /\ \A i \in 2 .. Len(queue) : queue'[i - 1] = queue[i]
  BY <1>1, TakenHead, QueueOfNone DEF SettingsTyped
<1>4. SettingsTyped'
  BY <1>1, <1>2, <1>3 DEF SettingsTyped
<1>5. CASE DoConf \/ DoSetServer \/ DoLock
  <2>1. Head(queue).of \in {"lock", "server", "conf"}
    BY <1>5 DEF DoConf, DoSetServer, DoLock, Handle
  <2>2. modem.open => modem'.told.data = modem.told.data
    BY <1>5, ModemHears DEF Hears
  <2> QED BY <1>1, <1>2, <1>4, <2>1, <2>2, TakeKeeps
<1>6. CASE DoEnableData
  <2> PICK n : n = Len(queue)
    OBVIOUS
  <2>1. /\ queue[1].of = "data" /\ n \in Nat \ {0} /\ DOMAIN queue = 1 .. n /\ DOMAIN queue' = 1 .. n - 1
        /\ Len(queue') = n - 1
        /\ \A i \in 2 .. n : i - 1 \in DOMAIN queue' /\ queue'[i - 1] = queue[i]
        /\ \A i \in 1 .. n - 1 : i + 1 \in DOMAIN queue /\ queue'[i] = queue[i + 1]
    <3>1. Head(queue).of = "data"
      BY <1>6 DEF DoEnableData, Handle
    <3>2. \A i \in 1 .. n - 1 : i + 1 \in 2 .. n /\ i = (i + 1) - 1
      BY <1>3
    <3> QED BY <1>3, <3>1, <3>2
  <2>2. modem.open => modem'.told.data = queue[1].enable
    BY <1>3, <1>6, ModemHears DEF Hears
  <2>3. Renewed => Renewed'
    <3>1. ASSUME NEW i \in 2 .. n + 1, Opens(i) PROVE Opens(i - 1)'
      <4> SUFFICES ASSUME ~modem.open PROVE \E j \in DOMAIN queue' : j < i - 1 /\ queue'[j].of \in {"open", "ssr"}
        BY <1>2 DEF Opens
      <4>1. PICK j \in DOMAIN queue : j < i /\ queue[j].of \in {"open", "ssr"}
        BY <3>1 DEF Opens
      <4>2. j \in 2 .. n /\ j - 1 < i - 1
        BY <2>1, <4>1
      <4> QED BY <2>1, <4>1, <4>2
    <3>2. Opens(n + 1) => Opens(n)'
      BY <2>1, <3>1
    <3>3. ASSUME NEW i \in DOMAIN queue, queue[i].of \in {"init", "up"}, Opens(i)
          PROVE  \E k \in DOMAIN queue' : queue'[k].of \in {"init", "up"} /\ Opens(k)'
      <4>1. i \in 2 .. n + 1 /\ i - 1 \in DOMAIN queue' /\ queue'[i - 1] = queue[i]
        BY <2>1, <3>3
      <4>2. Opens(i - 1)'
        BY <3>1, <3>3, <4>1
      <4> QED BY <3>3, <4>1, <4>2
    <3> QED BY <1>1, <1>2, <2>1, <3>2, <3>3 DEF Renewed
  <2>4. modem.open /\ Newest => Newest'
    <3>1. CASE untold \/ raced \/ fpc # NoData
      BY <1>1, <3>1 DEF Newest, NoData, Plain
    <3>2. ASSUME modem.open,
                 NEW i \in DOMAIN queue, queue[i].of = "data", queue[i].enable = wanted.data,
                 \A j \in DOMAIN queue : i < j => queue[j].of # "data"
          PROVE  Newest'
      <4>1. CASE i = 1
        <5>1. ASSUME NEW j \in DOMAIN queue' PROVE queue'[j].of # "data"
          <6>1. j + 1 \in DOMAIN queue /\ queue'[j] = queue[j + 1] /\ i < j + 1
            BY <2>1, <4>1
          <6> QED BY <3>2, <6>1
        <5>2. modem'.told.data = wanted'.data
          BY <1>1, <2>2, <3>2, <4>1
        <5> QED BY <1>1, <5>1, <5>2 DEF Newest, NoData, Plain
      <4>2. CASE i # 1
        <5>1. /\ i - 1 \in DOMAIN queue' /\ queue'[i - 1].of = "data" /\ queue'[i - 1].enable = wanted'.data
              /\ \A j \in DOMAIN queue' : i - 1 < j => queue'[j].of # "data"
          BY <1>1, <2>1, <3>2, <4>2
        <5> QED BY <1>1, <5>1 DEF Newest, NoData, Plain
      <4> QED BY <4>1, <4>2
    <3>3. ~\A i \in DOMAIN queue : queue[i].of # "data"
      BY <2>1
    <3> QED BY <1>1, <3>1, <3>2, <3>3 DEF Newest
  <2>5. adapter' => Renewed' \/ (modem'.open /\ Newest')
    BY <1>1, <1>2, <2>3, <2>4 DEF StatusInv
  <2> QED BY <1>1, <1>4, <2>3, <2>5 DEF StatusInv, Renews, NoData, Plain
<1> QED BY <1>5, <1>6

LEMMA OpenKeepsStatus == SettingsTyped /\ StatusInv /\ DoOpen => SettingsTyped' /\ StatusInv' /\ Renews
<1> SUFFICES ASSUME SettingsTyped, StatusInv, DoOpen PROVE SettingsTyped' /\ StatusInv' /\ Renews
  OBVIOUS
<1> PICK n : n = Len(queue)
  OBVIOUS
<1>1. /\ queue # <<>> /\ queue' = Tail(queue) \o <<>> /\ adapter' = adapter /\ agpsStatus' = agpsStatus
      /\ upDue' = upDue /\ fpc' = fpc /\ mpc' = mpc /\ wanted' = wanted
      /\ untold' = untold /\ raced' = raced /\ Head(queue).of \in {"open", "ssr"}
      /\ modem' = [modem EXCEPT !.open = modem.up]
  BY DEF DoOpen, Handle, engine
<1>2. IsModem(modem') /\ modem'.up = modem.up /\ modem'.open = modem.up /\ modem'.told = modem.told
  <2> PICK m : m = modem
    OBVIOUS
  <2> PICK k : k = modem'
    OBVIOUS
  <2>1. IsModem(m) /\ k = [m EXCEPT !.open = m.up]
    BY <1>1 DEF SettingsTyped
  <2>2. k = [up |-> m.up, open |-> m.up, lock |-> m.lock, told |-> m.told]
    BY <2>1 DEF IsModem
  <2> QED BY <2>1, <2>2 DEF IsModem
<1>3. /\ n \in Nat \ {0} /\ Head(queue) = queue[1] /\ IsQueue(queue')
      /\ DOMAIN queue = 1 .. n /\ DOMAIN queue' = 1 .. n - 1
      /\ Len(queue') = n - 1
      /\ \A i \in 2 .. n : queue'[i - 1] = queue[i]
  BY <1>1, TakenHead, QueueOfNone, SMTT(30) DEF SettingsTyped
<1>4. \A i \in 1 .. n - 1 : i + 1 \in DOMAIN queue /\ queue'[i] = queue[i + 1]
  <2>1. \A i \in 1 .. n - 1 : i + 1 \in 2 .. n /\ i = (i + 1) - 1
    BY <1>3
  <2> QED BY <1>3, <2>1
<1>5. SettingsTyped'
  BY <1>1, <1>2, <1>3 DEF SettingsTyped
<1>6. ~modem.up => Renewed'
  BY <1>2 DEF Renewed
<1>7. modem.up => \A i : Opens(i)'
  BY <1>2 DEF Opens
<1>8. modem.up /\ Renewed => Renewed'
  <2>1. ASSUME modem.up, NEW i \in DOMAIN queue, queue[i].of \in {"init", "up"} PROVE Renewed'
    <3>1. queue[1].of \in {"open", "ssr"}
      BY <1>1, <1>3
    <3>2. i \in 2 .. n
      BY <1>3, <2>1, <3>1
    <3>3. i - 1 \in DOMAIN queue' /\ queue'[i - 1] = queue[i]
      BY <1>3, <3>2
    <3> QED BY <1>7, <2>1, <3>3 DEF Renewed
  <2>2. ASSUME modem.up, upDue PROVE Renewed'
    BY <1>1, <1>7, <2>2 DEF Renewed
  <2> QED BY <2>1, <2>2 DEF Renewed
<1>9. Newest => Newest'
  <2>1. ASSUME NEW i \in DOMAIN queue, queue[i].of = "data", queue[i].enable = wanted.data,
               \A j \in DOMAIN queue : i < j => queue[j].of # "data"
        PROVE  /\ i - 1 \in DOMAIN queue' /\ queue'[i - 1].of = "data" /\ queue'[i - 1].enable = wanted.data
               /\ \A j \in DOMAIN queue' : i - 1 < j => queue'[j].of # "data"
    <3>0. queue[1].of \in {"open", "ssr"}
      BY <1>1, <1>3
    <3>1. i - 1 \in DOMAIN queue' /\ queue'[i - 1] = queue[i]
      <4>1. i \in 2 .. n
        BY <1>3, <2>1, <3>0
      <4> QED BY <1>3, <4>1
    <3>2. ASSUME NEW j \in DOMAIN queue', i - 1 < j PROVE queue'[j].of # "data"
      <4>1. j + 1 \in DOMAIN queue /\ queue'[j] = queue[j + 1] /\ i < j + 1
        BY <1>3, <1>4, <3>2
      <4> QED BY <2>1, <4>1
    <3> QED BY <2>1, <3>1, <3>2
  <2>2. (\A i \in DOMAIN queue : queue[i].of # "data") => (\A i \in DOMAIN queue' : queue'[i].of # "data")
    BY <1>3, <1>4
  <2> QED BY <1>1, <1>2, <2>1, <2>2 DEF Newest, NoData, Plain
<1>10. adapter' => Renewed' \/ (modem'.open /\ Newest')
  BY <1>1, <1>2, <1>6, <1>8, <1>9 DEF StatusInv
<1>11. Renews
  BY <1>6, <1>8 DEF Renews
<1> QED BY <1>1, <1>5, <1>10, <1>11 DEF StatusInv, NoData, Plain

LEMMA ReinitKeepsStatus == SettingsTyped /\ StatusInv /\ Reinit => SettingsTyped' /\ StatusInv' /\ (~modem.open => Renews)
<1> SUFFICES ASSUME SettingsTyped, StatusInv, Reinit PROVE SettingsTyped' /\ StatusInv' /\ (~modem.open => Renews)
  OBVIOUS
<1> PICK ms : ms = Configuration
  OBVIOUS
<1> PICK n : n = Len(queue)
  OBVIOUS
<1> PICK k : k = Len(ms)
  OBVIOUS
<1>1. /\ queue # <<>> /\ queue' = Tail(queue) \o ms /\ adapter' = adapter /\ agpsStatus' = agpsStatus
      /\ upDue' = upDue /\ fpc' = fpc /\ wanted' = wanted /\ modem' = modem
      /\ mpc' = [data |-> EnableData(agpsStatus, FALSE), after |-> Head(queue).of]
  BY DEF Reinit, Handle, engine
<1>2. IsQueue(ms)
  BY ConfigurationApart DEF Apart
<1>3. /\ n \in Nat \ {0} /\ k \in Nat /\ IsQueue(queue')
      /\ DOMAIN queue = 1 .. n /\ DOMAIN queue' = 1 .. n - 1 + k /\ Len(queue') = n - 1 + k
      /\ Head(queue) = queue[1]
      /\ \A i \in 2 .. n : queue'[i - 1] = queue[i]
  BY <1>1, <1>2, TakenHead DEF SettingsTyped
<1>4. SettingsTyped'
  BY <1>1, <1>3 DEF SettingsTyped, IsModem
<1>5. mpc' # NoData /\ mpc'.data.of = "data" /\ mpc'.data.enable = wanted'.data
  <2>1. mpc'.data = EnableData(agpsStatus, FALSE) /\ mpc' # NoData
    <3>1. mpc' = [data |-> EnableData(agpsStatus, FALSE), after |-> Head(queue).of]
      BY <1>1
    <3> HIDE DEF EnableData, NoData
    <3> QED BY <3>1, NoDataIs
  <2>2. agpsStatus = wanted'.data
    <3>1. wanted' = wanted
      BY <1>1
    <3> QED BY <3>1 DEF StatusInv
  <2>3. EnableData(agpsStatus, FALSE).of = "data" /\ EnableData(agpsStatus, FALSE).enable = agpsStatus
    BY DEF EnableData
  <2> QED BY <2>1, <2>2, <2>3
<1>6. Newest'
  BY <1>5 DEF Newest
<1>7. ~modem.open /\ Renewed => Renewed'
  <2> HAVE ~modem.open /\ Renewed
  <2>0. queue[1].of \in {"init", "up"}
    BY <1>3 DEF Reinit, Handle
  <2>1. ASSUME NEW i \in 1 .. n + 1, Opens(i) PROVE i # 1 /\ Opens(i - 1)'
    <3>1. PICK j \in DOMAIN queue : j < i /\ queue[j].of \in {"open", "ssr"}
      BY <2>1 DEF Opens
    <3>2. j \in 2 .. n /\ j - 1 \in DOMAIN queue' /\ j - 1 < i - 1 /\ queue'[j - 1] = queue[j]
      BY <1>3, <2>0, <3>1
    <3>3. i # 1
      BY <1>3, <3>1
    <3> QED BY <3>1, <3>2, <3>3 DEF Opens
  <2>2. CASE ~modem.up
    BY <1>1, <2>2 DEF Renewed
  <2>3. CASE upDue /\ Opens(n + 1)
    <3>1. PICK j \in DOMAIN queue : queue[j].of \in {"open", "ssr"}
      BY <2>3 DEF Opens
    <3>2. j - 1 \in DOMAIN queue' /\ j - 1 < n + k /\ queue'[j - 1] = queue[j]
      BY <1>3, <2>0, <3>1
    <3>3. Opens(n + k)'
      BY <3>1, <3>2 DEF Opens
    <3>4. Len(queue') + 1 = n + k
      BY <1>3
    <3> QED BY <1>1, <2>3, <3>3, <3>4 DEF Renewed
  <2>4. ASSUME NEW i \in DOMAIN queue, queue[i].of \in {"init", "up"}, Opens(i) PROVE Renewed'
    <3>1. i # 1 /\ Opens(i - 1)'
      BY <1>3, <2>1, <2>4
    <3>2. i - 1 \in DOMAIN queue' /\ queue'[i - 1] = queue[i]
      BY <1>3, <2>4, <3>1
    <3> QED BY <2>4, <3>1, <3>2 DEF Renewed
  <2> QED BY <2>2, <2>3, <2>4 DEF Renewed
<1>8. adapter' => Renewed' \/ (modem'.open /\ Newest')
  BY <1>1, <1>6, <1>7 DEF StatusInv
<1>9. ~modem.open => Renews
  BY <1>7 DEF Renews
<1> QED BY <1>1, <1>4, <1>5, <1>8, <1>9 DEF StatusInv, NoData, Plain

LEMMA ModemKeepsStatus ==
    SettingsTyped /\ StatusInv /\ (Crash \/ Recover \/ TellUp) => SettingsTyped' /\ StatusInv' /\ (adapter => Renews)
<1> SUFFICES ASSUME SettingsTyped, StatusInv PROVE
             /\ Crash => SettingsTyped' /\ StatusInv' /\ (adapter => Renews)
             /\ Recover => SettingsTyped' /\ StatusInv' /\ (adapter => Renews)
             /\ TellUp => SettingsTyped' /\ StatusInv' /\ (adapter => Renews)
  OBVIOUS
<1>1. ASSUME Crash PROVE SettingsTyped' /\ StatusInv' /\ (adapter => Renews)
  <2>1. modem' = [modem EXCEPT !.up = FALSE, !.open = FALSE, !.told = Forgotten]
    BY <1>1 DEF Crash
  <2> PICK m : m = modem
    OBVIOUS
  <2> PICK k : k = modem'
    OBVIOUS
  <2>2. k = [up |-> FALSE, open |-> FALSE, lock |-> m.lock, told |-> Forgotten]
    BY <2>1 DEF SettingsTyped, IsModem
  <2>3. IsModem(k) /\ ~k.up
    <3> PICK f : f = Forgotten
      OBVIOUS
    <3>1. f = [conf |-> f.conf, data |-> f.data, apn |-> f.apn, server |-> f.server]
      BY DEF Forgotten
    <3>2. f \in [conf : {f.conf}, data : {f.data}, apn : {f.apn}, server : {f.server}]
      BY <3>1
    <3> QED BY <2>2, <3>2 DEF IsModem
  <2>4. Renewed'
    BY <2>3 DEF Renewed
  <2>5. SettingsTyped'
    BY <1>1, <2>3 DEF Crash, SettingsTyped
  <2> QED BY <1>1, <2>4, <2>5 DEF Crash, engine, StatusInv, Renews, NoData, Plain
<1>2. ASSUME Recover PROVE SettingsTyped' /\ StatusInv' /\ (adapter => Renews)
  <2>0. /\ agpsStatus' = agpsStatus /\ fpc' = fpc /\ mpc' = mpc /\ wanted' = wanted /\ adapter' = adapter
        /\ upDue' = adapter /\ modem' = [modem EXCEPT !.up = TRUE]
        /\ queue' = queue \o (IF adapter THEN <<Plain("ssr")>> ELSE <<>>)
    BY <1>2 DEF Recover, engine, Post
  <2>1. IsModem(modem')
    <3> PICK m : m = modem
      OBVIOUS
    <3> PICK k : k = modem'
      OBVIOUS
    <3>1. k = [up |-> TRUE, open |-> m.open, lock |-> m.lock, told |-> m.told]
      BY <2>0 DEF SettingsTyped, IsModem
    <3> QED BY <3>1 DEF IsModem, SettingsTyped
  <2> PICK ms : ms = IF adapter THEN <<Plain("ssr")>> ELSE <<>>
    OBVIOUS
  <2>2. IsQueue(ms)
    BY QueueOfOne, QueueOfNone
  <2>3. IsQueue(queue')
    BY <2>0, <2>2, Posted DEF SettingsTyped
  <2>4. SettingsTyped'
    BY <2>0, <2>1, <2>3 DEF SettingsTyped
  <2>5. ASSUME adapter PROVE Renewed'
    <3>1. Len(ms) = 1 /\ ms[1] = Plain("ssr")
      BY <2>5, QueueOfOne
    <3> PICK n : n = Len(queue)
      OBVIOUS
    <3>2. /\ n \in Nat /\ DOMAIN queue' = 1 .. n + Len(ms) /\ Len(queue') = n + Len(ms)
          /\ \A i \in 1 .. Len(ms) : queue'[n + i] = ms[i]
      BY <2>0, <2>2, Posted DEF SettingsTyped
    <3>3. /\ n + 1 \in DOMAIN queue' /\ queue'[n + 1].of = "ssr" /\ Len(queue') + 1 = n + 2
          /\ n + 1 < n + 2
      BY <3>1, <3>2 DEF Plain
    <3>4. Opens(n + 2)'
      BY <3>3 DEF Opens
    <3> QED BY <2>0, <2>5, <3>3, <3>4 DEF Renewed
  <2> QED BY <2>0, <2>4, <2>5 DEF StatusInv, Renews, NoData, Plain
<1>3. ASSUME TellUp PROVE SettingsTyped' /\ StatusInv' /\ (adapter => Renews)
  <2>0. /\ agpsStatus' = agpsStatus /\ fpc' = fpc /\ mpc' = mpc /\ wanted' = wanted /\ adapter' = adapter
        /\ modem' = modem /\ untold' = untold /\ raced' = raced /\ queue' = queue \o <<Plain("up")>>
    BY <1>3 DEF TellUp, engine, Post
  <2> PICK ms : ms = <<Plain("up")>>
    OBVIOUS
  <2> PICK n : n = Len(queue)
    OBVIOUS
  <2>1. IsQueue(ms) /\ Len(ms) = 1 /\ ms[1].of = "up"
    BY QueueOfOne DEF Plain
  <2>2. /\ n \in Nat /\ DOMAIN queue = 1 .. n /\ DOMAIN queue' = 1 .. n + 1 /\ Len(queue') = n + 1
        /\ \A i \in 1 .. n : queue'[i] = queue[i]
        /\ queue'[n + 1].of = "up"
    <3>1. /\ Len(queue) \in Nat /\ DOMAIN queue = 1 .. Len(queue)
          /\ DOMAIN queue' = 1 .. Len(queue) + 1 /\ Len(queue') = Len(queue) + 1
          /\ \A i \in 1 .. Len(queue) : queue'[i] = queue[i]
          /\ \A i \in 1 .. 1 : queue'[Len(queue) + i] = ms[i]
      BY <2>0, <2>1, Posted DEF SettingsTyped
    <3> QED BY <2>1, <3>1
  <2>3. SettingsTyped'
    BY <2>0, <2>1, PostTyped DEF SettingsTyped
  <2>4. Renewed => Renewed'
    <3>1. ASSUME NEW i \in Nat, Opens(i) PROVE Opens(i)'
      BY <2>0, <2>2, <3>1 DEF Opens
    <3>2. Opens(n + 1) => Renewed'
      BY <2>2, <3>1 DEF Renewed
    <3>3. ASSUME NEW i \in DOMAIN queue, queue[i].of \in {"init", "up"}, Opens(i) PROVE Renewed'
      BY <2>2, <3>1, <3>3 DEF Renewed
    <3> QED BY <2>0, <3>2, <3>3 DEF Renewed
  <2>5. Newest => Newest'
    <3>1. ASSUME NEW i \in DOMAIN queue, queue[i].of = "data", queue[i].enable = wanted.data,
                 \A j \in DOMAIN queue : i < j => queue[j].of # "data"
          PROVE  /\ i \in DOMAIN queue' /\ queue'[i].of = "data" /\ queue'[i].enable = wanted.data
                 /\ \A j \in DOMAIN queue' : i < j => queue'[j].of # "data"
      BY <2>2, <3>1
    <3>2. (\A i \in DOMAIN queue : queue[i].of # "data") => (\A i \in DOMAIN queue' : queue'[i].of # "data")
      BY <2>2
    <3> QED BY <2>0, <3>1, <3>2 DEF Newest, NoData, Plain
  <2> QED BY <2>0, <2>3, <2>4, <2>5 DEF StatusInv, Renews, NoData, Plain
<1> QED BY <1>1, <1>2, <1>3

LEMMA InitStatus == SettingsInit => SettingsTyped /\ StatusInv
<1> SUFFICES ASSUME SettingsInit PROVE SettingsTyped /\ StatusInv
  OBVIOUS
<1>1. IsQueue(queue)
  BY QueueOfNone DEF SettingsInit
<1>2. IsModem(modem)
  <2> PICK f : f = Forgotten
    OBVIOUS
  <2>1. f = [conf |-> f.conf, data |-> f.data, apn |-> f.apn, server |-> f.server]
    BY DEF Forgotten
  <2>2. f \in [conf : {f.conf}, data : {f.data}, apn : {f.apn}, server : {f.server}]
    BY <2>1
  <2> PICK m : m = modem
    OBVIOUS
  <2>3. m = [up |-> TRUE, open |-> FALSE, lock |-> 0, told |-> f]
    BY DEF SettingsInit
  <2> QED BY <2>2, <2>3 DEF IsModem
<1>3. wanted \in [data : DataStatus, server : {wanted.server}, lock : {wanted.lock}] /\ wanted.data = "disallow"
  BY DEF SettingsInit, DataStatus
<1> QED BY <1>1, <1>2, <1>3 DEF SettingsInit, SettingsTyped, StatusInv

LEMMA NextKeepsStatus == SettingsTyped /\ StatusInv /\ [SettingsNext]_settingsVars => SettingsTyped' /\ StatusInv'
<1> SUFFICES ASSUME SettingsTyped, StatusInv, [SettingsNext]_settingsVars PROVE SettingsTyped' /\ StatusInv'
  OBVIOUS
<1>1. CASE Framework
  BY <1>1, CallsKeepStatus, InitKeepsStatus, SendKeepsStatus, UpdateKeepsStatus DEF Framework
<1>2. CASE MsgTask
  BY <1>2, HandlersKeepStatus, OpenKeepsStatus, ReinitKeepsStatus, ReinitSendKeepsStatus DEF MsgTask
<1>3. CASE Crash \/ Recover \/ TellUp
  BY <1>3, ModemKeepsStatus
<1>4. CASE UNCHANGED settingsVars
  BY <1>4 DEF settingsVars, engine, bounds, SettingsTyped, IsQueue, IsModem, StatusInv, Renewed, Newest,
              Opens, NoData, Plain
<1> QED BY <1>1, <1>2, <1>3, <1>4 DEF SettingsNext

(***************************************************************************)
(* Whenever nothing is under way, the modem allows data calls exactly if   *)
(* the framework said so last, but for the two exempt cases: the status    *)
(* that loc_eng_agps_ril_update_network_availability stores, that it sends *)
(* and that loc_eng_reinit sends again.                                    *)
(***************************************************************************)
THEOREM DataStatusAlwaysAgrees == SettingsSpec => []DataStatusAgrees
<1>1. SettingsTyped /\ StatusInv => DataStatusAgrees
  <2> SUFFICES ASSUME SettingsTyped, StatusInv, Quiet, ~untold, ~raced PROVE modem.told.data = wanted.data
    BY DEF DataStatusAgrees
  <2>1. DOMAIN queue = {}
    BY QueueOfNone DEF Quiet, IsQueue
  <2>2. ~Renewed
    BY <2>1 DEF Quiet, Renewed
  <2>3. Newest
    BY <2>2 DEF Quiet, StatusInv
  <2> QED BY <2>1, <2>3 DEF Quiet, Newest
<1>2. SettingsInit => SettingsTyped /\ StatusInv
  BY InitStatus
<1>3. (SettingsTyped /\ StatusInv) /\ [SettingsNext]_settingsVars => (SettingsTyped /\ StatusInv)'
  BY NextKeepsStatus
<1> QED BY <1>1, <1>2, <1>3, PTL DEF SettingsSpec

-----------------------------------------------------------------------------
(* What the files say *)

\* The lines that name a parameter, and the last of them, after n lines.
NamingTo(p, file, n) == {i \in Naming(p, file) : i <= n}
Useful(file, n) == {i \in DOMAIN file.lines : i <= n /\ file.lines[i].name \in Param}
ValueAt(p, file, T) ==
    LET line == file.lines[CHOOSE i \in T : \A j \in T : j <= i]
    IN  IF p \in Float /\ line.hex THEN 0 ELSE line.value
LastTo(p, file, n) == ValueAt(p, file, NamingTo(p, file, n))

ConfTo(old, file, n) ==
    [value |-> [p \in Param |-> IF NamingTo(p, file, n) # {} THEN LastTo(p, file, n) ELSE old.value[p]],
     valid |-> {p \in Flagged : NamingTo(p, file, n) # {}}]

StateTo(old, file, n) ==
    [conf |-> ConfTo(old, file, n), left |-> Cardinality(Param) - Cardinality(Useful(file, n))]

\* A table of parameters.
IsConf(old) ==
    /\ old \in [value : {old.value}, valid : {old.valid}]
    /\ old.value \in [Param -> Nat]

LEMMA Cleared ==
    ASSUME NEW old, IsConf(old)
    PROVE  [old EXCEPT !.valid = {}] = [value |-> old.value, valid |-> {}]
<1>1. old \in [value : {old.value}, valid : {old.valid}]
  BY DEF IsConf
<1> QED BY <1>1

LEMMA UsefulFinite ==
    ASSUME NEW file, IsFile(file), NEW n
    PROVE  IsFiniteSet(Useful(file, n)) /\ Cardinality(Useful(file, n)) \in Nat
<1>1. Len(file.lines) \in Nat /\ DOMAIN file.lines = 1 .. Len(file.lines)
  BY DEF IsFile
<1>2. IsFiniteSet(DOMAIN file.lines)
  BY <1>1, FS_Interval
<1>3. Useful(file, n) \subseteq DOMAIN file.lines
  BY DEF Useful
<1> QED BY <1>2, <1>3, FS_Subset, FS_CardinalityType

LEMMA LineRead ==
    ASSUME NEW old, IsConf(old), NEW file, IsFile(file), ReadWhole(file),
           NEW n \in 1 .. Len(file.lines)
    PROVE  StateTo(old, file, n) = ReadLine(StateTo(old, file, n - 1), file.lines[n])
<1> PICK line : line = file.lines[n]
  OBVIOUS
<1>0. /\ Len(file.lines) \in Nat /\ DOMAIN file.lines = 1 .. Len(file.lines)
      /\ n \in DOMAIN file.lines /\ n \in Nat
  BY DEF IsFile
<1>1. \A p : NamingTo(p, file, n) = IF line.name = p THEN NamingTo(p, file, n - 1) \cup {n}
                                                    ELSE NamingTo(p, file, n - 1)
  BY <1>0 DEF NamingTo, Naming
<1>2. CASE line.name \notin Param
  <2>1. \A p \in Param : NamingTo(p, file, n) = NamingTo(p, file, n - 1)
    BY <1>1, <1>2
  <2>2. Useful(file, n) = Useful(file, n - 1)
    BY <1>0, <1>2 DEF Useful
  <2>3. ConfTo(old, file, n) = ConfTo(old, file, n - 1)
    <3>1. \A p \in Param : LastTo(p, file, n) = LastTo(p, file, n - 1)
      BY <2>1 DEF LastTo
    <3>2. Flagged \subseteq Param
      BY CfgAssumption
    <3> QED BY <2>1, <3>1, <3>2 DEF ConfTo
  <2>4. StateTo(old, file, n) = StateTo(old, file, n - 1)
    BY <2>2, <2>3 DEF StateTo
  <2> QED BY <1>2, <2>4 DEF ReadLine
<1>3. CASE line.name \in Param
  <2> PICK s : s = StateTo(old, file, n - 1)
    OBVIOUS
  <2>1. /\ n \notin Useful(file, n - 1)
        /\ Useful(file, n) = Useful(file, n - 1) \cup {n}
        /\ Useful(file, n) \subseteq {i \in DOMAIN file.lines : file.lines[i].name \in Param}
    BY <1>0, <1>3 DEF Useful
  <2>2. /\ Cardinality(Useful(file, n)) = Cardinality(Useful(file, n - 1)) + 1
        /\ Cardinality(Useful(file, n - 1)) \in Nat
    BY <2>1, UsefulFinite, FS_AddElement
  <2>3. Cardinality(Param) \in Nat
    BY CfgAssumption, FS_CardinalityType
  <2>4. Cardinality(Useful(file, n)) <= Cardinality(Param)
    <3> PICK all : all = {i \in DOMAIN file.lines : file.lines[i].name \in Param}
      OBVIOUS
    <3>1. IsFiniteSet(all)
      <4>1. IsFiniteSet(DOMAIN file.lines)
        BY <1>0, FS_Interval, SMTT(30)
      <4>2. all \subseteq DOMAIN file.lines
        OBVIOUS
      <4> QED BY <4>1, <4>2, FS_Subset
    <3>2. Cardinality(Useful(file, n)) <= Cardinality(all)
      BY <2>1, <3>1, FS_Subset
    <3>3. Cardinality(all) <= Cardinality(Param) /\ Cardinality(all) \in Nat
      BY <3>1, FS_CardinalityType DEF ReadWhole
    <3> QED BY <2>2, <2>3, <3>2, <3>3
  <2>5. s.left > 0 /\ StateTo(old, file, n).left = s.left - 1
    BY <2>2, <2>3, <2>4 DEF StateTo
  <2>6. ConfTo(old, file, n) = SetEntry(ConfTo(old, file, n - 1), line)
    <3> PICK c : c = ConfTo(old, file, n - 1)
      OBVIOUS
    <3> PICK w : w = IF line.name \in Float /\ line.hex THEN 0 ELSE line.value
      OBVIOUS
    <3>1. \A p \in Param : p # line.name =>
             /\ NamingTo(p, file, n) = NamingTo(p, file, n - 1)
             /\ LastTo(p, file, n) = LastTo(p, file, n - 1)
      BY <1>1 DEF LastTo
    <3>2. NamingTo(line.name, file, n) # {} /\ LastTo(line.name, file, n) = w
      <4> PICK T : T = NamingTo(line.name, file, n)
        OBVIOUS
      <4>1. n \in T /\ \A i \in T : i \in Nat /\ i <= n
        BY <1>0, <1>1 DEF NamingTo, Naming
      <4> PICK k : k = CHOOSE i \in T : \A j \in T : j <= i
        OBVIOUS
      <4>2. k \in T /\ \A j \in T : j <= k
        BY <4>1
      <4>3. k = n
        BY <4>1, <4>2
      <4> QED BY <4>1, <4>3 DEF LastTo, ValueAt
    <3>3. c.value \in [Param -> {c.value[p] : p \in Param}]
      BY DEF ConfTo
    <3>4. [c.value EXCEPT ![line.name] = w] =
             [p \in Param |-> IF NamingTo(p, file, n) # {} THEN LastTo(p, file, n) ELSE old.value[p]]
      <4>1. ASSUME NEW p \in Param, p # line.name
            PROVE  c.value[p] = IF NamingTo(p, file, n) # {} THEN LastTo(p, file, n) ELSE old.value[p]
        BY <3>1, <4>1 DEF ConfTo
      <4> QED BY <1>3, <3>2, <3>3, <4>1
    <3>5. {p \in Flagged : NamingTo(p, file, n) # {}} = c.valid \cup ({line.name} \cap Flagged)
      BY <1>1 DEF ConfTo
    <3> QED BY <3>4, <3>5 DEF ConfTo, SetEntry
  <2>7. StateTo(old, file, n) = [conf |-> SetEntry(s.conf, line), left |-> s.left - 1]
    BY <2>5, <2>6 DEF StateTo
  <2> QED BY <1>3, <2>5, <2>7 DEF ReadLine
<1> QED BY <1>2, <1>3

\* A file that is there gives each parameter the value of its last line.
LEMMA FileRead ==
    ASSUME NEW old, IsConf(old), NEW file, IsFile(file), ReadWhole(file), file.there
    PROVE  ReadConf(old, file) = ConfTo(old, file, Len(file.lines))
<1> PICK l : l = Len(file.lines)
  OBVIOUS
<1>0. l \in Nat
  BY DEF IsFile
<1> DEFINE base == [conf |-> [old EXCEPT !.valid = {}], left |-> Cardinality(Param)]
<1> DEFINE Is(g) == g = [n \in 0 .. l |-> IF n = 0 THEN base ELSE ReadLine(g[n - 1], file.lines[n])]
<1> PICK to : to = [n \in 0 .. l |-> StateTo(old, file, n)]
  OBVIOUS
<1> HIDE DEF base
<1>1. StateTo(old, file, 0) = base
  <2>1. \A p : NamingTo(p, file, 0) = {}
    BY DEF NamingTo, Naming, IsFile
  <2>2. Useful(file, 0) = {}
    BY DEF Useful, IsFile
  <2>3. Cardinality(Param) \in Nat /\ Cardinality(Useful(file, 0)) = 0
    BY <2>2, CfgAssumption, FS_CardinalityType, FS_EmptySet
  <2>4. ConfTo(old, file, 0) = [old EXCEPT !.valid = {}]
    <3> PICK v : v = old.value
      OBVIOUS
    <3>1. v \in [Param -> Nat]
      BY DEF IsConf
    <3>2. [p \in Param |-> IF NamingTo(p, file, 0) # {} THEN LastTo(p, file, 0) ELSE v[p]] = v
      BY <2>1, <3>1
    <3>3. {p \in Flagged : NamingTo(p, file, 0) # {}} = {}
      BY <2>1
    <3>4. [old EXCEPT !.valid = {}] = [value |-> v, valid |-> {}]
      BY Cleared
    <3> QED BY <3>2, <3>3, <3>4 DEF ConfTo
  <2>5. base = [conf |-> ConfTo(old, file, 0), left |-> Cardinality(Param)]
    BY <2>4 DEF base
  <2>6. Cardinality(Param) - Cardinality(Useful(file, 0)) = Cardinality(Param)
    BY <2>3
  <2> QED BY <2>5, <2>6 DEF StateTo
<1>2. ASSUME NEW n \in 1 .. l PROVE to[n] = ReadLine(to[n - 1], file.lines[n])
  <2>1. n - 1 \in 0 .. l /\ n \in 0 .. l
    BY <1>0
  <2> QED BY <2>1, LineRead
<1>3. Is(to)
  <2>1. to[0] = base
    BY <1>0, <1>1
  <2>2. \A n \in 0 .. l : n # 0 => n \in 1 .. l
    BY <1>0
  <2>3. \A n \in 0 .. l : to[n] = IF n = 0 THEN base ELSE ReadLine(to[n - 1], file.lines[n])
    BY <1>2, <2>1, <2>2
  <2>4. to = [n \in 0 .. l |-> to[n]]
    OBVIOUS
  <2> QED BY <2>3, <2>4
<1>4. ASSUME NEW g, Is(g) PROVE g[l] = to[l]
  <2> PICK T : T = {n \in 0 .. l : g[n] # to[n]}
    OBVIOUS
  <2>1. g[0] = base /\ \A n \in 1 .. l : g[n] = ReadLine(g[n - 1], file.lines[n])
    BY <1>0, <1>4
  <2>2. to[0] = base
    BY <1>0, <1>1
  <2> HIDE DEF Is
  <2>3. ASSUME T # {} PROVE FALSE
    <3>0. T \subseteq Nat
      BY <1>0
    <3>1. PICK n \in T : \A m \in T : n <= m
      BY <2>3, <3>0, LeastNatural
    <3>2. n \in 0 .. l /\ g[n] # to[n]
      BY <3>1
    <3>3. n # 0
      BY <2>1, <2>2, <3>2
    <3>4. n \in 1 .. l /\ n - 1 \in 0 .. l /\ ~(n <= n - 1)
      BY <1>0, <3>2, <3>3
    <3>5. g[n - 1] = to[n - 1]
      BY <3>1, <3>4
    <3> QED BY <1>2, <2>1, <3>2, <3>4, <3>5
  <2> QED BY <1>0, <2>3
<1>5. Is(CHOOSE g : Is(g))
  <2> HIDE DEF Is
  <2> QED BY <1>3
<1>6. ReadConf(old, file) = (CHOOSE g : Is(g))[l].conf
  BY DEF ReadConf, base
<1>7. to[l].conf = ConfTo(old, file, l)
  BY <1>0 DEF StateTo
<1> HIDE DEF Is
<1> QED BY <1>4, <1>5, <1>6, <1>7

\* What a file says of a parameter, or what was there before.
Given(old, file) ==
    [p \in Param |-> IF Naming(p, file) # {} THEN LastOf(p, file) ELSE old.value[p]]
Named(file) == {p \in Flagged : Naming(p, file) # {}}

LEMMA LastOfType ==
    ASSUME NEW file, IsFile(file), NEW p, Naming(p, file) # {}
    PROVE  LastOf(p, file) \in Nat
<1> PICK T : T = Naming(p, file)
  OBVIOUS
<1> PICK l : l = Len(file.lines)
  OBVIOUS
<1>1. l \in Nat /\ DOMAIN file.lines = 1 .. l /\ T \subseteq 1 .. l /\ T # {}
  BY DEF IsFile, Naming
<1>2. \E k \in T : \A i \in T : i <= k
  <2> PICK U : U = {l - i : i \in T}
    OBVIOUS
  <2>1. U \subseteq Nat /\ U # {}
    BY <1>1
  <2>2. PICK u \in U : \A w \in U : u <= w
    BY <2>1, LeastNatural
  <2>3. PICK k \in T : u = l - k
    OBVIOUS
  <2>4. ASSUME NEW i \in T PROVE i <= k
    <3>1. l - i \in U
      OBVIOUS
    <3>2. l - k <= l - i
      BY <2>2, <2>3, <3>1
    <3> QED BY <1>1, <3>2
  <2> QED BY <2>4
<1> PICK k : k = CHOOSE i \in T : \A j \in T : j <= i
  OBVIOUS
<1>3. k \in T
  BY <1>2
<1>4. file.lines[k].value \in Nat
  BY <1>1, <1>3 DEF IsFile
<1>5. LastOf(p, file) = IF p \in Float /\ file.lines[k].hex THEN 0 ELSE file.lines[k].value
  BY DEF LastOf
<1> QED BY <1>4, <1>5

LEMMA FileGives ==
    ASSUME NEW old, IsConf(old), NEW file, IsFile(file), ReadWhole(file)
    PROVE  /\ ReadConf(old, file) = [value |-> Given(old, file),
                                     valid |-> IF file.there THEN Named(file) ELSE old.valid]
           /\ Given(old, file) \in [Param -> Nat]
<1>1. Given(old, file) \in [Param -> Nat]
  BY LastOfType DEF Given, IsConf
<1>2. CASE file.there
  <2> PICK l : l = Len(file.lines)
    OBVIOUS
  <2>1. \A p : NamingTo(p, file, l) = Naming(p, file)
    BY DEF NamingTo, Naming, IsFile
  <2>2. \A p \in Param : LastTo(p, file, l) = LastOf(p, file)
    <3> SUFFICES ASSUME NEW p \in Param PROVE LastTo(p, file, l) = LastOf(p, file)
      OBVIOUS
    <3>1. LastTo(p, file, l) = ValueAt(p, file, Naming(p, file))
      BY <2>1 DEF LastTo
    <3> QED BY <3>1 DEF ValueAt, LastOf
  <2>3. ConfTo(old, file, l) = [value |-> Given(old, file), valid |-> Named(file)]
    BY <2>1, <2>2 DEF ConfTo, Given, Named
  <2> QED BY <1>1, <1>2, <2>3, FileRead
<1>3. CASE ~file.there
  <2>1. \A p : Naming(p, file) = {}
    BY <1>3 DEF Naming, IsFile
  <2>2. Given(old, file) = old.value
    BY <2>1 DEF Given, IsConf
  <2>3. old = [value |-> old.value, valid |-> old.valid]
    BY DEF IsConf
  <2>4. ReadConf(old, file) = old
    BY <1>3 DEF ReadConf
  <2> QED BY <1>1, <1>3, <2>2, <2>3, <2>4
<1> QED BY <1>2, <1>3

\* The file that is read last decides about the validity bits.
LastFile(d) == IF d.sap.there THEN d.sap ELSE d.gps

(***************************************************************************)
(* loc_eng_read_config, which reads line by line and stops after as many   *)
(* lines of use as the table has entries, gives what the files say.        *)
(***************************************************************************)
THEOREM ConfigRead ==
    ASSUME NEW d \in Device
    PROVE  /\ ReadConfig(d.gps, d.sap) = [value |-> Says(d.gps, d.sap), valid |-> Named(LastFile(d))]
           /\ Says(d.gps, d.sap) \in [Param -> Nat]
<1>0. IsFile(d.gps) /\ ReadWhole(d.gps) /\ IsFile(d.sap) /\ ReadWhole(d.sap)
  BY SettingsAssumption
<1>1. IsConf(Defaults) /\ Defaults.value = Default /\ Defaults.valid = {}
  BY CfgAssumption DEF Defaults, IsConf
<1> PICK old : old = ReadConf(Defaults, d.gps)
  OBVIOUS
<1>2. /\ old = [value |-> Given(Defaults, d.gps), valid |-> IF d.gps.there THEN Named(d.gps) ELSE {}]
      /\ Given(Defaults, d.gps) \in [Param -> Nat]
  BY <1>0, <1>1, FileGives
<1>3. old.valid = Named(d.gps)
  <2>1. ~d.gps.there => Named(d.gps) = {}
    BY <1>0 DEF Named, Naming, IsFile
  <2> QED BY <1>2, <2>1
<1>4. IsConf(old)
  BY <1>2 DEF IsConf
<1>5. /\ ReadConf(old, d.sap) = [value |-> Given(old, d.sap),
                                 valid |-> IF d.sap.there THEN Named(d.sap) ELSE Named(d.gps)]
      /\ Given(old, d.sap) \in [Param -> Nat]
  BY <1>0, <1>3, <1>4, FileGives
<1>6. Given(old, d.sap) = Says(d.gps, d.sap)
  <2>1. \A p \in Param : old.value[p] = IF Naming(p, d.gps) # {} THEN LastOf(p, d.gps) ELSE Default[p]
    BY <1>1, <1>2 DEF Given
  <2>2. \A p \in Param : Given(old, d.sap)[p] = Says(d.gps, d.sap)[p]
    BY <2>1 DEF Given, Says
  <2> QED BY <2>2 DEF Given, Says
<1>7. ReadConfig(d.gps, d.sap) = ReadConf(old, d.sap)
  BY DEF ReadConfig
<1> QED BY <1>5, <1>6, <1>7 DEF LastFile

-----------------------------------------------------------------------------
(* What is sent *)

\* The read of the configuration files, and what the device leaves of it.
Wanted == Says(device.gps, device.sap)
Held   == [Wanted EXCEPT !["CAPABILITIES"] = Capabilities(device, Wanted["CAPABILITIES"])]

ConfInv ==
    /\ device \in Device
    /\ adapter => configAlreadyRead
    /\ interface => configAlreadyRead
    /\ configAlreadyRead => conf = [value |-> Held, valid |-> Named(LastFile(device))]
    /\ adapter => capabilities = Held["CAPABILITIES"]

LEMMA CapabilitiesKept ==
    ASSUME NEW d, NEW c \in Nat
    PROVE  /\ Capabilities(d, Capabilities(d, c)) = Capabilities(d, c)
           /\ GnssType(d) \in {"GSS", "QCA1530"} => Assisted(Capabilities(d, c)) = 0
<1>1. CASE GnssType(d) \in {"GSS", "QCA1530"}
  <2> PICK a : a = Assisted(c)
    OBVIOUS
  <2> PICK h : h = c \div 2
    OBVIOUS
  <2>1. h \in Nat /\ (c = 2 * h \/ c = 2 * h + 1) /\ a = h % 4 /\ a \in 0 .. 3
    BY DEF Assisted
  <2> PICK q : q = h \div 4
    OBVIOUS
  <2>2. q \in Nat /\ h = 4 * q + a
    BY <2>1
  <2> PICK e : e = c - 2 * a
    OBVIOUS
  <2>3. e \in Nat /\ e \div 2 = 4 * q
    BY <2>1, <2>2
  <2>4. Assisted(e) = 0
    BY <2>2, <2>3 DEF Assisted
  <2>5. Capabilities(d, c) = e
    BY <1>1 DEF Capabilities
  <2>6. Capabilities(d, e) = e - 2 * Assisted(e)
    BY <1>1 DEF Capabilities
  <2> QED BY <2>3, <2>4, <2>5, <2>6
<1>2. CASE GnssType(d) \notin {"GSS", "QCA1530"}
  BY <1>2 DEF Capabilities
<1> QED BY <1>1, <1>2

LEMMA HeldIs ==
    ASSUME device \in Device
    PROVE  /\ Wanted \in [Param -> Nat] /\ "CAPABILITIES" \in Param
           /\ DOMAIN Held = Param
           /\ \A p \in Param : p # "CAPABILITIES" => Held[p] = Wanted[p]
           /\ Held["CAPABILITIES"] = Capabilities(device, Wanted["CAPABILITIES"])
<1>1. Wanted \in [Param -> Nat]
  BY ConfigRead DEF Wanted
<1>2. "CAPABILITIES" \in Param
  BY SettingsAssumption DEF Param
<1> QED BY <1>1, <1>2 DEF Held

LEMMA GetInterfaceConf == ConfInv /\ GetInterface => ConfInv'
<1> SUFFICES ASSUME ConfInv, GetInterface PROVE ConfInv'
  OBVIOUS
<1>1. device \in Device
  BY DEF ConfInv
<1> PICK d : d = device
  OBVIOUS
<1> PICK w : w = Wanted
  OBVIOUS
<1> PICK u : u = Held
  OBVIOUS
<1> PICK x : x = Named(LastFile(d))
  OBVIOUS
<1> PICK read : read = IF configAlreadyRead THEN conf ELSE ReadConfig(d.gps, d.sap)
  OBVIOUS
<1> PICK v : v = read.value
  OBVIOUS
<1>2. conf' = [read EXCEPT !.value["CAPABILITIES"] = Capabilities(d, @)]
  BY DEF GetInterface
<1>3. read = [value |-> v, valid |-> x] /\ (v = u \/ v = w)
  <2>1. CASE configAlreadyRead
    <3>1. read = [value |-> u, valid |-> x]
      BY <2>1 DEF ConfInv
    <3> QED BY <3>1
  <2>2. CASE ~configAlreadyRead
    <3>1. ReadConfig(d.gps, d.sap) = [value |-> w, valid |-> x]
      BY <1>1, ConfigRead DEF Wanted
    <3>2. read = [value |-> w, valid |-> x]
      BY <2>2, <3>1
    <3> QED BY <3>2
  <2> QED BY <2>1, <2>2
<1>4. /\ w \in [Param -> Nat] /\ "CAPABILITIES" \in Param
      /\ u = [w EXCEPT !["CAPABILITIES"] = Capabilities(d, w["CAPABILITIES"])]
      /\ u["CAPABILITIES"] = Capabilities(d, w["CAPABILITIES"])
  BY <1>1, HeldIs DEF Held
<1>5. Capabilities(d, Capabilities(d, w["CAPABILITIES"])) = Capabilities(d, w["CAPABILITIES"])
  BY <1>4, CapabilitiesKept
<1>6. [v EXCEPT !["CAPABILITIES"] = Capabilities(d, v["CAPABILITIES"])] = u
  <2>1. CASE v = w
    BY <1>4, <2>1
  <2>2. CASE v = u
    <3> PICK c : c = Capabilities(d, w["CAPABILITIES"])
      OBVIOUS
    <3>1. Capabilities(d, v["CAPABILITIES"]) = u["CAPABILITIES"]
      BY <1>4, <1>5, <2>2
    <3>2. u = [p \in Param |-> u[p]]
      BY <1>4
    <3>3. [u EXCEPT !["CAPABILITIES"] = u["CAPABILITIES"]] = u
      BY <3>2
    <3> QED BY <2>2, <3>1, <3>3
  <2> QED BY <1>3, <2>1, <2>2
<1>7. conf' = [value |-> u, valid |-> x]
  <2> PICK c : c = Capabilities(d, v["CAPABILITIES"])
    OBVIOUS
  <2>1. read = [value |-> v, valid |-> x]
    BY <1>3
  <2>2. conf' = [read EXCEPT !.value = [v EXCEPT !["CAPABILITIES"] = c]]
    BY <1>2, <2>1
  <2> QED BY <1>6, <2>1, <2>2
<1>8. /\ device' = device /\ adapter' = adapter /\ capabilities' = capabilities
      /\ configAlreadyRead' = TRUE /\ Held' = Held
  BY DEF GetInterface, Held, Wanted
<1> QED BY <1>7, <1>8 DEF ConfInv

LEMMA ConfStep == ConfInv /\ [SettingsNext]_settingsVars => ConfInv'
<1> SUFFICES ASSUME ConfInv, [SettingsNext]_settingsVars PROVE ConfInv'
  OBVIOUS
<1>1. CASE GetInterface
  BY <1>1, GetInterfaceConf
<1>2. CASE LocInit
  <2>1. /\ interface /\ adapter' = TRUE /\ device' = device /\ interface' = interface
        /\ configAlreadyRead' = configAlreadyRead /\ conf' = conf
        /\ capabilities' = IF adapter THEN capabilities ELSE conf.value["CAPABILITIES"]
    BY <1>2 DEF LocInit, Call, setup
  <2>2. Held' = Held /\ LastFile(device)' = LastFile(device)
    BY <2>1 DEF Held, Wanted
  <2>3. configAlreadyRead /\ conf.value = Held
    BY <2>1 DEF ConfInv
  <2> QED BY <2>1, <2>2, <2>3 DEF ConfInv
<1>3. ASSUME device' = device, interface' = interface, configAlreadyRead' = configAlreadyRead, conf' = conf,
             adapter' = adapter, capabilities' = capabilities
      PROVE  ConfInv'
  BY <1>3 DEF ConfInv, Held, Wanted
<1>4. ASSUME Framework, ~GetInterface, ~LocInit PROVE ConfInv'
  <2>1. /\ device' = device /\ interface' = interface /\ configAlreadyRead' = configAlreadyRead
        /\ conf' = conf /\ adapter' = adapter /\ capabilities' = capabilities
    BY <1>4 DEF Framework, AgpsInit, SendAvailability, Cleanup, SetServerProxy, UpdateAvailability, Call,
                engine, setup
  <2> QED BY <1>3, <2>1
<1>5. CASE MsgTask \/ Crash \/ Recover \/ TellUp \/ UNCHANGED settingsVars
  <2>1. /\ device' = device /\ interface' = interface /\ configAlreadyRead' = configAlreadyRead
        /\ conf' = conf /\ adapter' = adapter /\ capabilities' = capabilities
    BY <1>5 DEF MsgTask, DoConf, DoEnableData, DoSetServer, DoLock, DoOpen, Reinit, ReinitSend, Handle,
                Crash, Recover, TellUp, settingsVars, engine, setup
  <2> QED BY <1>3, <2>1
<1> QED BY <1>1, <1>2, <1>4, <1>5 DEF SettingsNext

-----------------------------------------------------------------------------
(* What the modem is told of the configuration *)

\* Values of parameters that the modem is told, as the files say them.
Good(v) ==
    /\ DOMAIN v \subseteq Configurable /\ v = [p \in DOMAIN v |-> v[p]]
    /\ \A p \in DOMAIN v : v[p] = Wanted[p]

\* Each has been told or is on its way.
Covered ==
    \A p \in Configurable :
        \/ p \in DOMAIN modem.told.conf
        \/ \E i \in DOMAIN queue : queue[i].of = "conf" /\ p \in DOMAIN queue[i].values

AllGood ==
    /\ Good(modem.told.conf)
    /\ \A i \in DOMAIN queue : queue[i].of = "conf" => Good(queue[i].values)

TaughtInv ==
    /\ ~adapter => queue = <<>> /\ ~upDue /\ mpc = NoData
    /\ AllGood
    /\ adapter => Renewed \/ (modem.open /\ Covered)

\* The messages of a Reinit tell all that is to be told.
LEMMA ConfigurationCovers ==
    ASSUME ConfInv, configAlreadyRead
    PROVE  /\ \A i \in DOMAIN Configuration :
                  Configuration[i].of = "conf" /\ Good(Configuration[i].values)
           /\ \A p \in Configurable : \E i \in DOMAIN Configuration : p \in DOMAIN Configuration[i].values
<1> DEFINE Vals(i) == Restrict(conf.value, Told(Setting[i]))
<1>1. \A i \in DOMAIN Setting : Setting[i] \subseteq Param \ {"CAPABILITIES"}
  BY SettingsAssumption
<1>5. conf.valid = Named(LastFile(device)) /\ conf.value = Held /\ device \in Device
  BY DEF ConfInv
<1>6. ASSUME NEW i \in DOMAIN Setting PROVE Told(Setting[i]) = Setting[i] \cap Configurable
  <2>1. \A p \in Setting[i] : p \in UNION Range(Setting)
    BY DEF Range
  <2> QED BY <1>5, <2>1 DEF Told, Configurable, Named, LastFile
<1>7. ASSUME NEW i \in DOMAIN Setting PROVE Good(Vals(i))
  <2> PICK P : P = Told(Setting[i])
    OBVIOUS
  <2>1. P \subseteq Configurable /\ P \subseteq Param /\ "CAPABILITIES" \notin P
    BY <1>1, <1>6
  <2>2. Vals(i) = [p \in P |-> Held[p]]
    BY <1>5 DEF Restrict
  <2>3. \A p \in P : Held[p] = Wanted[p]
    BY <1>5, <2>1, HeldIs
  <2> QED BY <2>1, <2>2, <2>3 DEF Good
<1>8. ASSUME NEW n \in DOMAIN Configuration
      PROVE  Configuration[n].of = "conf" /\ Good(Configuration[n].values)
  <2>1. PICK i \in Due : Configuration[n] = ConfMsg(Vals(i))
    BY ConfigurationIs
  <2>2. Good(Vals(i))
    BY <1>7 DEF Due
  <2> HIDE DEF Vals
  <2> QED BY <2>1, <2>2 DEF ConfMsg
<1>9. ASSUME NEW p \in Configurable
      PROVE  \E n \in DOMAIN Configuration : p \in DOMAIN Configuration[n].values
  <2>1. PICK i \in DOMAIN Setting : p \in Setting[i]
    BY DEF Configurable, Range
  <2>2. p \in Told(Setting[i]) /\ i \in Due
    BY <1>6, <2>1 DEF Due
  <2>3. PICK n \in DOMAIN Configuration : Configuration[n] = ConfMsg(Vals(i))
    BY <2>2, ConfigurationIs
  <2>4. DOMAIN Vals(i) = Told(Setting[i])
    BY DEF Restrict
  <2>5. Configuration[n].values = Vals(i)
    <3> HIDE DEF Vals
    <3> QED BY <2>3 DEF ConfMsg
  <2> QED BY <2>2, <2>3, <2>4, <2>5
<1> QED BY <1>8, <1>9

LEMMA GoodKept ==
    ASSUME device' = device
    PROVE  /\ Configurable' = Configurable
           /\ (/\ Good(modem'.told.conf)
               /\ \A i \in DOMAIN queue' : queue'[i].of = "conf" => Good(queue'[i].values)) => AllGood'
<1>1. Configurable' = Configurable
  BY DEF Configurable
<1>2. Wanted' = Wanted
  BY DEF Wanted
<1> QED BY <1>1, <1>2 DEF AllGood, Good

\* What a step posts, and what it leaves in the queue and in the modem.
Tells(ms) ==
    /\ IsQueue(ms)
    /\ \A i \in DOMAIN ms : ms[i].of = "conf" => Good(ms[i].values)

LEMMA PostTeaches ==
    ASSUME SettingsTyped, AllGood, NEW ms, Tells(ms), queue' = queue \o ms,
           device' = device, modem'.told.conf = modem.told.conf
    PROVE  AllGood' /\ (Covered => Covered')
<1> PICK n : n = Len(queue)
  OBVIOUS
<1> PICK k : k = Len(ms)
  OBVIOUS
<1>1. /\ n \in Nat /\ k \in Nat /\ DOMAIN queue = 1 .. n /\ DOMAIN queue' = 1 .. n + k /\ DOMAIN ms = 1 .. k
      /\ \A i \in 1 .. n : queue'[i] = queue[i]
      /\ \A i \in 1 .. k : queue'[n + i] = ms[i]
  BY Posted DEF SettingsTyped, Tells
<1>2. ASSUME NEW i \in DOMAIN queue', queue'[i].of = "conf" PROVE Good(queue'[i].values)
  <2>1. CASE i \in 1 .. n
    BY <1>1, <1>2, <2>1 DEF AllGood
  <2>2. CASE i \notin 1 .. n
    <3> PICK j : j = i - n
      OBVIOUS
    <3>1. j \in 1 .. k /\ i = n + j
      BY <1>1, <2>2
    <3>2. queue'[n + j] = ms[j]
      BY <1>1, <3>1
    <3>3. queue'[i] = ms[j]
      BY <3>1, <3>2
    <3> QED BY <1>1, <1>2, <3>1, <3>3 DEF Tells
  <2> QED BY <2>1, <2>2
<1>3. AllGood'
  <2>1. Good(modem'.told.conf)
    BY DEF AllGood
  <2> QED BY <1>2, <2>1, GoodKept
<1>4. Covered => Covered'
  <2>1. \A i \in DOMAIN queue : i \in DOMAIN queue' /\ queue'[i] = queue[i]
    BY <1>1
  <2> QED BY <2>1, GoodKept DEF Covered
<1> QED BY <1>3, <1>4

LEMMA TakeTeaches ==
    ASSUME SettingsTyped, AllGood, queue # <<>>, NEW ms, Tells(ms), queue' = Tail(queue) \o ms,
           device' = device, modem'.told.conf = modem.told.conf
    PROVE  /\ AllGood'
           /\ Head(queue).of # "conf" /\ Covered => Covered'
<1> PICK n : n = Len(queue)
  OBVIOUS
<1> PICK k : k = Len(ms)
  OBVIOUS
<1>1. /\ n \in Nat \ {0} /\ k \in Nat /\ DOMAIN queue = 1 .. n /\ DOMAIN queue' = 1 .. n - 1 + k
      /\ DOMAIN ms = 1 .. k /\ Head(queue) = queue[1]
      /\ \A i \in 2 .. n : queue'[i - 1] = queue[i]
      /\ \A i \in 1 .. k : queue'[n - 1 + i] = ms[i]
  BY TakenHead DEF SettingsTyped, Tells
<1>2. ASSUME NEW i \in DOMAIN queue', queue'[i].of = "conf" PROVE Good(queue'[i].values)
  <2>1. CASE i \in 1 .. n - 1
    <3> PICK j : j = i + 1
      OBVIOUS
    <3>1. j \in 2 .. n /\ i = j - 1
      BY <1>1, <2>1
    <3>2. queue'[j - 1] = queue[j]
      BY <1>1, <3>1
    <3>3. queue'[i] = queue[j] /\ j \in DOMAIN queue
      BY <1>1, <3>1, <3>2
    <3> QED BY <1>2, <3>3 DEF AllGood
  <2>2. CASE i \notin 1 .. n - 1
    <3> PICK j : j = i - (n - 1)
      OBVIOUS
    <3>1. j \in 1 .. k /\ i = n - 1 + j
      BY <1>1, <2>2
    <3>2. queue'[n - 1 + j] = ms[j]
      BY <1>1, <3>1
    <3>3. queue'[i] = ms[j]
      BY <3>1, <3>2
    <3> QED BY <1>1, <1>2, <3>1, <3>3 DEF Tells
  <2> QED BY <2>1, <2>2
<1>3. AllGood'
  <2>1. Good(modem'.told.conf)
    BY DEF AllGood
  <2> QED BY <1>2, <2>1, GoodKept
<1>4. ASSUME queue[1].of # "conf", Covered PROVE Covered'
  <2>1. ASSUME NEW p \in Configurable, NEW i \in DOMAIN queue, queue[i].of = "conf", p \in DOMAIN queue[i].values
        PROVE  \E j \in DOMAIN queue' : queue'[j].of = "conf" /\ p \in DOMAIN queue'[j].values
    <3>1. i \in 2 .. n /\ i - 1 \in DOMAIN queue'
      BY <1>1, <1>4, <2>1
    <3>2. queue'[i - 1] = queue[i]
      BY <1>1, <3>1
    <3> QED BY <2>1, <3>1, <3>2
  <2> QED BY <1>4, <2>1, GoodKept DEF Covered
<1> QED BY <1>1, <1>3, <1>4

LEMMA ConfTeaches ==
    SettingsTyped /\ AllGood /\ DoConf => AllGood' /\ (modem.open /\ Covered => Covered')
<1> SUFFICES ASSUME SettingsTyped, AllGood, DoConf PROVE AllGood' /\ (modem.open /\ Covered => Covered')
  OBVIOUS
<1> PICK n : n = Len(queue)
  OBVIOUS
<1> PICK h : h = Head(queue).values
  OBVIOUS
<1> PICK c : c = modem.told.conf
  OBVIOUS
<1>0. /\ device' = device /\ queue # <<>> /\ queue' = Tail(queue) \o <<>> /\ Head(queue).of = "conf"
      /\ modem'.told.conf = IF modem.open THEN Overlaid(h, c) ELSE c
  BY ModemHears DEF DoConf, Handle, engine, setup
<1>1. /\ n \in Nat \ {0} /\ DOMAIN queue = 1 .. n /\ DOMAIN queue' = 1 .. n - 1
      /\ Head(queue) = queue[1]
      /\ \A i \in 2 .. n : queue'[i - 1] = queue[i]
  BY <1>0, QueueOfNone, TakenHead DEF SettingsTyped
<1>2. Good(h) /\ Good(c)
  BY <1>0, <1>1 DEF AllGood
<1>3. Good(Overlaid(h, c))
  BY <1>2 DEF Good, Overlaid
<1>4. Good(modem'.told.conf)
  BY <1>0, <1>2, <1>3
<1>5. AllGood'
  <2>1. ASSUME NEW i \in DOMAIN queue', queue'[i].of = "conf" PROVE Good(queue'[i].values)
    <3> PICK j : j = i + 1
      OBVIOUS
    <3>1. j \in 2 .. n /\ i = j - 1
      BY <1>1, <2>1
    <3>2. queue'[j - 1] = queue[j]
      BY <1>1, <3>1
    <3>3. queue'[i] = queue[j]
      BY <3>1, <3>2
    <3>4. j \in DOMAIN queue
      BY <1>1, <3>1
    <3> QED BY <2>1, <3>3, <3>4 DEF AllGood
  <2> QED BY <1>0, <1>4, <2>1, GoodKept
<1>6. ASSUME modem.open, Covered PROVE Covered'
  <2>1. DOMAIN modem'.told.conf = DOMAIN h \cup DOMAIN c
    BY <1>0, <1>6 DEF Overlaid
  <2>2. ASSUME NEW p \in Configurable, NEW i \in DOMAIN queue, queue[i].of = "conf", p \in DOMAIN queue[i].values
        PROVE  \/ p \in DOMAIN modem'.told.conf
               \/ \E j \in DOMAIN queue' : queue'[j].of = "conf" /\ p \in DOMAIN queue'[j].values
    <3>1. CASE i = 1
      BY <1>1, <2>1, <2>2, <3>1
    <3>2. CASE i # 1
      <4>1. i \in 2 .. n /\ i - 1 \in DOMAIN queue'
        BY <1>1, <2>2, <3>2
      <4>2. queue'[i - 1] = queue[i]
        BY <1>1, <4>1
      <4> QED BY <2>2, <4>1, <4>2
    <3> QED BY <3>1, <3>2
  <2>3. Configurable' = Configurable
    BY <1>0, GoodKept
  <2>4. \A p \in Configurable : p \in DOMAIN c \/ \E i \in DOMAIN queue : queue[i].of = "conf" /\ p \in DOMAIN queue[i].values
    BY <1>6 DEF Covered
  <2>5. \A p \in Configurable :
            \/ p \in DOMAIN modem'.told.conf
            \/ \E j \in DOMAIN queue' : queue'[j].of = "conf" /\ p \in DOMAIN queue'[j].values
    BY <2>1, <2>2, <2>4
  <2> QED BY <2>3, <2>5 DEF Covered
<1> QED BY <1>5, <1>6

LEMMA TellsOf ==
    /\ Tells(<<>>) /\ Tells(Buffered)
    /\ \A m : m.of # "conf" => Tells(<<m>>)
    /\ \A l, m, r : l.of # "conf" /\ m.of # "conf" /\ r.of # "conf" => Tells(<<l, m, r>>)
<1>1. Tells(<<>>)
  <2>1. IsQueue(<<>>) /\ DOMAIN <<>> = {}
    BY QueueOfNone DEF IsQueue
  <2> QED BY <2>1 DEF Tells
<1>2. Tells(Buffered)
  <2>1. IsQueue(Buffered) /\ \A i \in DOMAIN Buffered : Buffered[i].of = "server"
    BY BufferedApart DEF Apart
  <2> QED BY <2>1 DEF Tells
<1>3. ASSUME NEW m, m.of # "conf" PROVE Tells(<<m>>)
  <2> PICK q : q = <<m>>
    OBVIOUS
  <2>1. IsQueue(q) /\ Len(q) = 1 /\ q[1] = m
    BY QueueOfOne
  <2>2. DOMAIN q = 1 .. 1
    BY <2>1 DEF IsQueue
  <2> QED BY <1>3, <2>1, <2>2 DEF Tells
<1>4. ASSUME NEW l, NEW m, NEW r, l.of # "conf", m.of # "conf", r.of # "conf" PROVE Tells(<<l, m, r>>)
  <2> PICK q : q = <<l, m, r>>
    OBVIOUS
  <2>1. IsQueue(q) /\ Len(q) = 3 /\ q[1] = l /\ q[2] = m /\ q[3] = r
    BY QueueOfThree
  <2>2. DOMAIN q = 1 .. 3
    BY <2>1 DEF IsQueue
  <2> QED BY <1>4, <2>1, <2>2 DEF Tells
<1> QED BY <1>1, <1>2, <1>3, <1>4

\* A step that posts while there is an adapter.
LEMMA PostKeepsTaught ==
    ASSUME SettingsTyped, TaughtInv, NEW ms, Tells(ms), queue' = queue \o ms,
           device' = device, modem' = modem, adapter, adapter', Renews
    PROVE  TaughtInv'
<1>1. AllGood' /\ (Covered => Covered')
  BY PostTeaches DEF TaughtInv
<1> QED BY <1>1 DEF TaughtInv, Renews

\* A step that neither posts nor tells anything.
LEMMA QuietKeepsTaught ==
    ASSUME TaughtInv, UNCHANGED <<device, queue, modem, adapter, upDue, mpc>>
    PROVE  TaughtInv'
<1>1. AllGood'
  BY GoodKept DEF TaughtInv, AllGood
<1>2. Covered => Covered'
  BY GoodKept DEF Covered
<1>3. Renewed => Renewed'
  BY DEF Renewed, Opens
<1>4. mpc = NoData => mpc' = NoData'
  BY DEF NoData, Plain
<1> QED BY <1>1, <1>2, <1>3, <1>4 DEF TaughtInv

LEMMA FrameworkTaught ==
    SettingsTyped /\ StatusInv /\ TaughtInv /\ Framework => TaughtInv'
<1> SUFFICES ASSUME SettingsTyped, StatusInv, TaughtInv, Framework PROVE TaughtInv'
  OBVIOUS
<1>1. CASE GetInterface
  BY <1>1, QuietKeepsTaught DEF GetInterface
<1>2. CASE LocInit
  <2>0. modem' = modem /\ device' = device /\ adapter' = TRUE
    BY <1>2 DEF LocInit, Call, setup
  <2>1. CASE adapter
    <3>1. queue' = queue \o <<Lock(1)>>
      BY <1>2, <2>1 DEF LocInit, Post
    <3>2. Tells(<<Lock(1)>>)
      BY TellsOf DEF Lock
    <3>3. Renews
      BY <1>2, InitKeepsStatus
    <3> QED BY <2>0, <2>1, <3>1, <3>2, <3>3, PostKeepsTaught
  <2>2. CASE ~adapter
    <3>1. queue' = queue \o <<Plain("open"), Plain("init"), Lock(1)>>
      BY <1>2, <2>2 DEF LocInit, Post
    <3>2. Tells(<<Plain("open"), Plain("init"), Lock(1)>>)
      <4>1. Plain("open").of # "conf" /\ Plain("init").of # "conf" /\ Lock(1).of # "conf"
        BY DEF Plain, Lock
      <4> QED BY <4>1, TellsOf
    <3>3. AllGood'
      BY <2>0, <3>1, <3>2, PostTeaches DEF TaughtInv
    <3>4. Renewed'
      BY <1>2, <2>2, InitKeepsStatus
    <3> QED BY <2>0, <3>3, <3>4 DEF TaughtInv
  <2> QED BY <2>1, <2>2
<1>3. CASE AgpsInit
  <2>1. /\ queue' = queue \o Buffered /\ modem' = modem /\ device' = device /\ adapter' = adapter /\ adapter
        /\ Renews
    BY <1>3, CallsKeepStatus DEF AgpsInit, Call, setup, Post
  <2> QED BY <2>1, PostKeepsTaught, TellsOf
<1>4. CASE SendAvailability
  <2> PICK d : d = fpc
    OBVIOUS
  <2>1. /\ queue' = queue \o <<d>> /\ modem' = modem /\ device' = device /\ adapter' = adapter /\ adapter
        /\ d.of = "data" /\ Renews
    BY <1>4, SendKeepsStatus DEF SendAvailability, StatusInv, engine, setup, Post
  <2>2. Tells(<<d>>)
    BY <2>1, TellsOf
  <2> QED BY <2>1, <2>2, PostKeepsTaught
<1>5. CASE Cleanup
  <2>1. /\ queue' = queue \o <<Lock(4)>> /\ modem' = modem /\ device' = device /\ adapter' = adapter /\ adapter
        /\ Renews
    BY <1>5, CallsKeepStatus DEF Cleanup, Call, engine, setup, Post
  <2>2. Tells(<<Lock(4)>>)
    BY TellsOf DEF Lock
  <2> QED BY <2>1, <2>2, PostKeepsTaught
<1>6. ASSUME NEW t \in ServerType, NEW a \in Address, SetServerProxy(t, a) PROVE TaughtInv'
  <2>0. /\ modem' = modem /\ device' = device /\ adapter' = adapter /\ upDue' = upDue /\ mpc' = mpc
    BY <1>6 DEF SetServerProxy, Call, setup
  <2>1. CASE adapter /\ queue' = queue \o <<SetServer(t, a)>>
    <3>1. Tells(<<SetServer(t, a)>>)
      BY TellsOf DEF SetServer
    <3>2. Renews
      BY <1>6, CallsKeepStatus
    <3> QED BY <2>0, <2>1, <3>1, <3>2, PostKeepsTaught
  <2>2. CASE queue' = queue
    BY <2>0, <2>2, QuietKeepsTaught
  <2> QED BY <1>6, <2>1, <2>2 DEF SetServerProxy, Post
<1>7. ASSUME NEW v \in DataStatus, NEW apn \in BOOLEAN, UpdateAvailability(v, apn) PROVE TaughtInv'
  BY <1>7, QuietKeepsTaught DEF UpdateAvailability, Call, engine, setup
<1> QED BY <1>1, <1>2, <1>3, <1>4, <1>5, <1>6, <1>7 DEF Framework

LEMMA TaskTaught ==
    SettingsTyped /\ StatusInv /\ ConfInv /\ TaughtInv /\ MsgTask => TaughtInv'
<1> SUFFICES ASSUME SettingsTyped, StatusInv, ConfInv, TaughtInv, MsgTask PROVE TaughtInv'
  OBVIOUS
<1>1. adapter /\ adapter' /\ device' = device
  BY DEF MsgTask, DoConf, DoEnableData, DoSetServer, DoLock, DoOpen, Reinit, ReinitSend, Handle, engine, setup,
         TaughtInv
<1>2. CASE DoConf
  <2>1. AllGood' /\ (modem.open /\ Covered => Covered')
    BY <1>2, ConfTeaches DEF TaughtInv
  <2>2. Renews /\ modem'.open = modem.open
    BY <1>2, HandlersKeepStatus, ModemHears DEF Hears
  <2> QED BY <1>1, <2>1, <2>2 DEF TaughtInv, Renews
<1>3. CASE DoEnableData \/ DoSetServer \/ DoLock
  <2>1. /\ queue # <<>> /\ Head(queue).of # "conf" /\ queue' = Tail(queue) \o <<>>
    BY <1>3 DEF DoEnableData, DoSetServer, DoLock, Handle
  <2>2. modem'.told.conf = modem.told.conf /\ modem'.open = modem.open
    BY <1>3, ModemHears DEF Hears
  <2>3. AllGood' /\ (Covered => Covered')
    BY <1>1, <2>1, <2>2, TellsOf, TakeTeaches DEF TaughtInv
  <2>4. Renews
    BY <1>3, HandlersKeepStatus
  <2> QED BY <1>1, <2>2, <2>3, <2>4 DEF TaughtInv, Renews
<1>4. CASE DoOpen
  <2>1. /\ queue # <<>> /\ Head(queue).of # "conf" /\ queue' = Tail(queue) \o <<>>
        /\ modem' = [modem EXCEPT !.open = modem.up]
    BY <1>4 DEF DoOpen, Handle
  <2>2. modem'.told = modem.told /\ modem'.open = modem.up /\ modem'.up = modem.up
    BY <2>1 DEF SettingsTyped, IsModem
  <2>3. AllGood' /\ (Covered => Covered')
    BY <1>1, <2>1, <2>2, TellsOf, TakeTeaches DEF TaughtInv
  <2>4. Renews
    BY <1>4, OpenKeepsStatus
  <2>5. ~modem.up => Renewed'
    BY <2>2 DEF Renewed
  <2>6. Renewed' \/ (modem'.open /\ Covered')
    BY <1>1, <2>2, <2>3, <2>4, <2>5 DEF TaughtInv, Renews, SettingsTyped, IsModem
  <2> QED BY <1>1, <2>3, <2>6 DEF TaughtInv
<1>5. CASE Reinit
  <2> PICK ms : ms = Configuration
    OBVIOUS
  <2>1. /\ queue # <<>> /\ queue' = Tail(queue) \o ms /\ modem' = modem
    BY <1>5 DEF Reinit, Handle
  <2>2. configAlreadyRead
    BY <1>1 DEF ConfInv
  <2>3. /\ \A i \in DOMAIN ms : ms[i].of = "conf" /\ Good(ms[i].values)
        /\ \A p \in Configurable : \E i \in DOMAIN ms : p \in DOMAIN ms[i].values
    BY <2>2, ConfigurationCovers
  <2>4. Tells(ms)
    BY <2>3, ConfigurationApart DEF Tells, Apart
  <2>5. AllGood'
    BY <1>1, <2>1, <2>4, TakeTeaches DEF TaughtInv
  <2>6. Covered'
    <3> PICK n : n = Len(queue)
      OBVIOUS
    <3> PICK k : k = Len(ms)
      OBVIOUS
    <3>1. /\ n \in Nat \ {0} /\ k \in Nat /\ DOMAIN queue' = 1 .. n - 1 + k /\ DOMAIN ms = 1 .. k
          /\ \A i \in 1 .. k : queue'[n - 1 + i] = ms[i]
      BY <2>1, <2>4, TakenHead DEF SettingsTyped, Tells
    <3>2. ASSUME NEW i \in DOMAIN ms
          PROVE  n - 1 + i \in DOMAIN queue' /\ queue'[n - 1 + i] = ms[i]
      BY <3>1
    <3>3. ASSUME NEW p \in Configurable
          PROVE  \E j \in DOMAIN queue' : queue'[j].of = "conf" /\ p \in DOMAIN queue'[j].values
      <4>1. PICK i \in DOMAIN ms : p \in DOMAIN ms[i].values
        BY <2>3
      <4> PICK j : j = n - 1 + i
        OBVIOUS
      <4>2. j \in DOMAIN queue' /\ queue'[j] = ms[i]
        BY <3>2
      <4> QED BY <2>3, <4>1, <4>2
    <3> QED BY <1>1, <3>3, GoodKept DEF Covered
  <2>7. ~modem.open => Renews
    BY <1>5, ReinitKeepsStatus
  <2>8. Renewed' \/ (modem'.open /\ Covered')
    BY <1>1, <2>1, <2>6, <2>7 DEF TaughtInv, Renews
  <2> QED BY <1>1, <2>5, <2>8 DEF TaughtInv
<1>6. CASE ReinitSend
  <2> PICK d : d = mpc.data
    OBVIOUS
  <2> PICK b : b = IF mpc.after = "up" /\ agpsCb THEN Buffered ELSE <<>>
    OBVIOUS
  <2> PICK ms : ms = <<d>> \o b
    OBVIOUS
  <2>1. queue' = queue \o ms /\ modem' = modem /\ d.of = "data" /\ Renews
    BY <1>6, ReinitSendKeepsStatus DEF ReinitSend, StatusInv, Post
  <2>2. Tells(ms)
    <3> PICK one : one = <<d>>
      OBVIOUS
    <3>1. IsQueue(one) /\ Len(one) = 1 /\ one[1] = d
      BY QueueOfOne
    <3>2. IsQueue(b) /\ \A i \in DOMAIN b : b[i].of # "conf"
      <4>1. \A i \in DOMAIN <<>> : FALSE
        BY QueueOfNone DEF IsQueue
      <4> QED BY <4>1, BufferedApart, QueueOfNone DEF Apart
    <3>3. PICK S, T : one \in Seq(S) /\ b \in Seq(T)
      BY <3>1, <3>2 DEF IsQueue
    <3> PICK k : k = Len(b)
      OBVIOUS
    <3>4. one \in Seq(S \cup T) /\ b \in Seq(S \cup T)
      BY <3>3
    <3>5. /\ ms \in Seq(S \cup T) /\ Len(ms) = k + 1 /\ k \in Nat /\ ms[1] = d
          /\ DOMAIN b = 1 .. k
          /\ \A i \in 1 .. k : ms[1 + i] = b[i]
      BY <3>1, <3>4
    <3>6. DOMAIN ms = 1 .. k + 1
      BY <3>5
    <3>7. ASSUME NEW i \in DOMAIN ms PROVE ms[i].of # "conf"
      <4>1. CASE i = 1
        BY <2>1, <3>5, <4>1
      <4>2. CASE i # 1
        <5> PICK j : j = i - 1
          OBVIOUS
        <5>0. i \in 1 .. k + 1 /\ k \in Nat
          BY <3>5, <3>6, <3>7
        <5>1. j \in 1 .. k /\ i = 1 + j
          BY <4>2, <5>0
        <5>2. ms[1 + j] = b[j]
          BY <3>5, <5>1
        <5>3. ms[i] = b[j] /\ j \in DOMAIN b
          BY <3>5, <5>1, <5>2
        <5> QED BY <3>2, <5>3
      <4> QED BY <4>1, <4>2
    <3> QED BY <3>5, <3>7 DEF Tells, IsQueue
  <2> QED BY <1>1, <2>1, <2>2, PostKeepsTaught
<1> QED BY <1>2, <1>3, <1>4, <1>5, <1>6 DEF MsgTask

LEMMA NothingToldIsGood == Good(Forgotten.conf)
<1> PICK e : e = Forgotten.conf
  OBVIOUS
<1>1. DOMAIN e = {} /\ e = [p \in DOMAIN e |-> e[p]]
  <2>1. e = <<>>
    BY DEF Forgotten
  <2>2. e \in Seq({}) /\ Len(e) = 0
    BY <2>1
  <2>3. e \in [1 .. 0 -> {}]
    BY <2>2, SeqDef
  <2> QED BY <2>3
<1> QED BY <1>1 DEF Good

LEMMA ModemTaught ==
    SettingsTyped /\ StatusInv /\ TaughtInv /\ (Crash \/ Recover \/ TellUp) => TaughtInv'
<1> SUFFICES ASSUME SettingsTyped, StatusInv, TaughtInv, Crash \/ Recover \/ TellUp PROVE TaughtInv'
  OBVIOUS
<1>1. CASE Crash
  <2>1. /\ device' = device /\ adapter' = adapter /\ queue' = queue /\ upDue' = upDue /\ mpc' = mpc
        /\ modem' = [modem EXCEPT !.up = FALSE, !.open = FALSE, !.told = Forgotten]
    BY <1>1 DEF Crash, engine, setup
  <2>2. modem'.told = Forgotten
    BY <2>1 DEF SettingsTyped, IsModem
  <2>3. AllGood'
    BY <2>1, <2>2, GoodKept, NothingToldIsGood DEF TaughtInv, AllGood
  <2>4. modem'.up = FALSE
    BY <2>1 DEF SettingsTyped, IsModem
  <2>5. Renewed'
    BY <2>4 DEF Renewed
  <2>6. mpc = NoData => mpc' = NoData'
    BY <2>1 DEF NoData, Plain
  <2> QED BY <2>1, <2>3, <2>5, <2>6 DEF TaughtInv
<1>2. CASE Recover
  <2> PICK ms : ms = IF adapter THEN <<Plain("ssr")>> ELSE <<>>
    OBVIOUS
  <2>1. /\ device' = device /\ adapter' = adapter /\ upDue' = adapter /\ mpc' = mpc
        /\ queue' = queue \o ms /\ modem' = [modem EXCEPT !.up = TRUE]
    BY <1>2 DEF Recover, engine, setup, Post
  <2>2. Tells(ms)
    <3>1. Tells(<<Plain("ssr")>>)
      BY TellsOf DEF Plain
    <3> QED BY <3>1, TellsOf
  <2>3. modem'.told.conf = modem.told.conf /\ modem'.open = modem.open
    BY <2>1 DEF SettingsTyped, IsModem
  <2>4. AllGood' /\ (Covered => Covered')
    BY <2>1, <2>2, <2>3, PostTeaches DEF TaughtInv
  <2>5. mpc = NoData => mpc' = NoData'
    BY <2>1 DEF NoData, Plain
  <2>6. CASE adapter
    <3>1. Renews
      BY <1>2, <2>6, ModemKeepsStatus
    <3> QED BY <2>1, <2>3, <2>4, <2>6, <3>1 DEF TaughtInv, Renews
  <2>7. CASE ~adapter
    <3>1. queue' = <<>>
      <4>1. queue = <<>> /\ ms = <<>>
        BY <2>7 DEF TaughtInv
      <4>2. <<>> \o <<>> = <<>>
        OBVIOUS
      <4> QED BY <2>1, <4>1, <4>2
    <3> QED BY <2>1, <2>4, <2>5, <2>7, <3>1 DEF TaughtInv
  <2> QED BY <2>6, <2>7
<1>3. CASE TellUp
  <2>1. /\ queue' = queue \o <<Plain("up")>> /\ modem' = modem /\ device' = device /\ adapter' = adapter /\ adapter
    BY <1>3 DEF TellUp, engine, setup, Post, TaughtInv
  <2>2. Renews
    BY <1>3, <2>1, ModemKeepsStatus
  <2>3. Tells(<<Plain("up")>>)
    BY TellsOf DEF Plain
  <2> QED BY <2>1, <2>2, <2>3, PostKeepsTaught
<1> QED BY <1>1, <1>2, <1>3

LEMMA InitTaught == SettingsInit => ConfInv /\ TaughtInv
<1> SUFFICES ASSUME SettingsInit PROVE ConfInv /\ TaughtInv
  OBVIOUS
<1>1. ConfInv
  BY DEF SettingsInit, ConfInv
<1>2. DOMAIN queue = {}
  BY QueueOfNone DEF SettingsInit, IsQueue
<1>3. modem.told = Forgotten
  BY DEF SettingsInit
<1>4. AllGood
  BY <1>2, <1>3, NothingToldIsGood DEF AllGood
<1> QED BY <1>1, <1>4 DEF SettingsInit, TaughtInv

LEMMA NextTaught ==
    (SettingsTyped /\ StatusInv /\ ConfInv /\ TaughtInv) /\ [SettingsNext]_settingsVars => TaughtInv'
<1> SUFFICES ASSUME SettingsTyped, StatusInv, ConfInv, TaughtInv, [SettingsNext]_settingsVars PROVE TaughtInv'
  OBVIOUS
<1>1. CASE UNCHANGED settingsVars
  BY <1>1, QuietKeepsTaught DEF settingsVars, engine, setup
<1> QED BY <1>1, FrameworkTaught, TaskTaught, ModemTaught DEF SettingsNext

(***************************************************************************)
(* Whatever the files say and the order of calls and restarts: when        *)
(* nothing is under way the modem holds the configured values, and the     *)
(* framework was told the capabilities that the chip has.                  *)
(***************************************************************************)
THEOREM AlwaysConfigured == SettingsSpec => []Configured
<1>1. SettingsTyped /\ StatusInv /\ ConfInv /\ TaughtInv => Configured
  <2> SUFFICES ASSUME SettingsTyped, StatusInv, ConfInv, TaughtInv PROVE Configured
    OBVIOUS
  <2>1. ASSUME Quiet PROVE modem.told.conf = Restrict(Wanted, Configurable)
    <3> PICK c : c = modem.told.conf
      OBVIOUS
    <3>1. DOMAIN queue = {}
      BY <2>1, QueueOfNone DEF Quiet, IsQueue
    <3>2. ~Renewed
      BY <2>1, <3>1 DEF Quiet, Renewed
    <3>3. Covered /\ Good(c)
      BY <2>1, <3>2 DEF Quiet, TaughtInv, AllGood
    <3>4. DOMAIN c = Configurable /\ c = [p \in DOMAIN c |-> c[p]] /\ \A p \in DOMAIN c : c[p] = Wanted[p]
      BY <3>1, <3>3 DEF Covered, Good
    <3>5. c = [p \in Configurable |-> Wanted[p]]
      BY <3>4
    <3> QED BY <3>5 DEF Restrict
  <2>2. ASSUME adapter
        PROVE  /\ GnssType(device) \in {"GSS", "QCA1530"} => Assisted(capabilities) = 0
               /\ GnssType(device) \notin {"GSS", "QCA1530"} => capabilities = Wanted["CAPABILITIES"]
    <3>1. capabilities = Capabilities(device, Wanted["CAPABILITIES"]) /\ Wanted["CAPABILITIES"] \in Nat
      BY <2>2, HeldIs DEF ConfInv
    <3> PICK k : k = Wanted["CAPABILITIES"]
      OBVIOUS
    <3>2. GnssType(device) \notin {"GSS", "QCA1530"} => Capabilities(device, k) = k
      BY DEF Capabilities
    <3> QED BY <3>1, <3>2, CapabilitiesKept
  <2> QED BY <2>1, <2>2 DEF Configured, Wanted
<1>2. SettingsInit => SettingsTyped /\ StatusInv /\ ConfInv /\ TaughtInv
  BY InitStatus, InitTaught
<1>3. (SettingsTyped /\ StatusInv /\ ConfInv /\ TaughtInv) /\ [SettingsNext]_settingsVars
          => (SettingsTyped /\ StatusInv /\ ConfInv /\ TaughtInv)'
  BY NextKeepsStatus, ConfStep, NextTaught
<1> QED BY <1>1, <1>2, <1>3, PTL DEF SettingsSpec

-----------------------------------------------------------------------------
(* The radio interface layer *)

String  == Text \cup {NoString}
Payload == (String \X String)
             \cup {"gsm", "cdma", "noCall", "fine", "notHex", "firstNull", "none"}
ReplyType == [serial : Serial, error : BOOLEAN, body : {"none", "odd", "data"},
              data : Payload, at : Nat]

Typed ==
    /\ kind \in [Serial -> Kind \cup AtOnce \cup {"unsent"}]
    /\ list \in SUBSET Serial /\ sending \in SUBSET Serial
    /\ sent \in SUBSET Serial /\ lost \in SUBSET Serial
    /\ wire \in Seq(ReplyType)
    /\ pc \in {"idle", "remove", "decode", "super", "call", "callEnd"}
    /\ pc # "idle" => reply \in ReplyType
    /\ answers \in [Serial -> Nat]
    /\ isGSM \in BOOLEAN /\ seenGSM \in BOOLEAN
    /\ changes \in Nat

(***************************************************************************)
(* AccountedOnce for one request, with what makes it inductive: a request  *)
(* that was not made is nowhere and has no answer.                         *)
(***************************************************************************)
Account(s) ==
    /\ s \in InHand => s \notin list
    /\ s \in list \cup InHand => kind[s] # "unsent" /\ answers[s] = 0 /\ s \notin lost
    /\ s \in lost \cup sent => kind[s] # "unsent"
    /\ s \in lost => answers[s] = 0
    /\ kind[s] = "unsent" => answers[s] = 0
    /\ s \notin list \cup InHand \cup lost /\ kind[s] # "unsent" => answers[s] = 1

AccountInv == Typed /\ \A s \in Serial : Account(s)

-----------------------------------------------------------------------------
LEMMA InitAccount == RilInit => AccountInv
<1> SUFFICES ASSUME RilInit PROVE AccountInv
  OBVIOUS
<1>1. Typed
  <2>1. wire \in Seq(ReplyType)
    BY DEF RilInit
  <2>2. isGSM \in BOOLEAN /\ seenGSM \in BOOLEAN
    BY DEF RilInit
  <2>3. kind \in [Serial -> Kind \cup AtOnce \cup {"unsent"}]
    BY DEF RilInit
  <2> QED BY <2>1, <2>2, <2>3 DEF RilInit, Typed
<1>2. \A s \in Serial : Account(s)
  BY DEF RilInit, Account, InHand
<1> QED BY <1>1, <1>2 DEF AccountInv

\* Making a request, writing it and failing to.
LEMMA RequestAccount == AccountInv /\ Requests => AccountInv'
<1> SUFFICES ASSUME AccountInv, NEW s \in Serial,
                    \/ \E k \in Kind : Send(s, k)
                    \/ \E k \in AtOnce \cup {"ims"} : AnswerAtOnce(s, k)
                    \/ WriteReturns(s)
                    \/ WriteFails(s)
             PROVE  AccountInv'
  BY DEF Requests
<1>1. ASSUME NEW k \in Kind, Send(s, k) PROVE AccountInv'
  <2>1. k # "unsent"
    BY DEF Kind, OwnKind
  <2>2. Typed'
    BY <1>1 DEF AccountInv, Typed, Send, radioVars
  <2>3. ASSUME NEW t \in Serial PROVE Account(t)'
    BY <1>1, <2>1 DEF AccountInv, Typed, Account, InHand, Send, radioVars
  <2> QED BY <2>2, <2>3 DEF AccountInv
<1>2. ASSUME NEW k \in AtOnce \cup {"ims"}, AnswerAtOnce(s, k) PROVE AccountInv'
  <2>1. k # "unsent" /\ k \in Kind \cup AtOnce
    BY DEF Kind, AtOnce
  <2>2. Typed'
    BY <1>2, <2>1 DEF AccountInv, Typed, AnswerAtOnce, Answer, radioVars
  <2>3. ASSUME NEW t \in Serial PROVE Account(t)'
    BY <1>2, <2>1 DEF AccountInv, Typed, Account, InHand, AnswerAtOnce, Answer, radioVars
  <2> QED BY <2>2, <2>3 DEF AccountInv
<1>3. CASE WriteReturns(s)
  <2>1. Typed'
    BY <1>3 DEF AccountInv, Typed, WriteReturns, radioVars
  <2>2. ASSUME NEW t \in Serial PROVE Account(t)'
    BY <1>3 DEF AccountInv, Account, InHand, WriteReturns, radioVars
  <2> QED BY <2>1, <2>2 DEF AccountInv
<1>4. CASE WriteFails(s)
  <2>1. Typed'
    BY <1>4 DEF AccountInv, Typed, WriteFails, Answer, radioVars
  <2>2. ASSUME NEW t \in Serial PROVE Account(t)'
    BY <1>4 DEF AccountInv, Typed, Account, InHand, WriteFails, Answer, radioVars
  <2> QED BY <2>1, <2>2 DEF AccountInv
<1> QED BY <1>1, <1>2, <1>3, <1>4

\* What a daemon may write has its type.
LEMMA DataIsPayload ==
    ASSUME NEW k
    PROVE  /\ Data(k) \subseteq Payload
           /\ k = "operator" => Data(k) \subseteq String \X String
           /\ k = "calls" => Data(k) \subseteq {IF isGSM THEN "gsm" ELSE "cdma", "noCall"}
<1>1. CASE k = "operator"
  <2>1. Data(k) = String \X String
    BY <1>1 DEF Data, String
  <2> QED BY <1>1, <2>1 DEF Payload
<1>2. CASE k = "calls"
  <2>1. Data(k) = {IF isGSM THEN "gsm" ELSE "cdma", "noCall"}
    BY <1>2 DEF Data
  <2>2. (IF isGSM THEN "gsm" ELSE "cdma") \in {"gsm", "cdma"}
    OBVIOUS
  <2> QED BY <1>2, <2>1, <2>2 DEF Payload
<1>3. CASE k \in {"voice", "data"}
  BY <1>3 DEF Data, Payload
<1>4. CASE k \notin {"operator", "calls", "voice", "data"}
  BY <1>4 DEF Data, Payload
<1> QED BY <1>1, <1>2, <1>3, <1>4

\* The daemon: a reply, the end of a connection, a new one.
LEMMA DaemonAccount == AccountInv /\ Daemon => AccountInv'
<1> SUFFICES ASSUME AccountInv, Daemon PROVE AccountInv'
  OBVIOUS
<1>1. ASSUME NEW s \in Serial, NEW error \in BOOLEAN, NEW body \in {"none", "odd", "data"},
             NEW data \in IF body = "data" THEN Data(kind[s]) ELSE {"none"},
             Reply(s, error, body, data)
      PROVE  AccountInv'
  <2> DEFINE r == [serial |-> s, error |-> error, body |-> body, data |-> data, at |-> changes]
  <2>1. data \in Payload
    BY DataIsPayload DEF Payload
  <2>2. r \in ReplyType
    BY <2>1 DEF ReplyType, AccountInv, Typed
  <2>3. wire' = Append(wire, r) /\ wire' \in Seq(ReplyType)
    BY <1>1, <2>2 DEF Reply, AccountInv, Typed
  <2>4. Typed'
    BY <1>1, <2>3 DEF AccountInv, Typed, Reply, requestVars, radioVars
  <2>5. ASSUME NEW t \in Serial PROVE Account(t)'
    BY <1>1 DEF AccountInv, Account, InHand, Reply, requestVars, radioVars
  <2> QED BY <2>4, <2>5 DEF AccountInv
<1>2. CASE ConnectionLost
  <2>1. Typed'
    BY <1>2 DEF AccountInv, Typed, ConnectionLost, Disconnect, Done
  <2>2. ASSUME NEW t \in Serial PROVE Account(t)'
    BY <1>2 DEF AccountInv, Typed, Account, InHand, ConnectionLost, Disconnect, Done
  <2> QED BY <2>1, <2>2 DEF AccountInv
<1>3. ASSUME NEW v \in Version, RilConnected(v) PROVE AccountInv'
  <2>1. Typed'
    BY <1>3 DEF AccountInv, Typed, RilConnected, requestVars
  <2>2. ASSUME NEW t \in Serial PROVE Account(t)'
    BY <1>3 DEF AccountInv, Account, InHand, RilConnected, requestVars
  <2> QED BY <2>1, <2>2 DEF AccountInv
<1> QED BY <1>1, <1>2, <1>3 DEF Daemon

\* The receiver takes a reply from the socket ...
LEMMA TakeAccount == AccountInv /\ (Lookup \/ Remove) => AccountInv'
<1> SUFFICES ASSUME AccountInv, Lookup \/ Remove PROVE AccountInv'
  OBVIOUS
<1>1. CASE Lookup
  <2>1. Head(wire) \in ReplyType /\ Tail(wire) \in Seq(ReplyType)
    BY <1>1 DEF AccountInv, Typed, Lookup
  <2>2. pc = "idle" /\ pc' \in {"remove", "super"} /\ reply' = Head(wire) /\ wire' = Tail(wire)
    BY <1>1 DEF Lookup
  <2>3. Typed'
    BY <1>1, <2>1, <2>2 DEF AccountInv, Typed, Lookup, requestVars, radioVars
  <2>4. ASSUME NEW t \in Serial PROVE Account(t)'
    BY <1>1, <2>2 DEF AccountInv, Account, InHand, Lookup, requestVars, radioVars
  <2> QED BY <2>3, <2>4 DEF AccountInv
<1>2. CASE Remove
  <2>1. reply.serial \in Serial
    BY <1>2 DEF AccountInv, Typed, Remove, ReplyType
  <2>2. Typed'
    BY <1>2 DEF AccountInv, Typed, Remove, Done, radioVars
  <2>3. ASSUME NEW t \in Serial PROVE Account(t)'
    BY <1>2, <2>1 DEF AccountInv, Account, InHand, Remove, Done, radioVars
  <2> QED BY <2>2, <2>3 DEF AccountInv
<1> QED BY <1>1, <1>2

\* ... and answers it, or loses it.
LEMMA AnswerAccount == AccountInv /\ (Decode \/ DecodeThrows) => AccountInv'
<1> SUFFICES ASSUME AccountInv, Decode \/ DecodeThrows PROVE AccountInv'
  OBVIOUS
<1>1. reply.serial \in Serial
  BY DEF AccountInv, Typed, Decode, DecodeThrows, ReplyType
<1>2. CASE Decode
  <2>1. Typed'
    BY <1>1, <1>2 DEF AccountInv, Typed, Decode, Done, Answer, radioVars
  <2>2. ASSUME NEW t \in Serial PROVE Account(t)'
    BY <1>1, <1>2 DEF AccountInv, Typed, Account, InHand, Decode, Done, Answer, radioVars
  <2> QED BY <2>1, <2>2 DEF AccountInv
<1>3. CASE DecodeThrows
  <2>1. Typed'
    BY <1>1, <1>3 DEF AccountInv, Typed, DecodeThrows, Disconnect, Done
  <2>2. ASSUME NEW t \in Serial PROVE Account(t)'
    BY <1>1, <1>3 DEF AccountInv, Typed, Account, InHand, DecodeThrows, Disconnect, Done
  <2> QED BY <2>1, <2>2 DEF AccountInv
<1> QED BY <1>2, <1>3

LEMMA SuperAccount == AccountInv /\ (SuperTake \/ CallBegin \/ CallEnd) => AccountInv'
<1> SUFFICES ASSUME AccountInv, SuperTake \/ CallBegin \/ CallEnd PROVE AccountInv'
  OBVIOUS
<1>1. reply \in ReplyType /\ reply.serial \in Serial
  BY DEF AccountInv, Typed, SuperTake, CallBegin, CallEnd, ReplyType
<1>2. CASE SuperTake
  <2> DEFINE known == reply.serial \in list
  <2>1. /\ pc = "super" /\ list' = list \ {reply.serial}
        /\ \/ ~known /\ Done /\ answers' = answers
           \/ known /\ Done /\ Answer(reply.serial)
           \/ known /\ pc' = "call" /\ reply' = reply /\ answers' = answers
        /\ UNCHANGED <<kind, sending, sent, lost, wire, seenGSM, isGSM, changes>>
    BY <1>2 DEF SuperTake
  <2>2. Typed'
    BY <1>1, <2>1 DEF AccountInv, Typed, Done, Answer
  <2>3. ASSUME NEW t \in Serial PROVE Account(t)'
    BY <1>1, <2>1 DEF AccountInv, Typed, Account, InHand, Done, Answer
  <2> QED BY <2>2, <2>3 DEF AccountInv
<1>3. CASE CallBegin
  <2>1. Typed'
    BY <1>1, <1>3 DEF AccountInv, Typed, CallBegin, requestVars
  <2>2. ASSUME NEW t \in Serial PROVE Account(t)'
    BY <1>1, <1>3 DEF AccountInv, Account, InHand, CallBegin, requestVars
  <2> QED BY <2>1, <2>2 DEF AccountInv
<1>4. CASE CallEnd
  <2>1. seenGSM' \in BOOLEAN
    BY <1>4 DEF CallEnd
  <2>2. Typed'
    BY <1>1, <1>4, <2>1 DEF AccountInv, Typed, CallEnd, Done, Answer
  <2>3. ASSUME NEW t \in Serial PROVE Account(t)'
    BY <1>1, <1>4 DEF AccountInv, Typed, Account, InHand, CallEnd, Done, Answer
  <2> QED BY <2>2, <2>3 DEF AccountInv
<1> QED BY <1>2, <1>3, <1>4

LEMMA PhoneAccount ==
    ASSUME AccountInv, NEW gsm \in BOOLEAN, SetPhoneType(gsm)
    PROVE  AccountInv'
<1>1. Typed'
  BY DEF AccountInv, Typed, SetPhoneType, requestVars
<1>2. ASSUME NEW t \in Serial PROVE Account(t)'
  BY DEF AccountInv, Account, InHand, SetPhoneType, requestVars
<1> QED BY <1>1, <1>2 DEF AccountInv

LEMMA StepAccount == AccountInv /\ [RilNext]_rilVars => AccountInv'
<1> SUFFICES ASSUME AccountInv, [RilNext]_rilVars PROVE AccountInv'
  OBVIOUS
<1>1. CASE RilNext
  BY <1>1, RequestAccount, DaemonAccount, TakeAccount, AnswerAccount, SuperAccount, PhoneAccount
     DEF RilNext, Receiver
<1>2. CASE UNCHANGED rilVars
  <2>1. Typed'
    BY <1>2 DEF rilVars, requestVars, AccountInv, Typed
  <2>2. ASSUME NEW t \in Serial PROVE Account(t)'
    BY <1>2 DEF rilVars, requestVars, AccountInv, Account, InHand
  <2> QED BY <2>1, <2>2 DEF AccountInv
<1> QED BY <1>1, <1>2

THEOREM AccountHolds == RilSpec => []AccountInv
  BY InitAccount, StepAccount, PTL DEF RilSpec

(***************************************************************************)
(* Whatever the daemon writes, in whatever order writes fail, connections  *)
(* end and replies are repeated: no request is answered twice, and each    *)
(* that was made and is not answered is on the list, in the hands of the   *)
(* receiver, or lost by its own reply.                                     *)
(***************************************************************************)
THEOREM RequestsAccounted == RilSpec => []AccountedOnce
<1>1. AccountInv => AccountedOnce
  <2> SUFFICES ASSUME AccountInv PROVE AccountedOnce
    OBVIOUS
  <2>1. InHand \subseteq Serial
    BY DEF AccountInv, Typed, InHand, ReplyType
  <2> QED BY <2>1 DEF AccountInv, Typed, Account, AccountedOnce
<1> QED BY <1>1, AccountHolds, PTL

-----------------------------------------------------------------------------
(* What replies are told as *)

\* With an agreeing cache a lookup gives what it gives without one ...
LEMMA LookupAgrees ==
    ASSUME NEW c, CacheAgrees(c), NEW t \in String
    PROVE  OperatorReplace(c, t) = Replaced(t)
<1>1. CASE t \in Numeric \cup Word
  <2>1. t # NoString
    BY <1>1, OperatorsAssumption DEF Text
  <2>2. CASE c.stored = t /\ c.storedOperators # NoString
    BY <1>1, <2>2 DEF CacheAgrees, EmptyCache, OperatorReplace, CacheAfter
  <2>3. CASE ~(c.stored = t /\ c.storedOperators # NoString)
    BY <1>1, <2>3 DEF OperatorReplace, CacheAfter
  <2> QED BY <2>2, <2>3
<1>2. CASE t \notin Numeric \cup Word
  BY <1>2 DEF OperatorReplace, Replaced
<1> QED BY <1>1, <1>2

\* ... and leaves the cache agreeing.
LEMMA CacheStaysAgreed ==
    ASSUME NEW c, CacheAgrees(c), NEW t
    PROVE  CacheAgrees(CacheAfter(c, t))
<1>1. CASE t \notin Numeric \cup Word \/ (c.stored = t /\ c.storedOperators # NoString)
  BY <1>1 DEF CacheAfter
<1>2. CASE ~(t \notin Numeric \cup Word \/ (c.stored = t /\ c.storedOperators # NoString))
  <2>1. CacheAfter(c, t) = [stored |-> t, storedOperators |-> Replaced(t)] /\ t \in Numeric \cup Word
    BY <1>2 DEF CacheAfter
  <2> QED BY <2>1 DEF CacheAgrees
<1> QED BY <1>1, <1>2

\* A reply fits its request and the layout of the phone type it was written in.
Fits(r) ==
    /\ kind[r.serial] # "unsent"
    /\ kind[r.serial] = "operator" /\ r.body = "data" => r.data \in String \X String
    /\ r.at <= changes
    /\ r.at = changes /\ kind[r.serial] = "calls" /\ r.body = "data" /\ r.data # "noCall" =>
          (r.data = "gsm" <=> isGSM)

ToldInv ==
    /\ \A i \in 1 .. Len(wire) : Fits(wire[i])
    /\ pc # "idle" => Fits(reply)
    /\ pc \in {"call", "callEnd"} =>
          kind[reply.serial] = "calls" /\ reply.body = "data" /\ reply.data # "noCall"
    /\ pc = "callEnd" /\ reply.at = changes => seenGSM = isGSM
    /\ CacheAgrees(cache)

\* A reply goes on fitting while the phone type and the kinds of what was
\* made stay the same, or when a type is left.
LEMMA FitsOn ==
    ASSUME NEW r \in ReplyType, Fits(r), changes \in Nat,
           kind'[r.serial] = kind[r.serial],
           \/ changes' = changes /\ isGSM' = isGSM
           \/ changes' = changes + 1
    PROVE  Fits(r)'
<1>1. r.at \in Nat
  BY DEF ReplyType
<1>2. CASE changes' = changes /\ isGSM' = isGSM
  BY <1>2 DEF Fits
<1>3. CASE changes' = changes + 1
  BY <1>1, <1>3 DEF Fits
<1> QED BY <1>2, <1>3

\* The steps that leave the receiver, its cache and the phone alone.
LEMMA OthersTold ==
    ASSUME AccountInv, ToldInv, UNCHANGED <<wire, pc, reply, cache, seenGSM, isGSM, changes>>,
           \A s \in Serial : kind[s] # "unsent" => kind'[s] = kind[s]
    PROVE  ToldInv'
<1>1. ASSUME NEW r \in ReplyType, Fits(r) PROVE Fits(r)'
  <2>1. kind'[r.serial] = kind[r.serial]
    BY <1>1 DEF Fits, ReplyType
  <2> QED BY <1>1, <2>1, FitsOn DEF AccountInv, Typed
<1>2. \A i \in 1 .. Len(wire) : Fits(wire[i])'
  BY <1>1 DEF ToldInv, AccountInv, Typed
<1>3. pc # "idle" => Fits(reply)'
  BY <1>1 DEF ToldInv, AccountInv, Typed
<1>4. pc # "idle" => kind'[reply.serial] = kind[reply.serial]
  BY DEF ToldInv, Fits, AccountInv, Typed, ReplyType
<1> QED BY <1>2, <1>3, <1>4 DEF ToldInv

LEMMA RequestTold == AccountInv /\ ToldInv /\ Requests => ToldInv'
<1> SUFFICES ASSUME AccountInv, ToldInv, Requests PROVE ToldInv'
  OBVIOUS
<1>1. UNCHANGED <<wire, pc, reply, cache, seenGSM, isGSM, changes>>
  BY DEF Requests, Send, AnswerAtOnce, WriteReturns, WriteFails
<1>2. \A s \in Serial : kind[s] # "unsent" => kind'[s] = kind[s]
  BY DEF Requests, Send, AnswerAtOnce, WriteReturns, WriteFails, AccountInv, Typed
<1> QED BY <1>1, <1>2, OthersTold

LEMMA InitTold == RilInit => ToldInv
  BY DEF RilInit, ToldInv, CacheAgrees

LEMMA DaemonTold == AccountInv /\ ToldInv /\ Daemon => ToldInv'
<1> SUFFICES ASSUME AccountInv, ToldInv, Daemon PROVE ToldInv'
  OBVIOUS
<1>1. ASSUME NEW s \in Serial, NEW error \in BOOLEAN, NEW body \in {"none", "odd", "data"},
             NEW data \in IF body = "data" THEN Data(kind[s]) ELSE {"none"},
             Reply(s, error, body, data)
      PROVE  ToldInv'
  <2> DEFINE r == [serial |-> s, error |-> error, body |-> body, data |-> data, at |-> changes]
  <2>1. UNCHANGED <<kind, pc, reply, cache, seenGSM, isGSM, changes>> /\ wire' = Append(wire, r)
    BY <1>1 DEF Reply, requestVars
  <2>2. wire \in Seq(ReplyType)
    BY DEF AccountInv, Typed
  <2>3. kind[s] # "unsent"
    BY <1>1 DEF Reply, AccountInv, Account
  <2>4. body = "data" => data \in Data(kind[s])
    OBVIOUS
  <2>5. kind[s] = "operator" /\ body = "data" => data \in String \X String
    BY <2>4, DataIsPayload
  <2>6. kind[s] = "calls" /\ body = "data" /\ data # "noCall" => (data = "gsm" <=> isGSM)
    <3>1. kind[s] = "calls" /\ body = "data" /\ data # "noCall" =>
             data = IF isGSM THEN "gsm" ELSE "cdma"
      BY <2>4, DataIsPayload
    <3> QED BY <3>1
  <2>7. Fits(r)
    BY <2>3, <2>5, <2>6 DEF Fits, AccountInv, Typed
  <2>8. ASSUME NEW i \in 1 .. Len(wire') PROVE Fits(wire'[i])
    BY <2>1, <2>2, <2>7 DEF ToldInv
  <2> QED BY <2>1, <2>8 DEF ToldInv, Fits
<1>2. CASE ConnectionLost
  <2>1. wire' = <<>> /\ pc' = "idle" /\ cache' = cache
    BY <1>2 DEF ConnectionLost, Disconnect, Done
  <2> QED BY <2>1 DEF ToldInv
<1>3. ASSUME NEW v \in Version, RilConnected(v) PROVE ToldInv'
  BY <1>3, OthersTold DEF RilConnected, requestVars
<1> QED BY <1>1, <1>2, <1>3 DEF Daemon

LEMMA PhoneTold ==
    ASSUME AccountInv, ToldInv, NEW gsm \in BOOLEAN, SetPhoneType(gsm)
    PROVE  ToldInv'
<1>1. changes' = changes + 1 /\ changes \in Nat /\ UNCHANGED <<kind, wire, pc, reply, cache, seenGSM>>
  BY DEF SetPhoneType, requestVars, AccountInv, Typed
<1>2. ASSUME NEW r \in ReplyType, Fits(r) PROVE Fits(r)' /\ r.at # changes'
  <2>1. r.at \in Nat /\ r.at <= changes
    BY <1>2 DEF Fits, ReplyType
  <2> QED BY <1>1, <1>2, <2>1, FitsOn
<1>3. wire \in Seq(ReplyType) /\ (pc # "idle" => reply \in ReplyType)
  BY DEF AccountInv, Typed
<1>4. \A i \in 1 .. Len(wire) : Fits(wire[i])'
  BY <1>1, <1>2, <1>3 DEF ToldInv
<1>5. pc # "idle" => Fits(reply)' /\ reply.at # changes'
  BY <1>1, <1>2, <1>3 DEF ToldInv
<1> QED BY <1>1, <1>4, <1>5 DEF ToldInv

LEMMA ReceiverTold == AccountInv /\ ToldInv /\ Receiver => ToldInv'
<1> SUFFICES ASSUME AccountInv, ToldInv, Receiver PROVE ToldInv'
  OBVIOUS
<1> DEFINE Same == kind' = kind /\ isGSM' = isGSM /\ changes' = changes
           Kept == Same /\ wire' = wire /\ cache' = cache
<1>1. CASE Lookup
  <2>1. Same /\ cache' = cache /\ reply' = Head(wire) /\ wire' = Tail(wire)
        /\ pc' \in {"remove", "super"} /\ wire # <<>> /\ wire \in Seq(ReplyType)
    BY <1>1 DEF Lookup, requestVars, AccountInv, Typed
  <2>2. Fits(reply')
    BY <2>1 DEF ToldInv
  <2>3. ASSUME NEW i \in 1 .. Len(wire') PROVE Fits(wire'[i])
    <3>1. i + 1 \in 1 .. Len(wire) /\ wire'[i] = wire[i + 1]
      BY <2>1
    <3> QED BY <3>1 DEF ToldInv
  <2> QED BY <2>1, <2>2, <2>3 DEF ToldInv, Fits
<1>2. CASE Remove
  <2>1. Kept
    BY <1>2 DEF Remove
  <2>2. \/ pc' = "idle"
        \/ pc' = "decode" /\ reply' = reply /\ pc # "idle"
    BY <1>2 DEF Remove, Done
  <2> QED BY <2>1, <2>2 DEF ToldInv, Fits
<1>3. CASE Decode
  <2>1. Same /\ wire' = wire /\ pc' = "idle" /\ Fits(reply) /\ reply \in ReplyType
    BY <1>3 DEF Decode, Done, ToldInv, AccountInv, Typed
  <2>2. CacheAgrees(cache')
    <3>1. CASE kind[reply.serial] = "operator"
      BY <1>3, <3>1, CacheStaysAgreed DEF Decode, CacheAfterBoth, ToldInv
    <3>2. CASE kind[reply.serial] # "operator"
      BY <1>3, <3>2 DEF Decode, ToldInv
    <3> QED BY <3>1, <3>2
  <2> QED BY <2>1, <2>2 DEF ToldInv, Fits
<1>4. CASE DecodeThrows
  <2>1. wire' = <<>> /\ pc' = "idle" /\ cache' = cache
    BY <1>4 DEF DecodeThrows, Disconnect, Done
  <2> QED BY <2>1 DEF ToldInv
<1>5. CASE SuperTake
  <2>1. /\ Kept /\ pc = "super"
        /\ \/ pc' = "idle"
           \/ /\ pc' = "call" /\ reply' = reply
              /\ kind[reply.serial] = "calls" /\ reply.body = "data" /\ reply.data # "noCall"
    BY <1>5 DEF SuperTake, Done
  <2> QED BY <2>1 DEF ToldInv, Fits
<1>6. CASE CallBegin
  <2>1. Kept /\ pc = "call" /\ pc' = "callEnd" /\ reply' = reply /\ seenGSM' = isGSM
    BY <1>6 DEF CallBegin, requestVars
  <2> QED BY <2>1 DEF ToldInv, Fits
<1>7. CASE CallEnd
  <2>1. Kept /\ pc' = "idle"
    BY <1>7 DEF CallEnd, Done
  <2> QED BY <2>1 DEF ToldInv, Fits
<1> QED BY <1>1, <1>2, <1>3, <1>4, <1>5, <1>6, <1>7 DEF Receiver

LEMMA StepTold == AccountInv /\ ToldInv /\ [RilNext]_rilVars => ToldInv'
<1> SUFFICES ASSUME AccountInv, ToldInv, [RilNext]_rilVars PROVE ToldInv'
  OBVIOUS
<1>1. CASE RilNext
  BY <1>1, RequestTold, DaemonTold, ReceiverTold, PhoneTold DEF RilNext
<1>2. CASE UNCHANGED rilVars
  BY <1>2, OthersTold DEF rilVars, requestVars
<1> QED BY <1>1, <1>2

\* The subscription that responseIccCardStatus names is an application of the card.
LEMMA CardsAreRight == ASSUME isGSM \in BOOLEAN PROVE CardsRight
<1> DEFINE Right(apps) == LET card == CardStatus(apps, isGSM)
                          IN  card.cdma = -1 \/ card.apps[card.cdma + 1] = "csim"
<1>1. Right(<<"sim">>)
  <2>1. <<"sim">> # <<"usim">> /\ Len(<<"sim">>) # 2
    OBVIOUS
  <2> QED BY <2>1 DEF CardStatus
<1>2. Right(<<"usim">>)
  <2>1. CASE isGSM
    BY <2>1 DEF CardStatus
  <2>2. CASE ~isGSM
    BY <2>2 DEF CardStatus
  <2> QED BY <2>1, <2>2
<1>3. Right(<<"usim", "csim">>)
  <2>1. <<"usim", "csim">> # <<"usim">> /\ Len(<<"usim", "csim">>) = 2
    OBVIOUS
  <2>2. CardStatus(<<"usim", "csim">>, isGSM) = [apps |-> <<"usim", "csim">>, cdma |-> 1]
    BY <2>1 DEF CardStatus
  <2> QED BY <2>2
<1> QED BY <1>1, <1>2, <1>3 DEF CardsRight

(***************************************************************************)
(* For any table of operators and any order of replies: the name that is   *)
(* told is the one a lookup without the remembered last one gives, a list  *)
(* of calls is read in the layout it was written in unless the phone type  *)
(* has changed since, and the subscription told is one of the card.        *)
(***************************************************************************)
THEOREM RepliesToldRight == RilSpec => []ToldRight
<1>1. AccountInv /\ ToldInv => ToldRight
  <2> SUFFICES ASSUME AccountInv, ToldInv PROVE ToldRight
    OBVIOUS
  <2>1. OperatorsRight
    <3>1. ASSUME NEW p \in String \X String
          PROVE  CheckedNames(cache, p) = <<Replaced(p[1]), Replaced(p[2])>>
      BY LookupAgrees, CacheStaysAgreed DEF CheckedNames, ToldInv
    <3> QED BY <3>1 DEF OperatorsRight, String
  <2>2. CallsInFrame
    <3> SUFFICES ASSUME pc = "callEnd", changes = reply.at PROVE {seenGSM, isGSM} = {reply.data = "gsm"}
      BY DEF CallsInFrame
    <3>1. seenGSM = isGSM /\ (reply.data = "gsm" <=> isGSM)
      BY DEF ToldInv, Fits
    <3>2. CASE isGSM
      <4>1. isGSM = TRUE /\ (reply.data = "gsm") = TRUE
        BY <3>1, <3>2 DEF AccountInv, Typed
      <4> QED BY <3>1, <4>1
    <3>3. CASE ~isGSM
      <4>1. isGSM = FALSE /\ (reply.data = "gsm") = FALSE
        BY <3>1, <3>3 DEF AccountInv, Typed
      <4> QED BY <3>1, <4>1
    <3> QED BY <3>2, <3>3
  <2>3. CardsRight
    BY CardsAreRight DEF AccountInv, Typed
  <2> QED BY <2>1, <2>2, <2>3 DEF ToldRight
<1>2. RilSpec => []ToldInv
  BY InitTold, StepTold, AccountHolds, PTL DEF RilSpec
<1> QED BY <1>1, <1>2, AccountHolds, PTL
=============================================================================
