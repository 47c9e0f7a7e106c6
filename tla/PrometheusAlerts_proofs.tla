----------------------- MODULE PrometheusAlerts_proofs -----------------------
(***************************************************************************)
(* Proofs about module PrometheusAlerts, for every set of runs, every      *)
(* "for" and every age: its type invariant, that one outage of the         *)
(* exporter pages once, and what is alerted once nothing changes.          *)
(*                                                                         *)
(* ExporterDown and MetricsStale can both be pending: the age may be       *)
(* recorded from a scrape that succeeded and the alerts be evaluated after *)
(* one that failed.  The invariant OutageInv says that this happens at no  *)
(* two evaluations in a row, because there is one scrape to a tick; what   *)
(* it needs to know at each point of a tick depends on the groups' order.  *)
(*                                                                         *)
(* The invariant SettledInv counts: since the world last changed, so many  *)
(* evaluations have seen it as it is, and each alert has counted as many   *)
(* or none.                                                                *)
(***************************************************************************)
EXTENDS PrometheusAlerts, TLAPS

Down == active["ExporterDown"]
Stale == active["MetricsStale"]
Failed == active["SnapshotLoadFailed"]

\* Only a scrape that succeeds leaves series, and the groups keep their order.
SeriesComeFromScrapes ==
    scraped.run # {} \/ scraped.load_success # {} => scraped.up = {1}
GroupsKeepTheirOrder ==
    IF recordingFirst THEN "record" \in todo => "alert" \in todo
    ELSE "alert" \in todo => "record" \in todo

\* The age is recorded before the alerts are evaluated.
RecordingFirst ==
    /\ Down >= 1 /\ "alert" \notin todo /\ "scrape" \in todo => scraped.run = {}
    /\ {"scrape", "alert"} \subseteq todo /\ "record" \notin todo
         /\ recorded # {} => scraped.run # {}
    /\ Down >= 1 /\ Stale >= 1 /\ "alert" \notin todo =>
         "scrape" \notin todo /\ scraped.run = {}
    /\ Down >= 1 /\ Stale >= 1 /\ "alert" \in todo =>
         \/ scraped.run = {} /\ ("record" \in todo \/ recorded = {})
         \/ "record" \notin todo /\ recorded = {}
         \/ "scrape" \notin todo /\ scraped.up = {1}
    /\ Down >= 2 => Stale <= 1

\* The alerts are evaluated before the age is recorded.
AlertsFirst ==
    /\ Down >= 1 /\ "alert" \notin todo /\ {"record", "scrape"} \subseteq todo =>
         scraped.run = {}
    /\ Down >= 1 /\ "record" \notin todo /\ recorded # {} =>
         "scrape" \notin todo /\ scraped.run # {}
    /\ Down >= 1 /\ {"alert", "scrape"} \subseteq todo /\ recorded # {} =>
         scraped.run # {}
    /\ Down >= 2 /\ Stale >= 1 /\ "alert" \notin todo =>
         /\ "scrape" \notin todo /\ scraped.run = {}
         /\ "record" \notin todo => recorded = {}
    /\ Down >= 2 /\ Stale >= 1 /\ "alert" \in todo => recorded = {}
    /\ Down >= 3 => Stale <= 1

OutageInv ==
    /\ TypeOK
    /\ SeriesComeFromScrapes
    /\ GroupsKeepTheirOrder
    /\ Down >= 1 => Failed = 0
    /\ IF recordingFirst THEN RecordingFirst ELSE AlertsFirst

-----------------------------------------------------------------------------

\* The file's document is there or it is not, and so is what of it loads.
LEMMA LoadableIsMaybe == TypeOK => Loadable \in Maybe(Runs)
  BY DEF TypeOK, Loadable, Maybe

LEMMA MaybeOne == \A S : \A x \in S : {x} \in Maybe(S)
  BY DEF Maybe

LEMMA LaterCounts == \A n \in 0 .. MaxAge : Later(n) \in 0 .. MaxAge
  BY AlertsAssumption DEF AlertsAssumption, Later

LEMMA TypeInit == Init => TypeOK
  BY AlertsAssumption DEF AlertsAssumption, Init, TypeOK, NoSeries, Maybe

\* One evaluation: the counter starts again, stays at its bound or goes up.
LEMMA Counting ==
  ASSUME TypeOK, Evaluate, NEW a \in Alerts
  PROVE  active'[a] = IF ~Condition(a) THEN 0
                      ELSE IF active[a] > Hold[a] THEN active[a] ELSE active[a] + 1
  BY DEF Evaluate

LEMMA TypeStep == TypeOK /\ [Next]_vars => TypeOK'
<1> SUFFICES ASSUME TypeOK, [Next]_vars PROVE TypeOK'
  OBVIOUS
<1> USE AlertsAssumption DEF AlertsAssumption
<1>1. CASE Publish
  BY <1>1 DEF Publish, Changed, TypeOK, Maybe, prometheus
<1>2. CASE RemoveFile
  BY <1>2 DEF RemoveFile, Changed, TypeOK, Maybe, prometheus
<1>3. CASE ExporterChanges
  BY <1>3 DEF ExporterChanges, Changed, TypeOK, prometheus
<1>4. CASE Tick
  <2>1. age' \in 0 .. MaxAge /\ steady' \in 0 .. MaxAge
    BY <1>4, LaterCounts DEF Tick, TypeOK
  <2>2. Later(scraped.age) \in 0 .. MaxAge
    BY LaterCounts DEF TypeOK
  <2>3. scraped' \in [up : Maybe({0, 1}), load_success : Maybe(BOOLEAN),
                      run : Maybe(Runs), age : 0 .. MaxAge]
    BY <1>4, <2>2 DEF Tick, TypeOK
  <2> QED  BY <1>4, <2>1, <2>3 DEF Tick, TypeOK
<1>5. CASE Scrape
  <2>0. /\ {0} \in Maybe({0, 1}) /\ {1} \in Maybe({0, 1})
        /\ {Loadable # {}} \in Maybe(BOOLEAN) /\ {} \in Maybe(BOOLEAN)
        /\ {} \in Maybe(Runs) /\ Loadable \in Maybe(Runs)
        /\ age \in 0 .. MaxAge /\ 0 \in 0 .. MaxAge
    <3>1. (Loadable # {}) \in BOOLEAN
      OBVIOUS
    <3>2. {} \in Maybe(BOOLEAN) /\ {} \in Maybe(Runs)
      BY DEF Maybe
    <3>3. {0} \in Maybe({0, 1}) /\ {1} \in Maybe({0, 1})
      <4>1. 0 \in {0, 1} /\ 1 \in {0, 1}
        OBVIOUS
      <4> QED  BY <4>1, MaybeOne, Zenon
    <3>4. {Loadable # {}} \in Maybe(BOOLEAN)
      BY <3>1, MaybeOne, Zenon
    <3> QED  BY <3>2, <3>3, <3>4, LoadableIsMaybe DEF TypeOK
  <2>1. scraped' \in [up : Maybe({0, 1}), load_success : Maybe(BOOLEAN),
                      run : Maybe(Runs), age : 0 .. MaxAge]
    BY <1>5, <2>0 DEF Scrape, NoSeries
  <2> QED  BY <1>5, <2>1 DEF Scrape, Does, TypeOK, world
<1>6. CASE Record
  <2>1. recorded' \in Maybe(0 .. MaxAge)
    BY <1>6 DEF Record, MetricsAge, TypeOK, Maybe
  <2> QED  BY <1>6, <2>1 DEF Record, Does, TypeOK, world
<1>7. CASE Evaluate
  <2>1. ASSUME NEW a \in Alerts
        PROVE  active'[a] \in Nat /\ active'[a] <= Hold[a] + 1
    BY <1>7, <2>1, Counting DEF TypeOK
  <2>2. active' = [a \in Alerts |-> active'[a]]
    BY <1>7 DEF Evaluate
  <2>3. active' \in [Alerts -> Nat]
    BY <2>1, <2>2
  <2> QED  BY <1>7, <2>1, <2>3 DEF Evaluate, Does, TypeOK, world
<1>8. CASE UNCHANGED vars
  BY <1>8 DEF vars, world, prometheus, TypeOK
<1> QED  BY <1>1, <1>2, <1>3, <1>4, <1>5, <1>6, <1>7, <1>8 DEF Next

\* Every variable has its type, and no counter of an alert passes its bound.
THEOREM TypeCorrect == Spec => []TypeOK
<1>1. Init => TypeOK
  BY TypeInit
<1>2. TypeOK /\ [Next]_vars => TypeOK'
  BY TypeStep
<1> QED  BY <1>1, <1>2, PTL DEF Spec

-----------------------------------------------------------------------------
(* One page.                                                               *)

\* ExporterDown has to wait for two ticks and MetricsStale for one; in
\* marketdata.yml both wait for six.
HoldsLongEnough == Hold["ExporterDown"] >= 2 /\ Hold["MetricsStale"] >= 1

\* Whatever neither scrapes nor records nor evaluates, nor begins a tick.
LEMMA WorldChanges ==
  ASSUME OutageInv, TypeOK',
         UNCHANGED <<todo, prometheus>>
  PROVE  OutageInv'
  BY DEF OutageInv, SeriesComeFromScrapes, GroupsKeepTheirOrder,
         RecordingFirst, AlertsFirst, Down, Stale, Failed, prometheus

LEMMA TickKeeps == ASSUME OutageInv, TypeOK', Tick PROVE OutageInv'
<1>1. /\ scraped'.run = scraped.run /\ scraped'.up = scraped.up
      /\ scraped'.load_success = scraped.load_success
  BY DEF Tick, OutageInv, TypeOK
<1>2. Down' = Down /\ Stale' = Stale /\ Failed' = Failed
  BY DEF Tick, Down, Stale, Failed
<1> QED
  BY <1>1, <1>2 DEF Tick, OutageInv, SeriesComeFromScrapes, GroupsKeepTheirOrder,
       RecordingFirst, AlertsFirst

LEMMA ScrapeKeeps == ASSUME OutageInv, TypeOK', Scrape PROVE OutageInv'
<1>1. \/ scraped'.up = {0} /\ scraped'.run = {} /\ scraped'.load_success = {}
      \/ scraped'.up = {1}
  BY DEF Scrape, NoSeries
<1>2. Down' = Down /\ Stale' = Stale /\ Failed' = Failed
  BY DEF Scrape, Down, Stale, Failed
<1>3. "scrape" \in todo /\ todo' = todo \ {"scrape"}
  BY DEF Scrape, Does
<1>4. UNCHANGED <<recordingFirst, recorded>>
  BY DEF Scrape
<1>5. SeriesComeFromScrapes'
  BY <1>1 DEF SeriesComeFromScrapes
<1>6. GroupsKeepTheirOrder'
  BY <1>3, <1>4 DEF OutageInv, GroupsKeepTheirOrder
<1>7. CASE recordingFirst
  BY <1>1, <1>2, <1>3, <1>4, <1>5, <1>6, <1>7
     DEF OutageInv, RecordingFirst, GroupsKeepTheirOrder
<1>8. CASE ~recordingFirst
  BY <1>1, <1>2, <1>3, <1>4, <1>5, <1>6, <1>8
     DEF OutageInv, AlertsFirst, GroupsKeepTheirOrder
<1> QED  BY <1>7, <1>8

LEMMA RecordKeeps == ASSUME OutageInv, TypeOK', Record PROVE OutageInv'
<1>1. Down' = Down /\ Stale' = Stale /\ Failed' = Failed
  BY DEF Record, Down, Stale, Failed
<1>2. /\ "record" \in todo /\ todo' = todo \ {"record"}
      /\ ~recordingFirst => "alert" \notin todo
  BY DEF Record, Does
<1>3. UNCHANGED <<recordingFirst, scraped>>
  BY DEF Record
<1>4. recorded' = {} <=> scraped.run = {}
  BY DEF Record, MetricsAge
<1>5. CASE recordingFirst
  BY <1>1, <1>2, <1>3, <1>4, <1>5
     DEF OutageInv, RecordingFirst, GroupsKeepTheirOrder, SeriesComeFromScrapes
<1>6. CASE ~recordingFirst
  BY <1>1, <1>2, <1>3, <1>4, <1>6
     DEF OutageInv, AlertsFirst, GroupsKeepTheirOrder, SeriesComeFromScrapes
<1> QED  BY <1>5, <1>6

LEMMA EvaluateKeeps ==
  ASSUME OutageInv, TypeOK', Evaluate, HoldsLongEnough PROVE OutageInv'
<1> USE AlertsAssumption DEF AlertsAssumption
<1>1. {Hold["ExporterDown"], Hold["MetricsStale"]} \subseteq Nat
      /\ {Down, Stale, Failed, Down', Stale', Failed'} \subseteq Nat
  BY DEF Alerts, OutageInv, TypeOK, Down, Stale, Failed
<1>2. /\ scraped.up # {0} => Down' = 0
      /\ Down' >= 2 => Down >= 1
      /\ Down' >= 3 => Down >= 2
  <2>1. "ExporterDown" \in Alerts /\ (Condition("ExporterDown") <=> scraped.up = {0})
    BY DEF Alerts, Condition
  <2>2. Down' = IF scraped.up # {0} THEN 0
                ELSE IF Down > Hold["ExporterDown"] THEN Down ELSE Down + 1
    BY <2>1, Counting DEF OutageInv, Down
  <2> QED  BY <1>1, <2>2 DEF HoldsLongEnough
<1>3. /\ recorded = {} => Stale' = 0
      /\ Stale = 0 => Stale' <= 1
  <2>1. /\ "MetricsStale" \in Alerts
        /\ Condition("MetricsStale") => recorded # {}
    BY DEF Alerts, Condition
  <2>2. Stale' = IF ~Condition("MetricsStale") THEN 0
                 ELSE IF Stale > Hold["MetricsStale"] THEN Stale ELSE Stale + 1
    BY <2>1, Counting DEF OutageInv, Stale
  <2> QED  BY <1>1, <2>1, <2>2
<1>4. scraped.load_success = {} => Failed' = 0
  <2>1. /\ "SnapshotLoadFailed" \in Alerts
        /\ Condition("SnapshotLoadFailed") <=> scraped.load_success = {FALSE}
    BY DEF Alerts, Condition
  <2> QED  BY <2>1, Counting DEF OutageInv, Failed
<1>5. /\ "alert" \in todo /\ todo' = todo \ {"alert"}
      /\ recordingFirst => "record" \notin todo
      /\ UNCHANGED <<recordingFirst, scraped, recorded>>
  BY DEF Evaluate, Does
<1>6. Down' >= 1 => /\ scraped.up = {0}
                    /\ scraped.run = {} /\ scraped.load_success = {}
  BY <1>1, <1>2 DEF OutageInv, SeriesComeFromScrapes
<1>7. Down' >= 1 => Failed' = 0
  BY <1>4, <1>6
<1>8. SeriesComeFromScrapes' /\ GroupsKeepTheirOrder'
  BY <1>5 DEF OutageInv, SeriesComeFromScrapes, GroupsKeepTheirOrder
<1>9. CASE recordingFirst
  <2>1. RecordingFirst
    BY <1>9 DEF OutageInv
  <2>2. Down' >= 1 /\ Stale' >= 1 => "scrape" \notin todo
    BY <1>3, <1>5, <1>6, <1>9, <2>1, <1>1 DEF RecordingFirst
  <2>3. Down' >= 2 => Stale' <= 1
    <3> SUFFICES ASSUME Down' >= 2, Stale >= 1 PROVE recorded = {}
      BY <1>1, <1>3
    <3>1. Down >= 1 /\ scraped.up # {1}
      <4>1. Down >= 1 /\ scraped.up = {0}
        BY <1>1, <1>2, <1>6
      <4>2. 0 \in {0} /\ 0 \notin {1}
        OBVIOUS
      <4> QED  BY <4>1, <4>2
    <3> QED  BY <1>5, <1>9, <2>1, <3>1, <1>1 DEF RecordingFirst
  <2>4. RecordingFirst'
    BY <1>1, <1>5, <1>6, <2>2, <2>3 DEF RecordingFirst
  <2> QED  BY <1>5, <1>7, <1>8, <1>9, <2>4 DEF OutageInv
<1>10. CASE ~recordingFirst
  <2>1. AlertsFirst /\ "record" \in todo
    BY <1>5, <1>10 DEF OutageInv, GroupsKeepTheirOrder
  <2>2. Down' >= 2 /\ Stale' >= 1 => "scrape" \notin todo
    BY <1>1, <1>2, <1>3, <1>5, <1>6, <2>1 DEF AlertsFirst
  <2>3. Down' >= 3 => Stale' <= 1
    <3> SUFFICES ASSUME Down' >= 3, Stale >= 1 PROVE recorded = {}
      BY <1>1, <1>3
    <3> QED  BY <1>1, <1>2, <1>5, <2>1 DEF AlertsFirst
  <2>4. AlertsFirst'
    BY <1>1, <1>5, <1>6, <2>1, <2>2, <2>3 DEF AlertsFirst
  <2> QED  BY <1>5, <1>7, <1>8, <1>10, <2>4 DEF OutageInv
<1> QED  BY <1>9, <1>10

LEMMA OutageStep ==
  ASSUME HoldsLongEnough
  PROVE  OutageInv /\ [Next]_vars => OutageInv'
<1> SUFFICES ASSUME OutageInv, [Next]_vars PROVE OutageInv'
  OBVIOUS
<1>1. TypeOK'
  BY TypeStep DEF OutageInv
<1>2. CASE Publish \/ RemoveFile \/ ExporterChanges \/ UNCHANGED vars
  <2>1. UNCHANGED <<todo, prometheus>>
    BY <1>2 DEF Publish, RemoveFile, ExporterChanges, Changed, vars
  <2> QED  BY <1>1, <2>1, WorldChanges
<1>3. CASE Tick      BY <1>1, <1>3, TickKeeps
<1>4. CASE Scrape    BY <1>1, <1>4, ScrapeKeeps
<1>5. CASE Record    BY <1>1, <1>5, RecordKeeps
<1>6. CASE Evaluate  BY <1>1, <1>6, EvaluateKeeps
<1> QED  BY <1>2, <1>3, <1>4, <1>5, <1>6 DEF Next

\* If ExporterDown waits for two ticks and MetricsStale for one, an outage of
\* the exporter never has them, or the first and SnapshotLoadFailed, fire
\* together, however the exporter comes and goes and in whatever order scrapes
\* and evaluations fall.
THEOREM OneOutageOnePage ==
  ASSUME HoldsLongEnough
  PROVE  Spec => []OutagePagesOnce
<1>1. Init => OutageInv
  BY TypeInit DEF Init, OutageInv, SeriesComeFromScrapes, GroupsKeepTheirOrder,
     RecordingFirst, AlertsFirst, Down, Stale, Failed, NoSeries, Alerts
<1>2. OutageInv /\ [Next]_vars => OutageInv'
  BY OutageStep
<1>3. OutageInv => OutagePagesOnce
  <2> SUFFICES ASSUME OutageInv, Firing("ExporterDown")
               PROVE  ~Firing("SnapshotLoadFailed") /\ ~Firing("MetricsStale")
    BY DEF OutagePagesOnce
  <2>1. /\ {Down, Stale, Failed} \subseteq Nat
        /\ \A a \in Alerts : Hold[a] \in Nat
        /\ {"ExporterDown", "SnapshotLoadFailed", "MetricsStale"} \subseteq Alerts
    BY AlertsAssumption DEF AlertsAssumption, OutageInv, TypeOK, Alerts, Down,
       Stale, Failed
  <2>2. Down > Hold["ExporterDown"] /\ Down >= 3
    BY <2>1 DEF HoldsLongEnough, Firing, Down
  <2>3. Failed = 0 /\ Stale <= 1
    BY <2>1, <2>2 DEF OutageInv, RecordingFirst, AlertsFirst
  <2> QED  BY <2>1, <2>3 DEF HoldsLongEnough, Firing, Stale, Failed
<1> QED  BY <1>1, <1>2, <1>3, PTL DEF Spec
-----------------------------------------------------------------------------
(* What is alerted once nothing changes any more.                          *)

\* What a scrape finds that happens now.
Fresh ==
    IF exporter = "down"
    THEN scraped.up = {0} /\ scraped.load_success = {} /\ scraped.run = {}
    ELSE /\ scraped.up = {1} /\ scraped.load_success = {Loadable # {}}
         /\ scraped.run = Loadable /\ scraped.age = age

Served == exporter # "down" /\ Loadable # {}

\* The age on record is the file's, or was at the end of the last tick.
FreshAge ==
    IF Served
    THEN \E n \in 0 .. MaxAge :
            recorded = {n} /\ age = IF "record" \in todo THEN Later(n) ELSE n
    ELSE recorded = {}

Waiting == IF "alert" \in todo THEN 1 ELSE 0

\* How many evaluations have seen a fresh scrape, and a fresh age on record.
Seen == steady - Waiting - 1
SeenAge == steady - Waiting - 2

Counted(alert) ==
    Seen >= 1 => IF Condition(alert) THEN active[alert] >= Seen \/ Firing(alert)
                 ELSE active[alert] = 0

\* MetricsStale follows an age that grows: one evaluation may find it a tick
\* too young.
AgeCounted ==
    SeenAge >= 1 =>
        /\ active["MetricsStale"] >= 1 => Served /\ age > StaleAfter
        /\ Served => \/ active["MetricsStale"] >= SeenAge
                     \/ active["MetricsStale"] >= age - Waiting - StaleAfter - 1
                     \/ Firing("MetricsStale")

SettledInv ==
    /\ TypeOK
    /\ GroupsKeepTheirOrder
    /\ steady >= 2 \/ (steady = 1 /\ "scrape" \notin todo) => Fresh
    /\ steady >= 3 \/ (steady = 2 /\ "record" \notin todo) => FreshAge
    /\ \A a \in Alerts \ {"MetricsStale"} : Counted(a)
    /\ AgeCounted

-----------------------------------------------------------------------------

LEMMA LaterIsLater == \A n \in 0 .. MaxAge : n <= Later(n) /\ Later(n) <= n + 1
  BY AlertsAssumption DEF AlertsAssumption, Later

\* What the variables are when steps are counted.
LEMMA Counters ==
  ASSUME TypeOK
  PROVE  /\ MaxAge \in Nat /\ MaxAge >= 4 /\ StaleAfter \in Nat
         /\ steady \in 0 .. MaxAge /\ age \in 0 .. MaxAge
         /\ Waiting \in 0 .. 1
         /\ \A a \in Alerts : Hold[a] \in Nat /\ active[a] \in Nat
<1>1. "ExporterDown" \in Alerts
  BY DEF Alerts
<1>2. /\ MaxAge \in Nat /\ StaleAfter \in Nat /\ Hold \in [Alerts -> Nat]
      /\ StaleAfter + Hold["ExporterDown"] + 4 <= MaxAge
  BY <1>1, AlertsAssumption DEF AlertsAssumption
<1>3. MaxAge >= 4
  BY <1>1, <1>2
<1> QED  BY <1>2, <1>3 DEF TypeOK, Waiting

\* No alert but MetricsStale looks at anything but the last scrape.
LEMMA ConditionOfScrape ==
  ASSUME NEW a \in Alerts \ {"MetricsStale"},
         scraped'.up = scraped.up, scraped'.load_success = scraped.load_success,
         scraped'.run = scraped.run
  PROVE  Condition(a)' <=> Condition(a)
<1>1. Series' = Series
  BY DEF Series
<1>2. CASE a = "ExporterDown"
  BY <1>2 DEF Condition
<1>3. CASE a = "SnapshotLoadFailed"
  BY <1>3 DEF Condition
<1>4. CASE a = "DeviceP99SloBreach"
  BY <1>1, <1>4 DEF Condition
<1>5. CASE a = "MockFallbackUsed"
  BY <1>1, <1>5 DEF Condition
<1>6. CASE a = "IdentityValidationFailed"
  BY <1>1, <1>6 DEF Condition
<1>7. CASE a = "CudaGraphDisabled"
  BY <1>1, <1>7 DEF Condition
<1> QED  BY <1>2, <1>3, <1>4, <1>5, <1>6, <1>7 DEF Alerts

LEMMA SettledInit == Init => SettledInv
<1> SUFFICES ASSUME Init PROVE SettledInv
  OBVIOUS
<1>1. TypeOK
  BY TypeInit
<1>2. steady = 0 /\ todo = {}
  BY DEF Init
<1>3. Seen \in Int /\ Seen < 1 /\ SeenAge \in Int /\ SeenAge < 1
  BY <1>2 DEF Seen, SeenAge, Waiting
<1> QED
  BY <1>1, <1>2, <1>3 DEF SettledInv, GroupsKeepTheirOrder, Counted, AgeCounted

\* A change of the world starts every count again.
LEMMA ChangeSettles ==
  ASSUME SettledInv, TypeOK', UNCHANGED <<todo, recordingFirst>>, steady' = 0
  PROVE  SettledInv'
<1>1. GroupsKeepTheirOrder'
  BY DEF SettledInv, GroupsKeepTheirOrder
<1>2. Seen' \in Int /\ Seen' < 1 /\ SeenAge' \in Int /\ SeenAge' < 1
  BY DEF Seen, SeenAge, Waiting
<1> QED  BY <1>1, <1>2 DEF SettledInv, Counted, AgeCounted

LEMMA TickSettles == ASSUME SettledInv, TypeOK', Tick PROVE SettledInv'
<1>1. /\ todo = {} /\ todo' = {"scrape", "record", "alert"}
      /\ age' = Later(age) /\ steady' = Later(steady)
      /\ UNCHANGED <<exporter, published, recordingFirst, recorded, active>>
  BY DEF Tick
<1>2. /\ scraped'.up = scraped.up /\ scraped'.load_success = scraped.load_success
      /\ scraped'.run = scraped.run /\ scraped'.age = Later(scraped.age)
  BY DEF Tick, SettledInv, TypeOK
<1>3. /\ Waiting = 0 /\ Waiting' = 1
      /\ steady' = IF steady < MaxAge THEN steady + 1 ELSE steady
      /\ age <= age' /\ age' <= age + 1
  BY <1>1, Counters, LaterIsLater DEF SettledInv, Waiting, Later
<1>4. Loadable' = Loadable /\ Served' = Served
  BY <1>1 DEF Loadable, Served
<1>5. steady' >= 2 => Fresh'
  <2>1. steady' >= 2 => Fresh
    BY <1>1, <1>3, Counters DEF SettledInv
  <2> QED  BY <1>1, <1>2, <1>4, <2>1 DEF Fresh
<1>6. steady' >= 3 => FreshAge'
  <2>1. steady' >= 3 => FreshAge
    BY <1>1, <1>3, Counters DEF SettledInv
  <2> QED  BY <1>1, <1>4, <2>1 DEF FreshAge
<1>7. ASSUME NEW a \in Alerts \ {"MetricsStale"} PROVE Counted(a)'
  <2>1. Condition(a)' <=> Condition(a)
    BY <1>2, ConditionOfScrape
  <2>2. Counted(a) /\ Seen' <= Seen /\ Seen \in Int /\ Seen' \in Int
    BY <1>3, Counters DEF SettledInv, Seen
  <2> QED  BY <1>1, <2>1, <2>2, Counters DEF SettledInv, Counted, Firing, Alerts
<1>8. AgeCounted'
  <2>1. SeenAge' <= SeenAge /\ SeenAge \in Int /\ SeenAge' \in Int
    BY <1>3, Counters DEF SettledInv, SeenAge
  <2> QED
    BY <1>1, <1>3, <1>4, <2>1, Counters DEF SettledInv, AgeCounted, Firing, Alerts
<1>9. GroupsKeepTheirOrder'
  BY <1>1 DEF GroupsKeepTheirOrder
<1> QED  BY <1>1, <1>5, <1>6, <1>7, <1>8, <1>9 DEF SettledInv

LEMMA ScrapeSettles == ASSUME SettledInv, TypeOK', Scrape PROVE SettledInv'
<1>1. /\ todo' = todo \ {"scrape"}
      /\ UNCHANGED <<exporter, published, age, steady, recordingFirst, recorded, active>>
  BY DEF Scrape, Does, world
<1>2. Loadable' = Loadable /\ Served' = Served /\ Waiting' = Waiting
  BY <1>1 DEF Loadable, Served, Waiting
<1>3. Fresh'
  BY <1>1, <1>2 DEF Scrape, Fresh, NoSeries
<1>4. FreshAge' = FreshAge
  BY <1>1, <1>2 DEF FreshAge
<1>5. ASSUME NEW a \in Alerts \ {"MetricsStale"} PROVE Counted(a)'
  <2>1. Counted(a) /\ Seen' = Seen
    BY <1>1, <1>2 DEF SettledInv, Seen
  <2>2. Seen >= 1 => Fresh
    BY Counters DEF SettledInv, Seen
  <2>3. Fresh => (Condition(a)' <=> Condition(a))
    BY <1>1, <1>2, <1>3, ConditionOfScrape DEF Fresh
  <2> QED  BY <1>1, <2>1, <2>2, <2>3 DEF Counted, Firing
<1>6. AgeCounted'
  BY <1>1, <1>2 DEF SettledInv, AgeCounted, SeenAge, Firing
<1>7. GroupsKeepTheirOrder'
  BY <1>1 DEF SettledInv, GroupsKeepTheirOrder
<1> QED  BY <1>1, <1>3, <1>4, <1>5, <1>6, <1>7 DEF SettledInv

LEMMA RecordSettles == ASSUME SettledInv, TypeOK', Record PROVE SettledInv'
<1>1. /\ ~recordingFirst => "alert" \notin todo
      /\ todo' = todo \ {"record"}
      /\ recorded' = {scraped.age : run \in scraped.run}
      /\ UNCHANGED <<exporter, published, age, steady, recordingFirst, scraped, active>>
  BY DEF Record, Does, world, MetricsAge
<1>2. Loadable' = Loadable /\ Served' = Served /\ Waiting' = Waiting
  BY <1>1 DEF Loadable, Served, Waiting
<1>3. Fresh' = Fresh
  BY <1>1, <1>2 DEF Fresh
<1>4. Fresh => FreshAge'
  BY <1>1, <1>2, Counters DEF SettledInv, Fresh, FreshAge, Served
<1>5. steady >= 2 => FreshAge'
  BY <1>4 DEF SettledInv
<1>6. ASSUME NEW a \in Alerts \ {"MetricsStale"} PROVE Counted(a)'
  <2>1. Condition(a)' <=> Condition(a)
    BY <1>1, ConditionOfScrape
  <2> QED  BY <1>1, <1>2, <2>1 DEF SettledInv, Counted, Seen, Firing
<1>7. AgeCounted'
  BY <1>1, <1>2 DEF SettledInv, AgeCounted, SeenAge, Firing
<1>8. GroupsKeepTheirOrder'
  BY <1>1 DEF SettledInv, GroupsKeepTheirOrder
<1> QED  BY <1>1, <1>3, <1>5, <1>6, <1>7, <1>8, Counters DEF SettledInv

LEMMA EvaluateSettles == ASSUME SettledInv, TypeOK', Evaluate PROVE SettledInv'
<1>1. /\ recordingFirst => "record" \notin todo
      /\ "alert" \in todo /\ todo' = todo \ {"alert"}
      /\ UNCHANGED <<exporter, published, age, steady, recordingFirst, scraped, recorded>>
  BY DEF Evaluate, Does, world
<1>2. Loadable' = Loadable /\ Served' = Served
  BY <1>1 DEF Loadable, Served
<1>3. Waiting = 1 /\ Waiting' = 0
  BY <1>1 DEF Waiting
<1>4. Fresh' = Fresh /\ FreshAge' = FreshAge
  BY <1>1, <1>2 DEF Fresh, FreshAge
<1>5. ASSUME NEW a \in Alerts \ {"MetricsStale"} PROVE Counted(a)'
  <2>1. Condition(a)' <=> Condition(a)
    BY <1>1, ConditionOfScrape
  <2>2. active'[a] = IF ~Condition(a) THEN 0
                     ELSE IF active[a] > Hold[a] THEN active[a] ELSE active[a] + 1
    BY Counting DEF SettledInv
  <2>3. Seen' = Seen + 1 /\ Seen \in Int
    BY <1>1, <1>3, Counters DEF SettledInv, Seen
  <2>4. Hold[a] \in Nat /\ active[a] \in Nat /\ Counted(a)
    BY Counters DEF SettledInv
  <2> QED  BY <2>1, <2>2, <2>3, <2>4 DEF Counted, Firing
<1>6. AgeCounted'
  <2>1. SeenAge' = SeenAge + 1 /\ SeenAge \in Int
    BY <1>1, <1>3, Counters DEF SettledInv, SeenAge
  <2>2. "MetricsStale" \in Alerts
    BY DEF Alerts
  <2>3. active'["MetricsStale"] =
          IF ~Condition("MetricsStale") THEN 0
          ELSE IF active["MetricsStale"] > Hold["MetricsStale"]
               THEN active["MetricsStale"] ELSE active["MetricsStale"] + 1
    BY <2>2, Counting DEF SettledInv
  <2>4. Condition("MetricsStale") <=> \E n \in recorded : n > StaleAfter
    BY DEF Condition
  <2>5. SeenAge' >= 1 => FreshAge
    BY <1>1, <1>3, Counters DEF SettledInv, SeenAge
  <2>6. SeenAge' >= 1 /\ Condition("MetricsStale") => Served /\ age > StaleAfter
    BY <2>4, <2>5, LaterIsLater, Counters DEF FreshAge, SettledInv
  <2>7. SeenAge' >= 1 /\ Served /\ ~Condition("MetricsStale") => age <= StaleAfter + 1
    BY <2>4, <2>5, LaterIsLater, Counters DEF FreshAge, SettledInv
  <2>8. /\ Hold["MetricsStale"] \in Nat /\ active["MetricsStale"] \in Nat
        /\ AgeCounted
    BY <2>2, Counters DEF SettledInv
  <2> QED
    BY <1>1, <1>2, <1>3, <2>1, <2>3, <2>6, <2>7, <2>8, Counters
    DEF SettledInv, AgeCounted, Firing
<1>7. GroupsKeepTheirOrder'
  BY <1>1 DEF SettledInv, GroupsKeepTheirOrder
<1> QED  BY <1>1, <1>4, <1>5, <1>6, <1>7 DEF SettledInv

LEMMA SettledStep == SettledInv /\ [Next]_vars => SettledInv'
<1> SUFFICES ASSUME SettledInv, [Next]_vars PROVE SettledInv'
  OBVIOUS
<1>1. TypeOK'
  BY TypeStep DEF SettledInv
<1>2. CASE Publish \/ RemoveFile \/ ExporterChanges
  <2>1. UNCHANGED <<todo, recordingFirst>> /\ steady' = 0
    BY <1>2 DEF Publish, RemoveFile, ExporterChanges, Changed, prometheus
  <2> QED  BY <1>1, <2>1, ChangeSettles
<1>3. CASE Tick      BY <1>1, <1>3, TickSettles
<1>4. CASE Scrape    BY <1>1, <1>4, ScrapeSettles
<1>5. CASE Record    BY <1>1, <1>5, RecordSettles
<1>6. CASE Evaluate  BY <1>1, <1>6, EvaluateSettles
<1>7. CASE UNCHANGED vars
  BY <1>7, ZenonT(60)
  DEF vars, world, prometheus, SettledInv, TypeOK, GroupsKeepTheirOrder, Fresh,
     FreshAge, Served, Loadable, Counted, AgeCounted, Seen, SeenAge, Waiting, Condition,
     Series, Firing
<1> QED  BY <1>2, <1>3, <1>4, <1>5, <1>6, <1>7 DEF Next

LEMMA SettledInvariant == Spec => []SettledInv
  BY SettledInit, SettledStep, PTL DEF Spec

-----------------------------------------------------------------------------
(* What follows once nothing has changed for long enough.                  *)

LEMMA SettledAlert ==
  ASSUME SettledInv, NEW a \in Alerts \ {"MetricsStale"}, Settled(a)
  PROVE  Fresh /\ (Firing(a) <=> Condition(a))
<1>1. todo = {} /\ steady > Hold[a] + 2 /\ Hold[a] \in Nat /\ active[a] \in Nat
  BY Counters DEF SettledInv, Settled
<1>2. Seen = steady - 1 /\ Counted(a) /\ Fresh
  BY <1>1, Counters DEF SettledInv, Seen, Waiting
<1> QED  BY <1>1, <1>2, Counters DEF SettledInv, Counted, Firing

\* Whatever the exporter and the file have been through: if neither changes
\* for as long as an alert waits and two ticks more, the alert about the
\* evidence that fires is the one for what is the matter, and no other.
THEOREM StoppedEvidence == Spec => []StoppedEvidenceIsAlerted
<1>1. SettledInv => StoppedEvidenceIsAlerted
  <2> SUFFICES ASSUME SettledInv PROVE StoppedEvidenceIsAlerted
    OBVIOUS
  <2>1. exporter \in {"up", "down"}
    BY DEF SettledInv, TypeOK
  <2>2. Settled("ExporterDown") => (Firing("ExporterDown") <=> exporter = "down")
    <3> SUFFICES ASSUME Settled("ExporterDown")
                 PROVE  Firing("ExporterDown") <=> exporter = "down"
      OBVIOUS
    <3>1. "ExporterDown" \in Alerts \ {"MetricsStale"}
      BY DEF Alerts
    <3>2. Fresh /\ (Firing("ExporterDown") <=> Condition("ExporterDown"))
      BY <3>1, SettledAlert
    <3>3. Condition("ExporterDown") <=> scraped.up = {0}
      BY DEF Condition
    <3>4. Fresh => (scraped.up = {0} <=> exporter = "down")
      BY <2>1 DEF Fresh
    <3> QED  BY <3>2, <3>3, <3>4
  <2>3. Settled("SnapshotLoadFailed") =>
          (Firing("SnapshotLoadFailed") <=> exporter = "up" /\ Loadable = {})
    <3> SUFFICES ASSUME Settled("SnapshotLoadFailed")
                 PROVE  Firing("SnapshotLoadFailed") <=> exporter = "up" /\ Loadable = {}
      OBVIOUS
    <3>1. "SnapshotLoadFailed" \in Alerts \ {"MetricsStale"}
      BY DEF Alerts
    <3>2. Fresh /\ (Firing("SnapshotLoadFailed") <=> Condition("SnapshotLoadFailed"))
      BY <3>1, SettledAlert
    <3>3. Condition("SnapshotLoadFailed") <=> scraped.load_success = {FALSE}
      BY DEF Condition
    <3>4. Fresh => (scraped.load_success = {FALSE} <=> exporter = "up" /\ Loadable = {})
      BY <2>1 DEF Fresh
    <3> QED  BY <3>2, <3>3, <3>4
  <2>4. ASSUME Settled("MetricsStale")
        PROVE  /\ Firing("MetricsStale") => Served /\ age > StaleAfter
               /\ Served /\ age > StaleAfter + Hold["MetricsStale"] + 2 =>
                    Firing("MetricsStale")
    <3>1. "MetricsStale" \in Alerts
      BY DEF Alerts
    <3>2. /\ Hold["MetricsStale"] \in Nat /\ active["MetricsStale"] \in Nat
          /\ steady > Hold["MetricsStale"] + 2 /\ steady \in Nat /\ age \in Nat
          /\ StaleAfter \in Nat
      BY <2>4, <3>1, Counters DEF SettledInv, Settled
    <3>3. SeenAge = steady - 2 /\ Waiting = 0 /\ AgeCounted
      BY <2>4, <3>2 DEF SettledInv, Settled, SeenAge, Waiting
    <3> QED  BY <3>2, <3>3 DEF AgeCounted, Firing
  <2> QED  BY <2>1, <2>2, <2>3, <2>4 DEF StoppedEvidenceIsAlerted, Served
<1> QED  BY <1>1, SettledInvariant, PTL

\* What the exporter makes of a run and what main made of it.
LEMMA SeriesOfRun ==
  ASSUME NEW run \in Runs
  PROVE  LET s == Render(Document(run)) IN
         /\ s.validation_enabled /\ ~s.validation_pass <=> ExitCode(run) = 5
         /\ ExitCode(run) # 5 =>
              (s.slo_configured /\ ~s.slo_pass <=> ExitCode(run) \in {3, 4})
         /\ s.fallback_used = run.fallback_used
<1> DEFINE s == Render(Document(run))
           failed == \E v \in run.stats.validation : ~v.passed
           selected == Selected(run.opt, run.stats)
<1>1. /\ run.opt.target \in Nat
      /\ \A d, e \in selected : d = e /\ d.p99 \in Nat
      /\ \A v, w \in run.stats.validation : v = w /\ v.passed \in BOOLEAN
  BY RunsAssumption DEF RunsAssumption, Selected
<1>2. s.validation_enabled /\ ~s.validation_pass <=> failed
  <2>1. /\ s.validation_enabled <=> Document(run).validation # {}
        /\ s.validation_pass <=> \E v \in Document(run).validation : v.passed
    BY Zenon DEF Render
  <2>2. Document(run).validation =
          {[compared_elements |-> v.compared_elements, passed |-> v.passed] :
             v \in run.stats.validation}
    BY DEF Document, FormatMetrics
  <2>3. \A v \in run.stats.validation :
          [compared_elements |-> v.compared_elements, passed |-> v.passed].passed = v.passed
    OBVIOUS
  <2>4. /\ Document(run).validation # {} <=> run.stats.validation # {}
        /\ (\E v \in Document(run).validation : v.passed)
             <=> \E v \in run.stats.validation : v.passed
    BY <2>2, <2>3
  <2> QED  BY <1>1, <2>1, <2>4
<1>3. /\ s.slo_configured <=> run.opt.target # 0
      /\ run.opt.target # 0 =>
           (s.slo_pass <=> \E d \in selected : d.p99 <= run.opt.target)
  BY DEF Render, Document, FormatMetrics, FormatSlo, SloPassed, ValueOr
<1>4. s.fallback_used = run.fallback_used
  BY DEF Render, Document, FormatMetrics
<1>5. /\ ExitCode(run) = 5 <=> failed
      /\ ~failed => (ExitCode(run) \in {3, 4} <=>
           run.opt.target # 0 /\ ~\E d \in selected : d.p99 <= run.opt.target)
  <2>1. CASE selected = {}
    BY <2>1 DEF ExitCode, Verdict
  <2>2. CASE \E d : selected = {d} /\ d.p99 \in Nat
    BY <1>1, <2>2 DEF ExitCode, Verdict
  <2> QED  BY <1>1, <2>1, <2>2
<1> HIDE DEF s, failed, selected
<1>6. /\ s.validation_enabled /\ ~s.validation_pass <=> ExitCode(run) = 5
      /\ ExitCode(run) # 5 =>
              (s.slo_configured /\ ~s.slo_pass <=> ExitCode(run) \in {3, 4})
  BY <1>2, <1>3, <1>5
<1> QED  BY <1>4, <1>6 DEF s

\* The alerts about a document that is served say what its run exited with, for
\* every latency, objective and validation a run may have.
THEOREM Verdicts == Spec => []VerdictsAreAlerted
<1>1. SettledInv => VerdictsAreAlerted
  <2> SUFFICES ASSUME SettledInv, exporter = "up", NEW run \in Loadable
               PROVE
                 /\ Settled("IdentityValidationFailed") =>
                      (Firing("IdentityValidationFailed") <=> ExitCode(run) = 5)
                 /\ Settled("DeviceP99SloBreach") /\ ExitCode(run) # 5 =>
                      (Firing("DeviceP99SloBreach") <=> ExitCode(run) \in {3, 4})
                 /\ Settled("MockFallbackUsed") =>
                      (Firing("MockFallbackUsed") <=> run.fallback_used)
    BY DEF VerdictsAreAlerted
  <2>1. run \in Runs /\ Loadable = {run}
    BY DEF SettledInv, TypeOK, Loadable, Maybe
  <2>2. Fresh => Series = {Render(Document(run))}
    BY <2>1 DEF Fresh, Series
  <2>3. {"IdentityValidationFailed", "DeviceP99SloBreach", "MockFallbackUsed"}
          \subseteq Alerts \ {"MetricsStale"}
    BY DEF Alerts
  <2>4. /\ Condition("IdentityValidationFailed") <=>
             \E s \in Series : s.validation_enabled /\ ~s.validation_pass
        /\ Condition("DeviceP99SloBreach") <=>
             \E s \in Series : s.slo_configured /\ ~s.slo_pass
        /\ Condition("MockFallbackUsed") <=> \E s \in Series : s.fallback_used
    BY DEF Condition
  <2>5. Settled("IdentityValidationFailed") =>
          (Firing("IdentityValidationFailed") <=> ExitCode(run) = 5)
    BY <2>1, <2>2, <2>3, <2>4, SettledAlert, SeriesOfRun
  <2>6. Settled("DeviceP99SloBreach") /\ ExitCode(run) # 5 =>
          (Firing("DeviceP99SloBreach") <=> ExitCode(run) \in {3, 4})
    BY <2>1, <2>2, <2>3, <2>4, SettledAlert, SeriesOfRun
  <2>7. Settled("MockFallbackUsed") =>
          (Firing("MockFallbackUsed") <=> run.fallback_used)
    BY <2>1, <2>2, <2>3, <2>4, SettledAlert, SeriesOfRun
  <2> QED  BY <2>5, <2>6, <2>7
<1> QED  BY <1>1, SettledInvariant, PTL
=============================================================================
