-------------------------- MODULE PrometheusAlerts --------------------------
(***************************************************************************)
(* What an operator is told: the benchmark publishes documents, the        *)
(* exporter serves the one in the file, and Prometheus scrapes it and      *)
(* evaluates the two rule groups of                                        *)
(* deploy/monitoring/prometheus/rules/marketdata.yml.                      *)
(*                                                                         *)
(* Time passes in ticks of five seconds, the interval of the scrapes and   *)
(* of both groups: each of the three happens once in a tick.  The groups   *)
(* keep their order, each having an offset of its own in the interval; a   *)
(* scrape may take up to three seconds and falls anywhere between them.    *)
(***************************************************************************)
EXTENDS Integers, Metrics

CONSTANTS
    Runs,        \* the runs of marketdata_ingress that may be published
    Hold,        \* the "for" of every alert, in ticks
    StaleAfter,  \* the age beyond which evidence is stale, in ticks
    MaxAge       \* where the counters of ticks stop counting

Alerts == {"ExporterDown", "SnapshotLoadFailed", "MetricsStale",
           "DeviceP99SloBreach", "MockFallbackUsed",
           "IdentityValidationFailed", "CudaGraphDisabled"}

ASSUME AlertsAssumption ==
    /\ Hold \in [Alerts -> Nat]
    /\ StaleAfter \in Nat
    /\ MaxAge \in Nat
    /\ \A a \in Alerts : StaleAfter + Hold[a] + 4 <= MaxAge

\* What every run has that comes to a document.
ASSUME RunsAssumption ==
    \A run \in Runs :
        /\ run.opt.target \in Nat
        /\ run.stats.end_to_end.p99 \in Nat
        /\ \A d, e \in run.stats.device_compute : d = e /\ d.p99 \in Nat
        /\ \A v, w \in run.stats.validation : v = w /\ v.passed \in BOOLEAN

VARIABLES
    exporter,        \* whether the process runs
    published,       \* the run whose document is in the file, none before
    age,             \* of the file
    steady,          \* how long exporter and file have been as they are
    recordingFirst,  \* the order of the two groups
    todo,            \* what is left to happen in this tick
    scraped,         \* the series of the last scrape
    recorded,        \* marketdata:metrics_age_seconds
    active           \* evaluations in a row that found an alert's condition

world == <<exporter, published, age, steady>>
prometheus == <<recordingFirst, scraped, recorded, active>>
vars == <<world, todo, prometheus>>

Document(run) ==
    FormatMetrics(run.opt, run.fallback_used, run.requested, run.stats)
ExitCode(run) == Verdict(run.opt, run.stats)
Loadable == {run \in published : Accepted(Document(run))}

\* Without a scrape, or after one that failed, there is no series but up.
NoSeries(up) == [up |-> up, load_success |-> {}, run |-> {}, age |-> 0]

Init ==
    /\ exporter = "down"
    /\ published = {}
    /\ age = 0
    /\ steady = 0
    /\ recordingFirst \in BOOLEAN
    /\ todo = {}
    /\ scraped = NoSeries({})
    /\ recorded = {}
    /\ active = [a \in Alerts |-> 0]

-----------------------------------------------------------------------------
(* The world.                                                              *)

Changed == steady' = 0 /\ UNCHANGED <<todo, prometheus>>

\* The script publishes what exits with 0 and nothing else; --json-out
\* straight at the exporter's file, as docs/monitoring.md has it for the first
\* snapshot, leaves the document there whatever the verdict.
Publish ==
    /\ \E run \in Runs : published' = {run}
    /\ age' = 0
    /\ UNCHANGED exporter
    /\ Changed

RemoveFile ==
    /\ published # {}
    /\ published' = {}
    /\ UNCHANGED <<exporter, age>>
    /\ Changed

ExporterChanges ==
    /\ exporter' = IF exporter = "up" THEN "down" ELSE "up"
    /\ UNCHANGED <<published, age>>
    /\ Changed

-----------------------------------------------------------------------------
(* Prometheus.                                                             *)

Later(n) == IF n < MaxAge THEN n + 1 ELSE MaxAge

Tick ==
    /\ todo = {}
    /\ todo' = {"scrape", "record", "alert"}
    /\ age' = Later(age)
    /\ steady' = Later(steady)
    /\ scraped' = [scraped EXCEPT !.age = Later(scraped.age)]
    /\ UNCHANGED <<exporter, published, recordingFirst, recorded, active>>

Does(step) == step \in todo /\ todo' = todo \ {step}

\* load_for_scrape: the file is read for the scrape, and without a snapshot
\* the exporter's own series are all there is.
Scrape ==
    /\ Does("scrape")
    /\ scraped' = IF exporter = "down" THEN NoSeries({0})
                  ELSE [up |-> {1}, load_success |-> {Loadable # {}},
                        run |-> Loadable, age |-> age]
    /\ UNCHANGED <<world, recordingFirst, recorded, active>>

\* The age is that of the file.  (The first two are injected faults: the file's
\* time is rounded up to the next tick; the age is that of the last load.)
AgeRoundedDown == {scraped.age - 1 : run \in scraped.run}
AgeOfLoad == {0 : run \in scraped.run}
MetricsAge == {scraped.age : run \in scraped.run}

Record ==
    /\ ~recordingFirst => "alert" \notin todo
    /\ Does("record")
    /\ recorded' = MetricsAge
    /\ UNCHANGED <<world, recordingFirst, scraped, active>>

Series == {Render(Document(run)) : run \in scraped.run}

Condition(alert) ==
    CASE alert = "ExporterDown" -> scraped.up = {0}
      [] alert = "SnapshotLoadFailed" -> scraped.load_success = {FALSE}
      [] alert = "MetricsStale" -> \E n \in recorded : n > StaleAfter
      [] alert = "DeviceP99SloBreach" ->
           \E s \in Series : s.slo_configured /\ ~s.slo_pass
      [] alert = "MockFallbackUsed" -> \E s \in Series : s.fallback_used
      [] alert = "IdentityValidationFailed" ->
           \E s \in Series : s.validation_enabled /\ ~s.validation_pass
      [] alert = "CudaGraphDisabled" ->
           \E s \in Series : ~s.cuda_graph_enabled /\ s.backend = "tensorrt"

Evaluate ==
    /\ recordingFirst => "record" \notin todo
    /\ Does("alert")
    /\ active' = [a \in Alerts |->
                    IF ~Condition(a) THEN 0
                    ELSE IF active[a] > Hold[a] THEN active[a] ELSE active[a] + 1]
    /\ UNCHANGED <<world, recordingFirst, scraped, recorded>>

\* An alert is pending until its condition has held for as long as its "for":
\* n evaluations in a row span n - 1 ticks.  (FiringAtOnce is the injected
\* fault: a rule without "for".)
FiringAtOnce(alert) == active[alert] > 0
Firing(alert) == active[alert] > Hold[alert]

Next ==
    \/ Publish \/ RemoveFile \/ ExporterChanges
    \/ Tick \/ Scrape \/ Record \/ Evaluate

Spec == Init /\ [][Next]_vars

-----------------------------------------------------------------------------
(* Properties.                                                             *)

TypeOK ==
    /\ exporter \in {"up", "down"}
    /\ published \in Maybe(Runs)
    /\ age \in 0 .. MaxAge /\ steady \in 0 .. MaxAge
    /\ recordingFirst \in BOOLEAN
    /\ todo \subseteq {"scrape", "record", "alert"}
    /\ scraped \in [up : Maybe({0, 1}), load_success : Maybe(BOOLEAN),
                    run : Maybe(Runs), age : 0 .. MaxAge]
    /\ recorded \in Maybe(0 .. MaxAge)
    /\ active \in [Alerts -> Nat]
    /\ \A a \in Alerts : active[a] <= Hold[a] + 1

\* When nothing has changed for as long as it takes an alert to fire: two more
\* ticks than its "for", one for a scrape after the groups and one for an age
\* recorded after the alerts.
Settled(alert) == todo = {} /\ steady > Hold[alert] + 2

\* Evidence that stops advancing is alerted, and by the alert that says why:
\* the exporter is gone, or it has nothing it can load, or what it loads is
\* too old; and each of the three is over once its cause is.
StoppedEvidenceIsAlerted ==
    /\ Settled("ExporterDown") => (Firing("ExporterDown") <=> exporter = "down")
    /\ Settled("SnapshotLoadFailed") =>
         (Firing("SnapshotLoadFailed") <=> exporter = "up" /\ Loadable = {})
    /\ Settled("MetricsStale") =>
         /\ Firing("MetricsStale") =>
              exporter = "up" /\ Loadable # {} /\ age > StaleAfter
         /\ exporter = "up" /\ Loadable # {}
              /\ age > StaleAfter + Hold["MetricsStale"] + 2 => Firing("MetricsStale")

\* While the exporter serves a document, the alerts about its contents say
\* what the exit code of its run said; a run with exit code 0, hence every
\* run the script publishes, raises none but the fallback's and the graph's.
VerdictsAreAlerted ==
    exporter = "up" =>
        \A run \in Loadable :
            /\ Settled("IdentityValidationFailed") =>
                 (Firing("IdentityValidationFailed") <=> ExitCode(run) = 5)
            /\ Settled("DeviceP99SloBreach") /\ ExitCode(run) # 5 =>
                 (Firing("DeviceP99SloBreach") <=> ExitCode(run) \in {3, 4})
            /\ Settled("MockFallbackUsed") =>
                 (Firing("MockFallbackUsed") <=> run.fallback_used)

\* One outage of the exporter pages once: when ExporterDown fires, the alerts
\* about the snapshot it served have ended, though the age is recorded by a
\* group of its own and outlives the series it came from, and though the
\* exporter may come and go; Alertmanager's inhibition is not needed for it.
OutagePagesOnce ==
    Firing("ExporterDown") =>
        ~Firing("SnapshotLoadFailed") /\ ~Firing("MetricsStale")
=============================================================================
