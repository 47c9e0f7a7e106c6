------------------------- MODULE MCPrometheusAlerts -------------------------
(***************************************************************************)
(* An instance of PrometheusAlerts for TLC.  The "for" of the alerts, 1 to *)
(* 60 ticks in marketdata.yml, and the age that is stale, 24 ticks, are    *)
(* 1 and 2 here: what counts is that one waits longer than another.        *)
(***************************************************************************)
EXTENDS PrometheusAlerts

MCHold == [a \in Alerts |->
    CASE a \in {"ExporterDown", "MetricsStale", "CudaGraphDisabled"} -> 2
      [] OTHER -> 1]

Run(scope, target, fallback, device, compute, validation) ==
    [opt |-> [model |-> "file", input_size |-> 1, batch_size |-> 1,
              scope |-> scope, target |-> target],
     fallback_used |-> fallback,
     requested |-> "tensorrt",
     stats |-> [backend |-> IF fallback THEN "mock" ELSE "tensorrt",
                cuda_graph |-> FALSE,
                device |-> device,
                end_to_end |-> [samples |-> 1, p99 |-> 2],
                device_compute |-> {[samples |-> 1, p99 |-> p] : p \in compute},
                validation |-> {[compared_elements |-> 1, passed |-> p] :
                                p \in validation}]]

\* In turn: passes, misses its objective, has no device times to meet it
\* with, computes wrong results, and runs on a device without a name.
MCRuns == {
    Run("end_to_end", 2, FALSE, {"gpu"}, {1}, {TRUE}),
    Run("end_to_end", 1, FALSE, {"gpu"}, {1}, {}),
    Run("device_compute", 2, TRUE, {"host-cpu"}, {}, {}),
    Run("device_compute", 1, FALSE, {"gpu"}, {1}, {FALSE}),
    Run("end_to_end", 0, FALSE, {}, {1}, {})}
=============================================================================
