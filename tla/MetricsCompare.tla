--------------------------- MODULE MetricsCompare ---------------------------
(***************************************************************************)
(* tools/metrics_compare.cpp: what the comparator reads in two documents   *)
(* and the exit code it draws from them.  A document is what               *)
(* Metrics!FormatMetrics returns; a file that holds none, or no whole one, *)
(* is the empty set (module MetricsText has the reading of the text).      *)
(***************************************************************************)
EXTENDS Integers, Metrics

\* The fields of RunMetrics that make two runs comparable.
ContextFields == {"backend", "device", "input_size", "batch_size", "cuda_graph"}

\* parse_metrics throws, which is the empty result, for a scope that is null
\* and for a device that is null: it wants a string.  (EndToEndInstead is the
\* injected fault: the end-to-end times stand in for absent device times.)
EndToEndInstead(doc, scope) ==
    IF scope = "device" /\ doc.device_compute # {} THEN doc.device_compute
    ELSE {doc.end_to_end}
ScopeDistribution(doc, scope) ==
    IF scope = "e2e" THEN {doc.end_to_end} ELSE doc.device_compute

ParseMetrics(file, scope, metric) ==
    UNION {{[latency_us |-> d[metric],
             backend |-> doc.backend,
             device |-> device,
             input_size |-> doc.input_size,
             batch_size |-> doc.batch_size,
             cuda_graph |-> doc.cuda_graph] :
               d \in ScopeDistribution(doc, scope), device \in doc.device} :
           doc \in file}

\* (ShapeOnly is the injected fault: how the engine ran is not compared.)
ShapeOnly(baseline, candidate) ==
    {f \in {"device", "input_size", "batch_size"} : baseline[f] # candidate[f]}
ContextDifferences(baseline, candidate) ==
    {f \in ContextFields : baseline[f] # candidate[f]}

\* candidate <= baseline * (1 + percent / 100) + absolute tolerance; latencies
\* are in hundredths.  (StrictBudget is the injected fault.)
StrictBudget(baseline, candidate, o) ==
    100 * candidate.latency_us
      < baseline.latency_us * (100 + o.max_regression_percent)
          + 10000 * o.absolute_tolerance_us
WithinBudget(baseline, candidate, o) ==
    100 * candidate.latency_us
      <= baseline.latency_us * (100 + o.max_regression_percent)
           + 10000 * o.absolute_tolerance_us

\* The exit code: 2 when the command line or a file is refused.
Compare(o, baseline_file, candidate_file) ==
    LET baseline == ParseMetrics(baseline_file, o.scope, o.metric)
        candidate == ParseMetrics(candidate_file, o.scope, o.metric)
        comparable(b, c) == o.allow_context_change \/ ContextDifferences(b, c) = {}
    IN CASE o.args \in {"help", "self-test"} -> 0
         [] o.args = "bad" -> 2
         [] o.args = "ok" /\ (baseline = {} \/ candidate = {}) -> 2
         [] OTHER ->
              CHOOSE x \in {0, 1, 4} :
                \E b \in baseline, c \in candidate :
                    x = IF ~comparable(b, c) THEN 4
                        ELSE IF WithinBudget(b, c, o) THEN 0 ELSE 1
=============================================================================
