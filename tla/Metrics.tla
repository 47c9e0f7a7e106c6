------------------------------ MODULE Metrics ------------------------------
(***************************************************************************)
(* The metrics document of schema version 2: how marketdata_ingress writes *)
(* it (format_metrics_json), what verdict main draws from the same numbers,*)
(* and what marketdata_metrics_exporter reads in it and exposes.           *)
(*                                                                         *)
(* A std::optional, and a JSON value that may be null, is a set of at most *)
(* one element.  A latency distribution keeps its sample count and p99, a *)
(* backend the kind it is of ("tensorrt" for "tensorrt-gpu").             *)
(***************************************************************************)
EXTENDS Naturals

Maybe(S) == {{}} \cup {{x} : x \in S}

ValueOr(option, default) ==
    IF option = {} THEN default ELSE CHOOSE x \in option : TRUE

Scopes == {"end_to_end", "device_compute"}

-----------------------------------------------------------------------------
(* format_metrics_json: opt is the RunOptions, stats the InferenceStats.   *)

\* The distribution the objective is about, if the run has it.
Selected(opt, stats) ==
    IF opt.scope = "device_compute" THEN stats.device_compute
    ELSE {stats.end_to_end}

\* "passed" of the slo object; a target of 0 is no target.
\* (SloPassedIgnoringAbsence is the injected fault: the scope's absence is
\* not tested, and the end-to-end times selected by default are judged.)
SloPassedIgnoringAbsence(opt, stats) ==
    IF opt.target = 0 THEN {}
    ELSE {ValueOr(Selected(opt, stats), stats.end_to_end).p99 <= opt.target}
SloPassed(opt, stats) ==
    IF opt.target = 0 THEN {}
    ELSE {\E d \in Selected(opt, stats) : d.p99 <= opt.target}

FormatSlo(opt, stats) ==
    [scope |-> opt.scope,
     target_us |-> IF opt.target = 0 THEN {} ELSE {opt.target},
     observed_p99_us |-> {d.p99 : d \in Selected(opt, stats)},
     passed |-> SloPassed(opt, stats)]

FormatMetrics(opt, fallback_used, requested, stats) ==
    [model |-> opt.model,
     backend |-> stats.backend,
     requested_backend |-> requested,
     fallback_used |-> fallback_used,
     cuda_graph |-> stats.cuda_graph,
     device |-> stats.device,
     samples |-> stats.end_to_end.samples,
     input_size |-> opt.input_size,
     batch_size |-> opt.batch_size,
     end_to_end |-> stats.end_to_end,
     device_compute |-> stats.device_compute,
     validation |-> {[compared_elements |-> v.compared_elements,
                      passed |-> v.passed] : v \in stats.validation},
     slo |-> FormatSlo(opt, stats)]

\* What format_metrics_json can write, for latencies in L, up to n samples
\* and up to k elements.
Distributions(L, n) == [samples : 1 .. n, p99 : L]
Documents(L, n, k) ==
    [model : {"mock", "file"},
     backend : {"mock", "tensorrt"},
     requested_backend : {"mock", "tensorrt"},
     fallback_used : BOOLEAN,
     cuda_graph : BOOLEAN,
     device : Maybe({"host-cpu", "gpu"}),
     samples : 1 .. n,
     input_size : 1 .. k,
     batch_size : 1 .. k,
     end_to_end : Distributions(L, n),
     device_compute : Maybe(Distributions(L, n)),
     validation : Maybe([compared_elements : 1 .. k, passed : BOOLEAN]),
     slo : [scope : Scopes,
            target_us : SUBSET Nat,
            observed_p99_us : Maybe(L),
            passed : Maybe(BOOLEAN)]]

\* The shape of them all, whatever the names and the numbers.
Option(S) == \A x, y \in S : x = y
IsDistribution(d) == d = [samples |-> d.samples, p99 |-> d.p99]
WellFormed(doc) ==
    /\ Option(doc.device) /\ Option(doc.device_compute) /\ Option(doc.validation)
    /\ IsDistribution(doc.end_to_end) /\ \A d \in doc.device_compute : IsDistribution(d)
    /\ Option(doc.slo.target_us) /\ Option(doc.slo.observed_p99_us) /\ Option(doc.slo.passed)
    /\ doc.slo = [scope |-> doc.slo.scope, target_us |-> doc.slo.target_us,
                  observed_p99_us |-> doc.slo.observed_p99_us, passed |-> doc.slo.passed]

-----------------------------------------------------------------------------
(* The exit code main draws once the document is out.  (VerdictOfAnyScope  *)
(* is the injected fault: without device times the end-to-end ones count.) *)

VerdictOfAnyScope(opt, stats) ==
    LET failed == \E v \in stats.validation : ~v.passed
        judged == ValueOr(Selected(opt, stats), stats.end_to_end)
    IN CASE failed -> 5
         [] ~failed /\ opt.target # 0 /\ judged.p99 > opt.target -> 3
         [] OTHER -> 0
Verdict(opt, stats) ==
    LET failed == \E v \in stats.validation : ~v.passed
        selected == Selected(opt, stats)
    IN CASE failed -> 5
         [] ~failed /\ opt.target # 0 /\ selected = {} -> 4
         [] ~failed /\ opt.target # 0
              /\ \E d \in selected : d.p99 > opt.target -> 3
         [] OTHER -> 0

-----------------------------------------------------------------------------
(* parse_snapshot and render_snapshot of the exporter.                     *)

\* The device is read as a string: null is refused.  Every other field that
\* format_metrics_json may leave null is optional to the parser.
Accepted(doc) == doc.device # {}

\* The exporter looks for "checked_elements" in the validation object.
ValidationElements(doc) ==
    UNION {IF "checked_elements" \in DOMAIN v THEN {v["checked_elements"]} ELSE {}
           : v \in doc.validation}

Render(doc) ==
    [fallback_used |-> doc.fallback_used,
     cuda_graph_enabled |-> doc.cuda_graph,
     backend |-> doc.backend,
     run_samples |-> doc.samples,
     end_to_end |-> doc.end_to_end,
     device_compute |-> doc.device_compute,
     validation_enabled |-> doc.validation # {},
     validation_pass |-> \E v \in doc.validation : v.passed,
     validation_elements |-> ValueOr(ValidationElements(doc), 0),
     slo_configured |-> doc.slo.target_us # {},
     slo_scope |-> doc.slo.scope,
     slo_observed_p99 |->
         ValueOr(doc.slo.observed_p99_us, doc.end_to_end.p99),
     slo_pass |-> ValueOr(doc.slo.passed, FALSE)]
=============================================================================
