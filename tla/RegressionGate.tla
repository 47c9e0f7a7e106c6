--------------------------- MODULE RegressionGate ---------------------------
(***************************************************************************)
(* The hardware gate, scripts/tensorrt_real_tests.sh, with the three       *)
(* programs it starts one after the other: marketdata_build_engine         *)
(* (build_tiny_engine.cpp) step by step, marketdata_ingress by its outcome *)
(* (module Ingress has its steps) and marketdata_metrics_compare.  Between *)
(* invocations of the script, someone may use each of the three by hand.   *)
(*                                                                         *)
(* The evidence directory outlives the script: what an invocation does not *)
(* overwrite is what an earlier one left.  It holds one engine file, which *)
(* is also the one a builder started by hand writes and MD_TEST_ENGINE     *)
(* names.  Latencies are whole units, statistics and targets hundredths.   *)
(***************************************************************************)
EXTENDS MetricsCompare, LatencyStats, FiniteSets

CONSTANTS
    Samples(_),      \* the sequences of device times the run behind each of
                     \* the documents may measure
    HandOptions,     \* the comparator command lines used by hand
    InputSize,       \* MD_TEST_INPUT_SIZE; the batch size is 1
    Target,          \* MD_TEST_TARGET_US
    GateOptions,     \* what the script passes to the comparator
    MaxRepeats,      \* bound on MD_TEST_REPEAT_COUNT
    MaxInvocations,  \* bound on the invocations of the script
    MaxByHand        \* bound on the builds and benchmarks started by hand

ASSUME RegressionGateAssumption ==
    /\ \A name \in -1 .. MaxRepeats : Samples(name) \subseteq Seq(Nat) \ {<<>>}
    /\ InputSize \in Nat \ {0}
    /\ Target \in Nat \ {0}
    /\ MaxRepeats \in Nat \ {0}
    /\ MaxInvocations \in Nat
    /\ MaxByHand \in Nat
    /\ \A o \in HandOptions \cup {GateOptions} :
         /\ o.args \in {"ok", "help", "self-test", "bad"}
         /\ o.scope \in {"e2e", "device"}
         /\ o.metric \in {"mean", "p50", "p90", "p95", "p99", "max"}
         /\ o.max_regression_percent \in Nat
         /\ o.absolute_tolerance_us \in Nat
         /\ o.allow_context_change \in BOOLEAN

ASSUME GateOptionsAssumption ==
    /\ GateOptions.args = "ok"
    /\ GateOptions.scope = "device"
    /\ GateOptions.metric = "p99"
    /\ ~GateOptions.allow_context_change

VARIABLES
    stage,        \* the command the script is at, "idle" between invocations
    invocation,   \* how many times the script was started
    repeats,      \* MD_TEST_REPEAT_COUNT of the last invocation
    run,          \* the loop variable of the script
    builder,      \* the step marketdata_build_engine is at, "off" without one
    argv,         \* its options
    engine,       \* the engine file
    commands,     \* how many commands were started by hand
    evidence,     \* the metrics documents by name
    comparison,   \* the comparator's last answer, none after another command
    exit          \* the exit code of the last invocation, none without one

scriptVars == <<invocation, repeats, commands>>
builderVars == <<builder, argv, engine>>
vars == <<stage, scriptVars, run, builderVars, evidence, comparison, exit>>

\* The documents: cuda-graph-k.json is k.
standard == 0
byHand == -1
Names == {standard, byHand} \cup (1 .. MaxRepeats)

\* A file that holds no whole document, and one that was never written.
Unreadable(n) == [doc |-> {}, times |-> <<>>, by |-> n]
Missing == Unreadable(0)

-----------------------------------------------------------------------------
(* marketdata_build_engine.                                                *)

KnownFlags == {"--output", "--input-size", "--workspace-mib"}
ScriptFlags == {"--output", "--input-size", "--batch"}
HandFlags == {{"--help"}, {}, {"--output"}, KnownFlags}

Running(s) == stage' = s /\ exit' = exit
ScriptEnds(code) == stage' = "idle" /\ exit' = {code}

\* Under set -e a failed build is the end of the script.
BuilderExits(code) ==
    /\ builder' = "off"
    /\ argv' = {}
    /\ IF stage # "build" THEN Running(stage)
       ELSE IF code = 0 THEN Running("engine") ELSE ScriptEnds(code)

BuilderGoto(s) == builder' = s /\ argv' = argv /\ Running(stage)

StartBuilder(flags) ==
    /\ builder = "off"
    /\ builder' = "arguments"
    /\ argv' = flags
    /\ comparison' = {}
    /\ Running(stage)
    /\ UNCHANGED <<invocation, repeats, run, engine, evidence>>

\* A known flag may still come without a value, or with one out of range.  The
\* options that are used have no other beside --help, so that their order is
\* not told apart.
ParseBuilderArguments ==
    /\ builder = "arguments"
    /\ CASE "--help" \in argv -> BuilderExits(0)
         [] "--help" \notin argv /\ ~(argv \subseteq KnownFlags) -> BuilderExits(1)
         [] OTHER -> BuilderGoto("network") \/ (argv # {} /\ BuilderExits(1))
    /\ UNCHANGED <<scriptVars, run, engine, evidence, comparison>>

\* From createInferBuilder to buildSerializedNetwork, then the directory.
BuildNetwork ==
    /\ builder = "network"
    /\ BuilderGoto("open") \/ BuilderExits(1)
    /\ UNCHANGED <<scriptVars, run, engine, evidence, comparison>>

OpenEngineOutput ==
    /\ builder = "open"
    /\ \/ engine' = "empty" /\ BuilderGoto("write")
       \/ engine' = engine /\ BuilderExits(1)
    /\ UNCHANGED <<scriptVars, run, evidence, comparison>>

\* What the stream still buffers is written after its last test: an error
\* there leaves part of the engine, or nothing, and exit code 0.
WriteEngine ==
    /\ builder = "write"
    /\ \/ engine' \in {"empty", "partial"} /\ BuilderExits(1)
       \/ engine' \in {"empty", "partial", "whole"} /\ BuilderExits(0)
    /\ UNCHANGED <<scriptVars, run, evidence, comparison>>

-----------------------------------------------------------------------------
(* marketdata_ingress with --json-out: the outcomes of module Ingress.     *)

Standard == [model |-> "file", input_size |-> InputSize, batch_size |-> 1,
             use_cuda_graph |-> FALSE, scope |-> "end_to_end", target |-> 0]
CudaGraph == [Standard EXCEPT !.scope = "device_compute",
                              !.use_cuda_graph = TRUE, !.target = Target]

\* The host adds one unit to what the device takes.  (The mock engine has no
\* device times.)
Stats(o, backend, times, device, validation) ==
    [end_to_end |-> Summarize([k \in DOMAIN times |-> times[k] + 1]),
     device_compute |-> IF backend = "mock" THEN {} ELSE {Summarize(times)},
     validation |-> {[compared_elements |-> o.input_size, passed |-> v] :
                        v \in validation},
     cuda_graph |-> o.use_cuda_graph,
     device |-> device,
     backend |-> backend]

Devices(backend) == IF backend = "mock" THEN {{"host-cpu"}} ELSE {{"gpu"}, {}}

\* A run that measures, and one that ends before it has a document: 1, 2 and
\* 6 leave the file alone.  A short write is 2, unless it is the last flush,
\* after the stream's last test: then the code is that of the verdict.
By(name) == IF name = byHand THEN 0 ELSE invocation
Measured(name, o, backend, checks) ==
    {[file |-> [doc |-> {FormatMetrics(o, FALSE, backend, s.stats)},
                times |-> s.times,
                by |-> By(name)],
      code |-> Verdict(o, s.stats)] :
        s \in {[times |-> t, stats |-> Stats(o, backend, t, d, v)] :
                 t \in Samples(name), d \in Devices(backend), v \in checks}}

Outcomes(name, o, backend, checks) ==
    IF backend = "tensorrt" /\ engine # "whole"
    THEN {[file |-> evidence[name], code |-> 2]}
    ELSE [file : {evidence[name]},
          code : IF o.use_cuda_graph THEN {1, 2, 6} ELSE {1, 2}]
           \cup [file : {Unreadable(By(name))},
                 code : {2} \cup {m.code : m \in Measured(name, o, backend, checks)}]
           \cup Measured(name, o, backend, checks)

\* What such a run leaves in its file and returns.
RunIngress(name, o, backend, checks, Then(_)) ==
    \E r \in Outcomes(name, o, backend, checks) :
        /\ evidence' = [evidence EXCEPT ![name] = r.file]
        /\ Then(r.code)

Verified == {{TRUE}, {FALSE}}

-----------------------------------------------------------------------------
(* The script.                                                             *)

Init ==
    /\ stage = "idle"
    /\ invocation = 0
    /\ repeats = 1
    /\ run = 1
    /\ builder = "off"
    /\ argv = {}
    /\ engine = "absent"
    /\ commands = 0
    /\ evidence = [name \in Names |-> Missing]
    /\ comparison = {}
    /\ exit = {}

\* MD_TEST_ENGINE set, or the builder next; a missing program is exit code 2.
StartScript ==
    /\ stage = "idle"
    /\ builder = "off"
    /\ invocation < MaxInvocations
    /\ invocation' = invocation + 1
    /\ repeats' \in 1 .. MaxRepeats
    /\ run' = 1
    /\ comparison' = {}
    /\ \/ stage' \in {"build", "engine"} /\ exit' = {}
       \/ ScriptEnds(2)
    /\ UNCHANGED <<commands, builderVars, evidence>>

ScriptBuilds ==
    /\ stage = "build"
    /\ StartBuilder(ScriptFlags)
    /\ commands' = commands

TestEngineFile ==
    /\ stage = "engine"
    /\ IF engine \in {"absent", "empty"} THEN ScriptEnds(1) ELSE Running("standard")
    /\ UNCHANGED <<scriptVars, run, builderVars, evidence, comparison>>

\* One ingress command; set -e ends the script with its code unless that is 0.
\* (The injected faults lose the code, or the end.)
GoOnAnyway(code, next) == Running(next)
CodeForgotten(code, next) ==
    IF code = 0 THEN Running(next) ELSE stage' = "idle" /\ exit' = exit
GoOn(code, next) == IF code = 0 THEN Running(next) ELSE ScriptEnds(code)

RunStandard ==
    /\ stage = "standard"
    /\ RunIngress(standard, Standard, "tensorrt", Verified,
                  LAMBDA code : GoOn(code, "graph"))
    /\ run' = 1
    /\ UNCHANGED <<scriptVars, builderVars, comparison>>

RunGraph ==
    /\ stage = "graph"
    /\ run <= repeats
    /\ RunIngress(run, CudaGraph, "tensorrt", Verified,
                  LAMBDA code : GoOn(code, "graph"))
    /\ run' = run + 1
    /\ UNCHANGED <<scriptVars, builderVars, comparison>>

GraphsDone ==
    /\ stage = "graph"
    /\ run > repeats
    /\ run' = 2
    /\ Running("compare")
    /\ UNCHANGED <<scriptVars, builderVars, evidence, comparison>>

CompareFiles(o, b, c) ==
    comparison' = {[o |-> o, baseline |-> b, candidate |-> c,
                    code |-> Compare(o, evidence[b].doc, evidence[c].doc)]}

CompareRun ==
    /\ stage = "compare"
    /\ run <= repeats
    /\ CompareFiles(GateOptions, 1, run)
    /\ \E c \in comparison' : GoOn(c.code, "compare")
    /\ run' = run + 1
    /\ UNCHANGED <<scriptVars, builderVars, evidence>>

ComparisonsDone ==
    /\ stage = "compare"
    /\ run > repeats
    /\ Running("missing-engine")
    /\ UNCHANGED <<scriptVars, run, builderVars, evidence, comparison>>

\* expect_failure: a code of 0 would end the script; any other is welcome.
\* A file that is not there or no engine is refused by the load, a shape
\* other than the engine's by run_benchmark, if the engine loads.
After(test) == CASE test = "missing-engine" -> "corrupt-engine"
                 [] test = "corrupt-engine" -> "wrong-fixed-shape"
                 [] test = "wrong-fixed-shape" -> "pass"
Refusals(test) == IF test = "wrong-fixed-shape" THEN {1, 2} ELSE {2}

ExpectFailure ==
    /\ stage \in {"missing-engine", "corrupt-engine", "wrong-fixed-shape"}
    /\ \E code \in Refusals(stage) :
         IF code = 0 THEN ScriptEnds(1) ELSE Running(After(stage))
    /\ UNCHANGED <<scriptVars, run, builderVars, evidence, comparison>>

Pass ==
    /\ stage = "pass"
    /\ ScriptEnds(0)
    /\ UNCHANGED <<scriptVars, run, builderVars, evidence, comparison>>

-----------------------------------------------------------------------------
(* By hand, between invocations (docs/metrics-regression.md).              *)

BuildByHand ==
    /\ stage = "idle"
    /\ commands < MaxByHand
    /\ commands' = commands + 1
    /\ \E flags \in HandFlags : StartBuilder(flags)

RunByHand ==
    /\ stage = "idle" /\ builder = "off"
    /\ commands < MaxByHand
    /\ commands' = commands + 1
    /\ \E backend \in {"mock", "tensorrt"}, more \in {0, 1} :
         /\ backend = "tensorrt" => more = 0
         /\ RunIngress(byHand, [Standard EXCEPT !.input_size = InputSize + more],
                       backend, {{}}, LAMBDA code : TRUE)
    /\ comparison' = {}
    /\ UNCHANGED <<stage, invocation, repeats, run, builderVars, exit>>

\* A comparison leaves no file: its answer is read and gone.
CompareByHand ==
    /\ stage = "idle" /\ builder = "off"
    /\ comparison = {}
    /\ \E o \in HandOptions, b \in Names : \E c \in Names \ {b} :
         CompareFiles(o, b, c)
    /\ UNCHANGED <<stage, scriptVars, run, builderVars, evidence, exit>>

AnswerRead ==
    /\ stage = "idle"
    /\ comparison # {}
    /\ comparison' = {}
    /\ UNCHANGED <<stage, scriptVars, run, builderVars, evidence, exit>>

Next ==
    \/ StartScript \/ ScriptBuilds \/ TestEngineFile
    \/ RunStandard \/ RunGraph \/ GraphsDone
    \/ CompareRun \/ ComparisonsDone
    \/ ExpectFailure \/ Pass
    \/ ParseBuilderArguments \/ BuildNetwork \/ OpenEngineOutput \/ WriteEngine
    \/ BuildByHand \/ RunByHand \/ CompareByHand \/ AnswerRead

Spec == Init /\ [][Next]_vars

-----------------------------------------------------------------------------
(* Properties.                                                             *)

Stages == {"idle", "build", "engine", "standard", "graph", "compare",
           "missing-engine", "corrupt-engine", "wrong-fixed-shape", "pass"}

TypeOK ==
    /\ stage \in Stages
    /\ invocation \in 0 .. MaxInvocations
    /\ repeats \in 1 .. MaxRepeats
    /\ run \in 1 .. (MaxRepeats + 1)
    /\ builder \in {"off", "arguments", "network", "open", "write"}
    /\ builder # "off" => stage \in {"idle", "build"}
    /\ argv \subseteq KnownFlags \cup ScriptFlags \cup {"--help"}
    /\ engine \in {"absent", "empty", "partial", "whole"}
    /\ \A name \in Names :
         /\ Cardinality(evidence[name].doc) <= 1
         /\ evidence[name].by \in 0 .. invocation
         /\ evidence[name].doc # {} => evidence[name].times \in Samples(name)
    /\ commands \in 0 .. MaxByHand
    /\ Cardinality(comparison) <= 1
    /\ exit \in Maybe(0 .. 6)
    /\ exit = {} <=> (stage # "idle" \/ invocation = 0)

\* "A successful run is backed by the uploaded engine, metrics documents,
\* comparison documents" (docs/real-hardware-tests.md): after a pass, every
\* document the invocation was to write is its own, not what an earlier one
\* left, and tells of a validated run on the device that met its target if it
\* was a graph run.  With several graph runs each of them has a document, as
\* the comparator read it, within the budget against the first.  (No program
\* reads standard.json, or the only graph run: if the last flush of such a file
\* failed, the pass has no document of that run.)
IsEvidence(name, d) ==
    /\ d.backend = "tensorrt" /\ ~d.fallback_used
    /\ d.cuda_graph = (name # standard)
    /\ \E v \in d.validation : v.passed
    /\ name # standard => \E t \in d.device_compute : t.p99 <= Target
InBudget(first, d) ==
    \E u \in first.device_compute, t \in d.device_compute :
        100 * (t.p99 - u.p99) <= GateOptions.max_regression_percent * u.p99
                                   + 10000 * GateOptions.absolute_tolerance_us
PassIsBackedByEvidence ==
    exit = {0} =>
        /\ \A name \in {standard} \cup (1 .. repeats) :
             /\ evidence[name].by = invocation
             /\ \A d \in evidence[name].doc : IsEvidence(name, d)
        /\ repeats > 1 =>
             \A k \in 1 .. repeats :
               \E first \in evidence[1].doc, d \in evidence[k].doc :
                 InBudget(first, d)

\* The comparator's answers 0 and 1, unless told to ignore the context, are
\* about two runs on one kind of backend and device, of one shape, and both
\* with a graph or both without, whatever files it was given.
AnswersAreAboutLikeRuns ==
    \A c \in comparison :
        c.o.args = "ok" /\ c.code \in {0, 1} /\ ~c.o.allow_context_change =>
            \E b \in evidence[c.baseline].doc, d \in evidence[c.candidate].doc :
                /\ b.backend = d.backend /\ b.device = d.device
                /\ b.input_size = d.input_size
                /\ b.cuda_graph = d.cuda_graph

\* "the mock backend cannot be mistaken for a device-timing run"
\* (docs/metrics-regression.md), also not when context changes are allowed.
MockHasNoDeviceVerdict ==
    \A c \in comparison :
        c.o.args = "ok" /\ c.o.scope = "device" /\ c.code # 2 =>
            \A name \in {c.baseline, c.candidate} :
                \A d \in evidence[name].doc : d.backend # "mock"

\* A candidate that takes more than any given time no more often than the
\* baseline is never a regression, whatever the statistic and the budget.
Exceeding(times, limit) == Cardinality({k \in DOMAIN times : times[k] > limit})
FasterIsNoRegression ==
    \A c \in comparison :
        LET b == evidence[c.baseline].times
            d == evidence[c.candidate].times
        IN /\ c.code = 1
           /\ Len(b) = Len(d)
           => \E k \in DOMAIN d : Exceeding(d, d[k] - 1) > Exceeding(b, d[k] - 1)

\* A percentile is one by its definition, counted over the samples as they
\* came: enough of them are at most it, enough at least it; and the statistics
\* of one distribution are in order.
AtMost(times, v) == Cardinality({k \in DOMAIN times : 100 * times[k] <= v})
AtLeast(times, v) == Cardinality({k \in DOMAIN times : 100 * times[k] >= v})
Splits(times, p, v) ==
    LET last == Len(times) - 1
    IN /\ AtMost(times, v) > (p * last) \div 100
       /\ AtLeast(times, v) >= Len(times) - (p * last + 99) \div 100
PercentilesSplitSamples ==
    \A name \in Names : \A d \in evidence[name].doc : \A t \in d.device_compute :
        LET times == evidence[name].times
        IN /\ Splits(times, 50, t.p50) /\ Splits(times, 90, t.p90)
           /\ Splits(times, 95, t.p95) /\ Splits(times, 99, t.p99)
           /\ t.min <= t.p50 /\ t.p50 <= t.p90 /\ t.p90 <= t.p95
           /\ t.p95 <= t.p99 /\ t.p99 <= t.max
           /\ t.min <= t.mean /\ t.mean <= t.max

\* "Builds a fixed-shape identity engine with the repository's native C++
\* builder" (docs/real-hardware-tests.md): the builder the script starts knows
\* the options it is given.
ScriptSpeaksToItsBuilder ==
    stage = "build" /\ builder # "off" => argv \subseteq KnownFlags
=============================================================================
