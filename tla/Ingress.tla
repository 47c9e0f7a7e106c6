------------------------------ MODULE Ingress ------------------------------
(***************************************************************************)
(* src/main.cpp: one invocation of marketdata_ingress, from the command    *)
(* line to the exit code, with make_engine (engine_factory.cpp) and        *)
(* run_benchmark (benchmark.cpp).                                          *)
(*                                                                         *)
(* The engine behind the interface is any engine that keeps the contract   *)
(* of module InferenceEngine: this module composes the program with that   *)
(* contract, and module TensorRTEngine shows the TensorRT backend keeps it.*)
(***************************************************************************)
EXTENDS Naturals, Metrics

CONSTANTS
    Options,    \* the command lines and builds considered
    Latencies,  \* values a measured p99 may take
    Elements,   \* elements of the input and of the output
    MaxCalls    \* bound on infer_into calls of one invocation

Backends == {"auto", "tensorrt", "mock"}

ASSUME IngressAssumption ==
    /\ \A o \in Options :
         /\ o.args \in {"ok", "help", "bad"}
         /\ o.with_tensorrt \in BOOLEAN
         /\ o.backend \in Backends
         /\ o.model \in {"mock", "file"}
         /\ o.allow_mock_fallback \in BOOLEAN
         /\ o.use_cuda_graph \in BOOLEAN
         /\ o.warmup \in Nat
         /\ o.iterations \in Nat \ {0}
         /\ o.warmup + o.iterations <= MaxCalls
         /\ o.input_size \in 1 .. Elements
         /\ o.batch_size \in 1 .. Elements
         /\ o.input_size * o.batch_size = Elements
         /\ o.verify_identity \in BOOLEAN
         /\ o.scope \in Scopes
         /\ o.target \in Nat
         /\ o.metrics_path \in BOOLEAN
    /\ Latencies \subseteq Nat /\ Latencies # {}
    /\ Elements \in Nat \ {0}
    /\ MaxCalls \in Nat

VARIABLES
    opt,            \* the command line
    stage,          \* where main is
    engine,         \* the backend behind the engine pointer, "none" for null
    fallback_used,
    i,              \* the counter of the loop being run
    end_to_end,     \* number of end-to-end latencies recorded
    device,         \* number of device latencies recorded
    stats,          \* InferenceStats, none before the benchmark is over
    doc,            \* the document formatted, none before
    file,           \* the file at --json-out, against what it held before
    exit,           \* the exit code, none before the end
    phase, loaded, graphed, call, result, latency   \* the engine's contract

E == INSTANCE InferenceEngine

engineVars == <<phase, loaded, graphed, call, result, latency>>
runVars == <<engine, fallback_used, i, end_to_end, device, stats, doc, file>>
vars == <<opt, stage, runVars, exit, engineVars>>

-----------------------------------------------------------------------------

\* BackendHint::Auto is resolved by the name of the model.  (Unresolved is
\* the injected fault: the hint is recorded and passed on as it came.)
Unresolved == opt.backend
Resolved ==
    IF opt.backend = "auto"
    THEN IF opt.model = "mock" THEN "mock" ELSE "tensorrt"
    ELSE opt.backend

\* The program's copy of the factory; the unit tests' copy, built with
\* MD_FORCE_MOCK_BACKEND, answers with the mock engine whatever it is asked.
MakeEngine(preferred, allow_mock_fallback) ==
    IF opt.with_tensorrt /\ preferred # "mock" THEN "tensorrt"
    ELSE IF preferred = "mock" \/ allow_mock_fallback THEN "mock" ELSE "none"

\* main never lets the factory fall back: its second argument is false.
\* (The first of the two is the injected fault: the option handed through.)
OptionHandedToFactory == opt.allow_mock_fallback
FactoryFallback == FALSE

Init ==
    /\ opt \in Options
    /\ stage = "args"
    /\ engine = "none"
    /\ fallback_used = FALSE
    /\ i = 0
    /\ end_to_end = 0
    /\ device = 0
    /\ stats = {}
    /\ doc = {}
    /\ file = "previous"
    /\ exit = {}
    /\ E!Init

Goto(s) == stage' = s /\ exit' = exit
Exit(code) == stage' = "exited" /\ exit' = {code}

ParseArgs ==
    /\ stage = "args"
    /\ CASE opt.args = "help" -> Exit(0)
         [] opt.args = "bad" -> Exit(1)
         [] OTHER -> Goto("make")
    /\ UNCHANGED <<opt, runVars, engineVars>>

\* A new object behind the pointer; the old one, if any, is deleted.
NewEngine(kind) ==
    /\ engine' = kind
    /\ phase' = "ready"
    /\ loaded' = FALSE
    /\ graphed' = FALSE
    /\ call' = 0
    /\ result' = 0
    /\ latency' = 0

SelectEngine ==
    /\ stage = "make"
    /\ NewEngine(MakeEngine(Resolved, FactoryFallback))
    /\ Goto(IF engine' = "none" THEN "fallback" ELSE "load")
    /\ UNCHANGED <<opt, fallback_used, i, end_to_end, device, stats, doc, file>>

UseMockFallback ==
    /\ stage = "fallback"
    /\ IF ~opt.allow_mock_fallback \/ Resolved = "mock" \/ fallback_used
       THEN /\ Exit(2)
            /\ UNCHANGED <<engine, fallback_used, engineVars>>
       ELSE /\ fallback_used' = TRUE
            /\ NewEngine(MakeEngine("mock", FactoryFallback))
            /\ Goto("load")
    /\ UNCHANGED <<opt, i, end_to_end, device, stats, doc, file>>

BeginLoad ==
    /\ stage = "load"
    /\ E!BeginLoad
    /\ Goto("loading")
    /\ UNCHANGED <<opt, runVars>>

\* MockInferenceEngine::load accepts every path.
EndLoad ==
    /\ stage = "loading"
    /\ \E ok \in BOOLEAN :
         /\ engine = "mock" => ok
         /\ E!EndLoad(ok)
         /\ Goto(IF ok THEN "graph" ELSE "fallback")
    /\ UNCHANGED <<opt, runVars>>

BeginGraph ==
    /\ stage = "graph"
    /\ IF opt.use_cuda_graph
       THEN E!BeginGraph /\ Goto("graphing")
       ELSE UNCHANGED engineVars /\ Goto("check")
    /\ UNCHANGED <<opt, runVars>>

\* Only the TensorRT backend overrides enable_cuda_graph.
\* (GoOnWithoutGraph is the injected fault: the answer is ignored.)
GoOnWithoutGraph(ok) == Goto("check")
AfterGraph(ok) == IF ok THEN Goto("check") ELSE Exit(6)

EndGraph ==
    /\ stage = "graphing"
    /\ \E ok \in BOOLEAN :
         /\ engine = "mock" => ~ok
         /\ E!EndGraph(ok)
         /\ AfterGraph(ok)
    /\ UNCHANGED <<opt, runVars>>

\* run_benchmark up to its loops: the input size may overflow, or differ from
\* the shape of a TensorRT engine; the mock engine has no fixed shape.
CheckShape ==
    /\ stage = "check"
    /\ Goto("warmup") \/ Exit(1)
    /\ UNCHANGED <<opt, runVars, engineVars>>

BeginWarmup ==
    /\ stage = "warmup"
    /\ i < opt.warmup
    /\ E!BeginInfer
    /\ Goto("warming")
    /\ UNCHANGED <<opt, runVars>>

\* The mock engine never fails on the arguments run_benchmark gives it.
Inferred(ok) ==
    /\ engine = "mock" => ok
    /\ E!EndInfer(ok, engine = "tensorrt")

EndWarmup ==
    /\ stage = "warming"
    /\ \E ok \in BOOLEAN :
         /\ Inferred(ok)
         /\ IF ok THEN Goto("warmup") /\ i' = i + 1 ELSE Exit(1) /\ i' = i
    /\ UNCHANGED <<opt, engine, fallback_used, end_to_end, device, stats, doc,
                   file>>

\* Each loop has a counter of its own.  (CounterShared is the injected
\* fault: the measured loop goes on from the warmup's count.)
CounterShared == i
LoopStart == 0

WarmedUp ==
    /\ stage = "warmup"
    /\ i >= opt.warmup
    /\ i' = LoopStart
    /\ Goto("measure")
    /\ UNCHANGED <<opt, engine, fallback_used, end_to_end, device, stats, doc,
                   file, engineVars>>

BeginMeasured ==
    /\ stage = "measure"
    /\ i < opt.iterations
    /\ E!BeginInfer
    /\ Goto("measuring")
    /\ UNCHANGED <<opt, runVars>>

\* One measured iteration: an end-to-end latency, and a device latency if
\* the engine reports one.
EndMeasured ==
    /\ stage = "measuring"
    /\ \E ok \in BOOLEAN :
         /\ Inferred(ok)
         /\ IF ok
            THEN /\ Goto("measure")
                 /\ i' = i + 1
                 /\ end_to_end' = end_to_end + 1
                 /\ device' = IF latency' # 0 THEN device + 1 ELSE device
            ELSE /\ Exit(1)
                 /\ UNCHANGED <<i, end_to_end, device>>
    /\ UNCHANGED <<opt, engine, fallback_used, stats, doc, file>>

\* Statistics, validation and the document, computed without a failure exit.
Distribution(n) == [samples : {n}, p99 : Latencies]
Validation ==
    {v \in [compared_elements : 1 .. Elements, passed : BOOLEAN] :
        v.passed => v.compared_elements = Elements}

\* The document is written before it is judged.  (FailedNotWritten is the
\* injected fault: a failed validation returns first.)
FailedNotWritten(s) == Goto(IF \E v \in s.validation : ~v.passed THEN "verdict" ELSE "write")
AfterStats(s) == Goto("write")

Summarize ==
    /\ stage = "measure"
    /\ i >= opt.iterations
    /\ \E e \in Distribution(end_to_end),
          d \in IF device = 0 THEN {{}} ELSE {{x} : x \in Distribution(device)},
          v \in IF opt.verify_identity THEN {{x} : x \in Validation} ELSE {{}},
          known \in BOOLEAN :
         LET s == [end_to_end |-> e,
                   device_compute |-> d,
                   validation |-> v,
                   cuda_graph |-> graphed,
                   device |-> CASE engine = "mock" -> {"host-cpu"}
                                [] known -> {"gpu"}
                                [] OTHER -> {},
                   backend |-> engine]
         IN /\ stats' = {s}
            /\ doc' = {FormatMetrics(opt, fallback_used, Resolved, s)}
            /\ AfterStats(s)
    /\ UNCHANGED <<opt, engine, fallback_used, i, end_to_end, device, file,
                   engineVars>>

\* The file is truncated when it is opened.  An error that the test of the
\* stream meets is exit code 2; one that only the last flush meets, when the
\* stream is closed after its test, goes unnoticed.
OnShortWrite == Exit(2) \/ Goto("verdict")

WriteMetrics ==
    /\ stage = "write"
    /\ \/ ~opt.metrics_path /\ file' = file /\ Goto("verdict")
       \/ opt.metrics_path /\ file' = file /\ Exit(2)
       \/ opt.metrics_path /\ file' = "partial" /\ OnShortWrite
       \/ opt.metrics_path /\ file' = "document" /\ Goto("verdict")
    /\ UNCHANGED <<opt, engine, fallback_used, i, end_to_end, device, stats,
                   doc, engineVars>>

Judge ==
    /\ stage = "verdict"
    /\ \E s \in stats : Exit(Verdict(opt, s))
    /\ UNCHANGED <<opt, runVars, engineVars>>

Exited == stage = "exited" /\ UNCHANGED vars

Next ==
    \/ ParseArgs \/ SelectEngine \/ UseMockFallback
    \/ BeginLoad \/ EndLoad
    \/ BeginGraph \/ EndGraph
    \/ CheckShape
    \/ BeginWarmup \/ EndWarmup \/ WarmedUp
    \/ BeginMeasured \/ EndMeasured
    \/ Summarize \/ WriteMetrics \/ Judge
    \/ Exited

Spec == Init /\ [][Next]_vars

-----------------------------------------------------------------------------
(* Properties.                                                             *)

Stages == {"args", "make", "fallback", "load", "loading", "graph", "graphing",
           "check", "warmup", "warming", "measure", "measuring", "write",
           "verdict", "exited"}

TypeOK ==
    /\ opt \in Options
    /\ stage \in Stages
    /\ engine \in {"none", "mock", "tensorrt"}
    /\ fallback_used \in BOOLEAN
    /\ i \in 0 .. MaxCalls
    /\ end_to_end \in 0 .. MaxCalls
    /\ device \in 0 .. end_to_end
    /\ (stats # {}) <=> (doc # {})
    /\ doc \subseteq Documents(Latencies, MaxCalls, Elements)
    /\ file \in {"previous", "partial", "document"}
    /\ exit \in Maybe(0 .. 6)
    /\ (stage = "exited") <=> (exit # {})
    /\ E!TypeOK

\* A document names another backend than the one requested only if the
\* command line permitted the fallback, and then it says so: no mock result
\* passes for a TensorRT one.
BackendIsTheOneRequested ==
    \A d \in doc :
        d.backend # d.requested_backend =>
            /\ d.backend = "mock"
            /\ d.fallback_used
            /\ opt.allow_mock_fallback

\* Every measured iteration, and no warmup, contributes one end-to-end time
\* and, with TensorRT, exactly one device time; a mock document, also one of
\* a fallback, has no device distribution at all.
SamplesAreMeasuredIterations ==
    \A d \in doc :
        /\ d.samples = opt.iterations
        /\ d.backend = "mock" => d.device_compute = {}
        /\ d.backend = "tensorrt" =>
             \E dc \in d.device_compute : dc.samples = opt.iterations

\* A run asked to use a CUDA graph either used one or wrote no document, also
\* when a fallback replaced the backend on the way.
GraphNeverDowngrades ==
    \A d \in doc : d.cuda_graph = opt.use_cuda_graph

\* A run that exits 0 against a device-scope objective has device times that
\* meet it: no absence of a timer, and no host time, counts as a pass.
DeviceObjectiveNeedsDeviceTime ==
    \A d \in doc :
        exit = {0} /\ opt.scope = "device_compute" /\ opt.target # 0 =>
            \E dc \in d.device_compute : dc.p99 <= opt.target

\* The exit code and the document are computed apart, and the exporter turns
\* the document's nulls into zeros: still, what the alert rules compute from
\* the exposition is the verdict of the process.
AlertsAgreeWithExitCode ==
    \A d \in doc, x \in exit :
        LET r == Render(d)
            sloBreached == r.slo_configured /\ ~r.slo_pass
            validationFailed == r.validation_enabled /\ ~r.validation_pass
        IN x # 2 =>
             /\ x = 5 <=> validationFailed
             /\ x \in {3, 4} <=> sloBreached /\ ~validationFailed

\* No verdict is given over what an earlier run left at --json-out: the file is
\* then of this run, if only the start of its document.  A run that ended before
\* its measurements leaves it alone, and one that ends with 2 leaves no document.
VerdictIsOverItsOwnFile ==
    \A x \in exit :
        /\ x \in {1, 6} => file = "previous"
        /\ x \in {3, 4, 5} \/ (x = 0 /\ opt.args = "ok") =>
             (file = "previous" <=> ~opt.metrics_path)
        /\ x = 2 => file # "document"

\* The exporter's help text for marketdata_inference_validation_elements:
\* "Number of validated output elements."
ValidationElementsAreExposed ==
    exit = {0} =>
        \A d \in doc : \A v \in d.validation :
            Render(d).validation_elements = v.compared_elements

\* The exporter's help text for marketdata_inference_slo_observed_p99_us,
\* which carries the objective's scope: "Observed p99 selected by the SLO."
ObservedP99IsOfItsScope ==
    exit = {0} =>
        \A d \in doc :
            LET r == Render(d)
            IN r.slo_scope = "device_compute" =>
                 \E dc \in r.device_compute : r.slo_observed_p99 = dc.p99
=============================================================================
