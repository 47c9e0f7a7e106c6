--------------------------- MODULE Ingress_proofs ---------------------------
(***************************************************************************)
(* Proofs about module Ingress, for every set of command lines, every      *)
(* latency and every number of iterations: its type invariant, and what    *)
(* the program's verdict, document and file may claim.                     *)
(*                                                                         *)
(* The invariant says, stage by stage, what main has already made sure of: *)
(* which engine it has (PolicyInv), whether that engine has a graph        *)
(* (GraphInv), how many samples there are (CountInv), and what has been    *)
(* written (ReportInv).                                                    *)
(***************************************************************************)
EXTENDS Ingress, TLAPS

Early == {"args", "make", "fallback", "load", "loading", "graph", "graphing", "check"}
Warmup == {"warmup", "warming"}
Measured == {"measure", "measuring"}
Reporting == {"write", "verdict"}

\* The operation of the engine that main waits for.
Waits(s) == CASE s = "loading" -> "load" [] s = "graphing" -> "graph"
              [] s \in {"warming", "measuring"} -> "infer"
              [] OTHER -> "ready"

CoreInv ==
    /\ opt \in Options
    /\ stage \in Stages
    /\ engine \in {"none", "mock", "tensorrt"}
    /\ fallback_used \in BOOLEAN
    /\ exit \in Maybe(0 .. 6)
    /\ (stage = "exited") <=> (exit # {})
    /\ E!TypeOK
    /\ phase = Waits(stage)
    /\ phase = "infer" => call # 0

\* Which engine it is, and why.
PolicyInv ==
    /\ engine = "tensorrt" => Resolved = "tensorrt" /\ ~fallback_used
    /\ engine = "mock" => Resolved = "mock" \/ fallback_used
    /\ fallback_used => engine = "mock" /\ opt.allow_mock_fallback
    /\ stage \in {"args", "make"} => engine = "none"
    /\ stage \in {"load", "loading", "graph", "graphing", "check"} \cup Warmup
                   \cup Measured \cup Reporting => engine # "none"

GraphInv ==
    /\ stage = "graph" => ~graphed
    /\ stage = "graphing" => opt.use_cuda_graph
    /\ stage \in {"check"} \cup Warmup \cup Measured =>
         graphed = opt.use_cuda_graph

CountInv ==
    /\ i \in 0 .. MaxCalls
    /\ end_to_end \in 0 .. MaxCalls
    /\ device \in 0 .. end_to_end
    /\ stage \in Early => i = 0
    /\ stage \in Early \cup Warmup => end_to_end = 0
    /\ stage \in Warmup => i <= opt.warmup
    /\ stage = "warming" => i < opt.warmup
    /\ stage \in Measured =>
         /\ i <= opt.iterations
         /\ end_to_end = i
         /\ device = IF engine = "tensorrt" THEN i ELSE 0
    /\ stage = "measuring" => i < opt.iterations

\* What a benchmark that came to its end may have measured.
Results ==
    [end_to_end : Distribution(opt.iterations),
     device_compute : IF engine = "tensorrt"
                      THEN {{x} : x \in Distribution(opt.iterations)} ELSE {{}},
     validation : Maybe(Validation),
     cuda_graph : {opt.use_cuda_graph},
     device : Maybe({"host-cpu", "gpu"}),
     backend : {engine} \ {"none"}]

\* What the file may be once its writing is over and no error was noticed.
FileAfterwards == IF opt.metrics_path THEN {"partial", "document"} ELSE {"previous"}

ReportInv ==
    /\ stage \in Early \cup Warmup \cup Measured =>
         stats = {} /\ doc = {} /\ file = "previous"
    /\ stage \in Reporting => stats # {}
    /\ stats = {} => doc = {}
    /\ stats # {} =>
         \E s \in Results :
            stats = {s} /\ doc = {FormatMetrics(opt, fallback_used, Resolved, s)}
    /\ stage = "write" => file = "previous"
    /\ stage = "verdict" => file \in FileAfterwards
    /\ file \in {"previous", "partial", "document"}

\* How main ends: before its measurements, on a file it could not write, or
\* with the verdict.
EndInv ==
    stage = "exited" =>
        \/ /\ stats = {} /\ file = "previous"
           /\ exit \in {{1}, {2}, {6}} \/ (exit = {0} /\ opt.args = "help")
        \/ stats # {} /\ exit = {2} /\ file # "document"
        \/ /\ stats # {} /\ file \in FileAfterwards
           /\ \E s \in stats : exit = {Verdict(opt, s)}

IngressInv == CoreInv /\ PolicyInv /\ GraphInv /\ CountInv /\ ReportInv /\ EndInv

-----------------------------------------------------------------------------

USE DEF Goto, Exit

\* What the assumption says of the command line at hand.
LEMMA CommandLine ==
  ASSUME opt \in Options
  PROVE  /\ opt.args \in {"ok", "help", "bad"} /\ opt.with_tensorrt \in BOOLEAN
         /\ opt.model \in {"mock", "file"} /\ opt.backend \in Backends
         /\ opt.use_cuda_graph \in BOOLEAN /\ opt.allow_mock_fallback \in BOOLEAN
         /\ opt.warmup \in Nat /\ opt.iterations \in Nat /\ opt.iterations >= 1
         /\ opt.warmup + opt.iterations <= MaxCalls /\ MaxCalls \in Nat
         /\ opt.input_size \in 1 .. Elements /\ opt.batch_size \in 1 .. Elements
         /\ opt.scope \in Scopes /\ opt.target \in Nat /\ opt.metrics_path \in BOOLEAN
         /\ opt.verify_identity \in BOOLEAN
  BY IngressAssumption

LEMMA ResolvedBackend ==
  ASSUME opt \in Options PROVE Resolved \in {"mock", "tensorrt"}
  BY CommandLine DEF Resolved, Backends

LEMMA ParseArgsKeeps ==
  ASSUME IngressInv, ParseArgs PROVE IngressInv'
<1>1. CoreInv /\ PolicyInv /\ GraphInv /\ CountInv /\ ReportInv /\ EndInv
  BY DEF IngressInv
<1>2. opt \in Options
  BY <1>1 DEF CoreInv
<1>3. CoreInv'
  BY <1>1 DEF CoreInv, Stages, Waits, E!TypeOK, Maybe, ParseArgs, runVars, engineVars
<1>4. PolicyInv'
  BY <1>1 DEF PolicyInv, Warmup, Measured, Reporting, ParseArgs, runVars
<1>5. GraphInv'
  BY DEF GraphInv, Warmup, Measured, ParseArgs
<1>6. CountInv'
  BY <1>1, <1>2, CommandLine DEF CountInv, Early, ParseArgs, runVars
<1>7. ReportInv'
  BY <1>1 DEF ReportInv, Early, Reporting, ParseArgs, runVars
<1>8. EndInv'
  BY <1>1 DEF EndInv, ReportInv, Early, ParseArgs, runVars
<1> QED  BY <1>3, <1>4, <1>5, <1>6, <1>7, <1>8 DEF IngressInv

LEMMA SelectEngineKeeps ==
  ASSUME IngressInv, SelectEngine PROVE IngressInv'
<1>1. CoreInv /\ PolicyInv /\ GraphInv /\ CountInv /\ ReportInv /\ EndInv
  BY DEF IngressInv
<1>2. opt \in Options
  BY <1>1 DEF CoreInv
<1>3. CoreInv'
  <2>1. E!TypeOK'
    <3>1. 0 \in 0 .. MaxCalls
      BY <1>2, CommandLine
    <3> QED  BY <3>1, Zenon DEF E!TypeOK, E!Phases, SelectEngine, NewEngine
  <2>2. stage' \in Stages /\ exit' \in Maybe(0 .. 6) /\ (stage' = "exited" <=> exit' # {})
    BY <1>1 DEF CoreInv, Stages, SelectEngine
  <2>3. phase' = Waits(stage)' /\ phase' # "infer"
    BY DEF Waits, SelectEngine, NewEngine
  <2> QED  BY <1>1, <2>1, <2>2, <2>3 DEF CoreInv, SelectEngine, NewEngine, MakeEngine
<1>4. PolicyInv'
  BY <1>1, <1>2, ResolvedBackend
    DEF PolicyInv, Resolved, Warmup, Measured, Reporting, SelectEngine, NewEngine,
        MakeEngine, FactoryFallback
<1>5. GraphInv'
  BY DEF GraphInv, Warmup, Measured, SelectEngine
<1>6. CountInv'
  BY <1>1, <1>2, CommandLine DEF CountInv, Early, SelectEngine
<1>7. ReportInv'
  BY <1>1 DEF ReportInv, Early, Reporting, SelectEngine
<1>8. EndInv'
  BY DEF EndInv, SelectEngine
<1> QED  BY <1>3, <1>4, <1>5, <1>6, <1>7, <1>8 DEF IngressInv

LEMMA UseMockFallbackKeeps ==
  ASSUME IngressInv, UseMockFallback PROVE IngressInv'
<1>1. CoreInv /\ PolicyInv /\ GraphInv /\ CountInv /\ ReportInv /\ EndInv
  BY DEF IngressInv
<1>2. opt \in Options
  BY <1>1 DEF CoreInv
<1>3. CoreInv'
  <2>1. E!TypeOK'
    <3>1. 0 \in 0 .. MaxCalls
      BY <1>2, CommandLine
    <3> QED  BY <1>1, <3>1, Zenon
      DEF CoreInv, E!TypeOK, E!Phases, UseMockFallback, NewEngine, engineVars
  <2>2. stage' \in Stages /\ exit' \in Maybe(0 .. 6) /\ (stage' = "exited" <=> exit' # {})
    BY <1>1 DEF CoreInv, Stages, Maybe, UseMockFallback
  <2>3. phase' = Waits(stage)' /\ phase' # "infer"
    BY <1>1 DEF CoreInv, Waits, UseMockFallback, NewEngine, engineVars
  <2> QED  BY <1>1, <2>1, <2>2, <2>3 DEF CoreInv, UseMockFallback, NewEngine, MakeEngine
<1>4. PolicyInv'
  BY <1>1
    DEF PolicyInv, Resolved, Warmup, Measured, Reporting, UseMockFallback, NewEngine,
        MakeEngine
<1>5. GraphInv'
  BY DEF GraphInv, Warmup, Measured, UseMockFallback
<1>6. CountInv'
  BY <1>1, <1>2, CommandLine DEF CountInv, Early, UseMockFallback
<1>7. ReportInv'
  BY <1>1 DEF ReportInv, Early, Reporting, UseMockFallback
<1>8. EndInv'
  BY <1>1 DEF EndInv, ReportInv, Early, UseMockFallback
<1> QED  BY <1>3, <1>4, <1>5, <1>6, <1>7, <1>8 DEF IngressInv

LEMMA BeginLoadKeeps ==
  ASSUME IngressInv, BeginLoad PROVE IngressInv'
<1>1. CoreInv /\ PolicyInv /\ GraphInv /\ CountInv /\ ReportInv /\ EndInv
  BY DEF IngressInv
<1>2. opt \in Options
  BY <1>1 DEF CoreInv
<1>3. CoreInv'
  BY <1>1 DEF CoreInv, Stages, Waits, E!TypeOK, E!Phases, BeginLoad, E!BeginLoad, runVars
<1>4. PolicyInv'
  BY <1>1 DEF PolicyInv, Resolved, BeginLoad, runVars
<1>5. GraphInv'
  BY DEF GraphInv, Warmup, Measured, BeginLoad
<1>6. CountInv'
  BY <1>1, <1>2, CommandLine DEF CountInv, Early, BeginLoad, runVars
<1>7. ReportInv'
  BY <1>1 DEF ReportInv, Early, Reporting, BeginLoad, runVars
<1>8. EndInv'
  BY DEF EndInv, BeginLoad
<1> QED  BY <1>3, <1>4, <1>5, <1>6, <1>7, <1>8 DEF IngressInv

LEMMA EndLoadKeeps ==
  ASSUME IngressInv, EndLoad PROVE IngressInv'
<1>1. CoreInv /\ PolicyInv /\ GraphInv /\ CountInv /\ ReportInv /\ EndInv
  BY DEF IngressInv
<1>2. opt \in Options
  BY <1>1 DEF CoreInv
<1>3. CoreInv'
  <2>1. E!TypeOK'
    <3>1. 0 \in 0 .. MaxCalls
      BY <1>2, CommandLine
    <3> QED  BY <1>1, <3>1, Zenon DEF CoreInv, E!TypeOK, E!Phases, EndLoad, E!EndLoad
  <2>2. stage' \in Stages /\ exit' \in Maybe(0 .. 6) /\ (stage' = "exited" <=> exit' # {})
    BY <1>1 DEF CoreInv, Stages, EndLoad
  <2>3. phase' = Waits(stage)' /\ phase' # "infer"
    BY DEF Waits, EndLoad, E!EndLoad
  <2> QED  BY <1>1, <2>1, <2>2, <2>3 DEF CoreInv, EndLoad, runVars
<1>4. PolicyInv'
  BY <1>1 DEF PolicyInv, Resolved, EndLoad, runVars
<1>5. GraphInv'
  BY DEF GraphInv, Warmup, Measured, EndLoad, E!EndLoad
<1>6. CountInv'
  BY <1>1, <1>2, CommandLine DEF CountInv, Early, EndLoad, runVars
<1>7. ReportInv'
  BY <1>1 DEF ReportInv, Early, Reporting, EndLoad, runVars
<1>8. EndInv'
  BY DEF EndInv, EndLoad
<1> QED  BY <1>3, <1>4, <1>5, <1>6, <1>7, <1>8 DEF IngressInv

LEMMA BeginGraphKeeps ==
  ASSUME IngressInv, BeginGraph PROVE IngressInv'
<1>1. CoreInv /\ PolicyInv /\ GraphInv /\ CountInv /\ ReportInv /\ EndInv
  BY DEF IngressInv
<1>2. opt \in Options
  BY <1>1 DEF CoreInv
<1>3. CoreInv'
  BY <1>1
    DEF CoreInv, Stages, Waits, E!TypeOK, E!Phases, BeginGraph, E!BeginGraph, runVars,
        engineVars
<1>4. PolicyInv'
  BY <1>1 DEF PolicyInv, Resolved, BeginGraph, runVars
<1>5. GraphInv'
  BY <1>1, CommandLine
    DEF CoreInv, GraphInv, Warmup, Measured, E!TypeOK, BeginGraph, engineVars
<1>6. CountInv'
  BY <1>1, <1>2, CommandLine DEF CountInv, Early, BeginGraph, runVars
<1>7. ReportInv'
  BY <1>1 DEF ReportInv, Early, Reporting, BeginGraph, runVars
<1>8. EndInv'
  BY DEF EndInv, BeginGraph
<1> QED  BY <1>3, <1>4, <1>5, <1>6, <1>7, <1>8 DEF IngressInv

LEMMA EndGraphKeeps ==
  ASSUME IngressInv, EndGraph PROVE IngressInv'
<1>1. CoreInv /\ PolicyInv /\ GraphInv /\ CountInv /\ ReportInv /\ EndInv
  BY DEF IngressInv
<1>2. opt \in Options
  BY <1>1 DEF CoreInv
<1>3. CoreInv'
  BY <1>1
    DEF CoreInv, Stages, Waits, E!TypeOK, E!Phases, Maybe, EndGraph, E!EndGraph, AfterGraph,
        runVars
<1>4. PolicyInv'
  BY <1>1 DEF PolicyInv, Resolved, EndGraph, AfterGraph, runVars
<1>5. GraphInv'
  BY <1>1 DEF GraphInv, Warmup, Measured, EndGraph, E!EndGraph, AfterGraph
<1>6. CountInv'
  BY <1>1, <1>2, CommandLine DEF CountInv, Early, EndGraph, AfterGraph, runVars
<1>7. ReportInv'
  BY <1>1 DEF ReportInv, Early, Reporting, EndGraph, AfterGraph, runVars
<1>8. EndInv'
  BY <1>1 DEF EndInv, ReportInv, Early, EndGraph, AfterGraph, runVars
<1> QED  BY <1>3, <1>4, <1>5, <1>6, <1>7, <1>8 DEF IngressInv

LEMMA CheckShapeKeeps ==
  ASSUME IngressInv, CheckShape PROVE IngressInv'
<1>1. CoreInv /\ PolicyInv /\ GraphInv /\ CountInv /\ ReportInv /\ EndInv
  BY DEF IngressInv
<1>2. opt \in Options
  BY <1>1 DEF CoreInv
<1>3. CoreInv'
  BY <1>1 DEF CoreInv, Stages, Waits, E!TypeOK, Maybe, CheckShape, runVars, engineVars
<1>4. PolicyInv'
  BY <1>1 DEF PolicyInv, Resolved, CheckShape, runVars
<1>5. GraphInv'
  BY <1>1 DEF GraphInv, CheckShape, engineVars
<1>6. CountInv'
  BY <1>1, <1>2, CommandLine DEF CountInv, Early, CheckShape, runVars
<1>7. ReportInv'
  BY <1>1 DEF ReportInv, Early, Reporting, CheckShape, runVars
<1>8. EndInv'
  BY <1>1 DEF EndInv, ReportInv, Early, CheckShape, runVars
<1> QED  BY <1>3, <1>4, <1>5, <1>6, <1>7, <1>8 DEF IngressInv

LEMMA BeginWarmupKeeps ==
  ASSUME IngressInv, BeginWarmup PROVE IngressInv'
<1>1. CoreInv /\ PolicyInv /\ GraphInv /\ CountInv /\ ReportInv /\ EndInv
  BY DEF IngressInv
<1>2. opt \in Options
  BY <1>1 DEF CoreInv
<1>3. CoreInv'
  BY <1>1, CommandLine
    DEF CoreInv, Stages, Waits, E!TypeOK, E!Phases, BeginWarmup, E!BeginInfer, runVars
<1>4. PolicyInv'
  BY <1>1 DEF PolicyInv, Resolved, Warmup, BeginWarmup, runVars
<1>5. GraphInv'
  BY <1>1 DEF GraphInv, Warmup, BeginWarmup, E!BeginInfer
<1>6. CountInv'
  BY <1>1 DEF CountInv, Early, Warmup, Measured, BeginWarmup, runVars
<1>7. ReportInv'
  BY <1>1 DEF ReportInv, Warmup, Reporting, BeginWarmup, runVars
<1>8. EndInv'
  BY DEF EndInv, BeginWarmup
<1> QED  BY <1>3, <1>4, <1>5, <1>6, <1>7, <1>8 DEF IngressInv

LEMMA EndWarmupKeeps ==
  ASSUME IngressInv, EndWarmup PROVE IngressInv'
<1>1. CoreInv /\ PolicyInv /\ GraphInv /\ CountInv /\ ReportInv /\ EndInv
  BY DEF IngressInv
<1>2. opt \in Options
  BY <1>1 DEF CoreInv
<1>3. CoreInv'
  BY <1>1, CommandLine
    DEF CoreInv, Stages, Waits, E!TypeOK, E!Phases, Maybe, EndWarmup, Inferred, E!EndInfer
<1>4. PolicyInv'
  BY <1>1 DEF PolicyInv, Resolved, Warmup, EndWarmup
<1>5. GraphInv'
  BY <1>1 DEF GraphInv, Warmup, EndWarmup, Inferred, E!EndInfer
<1>6. CountInv'
  BY <1>1, <1>2, CommandLine DEF CountInv, Early, Warmup, Measured, EndWarmup
<1>7. ReportInv'
  BY <1>1 DEF ReportInv, Warmup, Reporting, EndWarmup
<1>8. EndInv'
  BY <1>1 DEF EndInv, ReportInv, Warmup, EndWarmup
<1> QED  BY <1>3, <1>4, <1>5, <1>6, <1>7, <1>8 DEF IngressInv

LEMMA WarmedUpKeeps ==
  ASSUME IngressInv, WarmedUp PROVE IngressInv'
<1>1. CoreInv /\ PolicyInv /\ GraphInv /\ CountInv /\ ReportInv /\ EndInv
  BY DEF IngressInv
<1>2. opt \in Options
  BY <1>1 DEF CoreInv
<1>3. CoreInv'
  BY <1>1 DEF CoreInv, Stages, Waits, E!TypeOK, WarmedUp, engineVars
<1>4. PolicyInv'
  BY <1>1 DEF PolicyInv, Resolved, Warmup, WarmedUp
<1>5. GraphInv'
  BY <1>1 DEF GraphInv, Warmup, WarmedUp, engineVars
<1>6. CountInv'
  BY <1>1, <1>2, CommandLine DEF CountInv, Warmup, WarmedUp, LoopStart
<1>7. ReportInv'
  BY <1>1 DEF ReportInv, Warmup, Reporting, WarmedUp
<1>8. EndInv'
  BY DEF EndInv, WarmedUp
<1> QED  BY <1>3, <1>4, <1>5, <1>6, <1>7, <1>8 DEF IngressInv

LEMMA BeginMeasuredKeeps ==
  ASSUME IngressInv, BeginMeasured PROVE IngressInv'
<1>1. CoreInv /\ PolicyInv /\ GraphInv /\ CountInv /\ ReportInv /\ EndInv
  BY DEF IngressInv
<1>2. opt \in Options
  BY <1>1 DEF CoreInv
<1>3. CoreInv'
  BY <1>1, CommandLine
    DEF CoreInv, Stages, Waits, E!TypeOK, E!Phases, BeginMeasured, E!BeginInfer, runVars
<1>4. PolicyInv'
  BY <1>1 DEF PolicyInv, Resolved, Measured, BeginMeasured, runVars
<1>5. GraphInv'
  BY <1>1 DEF GraphInv, Measured, BeginMeasured, E!BeginInfer
<1>6. CountInv'
  BY <1>1 DEF CountInv, Early, Warmup, Measured, BeginMeasured, runVars
<1>7. ReportInv'
  BY <1>1 DEF ReportInv, Measured, Reporting, BeginMeasured, runVars
<1>8. EndInv'
  BY DEF EndInv, BeginMeasured
<1> QED  BY <1>3, <1>4, <1>5, <1>6, <1>7, <1>8 DEF IngressInv

LEMMA EndMeasuredKeeps ==
  ASSUME IngressInv, EndMeasured PROVE IngressInv'
<1>1. CoreInv /\ PolicyInv /\ GraphInv /\ CountInv /\ ReportInv /\ EndInv
  BY DEF IngressInv
<1>2. opt \in Options
  BY <1>1 DEF CoreInv
<1>3. CoreInv'
  BY <1>1, CommandLine
    DEF CoreInv, Stages, Waits, E!TypeOK, E!Phases, Maybe, EndMeasured, Inferred, E!EndInfer
<1>4. PolicyInv'
  BY <1>1 DEF PolicyInv, Resolved, Measured, EndMeasured
<1>5. GraphInv'
  BY <1>1 DEF GraphInv, Measured, EndMeasured, Inferred, E!EndInfer
<1>6. CountInv'
  BY <1>1, CommandLine
    DEF CoreInv, CountInv, Early, Warmup, Measured, EndMeasured, Inferred, E!EndInfer
<1>7. ReportInv'
  BY <1>1 DEF ReportInv, Measured, Reporting, EndMeasured
<1>8. EndInv'
  BY <1>1 DEF EndInv, ReportInv, Measured, EndMeasured
<1> QED  BY <1>3, <1>4, <1>5, <1>6, <1>7, <1>8 DEF IngressInv


-----------------------------------------------------------------------------
(* The end of the benchmark, and of the program.                           *)

\* From here on the engine and the command line stay as they are.
LEMMA ReportsKeep ==
  ASSUME UNCHANGED <<opt, engine>>
  PROVE  Results' = Results /\ Resolved' = Resolved
  BY DEF Results, Resolved

LEMMA SummarizeKeeps ==
  ASSUME IngressInv, Summarize PROVE IngressInv'
<1>1. CoreInv /\ PolicyInv /\ GraphInv /\ CountInv /\ ReportInv /\ EndInv
  BY DEF IngressInv
<1>2. opt \in Options
  BY <1>1 DEF CoreInv
<1>3. CoreInv'
  BY <1>1 DEF Summarize, AfterStats, CoreInv, Stages, Waits, E!TypeOK, engineVars
<1>4. PolicyInv'
  BY <1>1 DEF Summarize, AfterStats, PolicyInv, Resolved, Measured
<1>5. GraphInv'
  BY DEF Summarize, AfterStats, GraphInv, Warmup, Measured
<1>6. CountInv'
  BY <1>1 DEF Summarize, AfterStats, CountInv, Early, Warmup, Measured
<1>7. ReportInv'
  <2>1. /\ stage' = "write"
        /\ UNCHANGED <<opt, engine, fallback_used, file, graphed>>
    BY DEF Summarize, AfterStats, engineVars
  <2>2. end_to_end = opt.iterations /\ graphed = opt.use_cuda_graph
        /\ device = (IF engine = "tensorrt" THEN opt.iterations ELSE 0)
    BY <1>1, <1>2, CommandLine DEF Summarize, AfterStats, CountInv, GraphInv, Measured
  <2>3. PICK e \in Distribution(end_to_end),
             dc \in IF device = 0 THEN {{}} ELSE {{x} : x \in Distribution(device)},
             v \in IF opt.verify_identity THEN {{x} : x \in Validation} ELSE {{}},
             known \in BOOLEAN :
          LET s == [end_to_end |-> e, device_compute |-> dc, validation |-> v,
                    cuda_graph |-> graphed,
                    device |-> CASE engine = "mock" -> {"host-cpu"}
                                 [] known -> {"gpu"} [] OTHER -> {},
                    backend |-> engine]
          IN /\ stats' = {s}
             /\ doc' = {FormatMetrics(opt, fallback_used, Resolved, s)}
             /\ AfterStats(s)
    BY Zenon DEF Summarize
  <2> DEFINE t == [end_to_end |-> e, device_compute |-> dc, validation |-> v,
                   cuda_graph |-> graphed,
                   device |-> CASE engine = "mock" -> {"host-cpu"}
                                [] known -> {"gpu"} [] OTHER -> {},
                   backend |-> engine]
  <2>4. stats' = {t} /\ doc' = {FormatMetrics(opt, fallback_used, Resolved, t)}
    BY <2>3
  <2>5. t \in Results
    <3>1. e \in Distribution(opt.iterations)
      BY <2>2
    <3>2. dc \in IF engine = "tensorrt" THEN {{x} : x \in Distribution(opt.iterations)}
                 ELSE {{}}
      BY <1>2, <2>2, CommandLine
    <3>3. v \in Maybe(Validation)
      BY DEF Maybe
    <3>4. graphed \in {opt.use_cuda_graph}
      BY <2>2
    <3>5. engine \in {engine} \ {"none"}
      BY <1>1 DEF PolicyInv, Measured, Summarize, AfterStats
    <3>6. (CASE engine = "mock" -> {"host-cpu"} [] known -> {"gpu"} [] OTHER -> {})
            \in Maybe({"host-cpu", "gpu"})
      BY DEF Maybe
    <3> QED  BY <3>1, <3>2, <3>3, <3>4, <3>5, <3>6 DEF Results
  <2>6. t \in Results'
    BY <2>1, <2>5, ReportsKeep
  <2>7. doc' = {FormatMetrics(opt', fallback_used', Resolved', t)}
    BY <2>1, <2>4, ReportsKeep
  <2>8. file = "previous"
    BY <1>1 DEF Summarize, AfterStats, ReportInv, Measured
  <2> HIDE DEF t
  <2> QED  BY <2>1, <2>4, <2>6, <2>7, <2>8 DEF ReportInv, Early, Warmup, Measured
<1>8. EndInv'
  BY DEF Summarize, AfterStats, EndInv
<1> QED  BY <1>3, <1>4, <1>5, <1>6, <1>7, <1>8 DEF IngressInv

LEMMA WriteMetricsKeeps ==
  ASSUME IngressInv, WriteMetrics PROVE IngressInv'
<1>1. CoreInv /\ PolicyInv /\ GraphInv /\ CountInv /\ ReportInv /\ EndInv
  BY DEF IngressInv
<1>2. opt \in Options
  BY <1>1 DEF CoreInv
<1>3. CoreInv'
  BY <1>1
    DEF WriteMetrics, OnShortWrite, CoreInv, Stages, Waits, E!TypeOK, Maybe, engineVars
<1>4. PolicyInv'
  BY <1>1 DEF WriteMetrics, OnShortWrite, PolicyInv, Resolved, Reporting
<1>5. GraphInv'
  BY DEF WriteMetrics, OnShortWrite, GraphInv, Warmup, Measured
<1>6. CountInv'
  BY <1>1 DEF WriteMetrics, OnShortWrite, CountInv, Early, Warmup, Measured
<1>7. ReportInv'
  BY <1>1, ReportsKeep
    DEF WriteMetrics, OnShortWrite, ReportInv, FileAfterwards, Early, Warmup, Measured,
        Reporting
<1>8. EndInv'
  BY <1>1 DEF WriteMetrics, OnShortWrite, EndInv, ReportInv, Reporting
<1> QED  BY <1>3, <1>4, <1>5, <1>6, <1>7, <1>8 DEF IngressInv

LEMMA VerdictCodes ==
  ASSUME NEW s PROVE Verdict(opt, s) \in {0, 3, 4, 5}
  BY DEF Verdict

LEMMA JudgeKeeps ==
  ASSUME IngressInv, Judge PROVE IngressInv'
<1>1. CoreInv /\ PolicyInv /\ GraphInv /\ CountInv /\ ReportInv /\ EndInv
  BY DEF IngressInv
<1>2. PICK s \in stats : stage' = "exited" /\ exit' = {Verdict(opt, s)}
  BY DEF Judge
<1>3. CoreInv'
  <2>1. exit' \in Maybe(0 .. 6) /\ exit' # {}
    BY <1>2, VerdictCodes DEF Maybe
  <2>2. E!TypeOK' /\ phase' = "ready"
    BY <1>1 DEF Judge, CoreInv, Waits, E!TypeOK, engineVars
  <2>3. Waits(stage)' = "ready" /\ stage' \in Stages
    BY <1>2 DEF Waits, Stages
  <2> QED  BY <1>1, <2>1, <2>2, <2>3 DEF Judge, CoreInv, runVars
<1>4. PolicyInv'
  BY <1>1 DEF Judge, PolicyInv, Resolved, Reporting, runVars
<1>5. GraphInv'
  BY <1>2 DEF GraphInv, Warmup, Measured
<1>6. CountInv'
  BY <1>1 DEF Judge, CountInv, Early, Warmup, Measured, runVars
<1>7. ReportInv'
  BY <1>1, ReportsKeep DEF Judge, ReportInv, Early, Warmup, Measured, runVars
<1>8. EndInv'
  BY <1>1 DEF Judge, EndInv, ReportInv, FileAfterwards, runVars
<1> QED  BY <1>3, <1>4, <1>5, <1>6, <1>7, <1>8 DEF IngressInv

LEMMA StutterKeeps ==
  ASSUME IngressInv, UNCHANGED vars PROVE IngressInv'
<1>1. CoreInv /\ PolicyInv /\ GraphInv /\ CountInv /\ ReportInv /\ EndInv
  BY DEF IngressInv
<1>2. CoreInv'
  BY <1>1 DEF CoreInv, E!TypeOK, vars, runVars, engineVars
<1>3. PolicyInv' /\ GraphInv' /\ CountInv'
  BY <1>1 DEF PolicyInv, Resolved, GraphInv, CountInv, vars, runVars, engineVars
<1>4. ReportInv' /\ EndInv'
  BY <1>1, ReportsKeep DEF ReportInv, EndInv, FileAfterwards, vars, runVars
<1> QED  BY <1>2, <1>3, <1>4 DEF IngressInv

LEMMA IngressInit == Init => IngressInv
<1> SUFFICES ASSUME Init PROVE IngressInv
  OBVIOUS
<1>1. opt \in Options
  BY DEF Init
<1>2. CoreInv
  <2>1. E!TypeOK
    <3>1. 0 \in 0 .. MaxCalls
      BY <1>1, CommandLine
    <3> QED  BY <3>1, Zenon DEF Init, E!Init, E!TypeOK, E!Phases
  <2> QED  BY <2>1 DEF Init, CoreInv, Stages, Waits, E!Init, Maybe
<1>3. PolicyInv /\ GraphInv /\ CountInv /\ ReportInv /\ EndInv
  BY CommandLine
    DEF Init, PolicyInv, GraphInv, CountInv, ReportInv, EndInv, Warmup, Measured, Reporting
<1> QED  BY <1>2, <1>3 DEF IngressInv

LEMMA IngressStep == IngressInv /\ [Next]_vars => IngressInv'
<1> SUFFICES ASSUME IngressInv, [Next]_vars PROVE IngressInv'
  OBVIOUS
<1>1. CASE ParseArgs \/ SelectEngine \/ UseMockFallback
  BY <1>1, ParseArgsKeeps, SelectEngineKeeps, UseMockFallbackKeeps
<1>2. CASE BeginLoad \/ EndLoad \/ BeginGraph \/ EndGraph \/ CheckShape
  BY <1>2, BeginLoadKeeps, EndLoadKeeps, BeginGraphKeeps, EndGraphKeeps, CheckShapeKeeps
<1>3. CASE BeginWarmup \/ EndWarmup \/ WarmedUp \/ BeginMeasured \/ EndMeasured
  BY <1>3, BeginWarmupKeeps, EndWarmupKeeps, WarmedUpKeeps, BeginMeasuredKeeps,
     EndMeasuredKeeps
<1>4. CASE Summarize \/ WriteMetrics \/ Judge
  BY <1>4, SummarizeKeeps, WriteMetricsKeeps, JudgeKeeps
<1>5. CASE Exited \/ UNCHANGED vars
  BY <1>5, StutterKeeps DEF Exited
<1> QED  BY <1>1, <1>2, <1>3, <1>4, <1>5 DEF Next

LEMMA IngressInvariant == Spec => []IngressInv
  BY IngressInit, IngressStep, PTL DEF Spec

-----------------------------------------------------------------------------
(* What follows from the invariant.                                        *)

\* Every state of the program is well-formed, its document included.
THEOREM TypeCorrect == Spec => []TypeOK
<1>1. IngressInv => TypeOK
  <2> SUFFICES ASSUME IngressInv PROVE TypeOK
    OBVIOUS
  <2>1. CoreInv /\ CountInv /\ ReportInv /\ opt \in Options
    BY DEF IngressInv, CoreInv
  <2>2. (stats # {}) <=> (doc # {})
    BY <2>1 DEF ReportInv
  <2>3. doc \subseteq Documents(Latencies, MaxCalls, Elements)
    <3> SUFFICES ASSUME doc # {}
                 PROVE  doc \subseteq Documents(Latencies, MaxCalls, Elements)
      OBVIOUS
    <3>1. PICK s \in Results :
            doc = {FormatMetrics(opt, fallback_used, Resolved, s)}
      BY <2>1 DEF ReportInv
    <3>2. /\ s.end_to_end \in Distributions(Latencies, MaxCalls)
          /\ s.device_compute \in Maybe(Distributions(Latencies, MaxCalls))
      BY <2>1, CommandLine DEF Results, Distribution, Distributions, Maybe
    <3>3. /\ s.backend \in {"mock", "tensorrt"}
          /\ s.cuda_graph \in BOOLEAN
          /\ s.device \in Maybe({"host-cpu", "gpu"})
      BY <2>1, CommandLine DEF Results, CoreInv
    <3>4. {[compared_elements |-> v.compared_elements, passed |-> v.passed] :
             v \in s.validation} \in
             Maybe([compared_elements : 1 .. Elements, passed : BOOLEAN])
      BY DEF Results, Validation, Maybe
    <3>5. FormatSlo(opt, s) \in [scope : Scopes, target_us : SUBSET Nat,
                                 observed_p99_us : Maybe(Latencies),
                                 passed : Maybe(BOOLEAN)]
      <4>1. Selected(opt, s) \in Maybe(Distributions(Latencies, MaxCalls))
        BY <3>2 DEF Selected, Maybe
      <4>2. {d.p99 : d \in Selected(opt, s)} \in Maybe(Latencies)
        BY <4>1 DEF Maybe, Distributions
      <4>3. SloPassed(opt, s) \in Maybe(BOOLEAN)
        BY DEF SloPassed, Maybe
      <4> QED  BY <2>1, <4>2, <4>3, CommandLine DEF FormatSlo
    <3>6. FormatMetrics(opt, fallback_used, Resolved, s)
            \in Documents(Latencies, MaxCalls, Elements)
      BY <2>1, <3>2, <3>3, <3>4, <3>5, CommandLine, ResolvedBackend
        DEF FormatMetrics, Documents, Distributions, CoreInv
    <3> QED  BY <3>1, <3>6
  <2> QED  BY <2>1, <2>3 DEF TypeOK, CoreInv, CountInv, ReportInv
<1> QED  BY <1>1, IngressInvariant, PTL

\* No mock result passes for a TensorRT one, whatever the command line.
THEOREM BackendAsRequested == Spec => []BackendIsTheOneRequested
<1>1. IngressInv => BackendIsTheOneRequested
  BY DEF IngressInv, CoreInv, PolicyInv, ReportInv, Results, FormatMetrics,
         BackendIsTheOneRequested
<1> QED  BY <1>1, IngressInvariant, PTL

\* Each measured iteration, and nothing else, is a sample of each kind.
THEOREM SamplesMeasured == Spec => []SamplesAreMeasuredIterations
<1>1. IngressInv => SamplesAreMeasuredIterations
  BY DEF IngressInv, ReportInv, Results, Distribution, FormatMetrics,
         SamplesAreMeasuredIterations
<1> QED  BY <1>1, IngressInvariant, PTL

\* A graph that was asked for is used in every document, and no other is.
THEOREM GraphAsRequested == Spec => []GraphNeverDowngrades
<1>1. IngressInv => GraphNeverDowngrades
  BY DEF IngressInv, ReportInv, Results, FormatMetrics, GraphNeverDowngrades
<1> QED  BY <1>1, IngressInvariant, PTL

\* The exit code and the file it speaks of: no verdict is over the file of an
\* earlier run, although a write error may go unnoticed.
THEOREM VerdictOnOwnFile == Spec => []VerdictIsOverItsOwnFile
<1>1. IngressInv => VerdictIsOverItsOwnFile
  <2> SUFFICES ASSUME IngressInv, NEW x \in exit
               PROVE  /\ x \in {1, 6} => file = "previous"
                      /\ x \in {3, 4, 5} \/ (x = 0 /\ opt.args = "ok") =>
                           (file = "previous" <=> ~opt.metrics_path)
                      /\ x = 2 => file # "document"
    BY DEF VerdictIsOverItsOwnFile
  <2>1. stage = "exited" /\ opt \in Options
    BY DEF IngressInv, CoreInv
  <2>2. opt.metrics_path \in BOOLEAN
    BY <2>1, IngressAssumption
  <2>3. CASE stats = {}
    BY <2>1, <2>3 DEF IngressInv, EndInv
  <2>4. CASE exit = {2} /\ file # "document"
    BY <2>4
  <2>5. ASSUME file \in FileAfterwards, NEW s \in stats, exit = {Verdict(opt, s)}
        PROVE  /\ x \in {0, 3, 4, 5}
               /\ file = "previous" <=> ~opt.metrics_path
    BY <2>2, <2>5, VerdictCodes DEF FileAfterwards
  <2> QED  BY <2>1, <2>3, <2>4, <2>5 DEF IngressInv, EndInv
<1> QED  BY <1>1, IngressInvariant, PTL

\* What main and the document say of one set of results.
LEMMA VerdictMeaning ==
  ASSUME opt \in Options, NEW s \in Results
  PROVE  LET failed == \E v \in s.validation : ~v.passed
             missed == opt.target # 0 /\ ~\E d \in Selected(opt, s) : d.p99 <= opt.target
         IN /\ Verdict(opt, s) = 5 <=> failed
            /\ Verdict(opt, s) \in {3, 4} <=> missed /\ ~failed
<1>1. Selected(opt, s) = {} \/ \E d : Selected(opt, s) = {d} /\ d.p99 \in Nat
  BY IngressAssumption DEF Selected, Results, Distribution
<1>2. opt.target \in Nat
  BY CommandLine
<1>3. CASE Selected(opt, s) = {}
  BY <1>3 DEF Verdict
<1>4. CASE \E d : Selected(opt, s) = {d} /\ d.p99 \in Nat
  BY <1>2, <1>4 DEF Verdict
<1> QED  BY <1>1, <1>3, <1>4

\* The run that exits 0 against a device objective has device times that meet it.
THEOREM DeviceObjective == Spec => []DeviceObjectiveNeedsDeviceTime
<1>1. IngressInv => DeviceObjectiveNeedsDeviceTime
  <2> SUFFICES ASSUME IngressInv, NEW d \in doc, exit = {0},
                      opt.scope = "device_compute", opt.target # 0
               PROVE  \E dc \in d.device_compute : dc.p99 <= opt.target
    BY DEF DeviceObjectiveNeedsDeviceTime
  <2>1. PICK s \in Results :
          stats = {s} /\ d = FormatMetrics(opt, fallback_used, Resolved, s)
    BY DEF IngressInv, ReportInv
  <2>2. Verdict(opt, s) = 0
    BY <2>1 DEF IngressInv, CoreInv, EndInv
  <2>3. \E dc \in Selected(opt, s) : dc.p99 <= opt.target
    BY <2>2, VerdictMeaning DEF IngressInv, CoreInv
  <2> QED  BY <2>1, <2>3 DEF Selected, FormatMetrics
<1> QED  BY <1>1, IngressInvariant, PTL

\* The exporter turns the document's nulls into zeros, and the rules' alerts
\* still repeat the exit code.
THEOREM AlertsAgree == Spec => []AlertsAgreeWithExitCode
<1>1. IngressInv => AlertsAgreeWithExitCode
  <2> SUFFICES ASSUME IngressInv, NEW d \in doc, NEW x \in exit, x # 2
               PROVE  LET r == Render(d)
                          sloBreached == r.slo_configured /\ ~r.slo_pass
                          validationFailed == r.validation_enabled /\ ~r.validation_pass
                      IN /\ x = 5 <=> validationFailed
                         /\ x \in {3, 4} <=> sloBreached /\ ~validationFailed
    BY DEF AlertsAgreeWithExitCode
  <2>1. PICK s \in Results :
          stats = {s} /\ d = FormatMetrics(opt, fallback_used, Resolved, s)
    BY DEF IngressInv, ReportInv
  <2>2. x = Verdict(opt, s) /\ opt \in Options
    BY <2>1 DEF IngressInv, CoreInv, EndInv
  <2>3. /\ Render(d).slo_configured <=> opt.target # 0
        /\ opt.target # 0 =>
             (Render(d).slo_pass <=> \E t \in Selected(opt, s) : t.p99 <= opt.target)
    BY <2>1 DEF Render, FormatMetrics, FormatSlo, SloPassed, ValueOr
  <2>4. Render(d).validation_enabled /\ ~Render(d).validation_pass
          <=> \E v \in s.validation : ~v.passed
    <3>1. /\ Render(d).validation_enabled <=> d.validation # {}
          /\ Render(d).validation_pass <=> \E v \in d.validation : v.passed
      BY Zenon DEF Render
    <3>2. d.validation =
            {[compared_elements |-> v.compared_elements, passed |-> v.passed] :
               v \in s.validation}
      BY <2>1 DEF FormatMetrics
    <3>3. (\E v \in d.validation : v.passed) <=> (\E v \in s.validation : v.passed)
      <4>1. ASSUME NEW v \in s.validation
            PROVE  \E w \in d.validation : w.passed = v.passed
        <5>1. [compared_elements |-> v.compared_elements, passed |-> v.passed]
                \in d.validation
          BY <3>2
        <5> QED  BY <5>1
      <4>2. ASSUME NEW w \in d.validation
            PROVE  \E v \in s.validation : w.passed = v.passed
        BY <3>2
      <4> QED  BY <4>1, <4>2, Zenon
    <3>4. d.validation # {} <=> s.validation # {}
      BY <3>2
    <3>5. s.validation = {} \/ \E v : s.validation = {v}
      BY DEF Results, Maybe
    <3> QED  BY <3>1, <3>3, <3>4, <3>5
  <2> QED  BY <2>2, <2>3, <2>4, VerdictMeaning
<1> QED  BY <1>1, IngressInvariant, PTL

\* Whatever the options and the statistics of a run: if its optional values are
\* optional values, the document has the shape that both its readers rely on.
LEMMA WrittenIsWellFormed ==
  ASSUME NEW o, NEW f, NEW r, NEW s,
         Option(s.device), Option(s.device_compute), Option(s.validation),
         IsDistribution(s.end_to_end),
         \A d \in s.device_compute : IsDistribution(d)
  PROVE  WellFormed(FormatMetrics(o, f, r, s))
<1> DEFINE d == FormatMetrics(o, f, r, s)
           slo == FormatSlo(o, s)
<1>1. /\ d.device = s.device /\ d.device_compute = s.device_compute
      /\ d.end_to_end = s.end_to_end /\ d.slo = slo
      /\ d.validation = {[compared_elements |-> v.compared_elements,
                          passed |-> v.passed] : v \in s.validation}
  BY DEF FormatMetrics
<1>2. Option(d.validation)
  BY <1>1 DEF Option
<1>3. /\ slo.target_us = IF o.target = 0 THEN {} ELSE {o.target}
      /\ slo.observed_p99_us = {x.p99 : x \in Selected(o, s)}
      /\ slo.passed = SloPassed(o, s)
      /\ slo = [scope |-> slo.scope, target_us |-> slo.target_us,
                observed_p99_us |-> slo.observed_p99_us, passed |-> slo.passed]
  BY DEF FormatSlo
<1> HIDE DEF slo, d
<1>4. Option(Selected(o, s))
  BY DEF Selected, Option
<1>5. Option(slo.target_us) /\ Option(slo.observed_p99_us)
  BY <1>3, <1>4 DEF Option
<1>6. Option(slo.passed)
  BY <1>3 DEF Option, SloPassed
<1>7. WellFormed(d)
  BY <1>1, <1>2, <1>3, <1>5, <1>6 DEF WellFormed
<1> QED  BY <1>7 DEF d

\* Whatever the command line and the failures on the way, the document has the
\* shape from which MetricsText_proofs shows that both readers understand it.
THEOREM DocumentShape == Spec => [](\A d \in doc : WellFormed(d))
<1>1. IngressInv => \A d \in doc : WellFormed(d)
  <2> SUFFICES ASSUME IngressInv, NEW d \in doc PROVE WellFormed(d)
    OBVIOUS
  <2>1. PICK s \in Results : d = FormatMetrics(opt, fallback_used, Resolved, s)
    BY DEF IngressInv, ReportInv
  <2>2. /\ Option(s.device) /\ Option(s.device_compute) /\ Option(s.validation)
        /\ IsDistribution(s.end_to_end)
        /\ \A x \in s.device_compute : IsDistribution(x)
    BY DEF Results, Maybe, Option, Distribution, IsDistribution
  <2> QED  BY <2>1, <2>2, WrittenIsWellFormed
<1> QED  BY <1>1, IngressInvariant, PTL
=============================================================================
