-------------------------- MODULE InferenceEngine --------------------------
(***************************************************************************)
(* What include/marketdata_infer/engine.h promises to a caller of          *)
(* mdedge::InferenceEngine, whichever backend is behind the interface.     *)
(*                                                                         *)
(* An operation is a call that begins and returns later; the object serves *)
(* one caller, so at most one operation is open.  A call of infer_into is  *)
(* identified by its number: the number stands for the input it was given, *)
(* for the output computed from that input and for the device time of that *)
(* computation.  0 stands for "nothing": no output (output_elements = 0)   *)
(* and no device latency (std::nullopt).                                   *)
(***************************************************************************)
EXTENDS Naturals

CONSTANT MaxCalls   \* bound on the number of infer_into calls

VARIABLES
    phase,      \* the open operation, "ready" if none, "gone" once deleted
    loaded,     \* a model is loaded
    graphed,    \* cuda_graph_enabled()
    call,       \* number of infer_into calls so far
    result,     \* what the last infer_into wrote: a call number, or 0
    latency     \* last_device_latency_us(): a call number, or 0

vars == <<phase, loaded, graphed, call, result, latency>>

Phases == {"ready", "load", "infer", "graph", "delete", "gone"}

Init ==
    /\ phase = "ready"
    /\ loaded = FALSE
    /\ graphed = FALSE
    /\ call = 0
    /\ result = 0
    /\ latency = 0

BeginLoad ==
    /\ phase = "ready"
    /\ phase' = "load"
    /\ UNCHANGED <<loaded, graphed, call, result, latency>>

\* load forgets the previous model, its graph and its last latency, whatever
\* the answer; the caller's output buffer is not the engine's to touch.
EndLoad(ok) ==
    /\ phase = "load"
    /\ phase' = "ready"
    /\ loaded' = ok
    /\ graphed' = FALSE
    /\ latency' = 0
    /\ UNCHANGED <<call, result>>

BeginInfer ==
    /\ phase = "ready"
    /\ call < MaxCalls
    /\ phase' = "infer"
    /\ call' = call + 1
    /\ result' = 0
    /\ latency' = 0
    /\ UNCHANGED <<loaded, graphed>>

\* A call that returns false leaves no output and no latency.  One that
\* returns true leaves the output of this very call, and its device time if
\* the backend has a device timer.
EndInfer(ok, timed) ==
    /\ phase = "infer"
    /\ phase' = "ready"
    /\ ok => loaded
    /\ result' = IF ok THEN call ELSE 0
    /\ latency' = IF ok /\ timed THEN call ELSE 0
    /\ UNCHANGED <<loaded, graphed, call>>

BeginGraph ==
    /\ phase = "ready"
    /\ phase' = "graph"
    /\ UNCHANGED <<loaded, graphed, call, result, latency>>

\* Enabling a graph never disables one and needs a loaded model.
EndGraph(ok) ==
    /\ phase = "graph"
    /\ phase' = "ready"
    /\ graphed => ok
    /\ ok => loaded
    /\ graphed' = ok
    /\ UNCHANGED <<loaded, call, result, latency>>

BeginDelete ==
    /\ phase = "ready"
    /\ phase' = "delete"
    /\ UNCHANGED <<loaded, graphed, call, result, latency>>

EndDelete ==
    /\ phase = "delete"
    /\ phase' = "gone"
    /\ loaded' = FALSE
    /\ graphed' = FALSE
    /\ latency' = 0
    /\ UNCHANGED <<call, result>>

Next(timed) ==
    \/ BeginLoad
    \/ BeginInfer
    \/ BeginGraph
    \/ BeginDelete
    \/ EndDelete
    \/ \E ok \in BOOLEAN : EndLoad(ok) \/ EndInfer(ok, timed) \/ EndGraph(ok)

\* A backend with a device timer, and one without.
TimedSpec == Init /\ [][Next(TRUE)]_vars
UntimedSpec == Init /\ [][Next(FALSE)]_vars

TypeOK ==
    /\ phase \in Phases
    /\ loaded \in BOOLEAN
    /\ graphed \in BOOLEAN
    /\ call \in 0 .. MaxCalls
    /\ result \in 0 .. MaxCalls
    /\ latency \in 0 .. MaxCalls
=============================================================================
