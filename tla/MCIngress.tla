----------------------------- MODULE MCIngress -----------------------------
(***************************************************************************)
(* Instances of Ingress for TLC.                                           *)
(***************************************************************************)
EXTENDS Ingress

MCLatencies == 1 .. 2

Command(args, build, backend, model, allow, graph, w, n, verify, scope, target, path) ==
    [args |-> args, with_tensorrt |-> build, backend |-> backend,
     model |-> model, allow_mock_fallback |-> allow, use_cuda_graph |-> graph,
     input_size |-> 2, batch_size |-> 1,
     warmup |-> w, iterations |-> n, verify_identity |-> verify,
     scope |-> scope, target |-> target, metrics_path |-> path]

\* Every combination of the options with one or two warmups and two measured
\* iterations; a target of 1 tells the two latencies apart.
MCOptions ==
    {Command("ok", b, k, m, a, g, w, 2, v, s, t, p) :
        b \in BOOLEAN, k \in Backends, m \in {"mock", "file"}, a \in BOOLEAN,
        g \in BOOLEAN, w \in 0 .. 1, v \in BOOLEAN, s \in Scopes,
        t \in 0 .. 1, p \in BOOLEAN}
      \cup {Command(x, FALSE, "auto", "mock", FALSE, FALSE, 0, 1, FALSE,
                    "end_to_end", 0, TRUE) : x \in {"help", "bad"}}

\* The CPU build, with a metrics file.
MCCpuOptions ==
    {o \in MCOptions : ~o.with_tensorrt /\ o.metrics_path}
=============================================================================
