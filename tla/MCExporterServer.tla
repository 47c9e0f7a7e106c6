-------------------------- MODULE MCExporterServer --------------------------
(***************************************************************************)
(* An instance of ExporterServer for TLC.                                  *)
(***************************************************************************)
EXTENDS ExporterServer

CONSTANTS p1, p2

MCPeers == {p1, p2}
MCRequests(p) ==
    IF p = p1 THEN {"metrics", "silent"}
    ELSE {"readyz", "cut"}

\* Two documents with other members null in each, whose model has the name
\* of a member the readers look for.
Options(model, scope, target) ==
    [model |-> model, input_size |-> 2, batch_size |-> 1, scope |-> scope,
     target |-> target]
Stats(backend, device, e2e, compute, validation) ==
    [backend |-> backend, cuda_graph |-> backend = "tensorrt", device |-> device,
     end_to_end |-> [samples |-> 5, p99 |-> e2e], device_compute |-> compute,
     validation |-> validation]

MCDocumented == <<
    FormatMetrics(Options("slo", "device_compute", 3), FALSE, "tensorrt",
                  Stats("tensorrt", {"gpu"}, 4, {[samples |-> 5, p99 |-> 2]}, {})),
    FormatMetrics(Options("samples", "end_to_end", 0), TRUE, "tensorrt",
                  Stats("mock", {"host-cpu"}, 7, {},
                        {[compared_elements |-> 2, passed |-> TRUE]}))>>

\* Inside the slo object, and before the last brace.
MCCuts(d) == {Len(Texts[d]) - 4, Len(Texts[d]) - 1}

\* One client, and writes that stand still in more places: before the first
\* name, among the members, among those of latency_us.
MCReader == {p1}
MCScrapes(p) == {"metrics", "readyz"}
MCManyCuts(d) == {1, 30, 50, Len(Texts[d]) - 9} \cup MCCuts(d)
=============================================================================
