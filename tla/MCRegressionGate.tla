-------------------------- MODULE MCRegressionGate --------------------------
(***************************************************************************)
(* An instance of RegressionGate for TLC.                                  *)
(***************************************************************************)
EXTENDS RegressionGate

\* One sample without a graph.  Of a graph run, times that meet the target, meet it and exceed the budget
\* against the first, and miss it; by hand six distinct times out of order.
MCSamples(name) ==
    CASE name = standard -> {<<2>>}
      [] name = byHand -> {<<3, 6, 2, 5, 0, 4>>}
      [] OTHER -> {<<1, 2, 1>>, <<3, 2, 1>>, <<5, 4, 4>>}

Command(args, scope, metric, percent, tolerance, allow) ==
    [args |-> args, scope |-> scope, metric |-> metric,
     max_regression_percent |-> percent, absolute_tolerance_us |-> tolerance,
     allow_context_change |-> allow]

MCGateOptions == Command("ok", "device", "p99", 30, 0, FALSE)

MCHandOptions ==
    {Command("ok", "e2e", "p50", 0, 0, FALSE),
     Command("ok", "device", "mean", 0, 1, TRUE)}
=============================================================================
