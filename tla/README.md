# MarketData_Ingress in TLA+

Specifications of the MarketData_Ingress repository, checked with TLC and
proved with TLAPS. Paths below are relative to the repository root.

## 1. The system

`marketdata_ingress` loads a model into an inference engine (TensorRT, or a
deterministic mock), times a number of inferences, validates the output,
writes a metrics document (JSON, schema version 2) and exits with a verdict.
`scripts/run_monitored_benchmark.sh` runs it in a loop and publishes the
document by renaming a temporary file. `marketdata_metrics_exporter` reads the
published file on every Prometheus scrape. Prometheus rules raise alerts, and
`marketdata_metrics_compare` compares two documents as a regression gate.

| Component | State | Operations | Talks to |
|---|---|---|---|
| Engine interface (`include/marketdata_infer/engine.h`) | that of its backend | `load`, `infer_into`, `enable_cuda_graph`, `last_device_latency_us`, destructor | called by the program, implemented by two backends |
| TensorRT backend (`src/engine_tensorrt.cpp`) | runtime, engine, context, stream, two events, four buffers, tensor names, graph, last latency | the interface's | issues asynchronous work to a CUDA stream |
| Mock backend (`src/engine_mock.cpp`) | none that matters | the interface's, no graph, no timer | - |
| Factory (`src/engine_factory.cpp`) | none | `make_engine` | builds a backend |
| Benchmark (`src/benchmark.cpp`) | samples, statistics | `run_benchmark`, `format_metrics_json` | calls the engine |
| Program (`src/main.cpp`) | options, engine pointer, output file, exit code | one run | factory, engine, benchmark, file system |
| Monitored run (`scripts/run_monitored_benchmark.sh`) | temporary file, metrics file | loop, `mv`, `rm` | starts the program, publishes for the exporter |
| Exporter (`tools/metrics_exporter.cpp`) | counters, listener, one connection, the stop flag | scrape, readiness, health, `--once`, stop by signal | reads the metrics file |
| Alert rules (`deploy/monitoring/prometheus`) | series, recorded age, pending alerts | scrape, recording, alerting | read the exposition |
| Comparator (`tools/metrics_compare.cpp`) | two documents | parse, check context, judge | reads two files |
| Engine builder (`src/build_tiny_engine.cpp`) | the engine file | build, write | the TensorRT builder |
| Hardware gate (`scripts/tensorrt_real_tests.sh`) | an evidence directory that outlives it | build, run, repeat, compare, expect failures | starts builder, program and comparator |
| Dashboards, containers, build and release scripts | - | - | - |

What is hard, component by component, and what makes it correct:

* TensorRT backend. Host and device run concurrently, and every API call may
  fail. A call that returns false half-way leaves work on the stream, and the
  object lives on. Correct means: nothing that pending work uses is freed, the
  output and the latency handed out are of the present call, a graph never
  outlives its load, the stream leaves capture mode, a reload starts from
  nothing, and every call returns.
* Program and benchmark. Many options decide together what is run and what the
  run may claim. Correct means: no mock result passes for a TensorRT one, a
  graph that was asked for is used, every sample is a measured iteration, exit code,
  document and alerts tell one story, and no verdict is given over a file that an
  earlier run left. Whether that file is whole the exit code cannot say: the stream is
  tested before its last flush.
* Monitored run and exporter. Two processes share a path; either may be killed.
  Correct means: only finished files of runs that exited 0 are published, the
  exposition follows the file, and what it says belongs together.
* Exporter as a server. A signal handler closes the listener between any two
  steps of a loop that opens and closes other descriptors; a second signal may
  interrupt the first; a benchmark told to write straight at the metrics path
  truncates the file under the reader. Correct means: a stop closes the listener
  and nothing else, ends the process with 0 unless a failure was judged before it, and a half-written file is
  refused or read as one document.
* Alert rules. Three clocks, absent series and hold periods. Correct means:
  evidence that stops is alerted and for its cause, alerts repeat the verdict of
  the run served, and one outage raises one page.
* Comparator and hardware gate. Files of other runs and of earlier invocations lie
  about. Correct means: what stands behind a pass is of this very invocation, and good
  as far as it can be read, and no verdict is drawn from runs that differ in backend, device, shape or
  graph, or from absent device times.

## 2. Modules

| Module | What it is |
|---|---|
| `InferenceEngine` | the abstract specification: what `engine.h` promises to a caller of any backend |
| `TensorRTEngine` | `engine_tensorrt.cpp` with the CUDA stream; refines `InferenceEngine` |
| `TensorRTEngine_proofs` | its theorems |
| `Metrics` | the document as written by `format_metrics_json`, judged by `main`, and read and exposed by the exporter: operators only |
| `MetricsText` | the document as a text of tokens, and its two readers: the exporter's search by name, the comparator's walk through members |
| `MetricsText_proofs` | what both readers make of a document, of a part of it and of one that something follows, for every document |
| `LatencyStats` | `percentile` and `summarize`; sorting is the order statistics it yields |
| `MetricsCompare` | what the comparator takes from two documents, and its exit code |
| `Ingress` | `main.cpp` with factory and benchmark; composes `Metrics` and, by INSTANCE, `InferenceEngine` |
| `Ingress_proofs` | its theorems |
| `SnapshotPipeline` | the script and the exporter's scrape on one file |
| `SnapshotPipeline_proofs` | its theorems |
| `ExporterServer` | the exporter's process: arguments, accept loop, endpoints, signal handlers, with clients and a benchmark writing in place; composes `MetricsText` and `MetricsCompare` |
| `ExporterServer_proofs` | its theorems |
| `PrometheusAlerts` | scrapes and the two rule groups over what the exporter serves; composes `Metrics` |
| `PrometheusAlerts_proofs` | its theorems |
| `RegressionGate` | the hardware gate with the builder step by step, the program by its outcomes and the comparator; composes `MetricsCompare` and `LatencyStats` |
| `RegressionGate_proofs` | its theorems, and what they need to know of `LatencyStats` and `MetricsCompare`, for all samples |
| `DataLemmas` | lemmas about numbers, sequences, texts and sets of at most one element that the proofs share |
| `MCTensorRTEngine`, `MCIngress`, `MCSnapshotPipeline`, `MCExporterServer`, `MCPrometheusAlerts`, `MCRegressionGate` | instances for TLC |

### TensorRTEngine

`held` is the set of members that are set, in the order of `AcquireOrder`, the
order in which `loadSerializedEngine`, `loadOnnx` and `initializeExecution` set
them. `gen` counts loads, so that a context, a buffer or a graph of an earlier
load can be told apart. `queue` is the work on the stream the device has not
finished. `data` says, for each buffer and event, which call's data is in it: a
call number stands for the call's input, its output and its device time. Every
asynchronous call of `infer_into` is an action of its own (`CopyIn`,
`RecordStart`, `Launch`, `RecordStop`, `CopyOut`), each may fail (`InferFails`),
and `DeviceStep` runs the oldest piece of work at any later moment.
`DestroyResources` is one step: it waits for the stream and then frees, and
nothing else runs in the object meanwhile. `DeviceFault` empties the stream and makes
every later CUDA call fail, which is what a sticky device error does.

Abstracted: tensor sizes and names (an argument either fits or not), runtime
metadata, log messages, the TensorRT builder's inner steps. A model file is a
record of its format and its first defect. Not modelled, because CUDA documents
otherwise: `cudaStreamSynchronize` that returns while work is pending. It
returns when the stream is empty, and fails only after a device fault.

### Ingress

`stage` is where `main` is; the engine is any engine that keeps the contract,
so its calls begin and end with the contract's actions (`E!BeginInfer`,
`E!EndInfer`, ...). The mock backend narrows them: its `load` and its inferences
succeed, its graph request is refused, it has no device timer. Numbers that the
properties do not tell apart (latencies, tolerances, throughput) are values of
small sets or left out; the p99 is free in `Latencies`. Command-line parsing is
one of three outcomes. `metrics_path` says whether `--json-out` was given. A short
write is either met by the test of the stream, which ends the run with 2, or only by the
last flush when the stream is closed, which nobody tests: then the run goes on to its
verdict (`OnShortWrite`).

### SnapshotPipeline

What a run leaves carries the number of the run, its exit code and whether
the exporter accepts it; it is a document or, if the last flush failed, the start of
one, with any verdict's exit code (`WriteOutput`). `Publish` is `mv`, `Discard` is `rm -f`, `Kill` and
`Restart` stop and start a script at any moment with its leftover in place (a
script restarted with the same process number is the worst case, and is what a
container does). A scrape is three steps: accept, read and parse, then ask for
the modification time of the path, as `load_for_scrape` does.

### ExporterServer

`pc` is where `main` is, `handlers` the signal handlers running on top of it, the
innermost first: `main` moves only when there is none, and the same signal is
blocked while its own handler runs. Each statement of `request_stop` is an action,
because the other signal may come between any two. `descriptors` is the
kernel's table with the lowest free number reused first, so that a number kept too
long names something else. A connection goes through `Connect`, `Send` or
`Leave` on the client's side and `Accept`, `Receive`, `OpenFile`, `ReadMore`,
`ReadEnds`, `Answer`, `CloseClient` on the server's; there is one at a time. A failing `accept` is four steps: the failure, the test of the stop flag, the throw and the
exit, with the handlers free to run between any two; so are the test of the listener at
the end and its close. Reading
takes as many steps as the file has grown in between, and what is read is a
sequence of parts of documents, since `Truncate` may have put another document
under the reader.

Abstracted: `std::signal` restarts interrupted calls (the C library's default),
so `accept` and `recv` either block or end and the `EINTR` branch is not taken;
a response fits the socket's buffer, so `send` does not block and a client gone
meanwhile is `SIGPIPE` ignored; a signal before `main` has installed its handlers
kills the process and is left out. The timestamps of a
scrape are in `SnapshotPipeline`.

### MetricsText

A text is a sequence of tokens. Commas, space and the members neither reader
looks up by a name that could be mistaken are left out; strings are whole, which is
what `escape_json` and both scanners provide. `FindValue` is the exporter's
`find_value` (the first occurrence at any depth that a colon follows), `Find` the
comparator's (the first member of this object). A result is a set: empty where the
code throws.

### PrometheusAlerts

A tick is five seconds, the interval of the scrapes and of both groups. In a tick each of
scrape, recording group and alerting group happens once; the groups keep the
order they have (`recordingFirst`), the scrape falls anywhere. `active` counts the
evaluations in a row that found the condition, so that an alert fires when `n - 1`
ticks have reached its "for". `steady` is a history variable: how long exporter and
file have been as they are. Metrics of a failed scrape, and of one that could not
load the document, are absent, and absence is no condition.

### RegressionGate

`stage` is the command the script is at. Under `set -e` any code but 0 ends it with
that code (`GoOn`). The evidence directory persists between invocations, and each
document carries the invocation that wrote it and the times it was made of. The
builder's steps are actions, and a person may use builder, program and comparator
between invocations (`BuildByHand`, `RunByHand`, `CompareByHand`). The program is
one action with the outcomes that `Ingress` shows it to have: no document and 1, 2
or 6; a short file and 2 or, after a failing last flush, any verdict; a document and the
verdict on it. The comparator's own output file (`regression-<k>.json`) is not read again
and is left out.

### Injected faults

Operators commented as injected faults (`NoWait`, `ReleasedExceptNames`,
`CounterShared`, ...) belong to no behaviour of the models. Each is the body a
plausible bug would give the definition after it; put in its place, it makes TLC
find the listed property violated (PROJECT.json, "mutants").

## 3. Runs

| Run | Instance | Properties |
|---|---|---|
| `trt_any_caller` | 2 calls, 2 loads, a good file and one that is abandoned half-way, any API may fail, the caller goes on after failures; fair | `TypeOK`, `InFlightWorkIsLive`, `OutputIsOfThisCall`, `CaptureIsClosed`, `EveryCallReturns`, `EngineContract` |
| `trt_reload` | 2 calls, 3 loads, every kind of file, no API refuses | `LoadAnswersForTheFile`, `StagingNeverRaces` |
| `ingress` | all combinations of the options, with and without TensorRT in the build, 0 or 1 warmups, 2 iterations, 2 latencies, 2 elements | `TypeOK`, `BackendIsTheOneRequested`, `SamplesAreMeasuredIterations`, `GraphNeverDowngrades`, `DeviceObjectiveNeedsDeviceTime`, `AlertsAgreeWithExitCode`, `VerdictIsOverItsOwnFile` |
| `publish_safely` | 2 scripts, 2 runs, kills and restarts; fair scrapes | `TypeOK`, `PublishedIsFinished`, `PublishedRunPassed`, `ExpositionCatchesUp` |
| `regression_gate` | 2 invocations, 1 or 2 graph runs, 2 commands by hand; graph runs that meet the target, exceed the budget, miss the target | `TypeOK`, `PassIsBackedByEvidence`, `AnswersAreAboutLikeRuns`, `MockHasNoDeviceVerdict`, `FasterIsNoRegression`, `PercentilesSplitSamples` |
| `exporter_server` | 2 clients with 2 kinds of request each, 2 signals, 2 documents, no writer; fair | `TypeOK`, `StopClosesTheListenerOnly`, `StopIsNoFailure`, `StopIsAnswered`, `RequestIsAnswered` |
| `exporter_reads` | 1 client, 2 documents, 3 writes in place that may stop short or stand still in 6 places | `TornReadIsRefused`, `ReadersReadTheDocument` |
| `alerts` | 5 runs, hold times of 1 and 2 ticks, stale after 2, ages up to 8 | `TypeOK`, `StoppedEvidenceIsAlerted`, `VerdictsAreAlerted`, `OutagePagesOnce` |
| `torn_timestamp` | 1 script, 2 runs | finding (section 5) |
| `exposed_validation`, `exposed_p99` | `ingress` in a CPU build | findings |
| `builder_refused` | 1 invocation of the gate | finding |

Why the bounds suffice. A stale output or latency needs an earlier call to be
stale from, and one failed call before it: two calls; a third call adds a
success in between. A leftover of a load needs a second load to bite, and a third to
be sure the second left nothing either. An off-by-one or a shared counter shows
with one warmup and two iterations. A target of 1 between latencies of 1 and 2
separates met from missed. Interference of publishers needs two, and a torn scrape two
documents and more than one write: the file under a read may be replaced before the read
has begun, when it is in the middle and when it has all of it. The theorems of section 4 remove the bounds for most of these.

Evidence left over needs an earlier invocation with more repetitions than the
later one, hence two of them and up to two repetitions; the samples behind a
document have one, three or six values out of order, so that percentiles fall on
samples and between them, and a single sample is every percentile. (Two command lines of the
comparator are used by hand; one that it refuses is in the module and the theorems, and
reads no document.) Overlapping handlers need two signals (there are only two
kinds), and a reused descriptor a second client. A torn read needs up to three writes in place, so that
one text can be made of parts of three, with standstills before the first name, among the
members, inside an object and before the last brace. The rules' real hold times and ages (6,
3, 6, 3, 1, 1 and 60 ticks, stale after 24) are scaled to 1 and 2: an alert that
waits for several ticks is one that can be interrupted at each of them, and two
suffice for an interruption before, between and after. `MaxAge` is above every
threshold plus what the properties wait for (`AlertsAssumption`).
`OneOutageOnePage` holds for the real values.

Deadlock is checked everywhere: the end of a run, of a server and a deleted object are
explicit stuttering steps; the script that may be started no more often leaves
comparisons by hand.

Fairness. `FairSpec` of `TensorRTEngine` assumes that the host thread runs and
that the device keeps making progress or faults; nothing is assumed of the
caller. The host steps wait on nothing but the stream. `FairSpec` of
`SnapshotPipeline` assumes that Prometheus keeps scraping (its scrape interval)
and that the exporter's thread runs; publishers may stop for ever. `FairSpec` of
`ExporterServer` assumes that the process is scheduled, in `main` and in a handler,
and that a client that has a request sends it or leaves; nothing makes a client
come, a signal arrive or `accept` fail, and a silent client may stay for ever. It is
checked without a writer: against one that extends the file faster than it is read
no reader ends.

## 4. Theorems

For every value of the constants, from the named assumptions of the modules only
(`TensorRTAssumption`, `PipelineAssumption`, `IngressAssumption`,
`AlertsAssumption`, `RunsAssumption`, `ExporterServerAssumption`,
`RegressionGateAssumption`, `GateOptionsAssumption`; TLC evaluates each of them on
its runs):

* `TypeCorrect`, `InFlightWorkLives`, `OutputOfThisCall`, `CaptureCloses`:
  `Spec => []...` for the four invariants of `TensorRTEngine`.
* `LoadAnswers` (where `Refusals` is false) and `StagingIsSafe` (where `Retries`
  is false): its two action properties.
* `BackendImplementsContract`: `Spec => EngineContract`, the refinement.
* `PipelineTypes`, `PublishedFinished`, `PublishedPassed`: the invariants of
  `SnapshotPipeline`.
* All four invariants of `PrometheusAlerts`: `TypeCorrect`, `StoppedEvidence`,
  `Verdicts`, and `OneOutageOnePage`, which is `OutagePagesOnce` whenever
  ExporterDown waits for two ticks and MetricsStale for one.
* All seven invariants of `Ingress` (`TypeCorrect`, `BackendAsRequested`,
  `SamplesMeasured`, `GraphAsRequested`, `VerdictOnOwnFile`, `DeviceObjective`,
  `AlertsAgree` of `Ingress_proofs`), with the operators of `Metrics` they rest on.
* All four invariants of `ExporterServer` (`TypeCorrect`, `ListenerOnly`, `TornRead`,
  `ReadersRead` of `ExporterServer_proofs`) and its safety property over two moments,
  `StopIsNoFailure` (`NoFailure`), for any finite number of clients, any interleaving of
  signals, and any documents, writes and standstills.
* `ExporterReadsBack`, `ExporterRefusesOrAgrees` and `ComparatorReadsWhole` of
  `MetricsText_proofs`: what the two readers compute, for every document of the shape
  `WellFormed`. `DocumentShape` of `Ingress_proofs`: the program writes no other. What
  `Ingress` and `SnapshotPipeline` call accepted (`Accepted`) is what the parser accepts.
* All six invariants of `RegressionGate` (`TypeCorrect`, `PassIsBacked`, `LikeRuns`,
  `NoMockVerdict`, `FasterPasses`, `PercentilesSplit` of `RegressionGate_proofs`),
  for any number of runs and invocations, all sequences of samples and all command
  lines of the comparator.

What the assumptions say of the code. `RunsAssumption`: a `std::optional` holds at most
one value and a latency is a number. `ExporterServerAssumption`: clients ask for what
the request loop tells apart, a document has the shape `WellFormed` that
`format_metrics_json` gives it (`DocumentShape`: a null or one value where a value may
be null, and the members of a distribution and of the objective), and a write in place
stands still inside a document.
`RegressionGateAssumption`: samples are not empty (`run_benchmark` refuses zero
iterations) and options are in the ranges the command line admits.
`GateOptionsAssumption`: the script compares the device's p99 and does not allow the
context to change (`scripts/tensorrt_real_tests.sh`, lines 88-94).

The argument for the backend is a chain of inductive invariants.
`TypeInv` holds that `held` is always a prefix of the acquisition order. This is
what makes the six members that `infer_into` tests (and the two addresses that
`enqueueV3` needs) stand for the events, the stream and the context:
`ReadyHasResources`. `LiveInv` adds that an open inference keeps its resources;
with it no step can free what the queue needs, since both places that free wait
for the queue to be empty. `OutputIsOfThisCall` is not inductive: it speaks of the
end, when the stream is empty. `FlowInv` says what holds before: once a step has
been issued, either work of its kind is still queued, the last of it this
call's, or this call's number is already where that work puts it; and a copy in
the queue has a kernel behind it, and a kernel a copy out. Older work of a failed
call may be mixed in front; the order of the stream makes it harmless. The
lemmas `AppendOrder` and `TailOrder` say how the order of a queue changes.
`ContractInv` relates a graph and a launched kernel to a complete load, which
the refinement needs for `EndGraph` and `EndInfer`.

For the pipeline, `PipelineInv` relates what the script will test (the exit
code) to what is in its temporary file: without it the published file could be
anything. With it the published file is one whose run was over and had the code 0, which is
less than a whole document: that much the code does not give.

For the alerts, the two pages could only meet if the age were recorded from a
scrape that succeeded and the alerts evaluated after one that failed. `OutageInv`
says that this happens at no two evaluations in a row: there is one scrape in a
tick, so the series of an outage are gone before the next recording. What has to be
known in the middle of a tick depends on the order of the groups
(`RecordingFirst`, `AlertsFirst`). The two properties of a settled state count: `steady`
ticks without a change mean a scrape (`Fresh`) and then a record (`FreshAge`) of
how things are, and `SettledInv` says that every evaluation since has added one to
`active` or set it to zero, so that an alert whose condition holds fires when the count reaches its
hold time, and one whose condition does not hold is silent. For MetricsStale the condition
itself starts on the way: `AgeCounted` measures the count by what the age exceeds its
threshold by.

For the exporter, the property is about one descriptor number that four parties use: the
kernel's table, `main`'s two copies, and the handlers' copy, which may be taken, tested,
closed and reset by two handlers interleaved. It holds because a number that is closed is
reused only by `main`, and `main` waits while a handler runs. `DescriptorInv` says what
every open number is open on, so that the listener's number is the only one
open on a listener and a client's or a file's number is none of it; `ListenerInv` says that
the handlers' copy is `-1` only after a stop, and that, from a handler's test to its
reset, the number is the listener's or free. `QueueInv` and `CountInv` complete the types: the counters
are bounded by the clients whose request was received, a set that grows with the
counter. `StopIsNoFailure` relates a moment to all later ones. It is not "exit code 2 only without a
stop": a stop may come between the test at line 844, which has found none, and the
exit at 863, and then the process ends with 2. What holds is that a stop under way
(on record, or the listener closed by its handler) stays so and keeps `main` from the
throw (`StopStaysSeen`), and so from code 2. That a descriptor is always free for the next open, and that a reading has at most
one result, whatever was truncated under it (`SnapshotIsOne`), are lemmas.

For what is read, two arguments meet. One is about texts alone (`MetricsText_proofs`).
`Height` is the number of braces open at a token: a document is balanced member by member
(`Balanced`, `Free`), so an object ends at the brace that `Matching` finds whatever
stands before and after it, and the first name that a colon follows is found in the
first member of that name, no matter what the strings say (`Names`, `Apart`, `Reads`).
From this the fields of `ParseSnapshot` and of `ReadMetrics` follow one by one
(`SnapshotOfDocument`, `MetricsOfDocument`). Of a text that was cut off, whatever a
search finds is found at the same place in the whole (`StartSnapshot`: a reader of more
text never takes back what it read from less), so the exporter refuses it or
agrees with the whole. The comparator's root object must end with the text, and no
strict part of a document does, nor a document with something behind it (`RootOfStart`,
`RootOfMore`).
The other argument is about the stream (`StreamInv`): as long as no other document took its
place half read, what `read_file` has is the start of the document it began with, which is
then still the one in the file, or that document and something behind it. Neither property
is inductive without it: they speak of the text only when it is parsed. `contents` and
`split` alone do not say that adjoining parts are of one document.

For the gate, `ProgressInv` says what of the evidence is already this invocation's at each
command (`Gathered`, `Compared`); `PassIsBackedByEvidence` speaks only of the end and is
not inductive. A document that cannot be read stops the gate only where a comparison reads
it, so `Compared` is what tells that several graph runs each have one; the first needs
no budget but is known to be there only after the second was compared with it
(`FirstWithin`). `EvidenceInv` ties every document to the samples it was made of, and
`ComparisonInv` ties the last answer to the files as they still are: no run may come
between the two. The rest is about operators. `Answered` says what an answer of the comparator
implies of the two documents. `FasterPasses` compares order statistics: fewer samples
below each value means that no sample in order is smaller (`SortedOfSmaller`), and
interpolation, rounded mean and maximum are monotone in the ordered samples
(`InterpolatedOfSmaller`, `TotalOfSmaller`, `RoundedOfSmaller`). `PercentilesSplit` counts:
the value at an interpolated position lies between its neighbours
(`InterpolatedBetween`), whose positions say how many samples are on each side
(`SortedPosition`). That there is a k-th sample at all (`PositionExists`), like every
induction here, is an argument by a least counterexample (`LeastNumber`, `SetInduction` in
`DataLemmas`), since the library's induction theorems cannot be instantiated.

For the program, `IngressInv` says stage by stage what `main` has already made sure
of: why it has the engine it has (`PolicyInv`), whether that engine has its graph
(`GraphInv`), how many samples there are (`CountInv`), and what is written
(`ReportInv`, `EndInv`). The properties speak of the document, which exists only at
the end; without the earlier stages none of them is inductive. `VerdictMeaning` then
says what an exit code and a document have in common.

Only model-checked: the liveness properties (`EveryCallReturns`,
`ExpositionCatchesUp`, `StopIsAnswered`, `RequestIsAnswered`), which are out of
the prover's reach under fairness. Every other property that a passing run checks is
also a theorem.

## 5. Findings

* `torn_timestamp`: the exporter opens the file twice for one scrape; a rename
  in between gives one document the modification time of the next, against the
  HELP text "Modification time of the loaded snapshot." The staleness alert
  is computed from that time.
* `exposed_validation`: the exporter looks for `checked_elements`, the program
  writes `compared_elements`; `marketdata_inference_validation_elements` is 0
  after any validated run, against "Number of validated output elements."
* `exposed_p99`: for a device-scope run with no device times and no target the
  end-to-end p99 is exposed under `scope="device_compute"`, against "Observed
  p99 selected by the SLO." and the separation of scopes of `docs/metrics.md`.
* `builder_refused`: `scripts/tensorrt_real_tests.sh` starts
  `marketdata_build_engine` with `--batch`, which its option loop refuses with exit
  code 1; without `MD_TEST_ENGINE` the gate never gets past the build, against
  "Builds a fixed-shape identity engine with the repository's native C++ builder."

One disagreement is in the model without a run of its own. `src/main.cpp` tests its
output stream before it is closed (lines 188-193), so an error that only the last flush meets leaves a
short or empty file with exit code 0, 3, 4 or 5. A run that failed in this way and exits 0
is renamed over the published file by the script, against "Failed runs never replace the
last valid snapshot." (`docs/monitoring.md`, line 103); the exporter then reports a load
failure or, if what it looks for is there, serves the file. And the gate passes
with a `standard.json`, or with the only graph run's document, that cannot be read,
since no comparison reads them. The properties of `ingress`, `publish_safely` and
`regression_gate` say what holds in spite of it (`VerdictIsOverItsOwnFile`,
`PublishedIsFinished`, `PassIsBackedByEvidence`); stronger forms, "published is whole" and
"a pass has all its documents", are false.

Noted, and no disagreement with a stated promise: a document with
`"device": null` is written by a run that exits 0 and refused by the exporter;
runs that miss their objective or fail validation are discarded by the script, so
the alerts for them see nothing unless the document is published otherwise, and such
runs surface only as stale evidence; a client that connects and says nothing keeps
the exporter from every other client and from its stop; a `SIGTERM` that arrives after a
failing `accept` was judged (`tools/metrics_exporter.cpp`, line 844) finds the process on
its way out with exit code 2; a read that is in the middle of
one document when the next write in place truncates it goes on in the next document, and
may be accepted with fields of both (`split` marks these reads; both properties of
`exporter_reads` are about all others, and fail without that exception).

## 6. Not modelled, and what is left

Not modelled: dashboards, containers, build and release scripts and the test drivers
(no state of the system under study); Alertmanager's routing and inhibition (what
reaches a person, not what is true); the recorded latencies (dashboards only);
standard deviation and throughput (written, never judged); escapes and spacing of
JSON below the token, HTTP wording, a failed write of the comparator's own answer
(`regression-<k>.json`), the command-line numbers' syntax. Outputs are not
modelled as numbers: validation is a verdict, and that an output that is not a number
passes it (`src/benchmark.cpp:178`) is only listed as a hazard. `PROJECT.json` has a line for each hazard that no property
covers.

What could follow:

1. The restart of exporter and script under the deployment's supervision.
2. A refinement from `RegressionGate`'s outcomes to `Ingress`, which today are
   related by their exit codes only.
