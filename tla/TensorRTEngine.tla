--------------------------- MODULE TensorRTEngine ---------------------------
(***************************************************************************)
(* src/engine_tensorrt.cpp: the TensorRT backend, and the CUDA stream it   *)
(* shares with the device.                                                 *)
(*                                                                         *)
(* The host runs one operation of the object at a time (load, infer_into,  *)
(* enable_cuda_graph, the destructor), and issues asynchronous work to one *)
(* stream.  The device runs that work in order and at its own pace, so the *)
(* two actors interleave: a call that returned false half-way has left     *)
(* work on the stream, and the next operation starts on top of it.         *)
(*                                                                         *)
(* A buffer holds the number of the infer_into call whose data is in it,   *)
(* an event the call that recorded it, and 0 stands for neither.           *)
(***************************************************************************)
EXTENDS Integers, Sequences

CONSTANTS
    Models,     \* the model files a caller may name: [onnx, defect] records
    Refusals,   \* whether a CUDA or TensorRT call may fail with no device fault
    Retries,    \* whether the caller carries on after an operation failed
    MaxCalls,   \* bound on the calls of infer_into
    MaxLoads    \* bound on the calls of load

Defects == {"none", "unreadable", "corrupt", "second_input",
            "second_output", "not_fp32", "dynamic_shape"}

ASSUME TensorRTAssumption ==
    /\ Models \subseteq [onnx : BOOLEAN, defect : Defects]
    /\ Refusals \in BOOLEAN
    /\ Retries \in BOOLEAN
    /\ MaxCalls \in Nat
    /\ MaxLoads \in Nat

VARIABLES
    pc,         \* where the host is in the open operation
    model,      \* argument of the open load
    held,       \* the members that are set (non-null, non-empty, bound)
    gen,        \* number of the load whose context, stream and buffers these are
    graph,      \* graph_execution_: the load it was captured in, 0 for nullptr
    capturing,  \* the stream is between BeginCapture and EndCapture
    data,       \* contents of the buffers and events
    queue,      \* the work on the stream that the device has not finished
    faulted,    \* a device fault happened: every later CUDA call fails
    call,       \* number of infer_into calls so far
    result,     \* the call whose output the caller's buffer got, 0 if none
    latency,    \* last_device_latency_us_: the call it times, 0 for nullopt
    ret         \* what the last operation returned

vars == <<pc, model, held, gen, graph, capturing, data, queue, faulted,
          call, result, latency, ret>>

-----------------------------------------------------------------------------
(* What the object acquires, in the order it acquires it.                  *)

AcquireOrder == <<
    "runtime_", "engine_", "input_name_", "output_name_", "context_",
    "stream_", "device_start_", "device_stop_", "input_device_",
    "output_device_", "input_host_", "output_host_",
    "input_address", "output_address">>

Members == {AcquireOrder[i] : i \in 1 .. Len(AcquireOrder)}

Acquired(n) == {AcquireOrder[i] : i \in 1 .. n}

Buffers == {"input_host_", "input_device_", "output_device_", "output_host_"}
Events == {"device_start_", "device_stop_"}

\* What destroyResources resets, besides waiting for the stream.  (The first
\* two are injected faults: the tensor names, or the graph, are forgotten.)
ReleasedExceptNames ==
    (Members \ {"input_name_", "output_name_"}) \cup {"graph_execution_"}
ReleasedExceptGraph == Members
Released == Members \cup {"graph_execution_"}

\* How far initializeExecution gets when no API refuses, if the members in
\* left were already set when it started: a name that is not empty is taken
\* for a second tensor of its kind.
InitializeExecution(m, left) ==
    IF left \cap {"input_name_", "output_name_"} # {} THEN 2
    ELSE CASE m.defect = "second_input" -> 3
           [] m.defect \in {"second_output", "not_fp32", "dynamic_shape"} -> 4
           [] OTHER -> Len(AcquireOrder)

LoadSerializedEngine(m, left) ==
    CASE m.defect = "unreadable" -> 0
      [] m.defect = "corrupt" -> 1
      [] OTHER -> InitializeExecution(m, left)

LoadOnnx(m, left) ==
    IF m.defect \in {"unreadable", "corrupt"} THEN 0
    ELSE InitializeExecution(m, left)

Reach(m, left) ==
    IF m.onnx THEN LoadOnnx(m, left) ELSE LoadSerializedEngine(m, left)

\* A supported model acquires everything.
Supported(m) == m.defect = "none"

Complete == held = Members

-----------------------------------------------------------------------------
(* The stream.                                                             *)

Target == [h2d |-> "input_device_", start |-> "device_start_",
           compute |-> "output_device_", stop |-> "device_stop_",
           d2h |-> "output_host_"]

Source == [h2d |-> "input_host_", compute |-> "input_device_",
           d2h |-> "output_device_"]

Kinds == DOMAIN Target
Work == [kind : Kinds, call : 0 .. MaxCalls, gen : 0 .. MaxLoads]

\* What a piece of work needs to be alive until the device is done with it.
Needs(w) ==
    {Target[w.kind], "stream_"}
      \cup (IF w.kind \in DOMAIN Source THEN {Source[w.kind]} ELSE {})
      \cup (IF w.kind = "compute" THEN {"context_"} ELSE {})

\* What the work writes: an event takes the call that recorded it, a copy
\* takes its source as it is when the device gets there, and a computation
\* of a context that is gone writes nothing that can be relied on.
Written(w) ==
    IF w.kind \in {"start", "stop"} THEN w.call
    ELSE IF w.gen # gen THEN 0 ELSE data[Source[w.kind]]

NotPending(kind) == \A i \in 1 .. Len(queue) : queue[i].kind # kind

\* cudaStreamSynchronize returns once the stream is empty; a device fault
\* empties it, and the call then reports the fault.  (NoWait is the injected
\* fault: the host goes on at once.)
NoWait == TRUE
Drained == queue = <<>>

-----------------------------------------------------------------------------
(* Operations.                                                             *)

Init ==
    /\ pc = "idle"
    /\ model \in Models
    /\ held = {}
    /\ gen = 0
    /\ graph = 0
    /\ capturing = FALSE
    /\ data = [b \in Buffers \cup Events |-> 0]
    /\ queue = <<>>
    /\ faulted = FALSE
    /\ call = 0
    /\ result = 0
    /\ latency = 0
    /\ ret = TRUE

\* last_device_latency_us_.reset()  (LatencyKept is the injected fault.)
LatencyKept == latency
ResetLatency == 0

\* The caller may start an operation.
Free == pc = "idle" /\ (Retries \/ ret)

\* An operation answers.  (RetryFailure is the injected fault: after a
\* failure the operation tries again without end.)
RetryFailure(ok) ==
    IF ok THEN pc' = "idle" /\ ret' = ok ELSE UNCHANGED <<pc, ret>>
Return(ok) == pc' = "idle" /\ ret' = ok

BeginLoad ==
    /\ Free
    /\ gen < MaxLoads
    /\ model' \in Models
    /\ pc' = "loading"
    /\ UNCHANGED <<held, gen, graph, capturing, data, queue, faulted, call,
                   result, latency, ret>>

\* destroyResources, once the stream it synchronizes is empty.
DestroyResources ==
    /\ Drained
    /\ graph' = IF "graph_execution_" \in Released THEN 0 ELSE graph
    /\ data' = [b \in Buffers \cup Events |-> 0]
    /\ latency' = ResetLatency
    /\ UNCHANGED <<queue, capturing, faulted, call, result>>

\* The rest of load: the members are acquired in order until one fails.
\* After a device fault no stream can be created.
Load ==
    /\ pc = "loading"
    /\ DestroyResources
    /\ gen' = gen + 1
    /\ LET left == held \ Released
           reach == Reach(model, left)
       IN \E n \in 0 .. reach :
            /\ n < reach => Refusals \/ faulted
            /\ faulted => n <= 5
            /\ held' = left \cup Acquired(n)
            /\ Return(n = Len(AcquireOrder))
    /\ UNCHANGED model

\* The test of members at the head of infer_into.
Ready == {"context_", "stream_", "input_device_", "output_device_",
          "input_host_", "output_host_"} \subseteq held

\* infer_into up to the memcpy into the pinned input buffer.  The argument
\* says whether pointers, input size and output capacity are right.
BeginInfer(fits) ==
    /\ Free
    /\ call < MaxCalls
    /\ call' = call + 1
    /\ result' = 0
    /\ latency' = ResetLatency
    /\ IF Ready /\ fits
       THEN /\ data' = [data EXCEPT !["input_host_"] = call + 1]
            /\ pc' = "staged"
       ELSE /\ data' = data
            /\ pc' = "refused"
    /\ UNCHANGED <<model, held, gen, graph, capturing, queue, faulted, ret>>

RefuseInfer ==
    /\ pc = "refused"
    /\ Return(FALSE)
    /\ UNCHANGED <<model, held, gen, graph, capturing, data, queue, faulted,
                   call, result, latency>>

\* One asynchronous call that succeeds: the work goes to the stream.
Issue(from, kind, g, to) ==
    /\ pc = from
    /\ ~faulted
    /\ queue' = Append(queue, [kind |-> kind, call |-> call, gen |-> g])
    /\ pc' = to
    /\ UNCHANGED <<model, held, gen, graph, capturing, data, faulted, call,
                   result, latency, ret>>

CopyIn == Issue("staged", "h2d", gen, "copied")
RecordStart == Issue("copied", "start", gen, "started")

\* enqueueV3 needs both tensor addresses; a graph launch replays the context
\* and addresses of the load it was captured in.
Bound == {"input_address", "output_address"} \subseteq held
Launch ==
    \/ graph # 0 /\ Issue("started", "compute", graph, "launched")
    \/ graph = 0 /\ Bound /\ Issue("started", "compute", gen, "launched")

RecordStop == Issue("launched", "stop", gen, "stopped")
CopyOut == Issue("stopped", "d2h", gen, "readback")

Synchronize ==
    /\ pc = "readback"
    /\ Drained
    /\ ~faulted
    /\ pc' = "drained"
    /\ UNCHANGED <<model, held, gen, graph, capturing, data, queue, faulted,
                   call, result, latency, ret>>

\* cudaEventElapsedTime of a pair of records of one call is that call's time.
FinishInfer ==
    /\ pc = "drained"
    /\ ~faulted
    /\ latency' = IF data["device_start_"] = data["device_stop_"]
                  THEN data["device_start_"] ELSE 0
    /\ result' = data["output_host_"]
    /\ Return(TRUE)
    /\ UNCHANGED <<model, held, gen, graph, capturing, data, queue, faulted,
                   call>>

\* A call of the CUDA or TensorRT API fails, or enqueueV3 lacks an address:
\* the operation returns false and leaves the stream as it is.
ApiMayFail == Refusals \/ faulted \/ (graph = 0 /\ ~Bound)

InferFails ==
    /\ pc \in {"staged", "copied", "started", "launched", "stopped", "drained"}
         \/ (pc = "readback" /\ Drained /\ faulted)
    /\ ApiMayFail
    /\ Return(FALSE)
    /\ UNCHANGED <<model, held, gen, graph, capturing, data, queue, faulted,
                   call, result, latency>>

\* enable_cuda_graph: nothing to do, nothing to do it with, or prime.
BeginGraph ==
    /\ Free
    /\ pc' = IF graph # 0 \/ ~({"context_", "stream_"} \subseteq held)
             THEN "answered" ELSE "priming"
    /\ UNCHANGED <<model, held, gen, graph, capturing, data, queue, faulted,
                   call, result, latency, ret>>

AnswerGraph ==
    /\ pc = "answered"
    /\ Return(graph # 0)
    /\ UNCHANGED <<model, held, gen, graph, capturing, data, queue, faulted,
                   call, result, latency>>

Prime == Bound /\ Issue("priming", "compute", gen, "primed")

BeginCapture ==
    /\ pc = "primed"
    /\ Drained
    /\ ~faulted
    /\ capturing' = TRUE
    /\ pc' = "capturing"
    /\ UNCHANGED <<model, held, gen, graph, data, queue, faulted, call, result,
                   latency, ret>>

GraphFails ==
    /\ pc = "priming" \/ (pc = "primed" /\ Drained)
    /\ ApiMayFail
    /\ Return(FALSE)
    /\ UNCHANGED <<model, held, gen, graph, capturing, data, queue, faulted,
                   call, result, latency>>

\* The captured enqueue, EndCapture and the instantiation of the graph.
\* EndCapture is called whether or not the enqueue succeeded.
\* (EndCaptureOfSuccess is the injected fault: it is called only if so.)
EndCaptureOfSuccess ==
    /\ pc = "capturing"
    /\ \E ok \in BOOLEAN :
         /\ ok => ~faulted
         /\ ~ok => ApiMayFail
         /\ capturing' = ~ok
         /\ graph' = IF ok THEN gen ELSE 0
         /\ Return(ok)
    /\ UNCHANGED <<model, held, gen, data, queue, faulted, call, result,
                   latency>>

EndCapture ==
    /\ pc = "capturing"
    /\ capturing' = FALSE
    /\ \E ok \in BOOLEAN :
         /\ ok => ~faulted
         /\ ~ok => ApiMayFail
         /\ graph' = IF ok THEN gen ELSE 0
         /\ Return(ok)
    /\ UNCHANGED <<model, held, gen, data, queue, faulted, call, result,
                   latency>>

\* The destructor runs whatever the last operation returned.
BeginDestroy ==
    /\ pc = "idle"
    /\ pc' = "closing"
    /\ UNCHANGED <<model, held, gen, graph, capturing, data, queue, faulted,
                   call, result, latency, ret>>

Destroy ==
    /\ pc = "closing"
    /\ DestroyResources
    /\ held' = held \ Released
    /\ pc' = "destroyed"
    /\ UNCHANGED <<model, gen, ret>>

\* The device finishes the oldest piece of work.
DeviceStep ==
    /\ queue # <<>>
    /\ LET w == Head(queue)
       IN data' = [data EXCEPT ![Target[w.kind]] = Written(w)]
    /\ queue' = Tail(queue)
    /\ UNCHANGED <<pc, model, held, gen, graph, capturing, faulted, call,
                   result, latency, ret>>

\* The device faults in the work it is running: the rest never runs.
DeviceFault ==
    /\ queue # <<>>
    /\ faulted' = TRUE
    /\ queue' = <<>>
    /\ UNCHANGED <<pc, model, held, gen, graph, capturing, data, call, result,
                   latency, ret>>

Destroyed == pc = "destroyed" /\ UNCHANGED vars

Caller ==
    \/ BeginLoad
    \/ \E fits \in BOOLEAN : BeginInfer(fits)
    \/ BeginGraph
    \/ BeginDestroy

Host ==
    \/ Load \/ Destroy
    \/ CopyIn \/ RecordStart \/ Launch \/ RecordStop \/ CopyOut
    \/ Synchronize \/ FinishInfer \/ RefuseInfer \/ InferFails
    \/ AnswerGraph \/ Prime \/ BeginCapture \/ EndCapture \/ GraphFails

Next == Caller \/ Host \/ DeviceStep \/ DeviceFault \/ Destroyed

Spec == Init /\ [][Next]_vars

\* The host thread runs and the device makes progress or faults; nothing is
\* assumed of the caller.
FairSpec == Spec /\ WF_vars(Host) /\ WF_vars(DeviceStep)
-----------------------------------------------------------------------------
(* Properties.                                                             *)

PCs == {"idle", "loading", "refused", "staged", "copied", "started",
        "launched", "stopped", "readback", "drained", "answered", "priming",
        "primed", "capturing", "closing", "destroyed"}

\* The members are set in the order load acquires them and released all
\* together, so what is held is always a prefix of that order.
TypeOK ==
    /\ pc \in PCs
    /\ model \in Models
    /\ \E n \in 0 .. Len(AcquireOrder) : held = Acquired(n)
    /\ gen \in 0 .. MaxLoads
    /\ graph \in 0 .. MaxLoads
    /\ capturing \in BOOLEAN
    /\ data \in [Buffers \cup Events -> 0 .. MaxCalls]
    /\ queue \in Seq(Work)
    /\ faulted \in BOOLEAN
    /\ call \in 0 .. MaxCalls
    /\ result \in 0 .. MaxCalls
    /\ latency \in 0 .. MaxCalls
    /\ ret \in BOOLEAN

\* No work on the stream outlives what it uses: the context it was enqueued
\* on (or its graph captured on) is that of the present load, and its
\* buffers, event and stream still exist, even when the call that enqueued
\* it failed half-way and the object was reloaded or deleted afterwards.
InFlightWorkIsLive ==
    /\ graph \in {0, gen}
    /\ \A i \in 1 .. Len(queue) :
         queue[i].gen = gen /\ Needs(queue[i]) \subseteq held

\* When infer_into copies its output buffer out and reads its events, they
\* are those of this very call, whatever an earlier failed call or a graph
\* priming left on the stream.
OutputIsOfThisCall ==
    pc = "drained" =>
        /\ data["output_host_"] = call
        /\ data["device_start_"] = call
        /\ data["device_stop_"] = call

\* No operation returns with the stream still in capture mode: the next
\* inference would be recorded instead of run.
CaptureIsClosed == capturing => pc = "capturing"

\* The memcpy into the pinned input buffer never overtakes a pending copy out
\* of it: for a caller that stops at the first failure, as run_benchmark does,
\* and for any caller where no API refuses.
StagingNeverRaces ==
    [][pc' = "staged" => NotPending("h2d")]_vars

\* When no API refuses and no device fault happened, the answer of load
\* depends on the file alone, never on what was loaded, half-loaded or
\* abandoned before.
LoadAnswersForTheFile ==
    [][pc = "loading" /\ pc' # "loading" /\ ~faulted
         => (ret' <=> Supported(model))]_vars

\* Every operation returns, the destructor included, also when it starts on
\* top of work that a failed call left behind and when the device faults.
EveryCallReturns == pc # "idle" ~> pc \in {"idle", "destroyed"}

\* The operation that is open, as a caller of the interface sees it.
OpenOperation ==
    CASE pc = "idle" -> "ready"
      [] pc = "loading" -> "load"
      [] pc \in {"answered", "priming", "primed", "capturing"} -> "graph"
      [] pc = "closing" -> "delete"
      [] pc = "destroyed" -> "gone"
      [] OTHER -> "infer"

\* The backend keeps what the interface promises of every backend.
Contract == INSTANCE InferenceEngine WITH
    phase <- OpenOperation, loaded <- Complete, graphed <- graph # 0

EngineContract == Contract!TimedSpec
=============================================================================
