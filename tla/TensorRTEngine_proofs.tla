----------------------- MODULE TensorRTEngine_proofs -----------------------
(***************************************************************************)
(* Proofs about module TensorRTEngine, for every set of models, every      *)
(* number of loads and calls and both settings of the caller and the APIs. *)
(***************************************************************************)
EXTENDS TensorRTEngine, SequenceTheorems, TLAPS

-----------------------------------------------------------------------------
(* What is acquired.                                                       *)

\* load acquires fourteen members.
LEMMA OrderLength == Len(AcquireOrder) = 14
BY DEF AcquireOrder

\* A prefix of the order of acquisition consists of members.
LEMMA AcquiredAreMembers ==
    ASSUME NEW n \in 0 .. Len(AcquireOrder)
    PROVE  Acquired(n) \subseteq Members
BY OrderLength DEF Acquired, Members

\* destroyResources leaves no member set.
LEMMA NothingSurvives ==
    ASSUME NEW n \in 0 .. Len(AcquireOrder), held = Acquired(n)
    PROVE  held \ Released = {}
BY AcquiredAreMembers DEF Released

\* A load that starts from nothing acquires a prefix of the order.
LEMMA ReachIsWithinOrder ==
    ASSUME NEW m \in Models
    PROVE  Reach(m, {}) \in 0 .. Len(AcquireOrder)
BY OrderLength DEF Reach, LoadOnnx, LoadSerializedEngine, InitializeExecution

\* Whoever has the output staging buffer has twelve members.
LEMMA HostBufferIsLate ==
    ASSUME NEW n \in 0 .. Len(AcquireOrder), "output_host_" \in Acquired(n)
    PROVE  n >= 12
<1>1. PICK i \in 1 .. n : AcquireOrder[i] = "output_host_"
    BY DEF Acquired
<1>2. /\ AcquireOrder[1] # "output_host_"
      /\ AcquireOrder[2] # "output_host_"
      /\ AcquireOrder[3] # "output_host_"
      /\ AcquireOrder[4] # "output_host_"
      /\ AcquireOrder[5] # "output_host_"
      /\ AcquireOrder[6] # "output_host_"
      /\ AcquireOrder[7] # "output_host_"
      /\ AcquireOrder[8] # "output_host_"
      /\ AcquireOrder[9] # "output_host_"
      /\ AcquireOrder[10] # "output_host_"
      /\ AcquireOrder[11] # "output_host_"
    BY DEF AcquireOrder
<1>3. n \in 0 .. 14
    BY OrderLength
<1>4. i \in 1 .. 14 /\ i <= n
    BY <1>3
<1>5. i # 1 /\ i # 2 /\ i # 3 /\ i # 4 /\ i # 5 /\ i # 6 /\ i # 7 /\ i # 8
        /\ i # 9 /\ i # 10 /\ i # 11
    BY <1>1, <1>2
<1>. QED
    BY <1>3, <1>4, <1>5

\* Whoever has the output address bound has twelve members.
LEMMA AddressIsLate ==
    ASSUME NEW n \in 0 .. Len(AcquireOrder), "output_address" \in Acquired(n)
    PROVE  n >= 12
<1>1. PICK i \in 1 .. n : AcquireOrder[i] = "output_address"
    BY DEF Acquired
<1>2. /\ AcquireOrder[1] # "output_address"
      /\ AcquireOrder[2] # "output_address"
      /\ AcquireOrder[3] # "output_address"
      /\ AcquireOrder[4] # "output_address"
      /\ AcquireOrder[5] # "output_address"
      /\ AcquireOrder[6] # "output_address"
      /\ AcquireOrder[7] # "output_address"
      /\ AcquireOrder[8] # "output_address"
      /\ AcquireOrder[9] # "output_address"
      /\ AcquireOrder[10] # "output_address"
      /\ AcquireOrder[11] # "output_address"
    BY DEF AcquireOrder
<1>3. n \in 0 .. 14
    BY OrderLength
<1>4. i \in 1 .. 14 /\ i <= n
    BY <1>3
<1>5. i # 1 /\ i # 2 /\ i # 3 /\ i # 4 /\ i # 5 /\ i # 6 /\ i # 7 /\ i # 8
        /\ i # 9 /\ i # 10 /\ i # 11
    BY <1>1, <1>2
<1>. QED
    BY <1>3, <1>4, <1>5

Resources == {"context_", "stream_", "device_start_", "device_stop_",
              "input_device_", "output_device_", "input_host_", "output_host_"}

\* The first twelve members contain everything that work on the stream uses.
LEMMA ResourcesComeFirst ==
    ASSUME NEW n \in 0 .. Len(AcquireOrder), n >= 12
    PROVE  Resources \subseteq Acquired(n)
<1>1. /\ AcquireOrder[5] = "context_"
      /\ AcquireOrder[6] = "stream_"
      /\ AcquireOrder[7] = "device_start_"
      /\ AcquireOrder[8] = "device_stop_"
      /\ AcquireOrder[9] = "input_device_"
      /\ AcquireOrder[10] = "output_device_"
      /\ AcquireOrder[11] = "input_host_"
      /\ AcquireOrder[12] = "output_host_"
    BY DEF AcquireOrder
<1>2. n \in 12 .. 14
    BY OrderLength
<1>3. \A k \in 5 .. 12 : k \in 1 .. n
    BY <1>2
<1>4. \A k \in 5 .. 12 : AcquireOrder[k] \in Acquired(n)
    BY <1>3 DEF Acquired
<1>5. AcquireOrder[5] \in Acquired(n) /\ AcquireOrder[6] \in Acquired(n)
        /\ AcquireOrder[7] \in Acquired(n) /\ AcquireOrder[8] \in Acquired(n)
        /\ AcquireOrder[9] \in Acquired(n) /\ AcquireOrder[10] \in Acquired(n)
        /\ AcquireOrder[11] \in Acquired(n) /\ AcquireOrder[12] \in Acquired(n)
    BY <1>4
<1>. QED
    BY <1>1, <1>5 DEF Resources

-----------------------------------------------------------------------------
(* Types.                                                                  *)

\* The type invariant is inductive once the guard of an open load is kept.
TypeInv == TypeOK /\ (pc = "loading" => gen < MaxLoads)

\* The fields of a piece of work.
LEMMA WorkFields ==
    ASSUME NEW w \in Work
    PROVE  /\ w.kind \in {"h2d", "start", "compute", "stop", "d2h"}
           /\ w.call \in 0 .. MaxCalls
           /\ w.gen \in 0 .. MaxLoads
BY DEF Work, Kinds, Target

\* Every kind of work writes a buffer or an event.
LEMMA TargetIsLocation ==
    ASSUME NEW k \in {"h2d", "start", "compute", "stop", "d2h"}
    PROVE  Target[k] \in Buffers \cup Events
BY DEF Target, Buffers, Events

\* What a piece of work writes is a call number.
LEMMA WrittenIsCall ==
    ASSUME TypeOK, NEW w \in Work
    PROVE  Written(w) \in 0 .. MaxCalls
<1>1. CASE w.kind \in {"start", "stop"}
    BY <1>1, WorkFields DEF Written
<1>2. CASE w.kind \notin {"start", "stop"} /\ w.gen # gen
    BY <1>2, TensorRTAssumption DEF Written
<1>3. CASE w.kind \notin {"start", "stop"} /\ w.gen = gen
  <2>1. w.kind \in {"h2d", "compute", "d2h"}
      BY <1>3, WorkFields
  <2>2. Source[w.kind] \in Buffers \cup Events
      BY <2>1 DEF Source, Buffers, Events
  <2>3. Written(w) = data[Source[w.kind]]
      BY <1>3 DEF Written
  <2>. QED
      BY <2>2, <2>3 DEF TypeOK
<1>. QED
    BY <1>1, <1>2, <1>3

\* The oldest work on a stream that is not empty.
LEMMA HeadIsWork ==
    ASSUME TypeOK, queue # <<>>
    PROVE  Head(queue) \in Work /\ Tail(queue) \in Seq(Work)
BY HeadTailProperties DEF TypeOK

\* Issuing work keeps the type invariant.
LEMMA IssueType ==
    ASSUME TypeInv, NEW from, NEW kind \in Kinds, NEW g \in 0 .. MaxLoads,
           NEW to \in PCs \ {"loading"}, Issue(from, kind, g, to)
    PROVE  TypeInv'
<1>1. [kind |-> kind, call |-> call, gen |-> g] \in Work
    BY DEF TypeInv, TypeOK, Work
<1>2. queue' \in Seq(Work)
    BY <1>1, AppendProperties DEF TypeInv, TypeOK, Issue
<1>. QED
    BY <1>2 DEF TypeInv, TypeOK, Issue

\* The initial states satisfy the type invariant.
LEMMA InitType == Init => TypeInv
<1>. SUFFICES ASSUME Init PROVE TypeInv
    OBVIOUS
<1>1. held = Acquired(0)
    BY DEF Init, Acquired
<1>2. \E n \in 0 .. Len(AcquireOrder) : held = Acquired(n)
    BY <1>1, OrderLength
<1>3. queue \in Seq(Work)
    BY EmptySeq DEF Init
<1>4. data \in [Buffers \cup Events -> 0 .. MaxCalls]
    BY TensorRTAssumption DEF Init
<1>5. /\ gen \in 0 .. MaxLoads /\ graph \in 0 .. MaxLoads
      /\ call \in 0 .. MaxCalls /\ result \in 0 .. MaxCalls
      /\ latency \in 0 .. MaxCalls
    BY TensorRTAssumption DEF Init
<1>6. /\ pc \in PCs /\ pc # "loading" /\ model \in Models
      /\ capturing \in BOOLEAN /\ faulted \in BOOLEAN /\ ret \in BOOLEAN
    BY DEF Init, PCs
<1>. QED
    BY <1>2, <1>3, <1>4, <1>5, <1>6 DEF TypeInv, TypeOK

\* Every step keeps the type invariant.
LEMMA TypeStep == TypeInv /\ [Next]_vars => TypeInv'
<1>. SUFFICES ASSUME TypeInv, [Next]_vars PROVE TypeInv'
    OBVIOUS
<1>. USE TensorRTAssumption
<1>t. TypeOK
    BY DEF TypeInv
<1>h. PICK n \in 0 .. Len(AcquireOrder) : held = Acquired(n)
    BY <1>t DEF TypeOK
<1>1. CASE BeginLoad
    BY <1>1 DEF TypeInv, TypeOK, BeginLoad, Free, PCs
<1>2. ASSUME NEW fits \in BOOLEAN, BeginInfer(fits) PROVE TypeInv'
  <2>1. call + 1 \in 0 .. MaxCalls
      BY <1>t, <1>2 DEF TypeOK, BeginInfer
  <2>2. data' \in [Buffers \cup Events -> 0 .. MaxCalls]
      BY <1>t, <1>2, <2>1 DEF TypeOK, BeginInfer
  <2>. QED
      BY <1>t, <1>2, <2>1, <2>2 DEF TypeInv, TypeOK, BeginInfer, ResetLatency, PCs
<1>3. CASE BeginGraph
    BY <1>3 DEF TypeInv, TypeOK, BeginGraph, PCs
<1>4. CASE BeginDestroy
    BY <1>4 DEF TypeInv, TypeOK, BeginDestroy, PCs
<1>5. CASE Load
  <2>1. held \ Released = {}
      BY <1>h, NothingSurvives
  <2>2. Reach(model, held \ Released) \in 0 .. Len(AcquireOrder)
      BY <1>t, <2>1, ReachIsWithinOrder DEF TypeOK
  <2>3. PICK k \in 0 .. Reach(model, held \ Released) :
            /\ held' = (held \ Released) \cup Acquired(k)
            /\ Return(k = Len(AcquireOrder))
      BY <1>5 DEF Load
  <2>4. k \in 0 .. Len(AcquireOrder) /\ held' = Acquired(k)
      BY <2>1, <2>2, <2>3, OrderLength
  <2>5. gen' \in 0 .. MaxLoads
      BY <1>5 DEF TypeInv, TypeOK, Load
  <2>6. pc' = "idle" /\ ret' \in BOOLEAN
      BY <2>3 DEF Return
  <2>7. \E m \in 0 .. Len(AcquireOrder) : held' = Acquired(m)
      BY <2>4
  <2>8. data' \in [Buffers \cup Events -> 0 .. MaxCalls]
      BY <1>5 DEF Load, DestroyResources
  <2>9. graph' = 0 /\ latency' = 0
      BY <1>5 DEF Load, DestroyResources, Released, ResetLatency
  <2>. QED
      BY <1>5, <1>t, <2>5, <2>6, <2>7, <2>8, <2>9
      DEF TypeInv, TypeOK, Load, DestroyResources, PCs
<1>6. CASE Destroy
  <2>1. held' = Acquired(0)
      BY <1>6, <1>h, NothingSurvives DEF Destroy, Acquired
  <2>2. \E m \in 0 .. Len(AcquireOrder) : held' = Acquired(m)
      BY <2>1, OrderLength
  <2>3. data' \in [Buffers \cup Events -> 0 .. MaxCalls]
      BY <1>6 DEF Destroy, DestroyResources
  <2>4. graph' = 0 /\ latency' = 0
      BY <1>6 DEF Destroy, DestroyResources, Released, ResetLatency
  <2>. QED
      BY <1>6, <1>t, <2>2, <2>3, <2>4
      DEF TypeInv, TypeOK, Destroy, DestroyResources, PCs
<1>7. CASE CopyIn \/ RecordStart \/ RecordStop \/ CopyOut
    BY <1>7, <1>t, IssueType
    DEF CopyIn, RecordStart, RecordStop, CopyOut, Kinds, Target, PCs, TypeOK
<1>8. CASE Launch \/ Prime
    BY <1>8, <1>t, IssueType DEF Launch, Prime, Kinds, Target, PCs, TypeOK
<1>9. CASE Synchronize
    BY <1>9 DEF TypeInv, TypeOK, Synchronize, PCs
<1>10. CASE FinishInfer
  <2>1. /\ data["device_start_"] \in 0 .. MaxCalls
        /\ data["output_host_"] \in 0 .. MaxCalls
      BY <1>t DEF TypeOK, Buffers, Events
  <2>. QED
      BY <1>10, <2>1 DEF TypeInv, TypeOK, FinishInfer, Return, PCs
<1>11. CASE RefuseInfer \/ InferFails \/ AnswerGraph \/ GraphFails
    BY <1>11 DEF TypeInv, TypeOK, RefuseInfer, InferFails, AnswerGraph,
                 GraphFails, Return, PCs
<1>12. CASE BeginCapture
    BY <1>12 DEF TypeInv, TypeOK, BeginCapture, PCs
<1>13. CASE EndCapture
  <2>1. PICK ok \in BOOLEAN : graph' = (IF ok THEN gen ELSE 0) /\ Return(ok)
      BY <1>13 DEF EndCapture
  <2>2. graph' \in 0 .. MaxLoads
      BY <2>1, <1>t DEF TypeOK
  <2>3. pc' = "idle" /\ ret' \in BOOLEAN
      BY <2>1 DEF Return
  <2>. QED
      BY <1>13, <1>t, <2>2, <2>3 DEF TypeInv, TypeOK, EndCapture, PCs
<1>14. CASE DeviceStep
  <2>1. Head(queue) \in Work /\ queue' \in Seq(Work)
      BY <1>14, <1>t, HeadIsWork DEF DeviceStep
  <2>2. Written(Head(queue)) \in 0 .. MaxCalls
      BY <1>t, <2>1, WrittenIsCall
  <2>3. data' \in [Buffers \cup Events -> 0 .. MaxCalls]
      BY <1>14, <1>t, <2>2 DEF DeviceStep, TypeOK
  <2>. QED
      BY <1>14, <2>1, <2>3 DEF TypeInv, TypeOK, DeviceStep
<1>15. CASE DeviceFault
    BY <1>15 DEF TypeInv, TypeOK, DeviceFault
<1>16. CASE Destroyed \/ UNCHANGED vars
    BY <1>16 DEF TypeInv, TypeOK, Destroyed, vars
<1>. QED
    BY <1>1, <1>2, <1>3, <1>4, <1>5, <1>6, <1>7, <1>8, <1>9, <1>10, <1>11,
       <1>12, <1>13, <1>14, <1>15, <1>16
    DEF Next, Caller, Host

\* Whatever the models, the bounds, the caller and the APIs do, every state of
\* the engine and of its stream is well-formed; in particular the members set
\* are always a prefix of the order in which load acquires them.
THEOREM TypeCorrect == Spec => []TypeOK
<1>1. Init => TypeInv
    BY InitType
<1>2. TypeInv /\ [Next]_vars => TypeInv'
    BY TypeStep
<1>3. TypeInv => TypeOK
    BY DEF TypeInv
<1>. QED
    BY <1>1, <1>2, <1>3, PTL DEF Spec
-----------------------------------------------------------------------------
(* The order of work in a queue.                                           *)

\* No work of kind k in q.
None(q, k) == \A i \in 1 .. Len(q) : q[i].kind # k

\* Every work of kind k in q has one of kind l behind it.
Followed(q, k, l) ==
    \A i \in 1 .. Len(q) :
        q[i].kind = k => \E j \in 1 .. Len(q) : j > i /\ q[j].kind = l

\* Every work of kind k in q that is not of call c has another work of kind k
\* behind it.
Latest(q, k, c) ==
    \A i \in 1 .. Len(q) :
        q[i].kind = k /\ q[i].call # c =>
            \E j \in 1 .. Len(q) : j > i /\ q[j].kind = k

\* The elements of a queue that work was appended to.
LEMMA AppendElements ==
    ASSUME NEW q \in Seq(Work), NEW w \in Work
    PROVE  /\ Append(q, w) \in Seq(Work)
           /\ Len(q) \in Nat
           /\ Len(Append(q, w)) = Len(q) + 1
           /\ \A i \in 1 .. Len(q) : Append(q, w)[i] = q[i]
           /\ Append(q, w)[Len(q) + 1] = w
BY AppendProperties

\* The elements of a queue that its oldest work left.
LEMMA TailElements ==
    ASSUME NEW q \in Seq(Work), q # <<>>
    PROVE  /\ Head(q) = q[1]
           /\ Head(q) \in Work
           /\ Tail(q) \in Seq(Work)
           /\ Len(q) \in Nat \ {0}
           /\ Len(Tail(q)) = Len(q) - 1
           /\ \A i \in 1 .. Len(q) - 1 : Tail(q)[i] = q[i + 1]
<1>1. Len(q) \in Nat \ {0}
    BY EmptySeq
<1>2. Head(q) = q[1] /\ Head(q) \in Work
    BY <1>1
<1>3. Tail(q) \in Seq(Work) /\ Len(Tail(q)) = Len(q) - 1
    BY <1>1, HeadTailProperties
<1>4. \A i \in 1 .. Len(q) - 1 : Tail(q)[i] = q[i + 1]
    BY <1>1, HeadTailProperties
<1>. QED
    BY <1>1, <1>2, <1>3, <1>4

\* What appending work does to the order of a queue.
LEMMA AppendOrder ==
    ASSUME NEW q \in Seq(Work), NEW w \in Work
    PROVE  /\ ~None(Append(q, w), w.kind)
           /\ \A k : None(Append(q, w), k) => None(q, k)
           /\ \A k : k # w.kind => Followed(Append(q, w), k, w.kind)
           /\ \A k, l : w.kind # k /\ Followed(q, k, l)
                          => Followed(Append(q, w), k, l)
           /\ \A k : Latest(q, k, w.call) => Latest(Append(q, w), k, w.call)
           /\ Latest(Append(q, w), w.kind, w.call)
<1>. DEFINE r == Append(q, w)
            n == Len(q)
<1>1. /\ n \in Nat
      /\ Len(r) = n + 1
      /\ \A i \in 1 .. n : r[i] = q[i]
      /\ r[n + 1] = w
    BY AppendElements
<1>. HIDE DEF r, n
<1>2. /\ n + 1 \in 1 .. n + 1
      /\ \A i \in 1 .. n : i \in 1 .. n + 1 /\ n + 1 > i
      /\ \A i \in 1 .. n + 1 : i \in 1 .. n \/ i = n + 1
    BY <1>1
<1>3. ~None(r, w.kind)
    BY <1>1, <1>2 DEF None
<1>4. \A k : None(r, k) => None(q, k)
    BY <1>1, <1>2 DEF None, n
<1>5. \A k : k # w.kind => Followed(r, k, w.kind)
    BY <1>1, <1>2 DEF Followed
<1>6. ASSUME NEW k, NEW l, w.kind # k, Followed(q, k, l)
      PROVE  Followed(r, k, l)
  <2>. SUFFICES ASSUME NEW i \in 1 .. n + 1, r[i].kind = k
                PROVE  \E j \in 1 .. n + 1 : j > i /\ r[j].kind = l
      BY <1>1 DEF Followed
  <2>1. i \in 1 .. n /\ q[i].kind = k
      BY <1>1, <1>2, <1>6
  <2>2. PICK j \in 1 .. n : j > i /\ q[j].kind = l
      BY <2>1, <1>6 DEF Followed, n
  <2>. QED
      BY <2>2, <1>1, <1>2
<1>7. ASSUME NEW k, Latest(q, k, w.call)
      PROVE  Latest(r, k, w.call)
  <2>. SUFFICES ASSUME NEW i \in 1 .. n + 1, r[i].kind = k, r[i].call # w.call
                PROVE  \E j \in 1 .. n + 1 : j > i /\ r[j].kind = k
      BY <1>1 DEF Latest
  <2>1. i \in 1 .. n /\ q[i].kind = k /\ q[i].call # w.call
      BY <1>1, <1>2
  <2>2. PICK j \in 1 .. n : j > i /\ q[j].kind = k
      BY <2>1, <1>7 DEF Latest, n
  <2>. QED
      BY <2>2, <1>1, <1>2
<1>8. Latest(r, w.kind, w.call)
    BY <1>1, <1>2 DEF Latest
<1>. QED
    BY <1>3, <1>4, <1>5, <1>6, <1>7, <1>8 DEF r

\* What removing the oldest work does to the order of a queue.
LEMMA TailOrder ==
    ASSUME NEW q \in Seq(Work), q # <<>>
    PROVE  /\ \A k : None(Tail(q), k) /\ Head(q).kind # k => None(q, k)
           /\ \A k, l : Followed(q, k, l) => Followed(Tail(q), k, l)
           /\ \A k, l : Followed(q, k, l) /\ k # l /\ Head(q).kind = l
                          /\ None(Tail(q), l) => None(q, k)
           /\ \A k, c : Latest(q, k, c) => Latest(Tail(q), k, c)
           /\ \A k, c : Latest(q, k, c) /\ Head(q).kind = k /\ None(Tail(q), k)
                          => Head(q).call = c
<1>. DEFINE t == Tail(q)
            n == Len(q)
<1>1. /\ n \in Nat \ {0}
      /\ Len(t) = n - 1
      /\ Head(q) = q[1]
      /\ \A i \in 1 .. n - 1 : t[i] = q[i + 1]
    BY TailElements
<1>. HIDE DEF t, n
<1>2. /\ 1 \in 1 .. n
      /\ \A i \in 1 .. n - 1 : i + 1 \in 1 .. n
      /\ \A i \in 1 .. n : i # 1 => i - 1 \in 1 .. n - 1 /\ (i - 1) + 1 = i
    BY <1>1
<1>3. \A i \in 1 .. n : i # 1 => t[i - 1] = q[i]
    BY <1>1, <1>2
<1>4. ASSUME NEW k, None(t, k), Head(q).kind # k
      PROVE  None(q, k)
    BY <1>1, <1>2, <1>3, <1>4 DEF None, n
<1>5. ASSUME NEW k, NEW l, Followed(q, k, l)
      PROVE  Followed(t, k, l)
  <2>. SUFFICES ASSUME NEW i \in 1 .. n - 1, t[i].kind = k
                PROVE  \E j \in 1 .. n - 1 : j > i /\ t[j].kind = l
      BY <1>1 DEF Followed
  <2>1. i + 1 \in 1 .. n /\ q[i + 1].kind = k
      BY <1>1, <1>2
  <2>2. PICK j \in 1 .. n : j > i + 1 /\ q[j].kind = l
      BY <2>1, <1>5 DEF Followed, n
  <2>3. j # 1 /\ j - 1 \in 1 .. n - 1 /\ j - 1 > i
      BY <2>2, <1>1
  <2>4. t[j - 1].kind = l
      BY <2>2, <2>3, <1>3
  <2>. QED
      BY <2>3, <2>4
<1>6. ASSUME NEW k, NEW l, Followed(q, k, l), k # l, Head(q).kind = l, None(t, l)
      PROVE  None(q, k)
  <2>. SUFFICES ASSUME NEW i \in 1 .. n, q[i].kind = k
                PROVE  FALSE
      BY DEF None, n
  <2>1. PICK j \in 1 .. n : j > i /\ q[j].kind = l
      BY <1>6 DEF Followed, n
  <2>2. j # 1 /\ j - 1 \in 1 .. n - 1
      BY <2>1, <1>1
  <2>3. t[j - 1].kind = l
      BY <2>1, <2>2, <1>3
  <2>. QED
      BY <2>2, <2>3, <1>1, <1>6 DEF None
<1>7. ASSUME NEW k, NEW c, Latest(q, k, c)
      PROVE  Latest(t, k, c)
  <2>. SUFFICES ASSUME NEW i \in 1 .. n - 1, t[i].kind = k, t[i].call # c
                PROVE  \E j \in 1 .. n - 1 : j > i /\ t[j].kind = k
      BY <1>1 DEF Latest
  <2>1. i + 1 \in 1 .. n /\ q[i + 1].kind = k /\ q[i + 1].call # c
      BY <1>1, <1>2
  <2>2. PICK j \in 1 .. n : j > i + 1 /\ q[j].kind = k
      BY <2>1, <1>7 DEF Latest, n
  <2>3. j # 1 /\ j - 1 \in 1 .. n - 1 /\ j - 1 > i
      BY <2>2, <1>1
  <2>4. t[j - 1].kind = k
      BY <2>2, <2>3, <1>3
  <2>. QED
      BY <2>3, <2>4
<1>8. ASSUME NEW k, NEW c, Latest(q, k, c), Head(q).kind = k, None(t, k),
             Head(q).call # c
      PROVE  FALSE
  <2>1. PICK j \in 1 .. n : j > 1 /\ q[j].kind = k
      BY <1>1, <1>2, <1>8 DEF Latest, n
  <2>2. j # 1 /\ j - 1 \in 1 .. n - 1
      BY <2>1, <1>1
  <2>3. t[j - 1].kind = k
      BY <2>1, <2>2, <1>3
  <2>. QED
      BY <2>2, <2>3, <1>1, <1>8 DEF None
<1>9. /\ \A k : None(t, k) /\ Head(q).kind # k => None(q, k)
      /\ \A k, l : Followed(q, k, l) => Followed(t, k, l)
    BY <1>4, <1>5
<1>10. \A k, l : Followed(q, k, l) /\ k # l /\ Head(q).kind = l /\ None(t, l)
                   => None(q, k)
    BY <1>6
<1>11. \A k, c : Latest(q, k, c) => Latest(t, k, c)
    BY <1>7
<1>12. \A k, c : Latest(q, k, c) /\ Head(q).kind = k /\ None(t, k)
                    => Head(q).call = c
    BY <1>8
<1>. QED
    BY <1>9, <1>10, <1>11, <1>12 DEF t

-----------------------------------------------------------------------------
(* Work in flight is live.                                                 *)

AfterOut == {"readback", "drained"}
AfterStop == {"stopped", "readback", "drained"}
AfterLaunch == {"launched", "stopped", "readback", "drained"}
AfterStart == {"started", "launched", "stopped", "readback", "drained"}
AfterCopy == {"copied", "started", "launched", "stopped", "readback", "drained"}
InferSteps == {"staged", "copied", "started", "launched", "stopped",
               "readback", "drained"}

\* infer_into tests six members; the order of acquisition makes them stand
\* for the events and the rest as well, and it does so until the call ends.
LiveInv == InFlightWorkIsLive /\ (pc \in InferSteps => Resources \subseteq held)

\* Work uses nothing but the resources.
LEMMA NeedsResources ==
    ASSUME NEW w \in Work
    PROVE  Needs(w) \subseteq Resources
<1>1. w.kind \in {"h2d", "start", "compute", "stop", "d2h"}
    BY WorkFields
<1>. QED
    BY <1>1 DEF Needs, Target, Source, Resources

\* The six members that infer_into tests, or the two addresses that enqueueV3
\* uses, imply all the resources.
LEMMA ReadyHasResources ==
    ASSUME TypeOK, Ready \/ Bound
    PROVE  Resources \subseteq held
<1>1. PICK n \in 0 .. Len(AcquireOrder) : held = Acquired(n)
    BY DEF TypeOK
<1>2. n >= 12
    BY <1>1, HostBufferIsLate, AddressIsLate DEF Ready, Bound
<1>. QED
    BY <1>1, <1>2, ResourcesComeFirst

\* Issuing work of the present load keeps the stream's work alive.
LEMMA IssueLive ==
    ASSUME TypeOK, LiveInv, Resources \subseteq held, NEW from,
           NEW kind \in Kinds, NEW to, Issue(from, kind, gen, to)
    PROVE  LiveInv'
<1>. DEFINE w == [kind |-> kind, call |-> call, gen |-> gen]
<1>1. w \in Work
    BY DEF TypeOK, Work
<1>2. /\ queue \in Seq(Work) /\ queue' = Append(queue, w)
      /\ gen' = gen /\ held' = held /\ graph' = graph
    BY DEF TypeOK, Issue
<1>3. Needs(w) \subseteq held /\ w.gen = gen
    BY <1>1, NeedsResources
<1>. HIDE DEF w
<1>4. /\ Len(queue) \in Nat
      /\ Len(queue') = Len(queue) + 1
      /\ \A i \in 1 .. Len(queue) : queue'[i] = queue[i]
      /\ queue'[Len(queue) + 1] = w
    BY <1>1, <1>2, AppendElements
<1>5. ASSUME NEW i \in 1 .. Len(queue')
      PROVE  queue'[i].gen = gen' /\ Needs(queue'[i]) \subseteq held'
  <2>1. CASE i \in 1 .. Len(queue)
      BY <2>1, <1>2, <1>4 DEF LiveInv, InFlightWorkIsLive
  <2>2. CASE i = Len(queue) + 1
      BY <2>2, <1>2, <1>3, <1>4
  <2>. QED
      BY <1>4, <2>1, <2>2
<1>6. graph' \in {0, gen'}
    BY <1>2 DEF LiveInv, InFlightWorkIsLive
<1>7. Resources \subseteq held'
    BY <1>2
<1>8. InFlightWorkIsLive'
    BY <1>5, <1>6 DEF InFlightWorkIsLive, Needs
<1>. QED
    BY <1>7, <1>8 DEF LiveInv, Resources, InferSteps

\* Initially no work is on the stream.
LEMMA InitLive == Init => LiveInv
BY DEF Init, LiveInv, InFlightWorkIsLive, InferSteps

\* Every step keeps the stream's work alive.
LEMMA LiveStep == TypeInv /\ LiveInv /\ [Next]_vars => LiveInv'
<1>. SUFFICES ASSUME TypeInv, LiveInv, [Next]_vars PROVE LiveInv'
    OBVIOUS
<1>t. TypeOK
    BY DEF TypeInv
<1>k. {"h2d", "start", "compute", "stop", "d2h"} \subseteq Kinds
    BY DEF Kinds, Target
\* Steps that leave the stream, the members and the graph alone, and do not
\* enter the steps of infer_into.
<1>q. ASSUME UNCHANGED <<queue, held, gen, graph>>,
             pc' \in InferSteps => pc \in InferSteps \/ Resources \subseteq held
      PROVE  LiveInv'
    BY <1>q DEF LiveInv, InFlightWorkIsLive, Needs, Resources, InferSteps
<1>1. CASE BeginLoad
    BY <1>1, <1>q DEF BeginLoad, InferSteps
<1>2. ASSUME NEW fits \in BOOLEAN, BeginInfer(fits) PROVE LiveInv'
  <2>1. pc' \in InferSteps => Resources \subseteq held
      BY <1>2, <1>t, ReadyHasResources DEF BeginInfer, InferSteps
  <2>. QED
      BY <1>2, <2>1, <1>q DEF BeginInfer
<1>3. CASE BeginGraph
    BY <1>3, <1>q DEF BeginGraph, InferSteps
<1>4. CASE BeginDestroy
    BY <1>4, <1>q DEF BeginDestroy, InferSteps
<1>5. CASE Load
  <2>1. queue' = <<>> /\ graph' = 0 /\ pc' = "idle"
      BY <1>5 DEF Load, DestroyResources, Drained, Released, Return
  <2>. QED
      BY <2>1 DEF LiveInv, InFlightWorkIsLive, InferSteps
<1>6. CASE Destroy
  <2>1. queue' = <<>> /\ graph' = 0 /\ pc' = "destroyed"
      BY <1>6 DEF Destroy, DestroyResources, Drained, Released
  <2>. QED
      BY <2>1 DEF LiveInv, InFlightWorkIsLive, InferSteps
<1>7. CASE CopyIn \/ RecordStart \/ RecordStop \/ CopyOut
  <2>1. Resources \subseteq held
      BY <1>7 DEF CopyIn, RecordStart, RecordStop, CopyOut, Issue, LiveInv,
                  InferSteps
  <2>. QED
      BY <1>7, <1>t, <1>k, <2>1, IssueLive
      DEF CopyIn, RecordStart, RecordStop, CopyOut
<1>8. CASE Launch
  <2>1. Resources \subseteq held
      BY <1>8 DEF Launch, Issue, LiveInv, InferSteps
  <2>2. Issue("started", "compute", gen, "launched")
      BY <1>8 DEF Launch, LiveInv, InFlightWorkIsLive
  <2>. QED
      BY <1>t, <1>k, <2>1, <2>2, IssueLive
<1>9. CASE Prime
  <2>1. Resources \subseteq held
      BY <1>9, <1>t, ReadyHasResources DEF Prime
  <2>. QED
      BY <1>9, <1>t, <1>k, <2>1, IssueLive DEF Prime
<1>10. CASE Synchronize
    BY <1>10, <1>q DEF Synchronize, InferSteps
<1>11. CASE FinishInfer
    BY <1>11, <1>q DEF FinishInfer, Return, InferSteps
<1>12. CASE RefuseInfer \/ InferFails \/ AnswerGraph \/ GraphFails
    BY <1>12, <1>q DEF RefuseInfer, InferFails, AnswerGraph, GraphFails, Return,
                       InferSteps
<1>13. CASE BeginCapture
    BY <1>13, <1>q DEF BeginCapture, InferSteps
<1>14. CASE EndCapture
  <2>1. graph' \in {0, gen} /\ pc' = "idle"
      BY <1>14 DEF EndCapture, Return
  <2>2. UNCHANGED <<queue, held, gen>>
      BY <1>14 DEF EndCapture
  <2>. QED
      BY <2>1, <2>2 DEF LiveInv, InFlightWorkIsLive, Needs, InferSteps
<1>15. CASE DeviceStep
  <2>1. queue \in Seq(Work) /\ queue # <<>> /\ queue' = Tail(queue)
      BY <1>15, <1>t DEF DeviceStep, TypeOK
  <2>2. UNCHANGED <<pc, held, gen, graph>>
      BY <1>15 DEF DeviceStep
  <2>3. /\ Len(queue) \in Nat \ {0}
        /\ Len(queue') = Len(queue) - 1
        /\ \A i \in 1 .. Len(queue) - 1 : queue'[i] = queue[i + 1]
      BY <2>1, TailElements
  <2>4. \A i \in 1 .. Len(queue') : i + 1 \in 1 .. Len(queue)
      BY <2>3
  <2>5. \A i \in 1 .. Len(queue') :
            queue'[i].gen = gen' /\ Needs(queue'[i]) \subseteq held'
      BY <2>2, <2>3, <2>4 DEF LiveInv, InFlightWorkIsLive
  <2>. QED
      BY <2>2, <2>5 DEF LiveInv, InFlightWorkIsLive, Needs, Resources, InferSteps
<1>16. CASE DeviceFault
  <2>1. queue' = <<>> /\ UNCHANGED <<pc, held, gen, graph>>
      BY <1>16 DEF DeviceFault
  <2>. QED
      BY <2>1 DEF LiveInv, InFlightWorkIsLive, Resources, InferSteps
<1>17. CASE Destroyed \/ UNCHANGED vars
    BY <1>17, <1>q DEF Destroyed, vars
<1>. QED
    BY <1>1, <1>2, <1>3, <1>4, <1>5, <1>6, <1>7, <1>8, <1>9, <1>10, <1>11,
       <1>12, <1>13, <1>14, <1>15, <1>16, <1>17
    DEF Next, Caller, Host

\* No work on the stream outlives the context, stream, buffers or events it
\* uses, however many calls failed half-way and however often the object was
\* reloaded on top of them.
THEOREM InFlightWorkLives == Spec => []InFlightWorkIsLive
<1>1. Init => TypeInv /\ LiveInv
    BY InitType, InitLive
<1>2. TypeInv /\ LiveInv /\ [Next]_vars => TypeInv' /\ LiveInv'
    BY TypeStep, LiveStep
<1>3. LiveInv => InFlightWorkIsLive
    BY DEF LiveInv
<1>. QED
    BY <1>1, <1>2, <1>3, PTL DEF Spec
-----------------------------------------------------------------------------
(* The output is that of the call that hands it out.                       *)

\* How a call's data moves: once a step has been issued, either work of its
\* kind is still on the stream, the last of it being this call's, or the call's
\* number is already where that work puts it.
CopyFlow ==
    pc \in AfterCopy /\ None(queue, "h2d") => data["input_device_"] = call
ComputeFlow ==
    pc \in AfterLaunch =>
        /\ Followed(queue, "h2d", "compute")
        /\ None(queue, "compute") => data["output_device_"] = call
OutFlow ==
    pc \in AfterOut =>
        /\ Followed(queue, "compute", "d2h")
        /\ None(queue, "d2h") => data["output_host_"] = call
StartFlow ==
    pc \in AfterStart =>
        /\ Latest(queue, "start", call)
        /\ None(queue, "start") => data["device_start_"] = call
StopFlow ==
    pc \in AfterStop =>
        /\ Latest(queue, "stop", call)
        /\ None(queue, "stop") => data["device_stop_"] = call

\* After a fault nothing is promised, and no call can end well.
FlowInv ==
    /\ pc \in InferSteps => data["input_host_"] = call
    /\ pc = "drained" => queue = <<>> /\ ~faulted
    /\ ~faulted => CopyFlow /\ ComputeFlow /\ OutFlow /\ StartFlow /\ StopFlow

\* Initially no call is open.
LEMMA InitFlow == Init => FlowInv
BY DEF Init, FlowInv, CopyFlow, ComputeFlow, OutFlow, StartFlow, StopFlow,
       AfterCopy, AfterLaunch, AfterOut, AfterStart, AfterStop, InferSteps

\* A state outside infer_into, or at its first step, satisfies the invariant.
LEMMA OutsideInfer ==
    ASSUME pc' \notin InferSteps \/ (pc' = "staged" /\ data'["input_host_"] = call')
    PROVE  FlowInv'
BY DEF FlowInv, CopyFlow, ComputeFlow, OutFlow, StartFlow, StopFlow,
       AfterCopy, AfterLaunch, AfterOut, AfterStart, AfterStop, InferSteps

\* The flow invariant after a step, clause by clause.
LEMMA FlowNext ==
    ASSUME pc' \in InferSteps => data'["input_host_"] = call',
           pc' # "drained",
           pc' \in AfterCopy /\ None(queue', "h2d") => data'["input_device_"] = call',
           pc' \in AfterLaunch =>
               /\ Followed(queue', "h2d", "compute")
               /\ None(queue', "compute") => data'["output_device_"] = call',
           pc' \in AfterOut =>
               /\ Followed(queue', "compute", "d2h")
               /\ None(queue', "d2h") => data'["output_host_"] = call',
           pc' \in AfterStart =>
               /\ Latest(queue', "start", call')
               /\ None(queue', "start") => data'["device_start_"] = call',
           pc' \in AfterStop =>
               /\ Latest(queue', "stop", call')
               /\ None(queue', "stop") => data'["device_stop_"] = call'
    PROVE  FlowInv'
<1>1. CopyFlow'
    BY DEF CopyFlow, None, AfterCopy
<1>2. ComputeFlow'
    BY DEF ComputeFlow, None, Followed, AfterLaunch
<1>3. OutFlow'
    BY DEF OutFlow, None, Followed, AfterOut
<1>4. StartFlow'
    BY DEF StartFlow, None, Latest, AfterStart
<1>5. StopFlow'
    BY DEF StopFlow, None, Latest, AfterStop
<1>. QED
    BY <1>1, <1>2, <1>3, <1>4, <1>5 DEF FlowInv, InferSteps

\* What an asynchronous call changes.
LEMMA IssueFlow ==
    ASSUME TypeOK, NEW from, NEW kind \in Kinds, NEW g \in 0 .. MaxLoads, NEW to,
           Issue(from, kind, g, to)
    PROVE  LET w == [kind |-> kind, call |-> call, gen |-> g] IN
           /\ w \in Work /\ w.kind = kind /\ w.call = call
           /\ queue \in Seq(Work)
           /\ queue' = Append(queue, w)
           /\ pc = from /\ pc' = to
           /\ data' = data /\ call' = call /\ faulted' = faulted
BY DEF TypeOK, Work, Issue

\* What appending work of a kind does to the order of a queue.
LEMMA Appended ==
    ASSUME TypeOK, NEW from, NEW kind \in Kinds, NEW g \in 0 .. MaxLoads, NEW to,
           Issue(from, kind, g, to)
    PROVE  /\ pc = from /\ pc' = to
           /\ data' = data /\ call' = call /\ faulted' = faulted
           /\ ~None(queue', kind)
           /\ \A k : None(queue', k) => None(queue, k)
           /\ \A k : k # kind => Followed(queue', k, kind)
           /\ \A k, l : kind # k /\ Followed(queue, k, l)
                          => Followed(queue', k, l)
           /\ \A k : Latest(queue, k, call) => Latest(queue', k, call)
           /\ Latest(queue', kind, call)
<1>. DEFINE w == [kind |-> kind, call |-> call, gen |-> g]
<1>1. /\ w \in Work /\ w.kind = kind /\ w.call = call
      /\ queue \in Seq(Work)
      /\ queue' = Append(queue, w)
      /\ pc = from /\ pc' = to
      /\ data' = data /\ call' = call /\ faulted' = faulted
    BY IssueFlow
<1>. HIDE DEF w
<1>. QED
    BY <1>1, AppendOrder

\* The asynchronous steps of infer_into, in their order.
NextInfer(from, kind, to) ==
    \/ from = "staged" /\ kind = "h2d" /\ to = "copied"
    \/ from = "copied" /\ kind = "start" /\ to = "started"
    \/ from = "started" /\ kind = "compute" /\ to = "launched"
    \/ from = "launched" /\ kind = "stop" /\ to = "stopped"
    \/ from = "stopped" /\ kind = "d2h" /\ to = "readback"

\* An asynchronous step of infer_into keeps the flow of the call's data.
LEMMA IssueKeepsFlow ==
    ASSUME TypeOK, FlowInv, gen \in 0 .. MaxLoads,
           NEW from, NEW to, NEW kind \in Kinds,
           NextInfer(from, kind, to), Issue(from, kind, gen, to)
    PROVE  FlowInv'
<1>1. /\ pc = from /\ pc' = to
      /\ data' = data /\ call' = call /\ ~faulted
      /\ ~None(queue', kind)
      /\ \A k : None(queue', k) => None(queue, k)
      /\ \A k : k # kind => Followed(queue', k, kind)
      /\ \A k, l : kind # k /\ Followed(queue, k, l) => Followed(queue', k, l)
      /\ \A k : Latest(queue, k, call) => Latest(queue', k, call)
      /\ Latest(queue', kind, call)
    BY Appended DEF Issue
<1>2. (pc' \in InferSteps => data'["input_host_"] = call') /\ pc' # "drained"
    BY <1>1 DEF NextInfer, FlowInv, InferSteps
<1>3. CopyFlow /\ ComputeFlow /\ OutFlow /\ StartFlow /\ StopFlow
    BY <1>1 DEF FlowInv
<1>4. ASSUME pc' \in AfterCopy, None(queue', "h2d")
      PROVE  data'["input_device_"] = call'
    BY <1>1, <1>3, <1>4 DEF NextInfer, CopyFlow, AfterCopy
<1>5. ASSUME pc' \in AfterLaunch
      PROVE  /\ Followed(queue', "h2d", "compute")
             /\ None(queue', "compute") => data'["output_device_"] = call'
  <2>1. CASE kind = "compute"
      BY <1>1, <2>1
  <2>2. CASE kind \in {"stop", "d2h"}
    <3>1. pc \in AfterLaunch
        BY <1>1, <2>2 DEF NextInfer, AfterLaunch
    <3>. QED
        BY <1>1, <1>3, <2>2, <3>1 DEF ComputeFlow
  <2>. QED
      BY <1>1, <1>5, <2>1, <2>2 DEF NextInfer, AfterLaunch
<1>6. ASSUME pc' \in AfterOut
      PROVE  /\ Followed(queue', "compute", "d2h")
             /\ None(queue', "d2h") => data'["output_host_"] = call'
  <2>1. kind = "d2h"
      BY <1>1, <1>6 DEF NextInfer, AfterOut
  <2>. QED
      BY <1>1, <2>1
<1>7. ASSUME pc' \in AfterStart
      PROVE  /\ Latest(queue', "start", call')
             /\ None(queue', "start") => data'["device_start_"] = call'
  <2>1. CASE kind = "start"
      BY <1>1, <2>1
  <2>2. CASE kind # "start"
    <3>1. pc \in AfterStart
        BY <1>1, <1>7, <2>2 DEF NextInfer, AfterStart
    <3>. QED
        BY <1>1, <1>3, <2>2, <3>1 DEF StartFlow
  <2>. QED
      BY <2>1, <2>2
<1>8. ASSUME pc' \in AfterStop
      PROVE  /\ Latest(queue', "stop", call')
             /\ None(queue', "stop") => data'["device_stop_"] = call'
  <2>1. CASE kind = "stop"
      BY <1>1, <2>1
  <2>2. CASE kind # "stop"
    <3>1. pc \in AfterStop
        BY <1>1, <1>8, <2>2 DEF NextInfer, AfterStop
    <3>. QED
        BY <1>1, <1>3, <2>2, <3>1 DEF StopFlow
  <2>. QED
      BY <2>1, <2>2
<1>. QED
    BY <1>2, <1>4, <1>5, <1>6, <1>7, <1>8, FlowNext

\* The device keeps the flow of the call's data.
LEMMA DeviceFlow ==
    ASSUME TypeOK, LiveInv, FlowInv, DeviceStep
    PROVE  FlowInv'
<1>. DEFINE w == Head(queue)
<1>1. /\ queue \in Seq(Work) /\ queue # <<>> /\ queue' = Tail(queue)
      /\ w \in Work /\ w = queue[1] /\ 1 \in 1 .. Len(queue)
  <2>1. queue \in Seq(Work) /\ queue # <<>> /\ queue' = Tail(queue)
      BY DEF DeviceStep, TypeOK
  <2>2. /\ w \in Work /\ w = queue[1] /\ Len(queue) \in Nat \ {0}
      BY <2>1, TailElements
  <2>. QED
      BY <2>1, <2>2
<1>2. UNCHANGED <<pc, gen, call, faulted>>
    BY DEF DeviceStep
<1>3. /\ \A k : None(queue', k) /\ w.kind # k => None(queue, k)
      /\ \A k, l : Followed(queue, k, l) => Followed(queue', k, l)
      /\ \A k, l : Followed(queue, k, l) /\ k # l /\ w.kind = l
                     /\ None(queue', l) => None(queue, k)
      /\ \A k, c : Latest(queue, k, c) => Latest(queue', k, c)
      /\ \A k, c : Latest(queue, k, c) /\ w.kind = k /\ None(queue', k)
                     => w.call = c
    BY <1>1, TailOrder
<1>4. w.gen = gen
    BY <1>1 DEF LiveInv, InFlightWorkIsLive
<1>5. w.kind \in {"h2d", "start", "compute", "stop", "d2h"}
    BY <1>1, WorkFields
<1>6. data' = [data EXCEPT ![Target[w.kind]] = Written(w)]
    BY DEF DeviceStep
<1>7. DOMAIN data = Buffers \cup Events
    BY DEF TypeOK
<1>. HIDE DEF w
\* What each kind of work writes, and where.
<1>8. /\ data'["input_host_"] = data["input_host_"]
      /\ data'["input_device_"] =
           IF w.kind = "h2d" THEN data["input_host_"] ELSE data["input_device_"]
      /\ data'["output_device_"] =
           IF w.kind = "compute" THEN data["input_device_"]
           ELSE data["output_device_"]
      /\ data'["output_host_"] =
           IF w.kind = "d2h" THEN data["output_device_"] ELSE data["output_host_"]
      /\ data'["device_start_"] =
           IF w.kind = "start" THEN w.call ELSE data["device_start_"]
      /\ data'["device_stop_"] =
           IF w.kind = "stop" THEN w.call ELSE data["device_stop_"]
  <2>1. CASE w.kind = "h2d"
    <3>1. data' = [data EXCEPT !["input_device_"] = data["input_host_"]]
        BY <1>4, <1>6, <2>1 DEF Target, Written, Source
    <3>. QED
        BY <1>7, <2>1, <3>1 DEF Buffers, Events
  <2>2. CASE w.kind = "compute"
    <3>1. data' = [data EXCEPT !["output_device_"] = data["input_device_"]]
        BY <1>4, <1>6, <2>2 DEF Target, Written, Source
    <3>. QED
        BY <1>7, <2>2, <3>1 DEF Buffers, Events
  <2>3. CASE w.kind = "d2h"
    <3>1. data' = [data EXCEPT !["output_host_"] = data["output_device_"]]
        BY <1>4, <1>6, <2>3 DEF Target, Written, Source
    <3>. QED
        BY <1>7, <2>3, <3>1 DEF Buffers, Events
  <2>4. CASE w.kind = "start"
    <3>1. data' = [data EXCEPT !["device_start_"] = w.call]
        BY <1>6, <2>4 DEF Target, Written
    <3>. QED
        BY <1>7, <2>4, <3>1 DEF Buffers, Events
  <2>5. CASE w.kind = "stop"
    <3>1. data' = [data EXCEPT !["device_stop_"] = w.call]
        BY <1>6, <2>5 DEF Target, Written
    <3>. QED
        BY <1>7, <2>5, <3>1 DEF Buffers, Events
  <2>. QED
      BY <1>5, <2>1, <2>2, <2>3, <2>4, <2>5
<1>9. (pc' \in InferSteps => data'["input_host_"] = call') /\ pc' # "drained"
    BY <1>1, <1>2, <1>8 DEF FlowInv
<1>. SUFFICES ASSUME ~faulted
              PROVE  CopyFlow' /\ ComputeFlow' /\ OutFlow' /\ StartFlow' /\ StopFlow'
    BY <1>2, <1>9 DEF FlowInv
<1>10. CopyFlow'
  <2>. SUFFICES ASSUME pc \in AfterCopy, None(queue', "h2d")
                PROVE  data'["input_device_"] = call
      BY <1>2 DEF CopyFlow, None, AfterCopy
  <2>1. pc \in InferSteps /\ data["input_host_"] = call
      BY DEF FlowInv, AfterCopy, InferSteps
  <2>2. w.kind # "h2d" => None(queue, "h2d")
      BY <1>3
  <2>. QED
      BY <1>8, <2>1, <2>2 DEF FlowInv, CopyFlow
<1>11. ComputeFlow'
  <2>. SUFFICES ASSUME pc \in AfterLaunch
                PROVE  /\ Followed(queue', "h2d", "compute")
                       /\ None(queue', "compute") => data'["output_device_"] = call
      BY <1>2 DEF ComputeFlow, None, Followed, AfterLaunch
  <2>1. Followed(queue, "h2d", "compute")
      BY DEF FlowInv, ComputeFlow
  <2>2. ASSUME None(queue', "compute"), w.kind = "compute"
        PROVE  data["input_device_"] = call
    <3>1. None(queue, "h2d")
        BY <1>3, <2>1, <2>2
    <3>. QED
        BY <3>1 DEF FlowInv, CopyFlow, AfterCopy, AfterLaunch
  <2>3. ASSUME None(queue', "compute"), w.kind # "compute"
        PROVE  data["output_device_"] = call
      BY <1>3, <2>3 DEF FlowInv, ComputeFlow
  <2>. QED
      BY <1>3, <1>8, <2>1, <2>2, <2>3
<1>12. OutFlow'
  <2>. SUFFICES ASSUME pc \in AfterOut
                PROVE  /\ Followed(queue', "compute", "d2h")
                       /\ None(queue', "d2h") => data'["output_host_"] = call
      BY <1>2 DEF OutFlow, None, Followed, AfterOut
  <2>1. Followed(queue, "compute", "d2h")
      BY DEF FlowInv, OutFlow
  <2>2. ASSUME None(queue', "d2h"), w.kind = "d2h"
        PROVE  data["output_device_"] = call
    <3>1. None(queue, "compute")
        BY <1>3, <2>1, <2>2
    <3>. QED
        BY <3>1 DEF FlowInv, ComputeFlow, AfterLaunch, AfterOut
  <2>3. ASSUME None(queue', "d2h"), w.kind # "d2h"
        PROVE  data["output_host_"] = call
      BY <1>3, <2>3 DEF FlowInv, OutFlow
  <2>. QED
      BY <1>3, <1>8, <2>1, <2>2, <2>3
<1>13. StartFlow'
  <2>. SUFFICES ASSUME pc \in AfterStart
                PROVE  /\ Latest(queue', "start", call)
                       /\ None(queue', "start") => data'["device_start_"] = call
      BY <1>2 DEF StartFlow, None, Latest, AfterStart
  <2>1. Latest(queue, "start", call)
      BY DEF FlowInv, StartFlow
  <2>2. None(queue', "start") /\ w.kind # "start" => data["device_start_"] = call
      BY <1>3 DEF FlowInv, StartFlow
  <2>. QED
      BY <1>3, <1>8, <2>1, <2>2
<1>14. StopFlow'
  <2>. SUFFICES ASSUME pc \in AfterStop
                PROVE  /\ Latest(queue', "stop", call)
                       /\ None(queue', "stop") => data'["device_stop_"] = call
      BY <1>2 DEF StopFlow, None, Latest, AfterStop
  <2>1. Latest(queue, "stop", call)
      BY DEF FlowInv, StopFlow
  <2>2. None(queue', "stop") /\ w.kind # "stop" => data["device_stop_"] = call
      BY <1>3 DEF FlowInv, StopFlow
  <2>. QED
      BY <1>3, <1>8, <2>1, <2>2
<1>. QED
    BY <1>10, <1>11, <1>12, <1>13, <1>14

\* Every step keeps the flow of the call's data.
LEMMA FlowStep == TypeInv /\ LiveInv /\ FlowInv /\ [Next]_vars => FlowInv'
<1>. SUFFICES ASSUME TypeInv, LiveInv, FlowInv, [Next]_vars PROVE FlowInv'
    OBVIOUS
<1>t. TypeOK
    BY DEF TypeInv
<1>k. {"h2d", "start", "compute", "stop", "d2h"} \subseteq Kinds
    BY DEF Kinds, Target
<1>1. CASE BeginLoad \/ BeginGraph \/ BeginDestroy \/ Load \/ Destroy
    BY <1>1, OutsideInfer
    DEF BeginLoad, BeginGraph, BeginDestroy, Load, Destroy, Return, InferSteps
<1>2. ASSUME NEW fits \in BOOLEAN, BeginInfer(fits) PROVE FlowInv'
  <2>1. "input_host_" \in DOMAIN data
      BY <1>t DEF TypeOK, Buffers
  <2>. QED
      BY <1>2, <2>1, OutsideInfer DEF BeginInfer, InferSteps
<1>3. CASE CopyIn \/ RecordStart \/ Launch \/ RecordStop \/ CopyOut
  <2>1. gen \in 0 .. MaxLoads /\ (graph = 0 \/ graph = gen)
      BY <1>t DEF TypeOK, LiveInv, InFlightWorkIsLive
  <2>2. \E from, to : \E kind \in Kinds :
            NextInfer(from, kind, to) /\ Issue(from, kind, gen, to)
      BY <1>3, <1>k, <2>1
      DEF CopyIn, RecordStart, Launch, RecordStop, CopyOut, NextInfer
  <2>. QED
      BY <1>t, <2>1, <2>2, IssueKeepsFlow
<1>8. CASE Prime
    BY <1>8, OutsideInfer DEF Prime, Issue, InferSteps
<1>9. CASE Synchronize
    BY <1>9
    DEF Synchronize, Drained, FlowInv, CopyFlow, ComputeFlow, OutFlow, StartFlow,
        StopFlow, AfterCopy, AfterLaunch, AfterOut, AfterStart, AfterStop,
        InferSteps, None, Followed, Latest
<1>10. CASE FinishInfer \/ RefuseInfer \/ InferFails \/ AnswerGraph \/ GraphFails
              \/ BeginCapture \/ EndCapture
  <2>1. pc' = "idle" \/ pc' = "capturing"
      BY <1>10 DEF FinishInfer, RefuseInfer, InferFails, AnswerGraph, GraphFails,
                   BeginCapture, EndCapture, Return
  <2>. QED
      BY <2>1, OutsideInfer DEF InferSteps
<1>11. CASE DeviceStep
    BY <1>11, <1>t, DeviceFlow
<1>12. CASE DeviceFault
    BY <1>12 DEF DeviceFault, FlowInv
<1>13. CASE Destroyed \/ UNCHANGED vars
  <2>1. /\ pc' = pc /\ data' = data /\ queue' = queue /\ call' = call
        /\ faulted' = faulted
      BY <1>13 DEF Destroyed, vars
  <2>. QED
      BY <2>1
      DEF FlowInv, CopyFlow, ComputeFlow, OutFlow, StartFlow, StopFlow,
          AfterCopy, AfterLaunch, AfterOut, AfterStart, AfterStop,
          InferSteps, None, Followed, Latest
<1>. QED
    BY <1>1, <1>2, <1>3, <1>8, <1>9, <1>10, <1>11, <1>12, <1>13
    DEF Next, Caller, Host

\* Once the stream is empty, the flow has arrived.
LEMMA FlowGivesOutput == FlowInv => OutputIsOfThisCall
<1>. SUFFICES ASSUME FlowInv, pc = "drained" PROVE OutputIsOfThisCall
    BY DEF OutputIsOfThisCall
<1>1. queue = <<>> /\ ~faulted
    BY DEF FlowInv
<1>2. \A k : None(queue, k)
    BY <1>1 DEF None
<1>. QED
    BY <1>1, <1>2
    DEF FlowInv, OutFlow, StartFlow, StopFlow, AfterOut, AfterStart, AfterStop,
        OutputIsOfThisCall

\* Every output that infer_into hands out, and every pair of events it takes a
\* latency from, is of the very call that hands it out: earlier calls that
\* failed half-way, graph primings and reloads leave nothing that could pass
\* for it.
THEOREM OutputOfThisCall == Spec => []OutputIsOfThisCall
<1>1. Init => TypeInv /\ LiveInv /\ FlowInv
    BY InitType, InitLive, InitFlow
<1>2. TypeInv /\ LiveInv /\ FlowInv /\ [Next]_vars
        => TypeInv' /\ LiveInv' /\ FlowInv'
    BY TypeStep, LiveStep, FlowStep
<1>3. FlowInv => OutputIsOfThisCall
    BY FlowGivesOutput
<1>. QED
    BY <1>1, <1>2, <1>3, PTL DEF Spec

-----------------------------------------------------------------------------
(* Captures, and the answer of load.                                       *)

\* Every step keeps captures closed outside their operation.
LEMMA CaptureStep == CaptureIsClosed /\ [Next]_vars => CaptureIsClosed'
<1>. SUFFICES ASSUME CaptureIsClosed, [Next]_vars PROVE CaptureIsClosed'
    OBVIOUS
<1>1. CASE BeginLoad \/ BeginGraph \/ BeginDestroy \/ Load \/ Destroy
    BY <1>1 DEF CaptureIsClosed, BeginLoad, BeginGraph, BeginDestroy, Load,
                Destroy, DestroyResources, Free
<1>2. ASSUME NEW fits \in BOOLEAN, BeginInfer(fits) PROVE CaptureIsClosed'
    BY <1>2 DEF CaptureIsClosed, BeginInfer, Free
<1>3. CASE CopyIn \/ RecordStart \/ Launch \/ RecordStop \/ CopyOut \/ Prime
    BY <1>3 DEF CaptureIsClosed, CopyIn, RecordStart, Launch, RecordStop,
                CopyOut, Prime, Issue
<1>4. CASE Synchronize \/ FinishInfer \/ RefuseInfer \/ InferFails
              \/ AnswerGraph \/ GraphFails
    BY <1>4 DEF CaptureIsClosed, Synchronize, FinishInfer, RefuseInfer,
                InferFails, AnswerGraph, GraphFails, Return
<1>5. CASE BeginCapture \/ EndCapture
    BY <1>5 DEF CaptureIsClosed, BeginCapture, EndCapture
<1>6. CASE DeviceStep \/ DeviceFault \/ Destroyed \/ UNCHANGED vars
    BY <1>6 DEF CaptureIsClosed, DeviceStep, DeviceFault, Destroyed, vars
<1>. QED
    BY <1>1, <1>2, <1>3, <1>4, <1>5, <1>6 DEF Next, Caller, Host

\* enable_cuda_graph never returns with the stream in capture mode, whichever
\* of its steps fails.
THEOREM CaptureCloses == Spec => []CaptureIsClosed
<1>1. Init => CaptureIsClosed
    BY DEF Init, CaptureIsClosed
<1>. QED
    BY <1>1, CaptureStep, PTL DEF Spec

\* A load that starts from nothing can acquire everything exactly if the file
\* is supported.
LEMMA ReachOfSupported ==
    ASSUME NEW m \in Models
    PROVE  Reach(m, {}) = Len(AcquireOrder) <=> Supported(m)
BY OrderLength, TensorRTAssumption
DEF Reach, LoadOnnx, LoadSerializedEngine, InitializeExecution, Supported, Defects

\* One step: an operation that leaves "loading" is load, and its answer is that
\* of the file.
LEMMA LoadStep ==
    ASSUME ~Refusals, TypeOK, [Next]_vars, pc = "loading", pc' # "loading", ~faulted
    PROVE  ret' <=> Supported(model)
<1>1. Load
  <2>1. ASSUME NEW fits \in BOOLEAN PROVE ~BeginInfer(fits)
      BY DEF BeginInfer, Free
  <2>2. ~BeginLoad /\ ~BeginGraph /\ ~BeginDestroy /\ ~Destroy
      BY DEF BeginLoad, BeginGraph, BeginDestroy, Destroy, Free
  <2>3. ~CopyIn /\ ~RecordStart /\ ~Launch /\ ~RecordStop /\ ~CopyOut /\ ~Prime
      BY DEF CopyIn, RecordStart, Launch, RecordStop, CopyOut, Prime, Issue
  <2>4. ~Synchronize /\ ~FinishInfer /\ ~RefuseInfer /\ ~InferFails
      BY DEF Synchronize, FinishInfer, RefuseInfer, InferFails
  <2>5. ~AnswerGraph /\ ~GraphFails /\ ~BeginCapture /\ ~EndCapture
      BY DEF AnswerGraph, GraphFails, BeginCapture, EndCapture
  <2>6. ~DeviceStep /\ ~DeviceFault /\ ~Destroyed /\ ~UNCHANGED vars
      BY DEF DeviceStep, DeviceFault, Destroyed, vars
  <2>. QED
      BY <2>1, <2>2, <2>3, <2>4, <2>5, <2>6 DEF Next, Caller, Host
<1>2. held \ Released = {}
    BY NothingSurvives DEF TypeOK
<1>3. PICK n \in 0 .. Reach(model, {}) :
          /\ n < Reach(model, {}) => Refusals \/ faulted
          /\ Return(n = Len(AcquireOrder))
    BY <1>1, <1>2 DEF Load
<1>4. model \in Models /\ Reach(model, {}) \in Nat
  <2>1. model \in Models
      BY DEF TypeOK
  <2>2. Reach(model, {}) \in 0 .. 14
      BY <2>1, ReachIsWithinOrder, OrderLength
  <2>. QED
      BY <2>1, <2>2
<1>5. n = Reach(model, {})
    BY <1>3, <1>4
<1>. QED
    BY <1>3, <1>4, <1>5, ReachOfSupported DEF Return

\* Where no API refuses, load answers for the file alone, whatever was loaded,
\* half-loaded or abandoned before it, for any set of files.
THEOREM LoadAnswers ==
    ASSUME ~Refusals
    PROVE  Spec => LoadAnswersForTheFile
<1>1. TypeOK /\ [Next]_vars
        => [pc = "loading" /\ pc' # "loading" /\ ~faulted
              => (ret' <=> Supported(model))]_vars
    BY LoadStep
<1>. QED
    BY <1>1, TypeCorrect, PTL DEF Spec, LoadAnswersForTheFile

-----------------------------------------------------------------------------
(* The backend implements the interface.                                   *)

\* What the refinement needs beside the invariants above: nothing is held
\* before the first load, a graph and a launched computation stand for a
\* complete load, priming starts without a graph, and an open inference has
\* neither output nor latency.
ContractInv ==
    /\ gen = 0 => held = {}
    /\ graph # 0 => Complete
    /\ pc \in AfterLaunch \cup {"primed", "capturing"} => Complete
    /\ pc \in {"priming", "primed", "capturing"} => graph = 0
    /\ pc \in InferSteps \cup {"refused"} => result = 0 /\ latency = 0

\* Whoever has the output address bound has every member.
LEMMA BoundIsComplete ==
    ASSUME TypeOK, Bound
    PROVE  Complete
<1>1. PICK n \in 0 .. Len(AcquireOrder) : held = Acquired(n)
    BY DEF TypeOK
<1>2. PICK i \in 1 .. n : AcquireOrder[i] = "output_address"
    BY <1>1 DEF Bound, Acquired
<1>3. /\ AcquireOrder[12] # "output_address"
      /\ AcquireOrder[13] # "output_address"
    BY DEF AcquireOrder
<1>4. n \in 12 .. 14
    BY <1>1, AddressIsLate, OrderLength DEF Bound
<1>5. i \in 12 .. 14
  <2>1. Acquired(i) \subseteq Members /\ "output_address" \in Acquired(i)
      BY <1>2, <1>4, OrderLength, AcquiredAreMembers DEF Acquired
  <2>2. i \in 0 .. Len(AcquireOrder)
      BY <1>4, OrderLength
  <2>3. i >= 12
      BY <2>1, <2>2, AddressIsLate
  <2>. QED
      BY <2>2, <2>3, OrderLength
<1>6. n = 14
    BY <1>2, <1>3, <1>4, <1>5
<1>. QED
    BY <1>1, <1>6, OrderLength DEF Complete, Acquired, Members

\* A load that stops short of the last member is not complete.
LEMMA CompleteIsAll ==
    ASSUME NEW n \in 0 .. Len(AcquireOrder)
    PROVE  Acquired(n) = Members <=> n = Len(AcquireOrder)
<1>1. CASE n = 14
    BY <1>1, OrderLength DEF Acquired, Members
<1>2. CASE n # 14
  <2>1. n \in 0 .. 13
      BY <1>2, OrderLength
  <2>2. "output_address" \in Members
    <3>1. AcquireOrder[14] = "output_address" /\ 14 \in 1 .. Len(AcquireOrder)
        BY OrderLength DEF AcquireOrder
    <3>. QED
        BY <3>1 DEF Members
  <2>3. "output_address" \notin Acquired(n)
    <3>1. \A i \in 1 .. 13 : AcquireOrder[i] # "output_address"
        BY DEF AcquireOrder
    <3>2. \A i \in 1 .. n : i \in 1 .. 13
        BY <2>1
    <3>. QED
        BY <3>1, <3>2 DEF Acquired
  <2>. QED
      BY <1>2, <2>2, <2>3, OrderLength
<1>. QED
    BY <1>1, <1>2

\* The initial states satisfy the refinement's invariant.
LEMMA InitContract == Init => ContractInv
BY DEF Init, ContractInv, AfterLaunch, InferSteps

\* Every step keeps the refinement's invariant.
LEMMA ContractStep ==
    TypeInv /\ LiveInv /\ ContractInv /\ [Next]_vars => ContractInv'
<1>. SUFFICES ASSUME TypeInv, LiveInv, ContractInv, [Next]_vars
              PROVE  ContractInv'
    OBVIOUS
<1>. USE DEF AfterLaunch, InferSteps
<1>t. TypeOK
    BY DEF TypeInv
<1>1. CASE BeginLoad \/ BeginDestroy
    BY <1>1 DEF ContractInv, BeginLoad, BeginDestroy, Complete
<1>2. ASSUME NEW fits \in BOOLEAN, BeginInfer(fits) PROVE ContractInv'
    BY <1>2 DEF ContractInv, BeginInfer, Complete, ResetLatency
<1>3. CASE BeginGraph
    BY <1>3 DEF ContractInv, BeginGraph, Complete
<1>4. CASE Load
  <2>1. gen' # 0
      BY <1>4, <1>t DEF Load, TypeOK
  <2>2. graph' = 0 /\ pc' = "idle"
      BY <1>4 DEF Load, DestroyResources, Released, Return
  <2>. QED
      BY <2>1, <2>2 DEF ContractInv
<1>5. CASE Destroy
  <2>1. graph' = 0 /\ pc' = "destroyed" /\ gen' = gen /\ held' \subseteq held
      BY <1>5 DEF Destroy, DestroyResources, Released
  <2>. QED
      BY <2>1 DEF ContractInv
<1>6. CASE CopyIn \/ RecordStart \/ RecordStop \/ CopyOut
    BY <1>6 DEF ContractInv, CopyIn, RecordStart, RecordStop, CopyOut, Issue,
                Complete
<1>7. CASE Launch
  <2>1. Complete
      BY <1>7, <1>t, BoundIsComplete DEF Launch, ContractInv
  <2>. QED
      BY <1>7, <2>1 DEF ContractInv, Launch, Issue, Complete
<1>8. CASE Prime
  <2>1. Complete
      BY <1>8, <1>t, BoundIsComplete DEF Prime
  <2>. QED
      BY <1>8, <2>1 DEF ContractInv, Prime, Issue, Complete
<1>9. CASE Synchronize \/ FinishInfer \/ RefuseInfer \/ InferFails
              \/ AnswerGraph \/ GraphFails
    BY <1>9 DEF ContractInv, Synchronize, FinishInfer, RefuseInfer, InferFails,
                AnswerGraph, GraphFails, Return, Complete
<1>10. CASE BeginCapture
    BY <1>10 DEF ContractInv, BeginCapture, Complete
<1>11. CASE EndCapture
    BY <1>11 DEF ContractInv, EndCapture, Return, Complete
<1>12. CASE DeviceStep \/ DeviceFault
    BY <1>12 DEF ContractInv, DeviceStep, DeviceFault, Complete
<1>13. CASE Destroyed \/ UNCHANGED vars
    BY <1>13 DEF ContractInv, Destroyed, vars, Complete
<1>. QED
    BY <1>1, <1>2, <1>3, <1>4, <1>5, <1>6, <1>7, <1>8, <1>9, <1>10, <1>11,
       <1>12, <1>13
    DEF Next, Caller, Host

\* The initial states are initial states of the interface.
LEMMA InitRefines == Init => Contract!Init
BY CompleteIsAll, OrderLength
DEF Init, Contract!Init, OpenOperation, Complete, Members, AcquireOrder

\* Every step of the backend is a step of the interface or a stutter.
LEMMA StepRefines ==
    TypeInv /\ LiveInv /\ FlowInv /\ ContractInv /\ [Next]_vars
        => [Contract!Next(TRUE)]_(Contract!vars)
<1>. SUFFICES ASSUME TypeInv, LiveInv, FlowInv, ContractInv, [Next]_vars
              PROVE  Contract!Next(TRUE) \/ UNCHANGED Contract!vars
    OBVIOUS
<1>. USE DEF OpenOperation
<1>t. TypeOK
    BY DEF TypeInv
<1>1. CASE BeginLoad
  <2>. Contract!BeginLoad
      BY <1>1 DEF Contract!BeginLoad, BeginLoad, Free, Complete
  <2>. QED
      BY DEF Contract!Next
<1>2. ASSUME NEW fits \in BOOLEAN, BeginInfer(fits)
      PROVE  Contract!Next(TRUE) \/ UNCHANGED Contract!vars
  <2>. Contract!BeginInfer
      BY <1>2 DEF Contract!BeginInfer, BeginInfer, Free, Complete, ResetLatency
  <2>. QED
      BY DEF Contract!Next
<1>3. CASE BeginGraph
  <2>. Contract!BeginGraph
      BY <1>3 DEF Contract!BeginGraph, BeginGraph, Free, Complete
  <2>. QED
      BY DEF Contract!Next
<1>4. CASE BeginDestroy
  <2>. Contract!BeginDelete
      BY <1>4 DEF Contract!BeginDelete, BeginDestroy, Complete
  <2>. QED
      BY DEF Contract!Next
<1>5. CASE Load
  <2>1. held \ Released = {}
      BY <1>t, NothingSurvives DEF TypeOK
  <2>2. PICK n \in 0 .. Reach(model, {}) :
            held' = Acquired(n) /\ Return(n = Len(AcquireOrder))
      BY <1>5, <2>1 DEF Load
  <2>3. n \in 0 .. Len(AcquireOrder)
    <3>1. model \in Models
        BY <1>t DEF TypeOK
    <3>2. Reach(model, {}) \in 0 .. 14
        BY <3>1, ReachIsWithinOrder, OrderLength
    <3>. QED
        BY <3>2, OrderLength
  <2>4. Complete' <=> n = Len(AcquireOrder)
      BY <2>2, <2>3, CompleteIsAll DEF Complete
  <2>5. /\ pc = "loading" /\ pc' = "idle" /\ graph' = 0 /\ latency' = 0
        /\ call' = call /\ result' = result
      BY <1>5, <2>2 DEF Load, DestroyResources, Released, ResetLatency, Return
  <2>6. Contract!EndLoad(n = Len(AcquireOrder))
      BY <2>4, <2>5 DEF Contract!EndLoad, Complete
  <2>. QED
      BY <2>6 DEF Contract!Next
<1>6. CASE Destroy
  <2>1. held' = {}
      BY <1>6, <1>t, NothingSurvives DEF TypeOK, Destroy
  <2>2. ~Complete'
      BY <2>1 DEF Complete, Members, AcquireOrder
  <2>3. /\ pc = "closing" /\ pc' = "destroyed" /\ graph' = 0 /\ latency' = 0
        /\ call' = call /\ result' = result
      BY <1>6 DEF Destroy, DestroyResources, Released, ResetLatency
  <2>4. Contract!EndDelete
      BY <2>2, <2>3 DEF Contract!EndDelete, Complete
  <2>. QED
      BY <2>4 DEF Contract!Next
<1>7. CASE CopyIn \/ RecordStart \/ Launch \/ RecordStop \/ CopyOut \/ Prime
    BY <1>7 DEF Contract!vars, CopyIn, RecordStart, Launch, RecordStop, CopyOut,
                Prime, Issue, Complete
<1>8. CASE Synchronize \/ BeginCapture
    BY <1>8 DEF Contract!vars, Synchronize, BeginCapture, Complete
<1>9. CASE FinishInfer
  <2>1. /\ data["output_host_"] = call
        /\ data["device_start_"] = call /\ data["device_stop_"] = call
      BY <1>9, FlowGivesOutput DEF FinishInfer, OutputIsOfThisCall
  <2>2. Complete
      BY <1>9 DEF ContractInv, FinishInfer, AfterLaunch
  <2>3. Contract!EndInfer(TRUE, TRUE)
      BY <1>9, <2>1, <2>2 DEF Contract!EndInfer, FinishInfer, Return, Complete
  <2>. QED
      BY <2>3 DEF Contract!Next
<1>10. CASE RefuseInfer \/ InferFails
  <2>. Contract!EndInfer(FALSE, TRUE)
      BY <1>10 DEF Contract!EndInfer, RefuseInfer, InferFails, Return, Complete,
                   ContractInv, InferSteps
  <2>. QED
      BY DEF Contract!Next
<1>11. CASE AnswerGraph
  <2>. Contract!EndGraph(graph # 0)
      BY <1>11 DEF Contract!EndGraph, AnswerGraph, Return, Complete, ContractInv
  <2>. QED
      BY DEF Contract!Next
<1>12. CASE GraphFails
  <2>. Contract!EndGraph(FALSE)
      BY <1>12 DEF Contract!EndGraph, GraphFails, Return, Complete, ContractInv
  <2>. QED
      BY DEF Contract!Next
<1>13. CASE EndCapture
  <2>1. PICK ok \in BOOLEAN :
            graph' = (IF ok THEN gen ELSE 0) /\ Return(ok)
      BY <1>13 DEF EndCapture
  <2>2. Complete /\ graph = 0 /\ gen # 0
    <3>1. Complete /\ graph = 0 /\ (gen = 0 => held = {})
        BY <1>13 DEF ContractInv, EndCapture
    <3>2. Members # {}
        BY DEF Members, AcquireOrder
    <3>. QED
        BY <3>1, <3>2 DEF Complete
  <2>3. Contract!EndGraph(ok)
      BY <1>13, <2>1, <2>2 DEF Contract!EndGraph, EndCapture, Return, Complete
  <2>. QED
      BY <2>3 DEF Contract!Next
<1>14. CASE DeviceStep \/ DeviceFault
    BY <1>14 DEF Contract!vars, DeviceStep, DeviceFault, Complete
<1>15. CASE Destroyed \/ UNCHANGED vars
    BY <1>15 DEF Contract!vars, Destroyed, vars, Complete
<1>. QED
    BY <1>1, <1>2, <1>3, <1>4, <1>5, <1>6, <1>7, <1>8, <1>9, <1>10, <1>11,
       <1>12, <1>13, <1>14, <1>15
    DEF Next, Caller, Host

\* The TensorRT backend implements the interface: what a caller sees of load,
\* infer_into, enable_cuda_graph, the latency and the destructor, whatever the
\* device and the APIs do, is what the interface allows.
THEOREM BackendImplementsContract == Spec => EngineContract
<1>1. Init => TypeInv /\ LiveInv /\ FlowInv /\ ContractInv
    BY InitType, InitLive, InitFlow, InitContract
<1>2. TypeInv /\ LiveInv /\ FlowInv /\ ContractInv /\ [Next]_vars
        => TypeInv' /\ LiveInv' /\ FlowInv' /\ ContractInv'
    BY TypeStep, LiveStep, FlowStep, ContractStep
<1>. QED
    BY <1>1, <1>2, InitRefines, StepRefines, PTL
    DEF Spec, EngineContract, Contract!TimedSpec

-----------------------------------------------------------------------------
(* The pinned input buffer.                                                *)

\* A caller that stops at the first failure: while an operation is open the
\* one before it succeeded, and then no copy out of the pinned input buffer is
\* pending but that of the open inference.
StageInv ==
    /\ pc \notin {"idle", "closing", "destroyed"} => ret
    /\ ret /\ pc \notin AfterCopy => NotPending("h2d")

\* Initially nothing is pending.
LEMMA InitStage == Init => StageInv
BY DEF Init, StageInv, NotPending

\* Every step keeps it, if the caller does not retry.
LEMMA StageStep ==
    ASSUME ~Retries
    PROVE  TypeInv /\ FlowInv /\ StageInv /\ [Next]_vars => StageInv'
<1>. SUFFICES ASSUME TypeInv, FlowInv, StageInv, [Next]_vars PROVE StageInv'
    OBVIOUS
<1>. USE DEF AfterCopy
<1>t. TypeOK
    BY DEF TypeInv
<1>1. CASE BeginLoad \/ BeginGraph \/ BeginDestroy
    BY <1>1 DEF StageInv, BeginLoad, BeginGraph, BeginDestroy, Free, NotPending
<1>2. ASSUME NEW fits \in BOOLEAN, BeginInfer(fits) PROVE StageInv'
    BY <1>2 DEF StageInv, BeginInfer, Free, NotPending
<1>3. CASE Load \/ Destroy
  <2>1. queue' = <<>> /\ pc' \in {"idle", "destroyed"}
      BY <1>3 DEF Load, Destroy, DestroyResources, Drained, Return
  <2>. QED
      BY <2>1 DEF StageInv, NotPending
<1>4. CASE CopyIn \/ RecordStart \/ Launch \/ RecordStop \/ CopyOut
  <2>1. ret' = ret /\ ret /\ pc' \in AfterCopy
      BY <1>4 DEF StageInv, CopyIn, RecordStart, Launch, RecordStop, CopyOut, Issue
  <2>. QED
      BY <2>1 DEF StageInv
<1>5. CASE Prime
  <2>. DEFINE w == [kind |-> "compute", call |-> call, gen |-> gen]
  <2>1. /\ queue \in Seq(Work) /\ w \in Work /\ w.kind # "h2d"
        /\ queue' = Append(queue, w)
        /\ pc = "priming" /\ pc' = "primed" /\ ret' = ret
      BY <1>5, <1>t DEF Prime, Issue, TypeOK, Work, Kinds, Target
  <2>2. NotPending("h2d") /\ ret
      BY <2>1 DEF StageInv
  <2>. HIDE DEF w
  <2>3. /\ Len(queue) \in Nat /\ Len(queue') = Len(queue) + 1
        /\ \A i \in 1 .. Len(queue) : queue'[i] = queue[i]
        /\ queue'[Len(queue) + 1] = w
      BY <2>1, AppendElements
  <2>4. ASSUME NEW i \in 1 .. Len(queue') PROVE queue'[i].kind # "h2d"
    <3>1. CASE i \in 1 .. Len(queue)
        BY <2>2, <2>3, <3>1 DEF NotPending
    <3>2. CASE i = Len(queue) + 1
        BY <2>1, <2>3, <3>2
    <3>. QED
        BY <2>3, <3>1, <3>2
  <2>5. NotPending("h2d")'
      BY <2>4 DEF NotPending
  <2>. QED
      BY <2>1, <2>2, <2>5 DEF StageInv
<1>6. CASE Synchronize
    BY <1>6 DEF StageInv, Synchronize
<1>7. CASE FinishInfer
    BY <1>7 DEF StageInv, FlowInv, FinishInfer, Return, NotPending
<1>8. CASE RefuseInfer \/ InferFails \/ GraphFails
    BY <1>8 DEF StageInv, RefuseInfer, InferFails, GraphFails, Return
<1>9. CASE AnswerGraph \/ EndCapture \/ BeginCapture
    BY <1>9 DEF StageInv, AnswerGraph, EndCapture, BeginCapture, Return, NotPending
<1>10. CASE DeviceStep
  <2>1. /\ queue \in Seq(Work) /\ queue # <<>> /\ queue' = Tail(queue)
        /\ pc' = pc /\ ret' = ret
      BY <1>10, <1>t DEF DeviceStep, TypeOK
  <2>2. /\ Len(queue) \in Nat \ {0} /\ Len(queue') = Len(queue) - 1
        /\ \A i \in 1 .. Len(queue) - 1 : queue'[i] = queue[i + 1]
      BY <2>1, TailElements
  <2>3. ASSUME NotPending("h2d") PROVE NotPending("h2d")'
    <3>1. \A i \in 1 .. Len(queue) - 1 : i + 1 \in 1 .. Len(queue)
        BY <2>2
    <3>. QED
        BY <2>2, <2>3, <3>1 DEF NotPending
  <2>. QED
      BY <2>1, <2>3 DEF StageInv
<1>11. CASE DeviceFault
    BY <1>11 DEF StageInv, DeviceFault, NotPending
<1>12. CASE Destroyed \/ UNCHANGED vars
    BY <1>12 DEF StageInv, Destroyed, vars, NotPending
<1>. QED
    BY <1>1, <1>2, <1>3, <1>4, <1>5, <1>6, <1>7, <1>8, <1>9, <1>10, <1>11, <1>12
    DEF Next, Caller, Host

\* A step that leaves the host with the staged input finds no copy pending.
LEMMA StagedIsFree ==
    ASSUME ~Retries, StageInv, [Next]_vars, pc' = "staged"
    PROVE  NotPending("h2d")
<1>1. CASE pc = "staged"
    BY <1>1 DEF StageInv, AfterCopy
<1>2. CASE pc # "staged"
  <2>1. \E fits \in BOOLEAN : BeginInfer(fits)
    <3>1. ~BeginLoad /\ ~BeginGraph /\ ~BeginDestroy /\ ~Load /\ ~Destroy
        BY DEF BeginLoad, BeginGraph, BeginDestroy, Load, Destroy, Return
    <3>2. ~CopyIn /\ ~RecordStart /\ ~Launch /\ ~RecordStop /\ ~CopyOut /\ ~Prime
        BY DEF CopyIn, RecordStart, Launch, RecordStop, CopyOut, Prime, Issue
    <3>3. ~Synchronize /\ ~FinishInfer /\ ~RefuseInfer /\ ~InferFails
        BY DEF Synchronize, FinishInfer, RefuseInfer, InferFails, Return
    <3>4. ~AnswerGraph /\ ~GraphFails /\ ~BeginCapture /\ ~EndCapture
        BY DEF AnswerGraph, GraphFails, BeginCapture, EndCapture, Return
    <3>5. ~DeviceStep /\ ~DeviceFault /\ ~Destroyed /\ ~UNCHANGED vars
        BY <1>2 DEF DeviceStep, DeviceFault, Destroyed, vars
    <3>. QED
        BY <3>1, <3>2, <3>3, <3>4, <3>5 DEF Next, Caller, Host
  <2>2. pc = "idle" /\ ret
      BY <2>1 DEF BeginInfer, Free
  <2>. QED
      BY <2>2 DEF StageInv, AfterCopy
<1>. QED
    BY <1>1, <1>2

\* A caller that stops at the first failure, as run_benchmark does, never has
\* the memcpy into the pinned input buffer overtake a pending copy out of it,
\* for any number of calls, loads and captures.
THEOREM StagingIsSafe ==
    ASSUME ~Retries
    PROVE  Spec => StagingNeverRaces
<1>1. Init => TypeInv /\ LiveInv /\ FlowInv /\ StageInv
    BY InitType, InitLive, InitFlow, InitStage
<1>2. TypeInv /\ LiveInv /\ FlowInv /\ StageInv /\ [Next]_vars
        => TypeInv' /\ LiveInv' /\ FlowInv' /\ StageInv'
    BY TypeStep, LiveStep, FlowStep, StageStep
<1>3. StageInv /\ [Next]_vars => [pc' = "staged" => NotPending("h2d")]_vars
    BY StagedIsFree
<1>. QED
    BY <1>1, <1>2, <1>3, PTL DEF Spec, StagingNeverRaces
=============================================================================
