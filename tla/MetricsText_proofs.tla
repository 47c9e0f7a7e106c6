------------------------- MODULE MetricsText_proofs -------------------------
(***************************************************************************)
(* What the two readers of a metrics document make of a text, for every    *)
(* document: the exporter's search by name and the comparator's walk       *)
(* through the members find what format_metrics_json has written, and of   *)
(* a text that was cut off neither finds anything else.                    *)
(***************************************************************************)
EXTENDS MetricsText, MetricsCompare, DataLemmas

-----------------------------------------------------------------------------
(* The texts.                                                              *)

LEMMA TokenIsText == \A x : IsText(<<x>>)
<1> SUFFICES ASSUME NEW x PROVE <<x>> \in Seq({x})
  BY DEF IsText
<1> QED  OBVIOUS

LEMMA MemberIsText ==
  ASSUME NEW key, NEW value, IsText(value)
  PROVE  IsText(Member(key, value))
<1>1. <<Str(key), Colon>> \in Seq({Str(key), Colon})
  OBVIOUS
<1>2. IsText(<<Str(key), Colon>>)
  BY <1>1 DEF IsText
<1> QED  BY <1>2, ConcatIsText DEF Member

LEMMA ObjectIsText ==
  ASSUME NEW S, NEW members \in Seq(S), \A t \in S : IsText(t)
  PROVE  IsText(Object(members))
<1>1. IsText(<<Open>>) /\ IsText(<<Close>>)
  BY TokenIsText
<1>2. IsText(FlattenSeq(members))
  BY FlattenIsText
<1>3. IsText(<<Open>> \o FlattenSeq(members))
  BY <1>1, <1>2, ConcatIsText
<1> QED  BY <1>1, <1>3, ConcatIsText DEF Object

LEMMA DistributionIsText == \A d : IsText(DistributionText(d))
<1> SUFFICES ASSUME NEW d PROVE IsText(DistributionText(d))
  OBVIOUS
<1> DEFINE a == Member("samples", <<Num(d.samples)>>)
           b == Member("p99", <<Num(d.p99)>>)
<1>1. IsText(a) /\ IsText(b)
  BY TokenIsText, MemberIsText
<1> HIDE DEF a, b
<1> DEFINE S == {a, b}
<1>2. \A t \in S : IsText(t)
  BY <1>1, Zenon
<1>3. <<a, b>> \in Seq(S)
  OBVIOUS
<1> HIDE DEF S
<1>4. IsText(Object(<<a, b>>))
  BY <1>2, <1>3, ObjectIsText
<1> QED  BY <1>4 DEF DistributionText, a, b

LEMMA ValidationIsText == \A v : IsText(ValidationText(v))
<1> SUFFICES ASSUME NEW v PROVE IsText(ValidationText(v))
  OBVIOUS
<1> DEFINE a == Member("compared_elements", <<Num(v.compared_elements)>>)
           b == Member("passed", <<Bool(v.passed)>>)
<1>1. IsText(a) /\ IsText(b)
  BY TokenIsText, MemberIsText
<1> HIDE DEF a, b
<1> DEFINE S == {a, b}
<1>2. \A t \in S : IsText(t)
  BY <1>1, Zenon
<1>3. <<a, b>> \in Seq(S)
  OBVIOUS
<1> HIDE DEF S
<1>4. IsText(Object(<<a, b>>))
  BY <1>2, <1>3, ObjectIsText
<1> QED  BY <1>4 DEF ValidationText, a, b

LEMMA OptionIsText ==
  /\ \A option : IsText(OrNull(option, DistributionText))
  /\ \A option : IsText(OrNull(option, ValidationText))
  /\ \A option : IsText(OrNull(option, StringText))
  /\ \A option : IsText(OrNull(option, NumberText))
  /\ \A option : IsText(OrNull(option, BoolText))
<1>1. \A option : IsText(OrNull(option, DistributionText))
  BY TokenIsText, DistributionIsText DEF OrNull
<1>2. \A option : IsText(OrNull(option, ValidationText))
  BY TokenIsText, ValidationIsText DEF OrNull
<1>3. \A option : IsText(OrNull(option, StringText))
  BY TokenIsText DEF OrNull, StringText
<1>4. \A option : IsText(OrNull(option, NumberText))
  BY TokenIsText DEF OrNull, NumberText
<1>5. \A option : IsText(OrNull(option, BoolText))
  BY TokenIsText DEF OrNull, BoolText
<1> QED  BY <1>1, <1>2, <1>3, <1>4, <1>5

\* A document is written as a text, whatever is in its fields.
LEMMA DocumentIsText ==
  ASSUME NEW doc
  PROVE  IsText(DocumentText(doc))
<1> DEFINE device == Member("device", OrNull(doc.device, StringText))
           e2e == Member("end_to_end", DistributionText(doc.end_to_end))
           compute == Member("device_compute", OrNull(doc.device_compute, DistributionText))
           scope == Member("scope", <<Str(doc.slo.scope)>>)
           target == Member("target_us", OrNull(doc.slo.target_us, NumberText))
           observed == Member("observed_p99_us", OrNull(doc.slo.observed_p99_us, NumberText))
           passed == Member("passed", OrNull(doc.slo.passed, BoolText))
           build == Object(<<>>)
           environment == Object(<<device>>)
           latency == Object(<<e2e, compute>>)
           slo == Object(<<scope, target, observed, passed>>)
<1>1. IsText(device) /\ IsText(e2e) /\ IsText(compute)
  BY MemberIsText, OptionIsText, DistributionIsText
<1>2. IsText(scope) /\ IsText(target) /\ IsText(observed) /\ IsText(passed)
  BY MemberIsText, OptionIsText, TokenIsText
<1> HIDE DEF device, e2e, compute, scope, target, observed, passed
<1>3. IsText(build)
  <2> DEFINE S == {}
  <2>1. \A t \in S : IsText(t)
    BY Zenon
  <2>2. <<>> \in Seq(S)
    OBVIOUS
  <2> HIDE DEF S
  <2> QED  BY <2>1, <2>2, ObjectIsText
<1>4. IsText(environment)
  <2> DEFINE S == {device}
  <2>1. \A t \in S : IsText(t)
    BY <1>1, Zenon
  <2>2. <<device>> \in Seq(S)
    OBVIOUS
  <2> HIDE DEF S
  <2> QED  BY <2>1, <2>2, ObjectIsText
<1>5. IsText(latency)
  <2> DEFINE S == {e2e, compute}
  <2>1. \A t \in S : IsText(t)
    BY <1>1, Zenon
  <2>2. <<e2e, compute>> \in Seq(S)
    OBVIOUS
  <2> HIDE DEF S
  <2> QED  BY <2>1, <2>2, ObjectIsText
<1>6. IsText(slo)
  <2> DEFINE S == {scope, target, observed, passed}
  <2>1. \A t \in S : IsText(t)
    BY <1>2, Zenon
  <2>2. <<scope, target, observed, passed>> \in Seq(S)
    OBVIOUS
  <2> HIDE DEF S
  <2> QED  BY <2>1, <2>2, ObjectIsText
<1> HIDE DEF build, environment, latency, slo
<1> DEFINE m1 == Member("schema_version", <<Num(2)>>)
           m2 == Member("build", build)
           m3 == Member("model", <<Str(doc.model)>>)
           m4 == Member("backend", <<Str(doc.backend)>>)
           m5 == Member("requested_backend", <<Str(doc.requested_backend)>>)
           m6 == Member("fallback_used", <<Bool(doc.fallback_used)>>)
           m7 == Member("cuda_graph", <<Bool(doc.cuda_graph)>>)
           m8 == Member("environment", environment)
           m9 == Member("samples", <<Num(doc.samples)>>)
           m10 == Member("input_size", <<Num(doc.input_size)>>)
           m11 == Member("batch_size", <<Num(doc.batch_size)>>)
           m12 == Member("latency_us", latency)
           m13 == Member("validation", OrNull(doc.validation, ValidationText))
           m14 == Member("slo", slo)
           members == {m1, m2, m3, m4, m5, m6, m7, m8, m9, m10, m11, m12, m13, m14}
<1>7. /\ IsText(m1) /\ IsText(m2) /\ IsText(m3) /\ IsText(m4) /\ IsText(m5)
      /\ IsText(m6) /\ IsText(m7) /\ IsText(m8) /\ IsText(m9) /\ IsText(m10)
      /\ IsText(m11) /\ IsText(m12) /\ IsText(m13) /\ IsText(m14)
  BY <1>3, <1>4, <1>5, <1>6, MemberIsText, TokenIsText, OptionIsText
<1> HIDE DEF m1, m2, m3, m4, m5, m6, m7, m8, m9, m10, m11, m12, m13, m14
<1>8. \A t \in members : IsText(t)
  BY <1>7, Zenon
<1>9. <<m1, m2, m3, m4, m5, m6, m7, m8, m9, m10, m11, m12, m13, m14>> \in Seq(members)
  OBVIOUS
<1> HIDE DEF members
<1>10. IsText(Object(<<m1, m2, m3, m4, m5, m6, m7, m8, m9, m10, m11, m12, m13, m14>>))
  BY <1>8, <1>9, ObjectIsText
<1> QED
  BY <1>10, Zenon
     DEF DocumentText, m1, m2, m3, m4, m5, m6, m7, m8, m9, m10, m11, m12, m13,
     m14, build, environment, latency, slo, device, e2e, compute, scope, target,
     observed, passed

-----------------------------------------------------------------------------
(* What the exporter reads is one snapshot or none.                        *)

LEMMA LeastIsOne ==
  ASSUME NEW S \in SUBSET Int
  PROVE  AtMostOne(Least(S))
BY DEF AtMostOne, Least

LEMMA FindValueIsOne ==
  ASSUME NEW text, IsText(text), NEW key
  PROVE  AtMostOne(FindValue(text, key))
<1> DEFINE S == {q \in At(text, Str(key)) : q < Len(text) /\ text[q + 1] = Colon}
<1>1. S \in SUBSET Int
  BY TextLength DEF At
<1> HIDE DEF S
<1>2. AtMostOne(Least(S))
  BY <1>1, LeastIsOne
<1> QED  BY <1>2 DEF AtMostOne, FindValue, S

LEMMA ValuesAreOne ==
  ASSUME NEW text, NEW positions, AtMostOne(positions), NEW kind
  PROVE  AtMostOne(Values(text, positions, kind))
BY DEF AtMostOne, Values

LEMMA MatchingIsOne ==
  ASSUME NEW text, IsText(text), NEW p
  PROVE  AtMostOne(Matching(text, p)) /\ \A q \in Matching(text, p) : q \in DOMAIN text /\ q > p
<1> DEFINE braces == Braces(text)
           S == {q \in braces.close : q > p /\ Depth(braces, p, q) = 0}
<1>1. S \in SUBSET Int
  BY TextLength DEF At, Braces
<1>2. Matching(text, p) = Least(S)
  BY DEF Matching
<1>3. \A q \in Least(S) : q \in DOMAIN text /\ q > p
  BY DEF Least, Braces, At
<1> HIDE DEF S
<1> QED  BY <1>1, <1>2, <1>3, LeastIsOne

LEMMA FindValueIsPosition ==
  ASSUME NEW text, IsText(text), NEW key
  PROVE  FindValue(text, key) \subseteq 1 .. Len(text) + 2
BY TextLength DEF FindValue, Least, At

LEMMA ObjectsAreOne ==
  ASSUME NEW text, IsText(text), NEW positions \in SUBSET Nat \ {0}, AtMostOne(positions)
  PROVE  /\ AtMostOne(Objects(text, positions))
         /\ \A t \in Objects(text, positions) : IsText(t)
<1> DEFINE at(p) == {SubSeq(text, p, q) : q \in Matching(text, p)}
           starts == {q \in positions : q <= Len(text) /\ text[q] = Open}
           S == {at(p) : p \in starts}
<1>1. Objects(text, positions) = UNION S
  BY DEF Objects
<1>2. \A p : AtMostOne(Matching(text, p))
  BY MatchingIsOne
<1>3. \A p : AtMostOne(at(p))
  BY <1>2 DEF AtMostOne
<1>4. AtMostOne(starts)
  BY DEF AtMostOne
<1>5. ASSUME NEW p \in starts, NEW q \in Matching(text, p) PROVE IsText(SubSeq(text, p, q))
  <2>1. PICK T : text \in Seq(T)
    BY DEF IsText
  <2>2. q \in 1 .. Len(text) /\ p \in 1 .. Len(text) /\ p < q
    BY TextLength, MatchingIsOne
  <2>3. \A i \in p .. q : text[i] \in T
    BY <2>1, <2>2
  <2>4. SubSeq(text, p, q) \in Seq(T)
    BY <2>2, <2>3, SubSeqProperties
  <2> QED  BY <2>4 DEF IsText
<1> HIDE DEF starts
<1>6. AtMostOne(S) /\ \A s \in S : AtMostOne(s)
  <2>1. AtMostOne(S)
    BY <1>4 DEF AtMostOne
  <2>2. \A s \in S : AtMostOne(s)
    BY <1>3
  <2> QED  BY <2>1, <2>2
<1>7. ASSUME NEW t \in UNION S PROVE IsText(t)
  <2>1. PICK p \in starts : t \in at(p)
    OBVIOUS
  <2>2. PICK q \in Matching(text, p) : t = SubSeq(text, p, q)
    BY <2>1
  <2> QED  BY <1>5, <2>2, Zenon
<1> HIDE DEF S
<1>8. AtMostOne(UNION S)
  BY <1>6, AtMostOneOf
<1> QED  BY <1>1, <1>7, <1>8, Zenon

LEMMA FieldsAreOne ==
  ASSUME NEW text, IsText(text), NEW key
  PROVE  /\ AtMostOne(StringValue(text, key)) /\ AtMostOne(NumberValue(text, key))
         /\ AtMostOne(BoolValue(text, key)) /\ AtMostOne(ObjectValue(text, key))
         /\ \A t \in ObjectValue(text, key) : IsText(t)
<1>1. AtMostOne(FindValue(text, key))
  BY FindValueIsOne
<1>2. FindValue(text, key) \in SUBSET (Nat \ {0})
  BY FindValueIsPosition, TextLength
<1> QED
  BY <1>1, <1>2, ValuesAreOne, ObjectsAreOne
  DEF StringValue, NumberValue, BoolValue, ObjectValue

LEMMA NullableIsOne ==
  ASSUME NEW text, NEW key, NEW results, AtMostOne(results)
  PROVE  AtMostOne(Nullable(text, key, results)) /\ AtMostOne(Optional(text, key, results))
BY DEF AtMostOne, Nullable, Optional

LEMMA DistributionIsOne ==
  ASSUME NEW text, IsText(text)
  PROVE  AtMostOne(ParseDistribution(text))
<1>1. AtMostOne(NumberValue(text, "samples")) /\ AtMostOne(NumberValue(text, "p99"))
  BY FieldsAreOne
<1> QED  BY <1>1 DEF AtMostOne, ParseDistribution

LEMMA DistributionsAreOne ==
  ASSUME NEW texts, AtMostOne(texts), \A t \in texts : IsText(t)
  PROVE  AtMostOne(ParseDistributions(texts))
<1> DEFINE S == {ParseDistribution(t) : t \in texts}
<1>1. AtMostOne(S)
  BY DEF AtMostOne
<1>2. \A s \in S : AtMostOne(s)
  BY DistributionIsOne
<1> HIDE DEF S
<1>3. AtMostOne(UNION S)
  BY <1>1, <1>2, AtMostOneOf
<1> QED  BY <1>3 DEF ParseDistributions, S

LEMMA SloIsOne ==
  ASSUME NEW slo, IsText(slo)
  PROVE  AtMostOne(ParseSlo(slo))
<1>1. AtMostOne(StringValue(slo, "scope"))
  BY FieldsAreOne
<1>2. /\ AtMostOne(Optional(slo, "target_us", NumberValue(slo, "target_us")))
      /\ AtMostOne(Optional(slo, "observed_p99_us", NumberValue(slo, "observed_p99_us")))
      /\ AtMostOne(Optional(slo, "passed", BoolValue(slo, "passed")))
  BY FieldsAreOne, NullableIsOne
<1> QED  BY <1>1, <1>2 DEF AtMostOne, ParseSlo

LEMMA ValidationIsOne ==
  ASSUME NEW text, IsText(text)
  PROVE  AtMostOne(ParseValidation(text))
<1> DEFINE checks(o) == {[passed |-> p] : p \in BoolValue(o, "passed")}
           U == {checks(o) : o \in ObjectValue(text, "validation")}
<1>1. /\ AtMostOne(ObjectValue(text, "validation"))
      /\ \A t \in ObjectValue(text, "validation") : IsText(t)
  BY FieldsAreOne
<1>2. AtMostOne(U)
  BY <1>1 DEF AtMostOne
<1>3. ASSUME NEW o \in ObjectValue(text, "validation") PROVE AtMostOne(checks(o))
  <2>1. AtMostOne(BoolValue(o, "passed"))
    BY <1>1, FieldsAreOne
  <2> QED  BY <2>1 DEF AtMostOne
<1>4. \A s \in U : AtMostOne(s)
  BY <1>3
<1> HIDE DEF U
<1>5. AtMostOne(UNION U)
  BY <1>2, <1>4, AtMostOneOf
<1> QED  BY <1>5 DEF ParseValidation, U

LEMMA ParsedIsOne ==
  ASSUME NEW text, IsText(text), NEW environment, IsText(environment),
         NEW latency, IsText(latency), NEW slo, IsText(slo)
  PROVE  AtMostOne(ParseFields(text, environment, latency, slo))
<1> DEFINE M == StringValue(text, "model")
           B == StringValue(text, "backend")
           F == BoolValue(text, "fallback_used")
           G == BoolValue(text, "cuda_graph")
           D == StringValue(environment, "device")
           N == NumberValue(text, "samples")
           I == NumberValue(text, "input_size")
           K == NumberValue(text, "batch_size")
           E == ParseDistributions(ObjectValue(latency, "end_to_end"))
           C == Nullable(latency, "device_compute",
                         ParseDistributions(ObjectValue(latency, "device_compute")))
           V == Nullable(text, "validation", ParseValidation(text))
           S == ParseSlo(slo)
<1>1. /\ AtMostOne(M) /\ AtMostOne(B) /\ AtMostOne(F) /\ AtMostOne(G) /\ AtMostOne(D)
      /\ AtMostOne(N) /\ AtMostOne(I) /\ AtMostOne(K)
  BY FieldsAreOne
<1>2. AtMostOne(E) /\ AtMostOne(ParseDistributions(ObjectValue(latency, "device_compute")))
  BY FieldsAreOne, DistributionsAreOne
<1>3. AtMostOne(C) /\ AtMostOne(V) /\ AtMostOne(S)
  BY <1>2, NullableIsOne, ValidationIsOne, SloIsOne
<1> HIDE DEF M, B, F, G, D, N, I, K, E, C, V, S
<1> SUFFICES ASSUME NEW x \in ParseFields(text, environment, latency, slo),
                    NEW y \in ParseFields(text, environment, latency, slo)
             PROVE  x = y
  BY DEF AtMostOne
<1>4. \A z \in {x, y} : \E m \in M, b \in B, f \in F, g \in G, d \in D, n \in N,
         i \in I, k \in K, e \in E, c \in C, v \in V, s \in S :
       z = [model |-> m, backend |-> b, fallback_used |-> f, cuda_graph |-> g,
            device |-> {d}, samples |-> n, input_size |-> i, batch_size |-> k,
            end_to_end |-> e, device_compute |-> c, validation |-> v, slo |-> s]
  BY DEF ParseFields, M, B, F, G, D, N, I, K, E, C, V, S
<1>5. PICK m \in M, b \in B, f \in F, g \in G, d \in D, n \in N, i \in I, k \in K,
           e \in E, c \in C, v \in V, s \in S :
       x = [model |-> m, backend |-> b, fallback_used |-> f, cuda_graph |-> g,
            device |-> {d}, samples |-> n, input_size |-> i, batch_size |-> k,
            end_to_end |-> e, device_compute |-> c, validation |-> v, slo |-> s]
  BY <1>4
<1>6. PICK m1 \in M, b1 \in B, f1 \in F, g1 \in G, d1 \in D, n1 \in N, i1 \in I,
           k1 \in K, e1 \in E, c1 \in C, v1 \in V, s1 \in S :
       y = [model |-> m1, backend |-> b1, fallback_used |-> f1, cuda_graph |-> g1,
            device |-> {d1}, samples |-> n1, input_size |-> i1, batch_size |-> k1,
            end_to_end |-> e1, device_compute |-> c1, validation |-> v1, slo |-> s1]
  BY <1>4
<1>7. /\ m = m1 /\ b = b1 /\ f = f1 /\ g = g1 /\ d = d1 /\ n = n1 /\ i = i1 /\ k = k1
      /\ e = e1 /\ c = c1 /\ v = v1 /\ s = s1
  BY <1>1, <1>2, <1>3 DEF AtMostOne
<1> QED  BY <1>5, <1>6, <1>7

LEMMA SnapshotIsOne ==
  ASSUME NEW text, IsText(text)
  PROVE  AtMostOne(ParseSnapshot(text))
<1> DEFINE E == ObjectValue(text, "environment")
           L == ObjectValue(text, "latency_us")
           O == ObjectValue(text, "slo")
<1>1. AtMostOne(E) /\ AtMostOne(L) /\ AtMostOne(O) /\ \A t \in E \cup L \cup O : IsText(t)
  BY FieldsAreOne
<1> SUFFICES ASSUME NEW x \in ParseSnapshot(text), NEW y \in ParseSnapshot(text)
             PROVE  x = y
  BY DEF AtMostOne
<1>2. \A z \in {x, y} : \E environment \in E, latency \in L, slo \in O :
        z \in ParseFields(text, environment, latency, slo)
  BY DEF ParseSnapshot
<1> HIDE DEF E, L, O
<1>3. PICK environment \in E, latency \in L, slo \in O :
        x \in ParseFields(text, environment, latency, slo)
  BY <1>2
<1>4. PICK environment1 \in E, latency1 \in L, slo1 \in O :
        y \in ParseFields(text, environment1, latency1, slo1)
  BY <1>2
<1>5. environment = environment1 /\ latency = latency1 /\ slo = slo1
  BY <1>1 DEF AtMostOne
<1>6. IsText(environment) /\ IsText(latency) /\ IsText(slo)
  BY <1>1
<1>7. AtMostOne(ParseFields(text, environment, latency, slo))
  BY <1>6, ParsedIsOne
<1> QED  BY <1>3, <1>4, <1>5, <1>7 DEF AtMostOne

LEMMA SnapshotIsCounted ==
  ASSUME NEW text, IsText(text)
  PROVE  Cardinality(ParseSnapshot(text)) <= 1
BY SnapshotIsOne, AtMostOneIsCounted

-----------------------------------------------------------------------------
(* The tokens.                                                             *)

LEMMA Tokens ==
  /\ \A a, b : Str(a) = Str(b) => a = b
  /\ \A v : Str(v)[1] = "string" /\ Str(v)[2] = v
  /\ \A v : Num(v)[1] = "number" /\ Num(v)[2] = v
  /\ \A v : Bool(v)[1] = "boolean" /\ Bool(v)[2] = v
  /\ Null[1] = "null" /\ Open[1] = "open" /\ Close[1] = "close" /\ Colon[1] = "colon"
BY DEF Str, Num, Bool, Null, Open, Close, Colon

\* A token that neither opens nor closes anything, and is no colon.
Scalar(x) == x # Open /\ x # Close /\ x # Colon

LEMMA Scalars ==
  /\ \A v : Scalar(Str(v)) /\ Scalar(Num(v)) /\ Scalar(Bool(v))
  /\ Scalar(Null)
  /\ Open # Close /\ Open # Colon /\ Close # Colon /\ Open # Null
  /\ \A v : Str(v) # Null /\ Num(v) # Null /\ Bool(v) # Null
BY DEF Scalar, Str, Num, Bool, Null, Open, Close, Colon

-----------------------------------------------------------------------------
(* A text that was cut off: whatever the exporter finds in it, it would    *)
(* find in all of it.                                                      *)

StartOf(t, u) ==
    /\ IsText(t) /\ IsText(u)
    /\ Len(t) <= Len(u)
    /\ \A i \in 1 .. Len(t) : t[i] = u[i]

LEMMA StartFindValue ==
  ASSUME NEW t, NEW u, StartOf(t, u), NEW key, NEW p \in FindValue(t, key)
  PROVE  FindValue(t, key) = {p} /\ FindValue(u, key) = {p} /\ p \in Nat \ {0}
<1> DEFINE A == {q \in At(t, Str(key)) : q < Len(t) /\ t[q + 1] = Colon}
           B == {q \in At(u, Str(key)) : q < Len(u) /\ u[q + 1] = Colon}
<1>1. /\ Len(t) \in Nat /\ Len(u) \in Nat /\ Len(t) <= Len(u)
      /\ DOMAIN t = 1 .. Len(t) /\ DOMAIN u = 1 .. Len(u)
      /\ \A i \in 1 .. Len(t) : t[i] = u[i]
  BY TextLength DEF StartOf
<1>2. \A q : q \in A <=> q \in B /\ q < Len(t)
  <2>1. ASSUME NEW q \in 1 .. Len(t), q < Len(t)
        PROVE  t[q] = u[q] /\ t[q + 1] = u[q + 1] /\ q \in 1 .. Len(u) /\ q < Len(u)
    BY <1>1, <2>1
  <2>2. \A q \in A : q \in B /\ q < Len(t)
    BY <1>1, <2>1 DEF At
  <2>3. \A q \in B : q < Len(t) => q \in A
    <3>1. \A q \in B : q < Len(t) => q \in 1 .. Len(t)
      BY <1>1 DEF At
    <3> QED  BY <1>1, <2>1, <3>1 DEF At
  <2> QED  BY <2>2, <2>3
<1>3. A \in SUBSET (Nat \ {0}) /\ B \in SUBSET (Nat \ {0})
  BY <1>1 DEF At
<1>4. FindValue(t, key) = {q + 2 : q \in Least(A)} /\ FindValue(u, key) = {q + 2 : q \in Least(B)}
  BY DEF FindValue
<1> HIDE DEF A, B
<1>5. PICK q \in Least(A) : p = q + 2
  BY <1>4
<1>6. q \in A /\ \A r \in A : q <= r
  BY <1>5 DEF Least
<1>7. q \in B /\ \A r \in B : q <= r
  <2>1. q \in B /\ q < Len(t) /\ q \in Nat
    BY <1>2, <1>3, <1>6
  <2>2. ASSUME NEW r \in B PROVE q <= r
    <3>1. r \in Nat
      BY <1>3
    <3>2. CASE r < Len(t)
      BY <1>2, <1>6, <3>2
    <3>3. CASE ~(r < Len(t))
      BY <1>1, <2>1, <3>1, <3>3
    <3> QED  BY <3>2, <3>3
  <2> QED  BY <2>1, <2>2
<1>8. Least(A) = {q} /\ Least(B) = {q}
  <2>1. AtMostOne(Least(A)) /\ AtMostOne(Least(B))
    BY <1>3, LeastIsOne
  <2>2. q \in Least(A) /\ q \in Least(B)
    BY <1>6, <1>7 DEF Least
  <2> QED  BY <2>1, <2>2 DEF AtMostOne
<1> QED  BY <1>3, <1>4, <1>5, <1>6, <1>8

LEMMA StartValues ==
  ASSUME NEW t, NEW u, StartOf(t, u), NEW key, NEW kind
  PROVE  Values(t, FindValue(t, key), kind) \subseteq Values(u, FindValue(u, key), kind)
<1> SUFFICES ASSUME NEW x \in Values(t, FindValue(t, key), kind)
             PROVE  x \in Values(u, FindValue(u, key), kind)
  OBVIOUS
<1>1. PICK p \in FindValue(t, key) : p <= Len(t) /\ t[p][1] = kind /\ x = t[p][2]
  BY DEF Values
<1>2. FindValue(u, key) = {p} /\ p \in Nat \ {0}
  BY StartFindValue
<1>3. p <= Len(u) /\ t[p] = u[p]
  BY <1>1, <1>2, TextLength DEF StartOf
<1> QED  BY <1>1, <1>2, <1>3 DEF Values

LEMMA StartFields ==
  ASSUME NEW t, NEW u, StartOf(t, u), NEW key
  PROVE  /\ StringValue(t, key) \subseteq StringValue(u, key)
         /\ NumberValue(t, key) \subseteq NumberValue(u, key)
         /\ BoolValue(t, key) \subseteq BoolValue(u, key)
BY StartValues DEF StringValue, NumberValue, BoolValue

LEMMA StartDepth ==
  ASSUME NEW t, NEW u, StartOf(t, u), NEW p \in Nat \ {0}, NEW q \in Nat, q <= Len(t)
  PROVE  Depth(Braces(t), p, q) = Depth(Braces(u), p, q)
<1>1. /\ Len(t) \in Nat /\ Len(u) \in Nat /\ Len(t) <= Len(u)
      /\ DOMAIN t = 1 .. Len(t) /\ DOMAIN u = 1 .. Len(u)
      /\ \A i \in 1 .. Len(t) : t[i] = u[i]
  BY TextLength DEF StartOf
<1>2. ASSUME NEW token
      PROVE  {b \in At(t, token) : p <= b /\ b <= q} = {b \in At(u, token) : p <= b /\ b <= q}
  <2>1. \A b : b \in At(t, token) /\ p <= b /\ b <= q => b \in At(u, token)
    BY <1>1 DEF At
  <2>2. \A b : b \in At(u, token) /\ p <= b /\ b <= q => b \in At(t, token)
    BY <1>1 DEF At
  <2> QED  BY <2>1, <2>2
<1> QED  BY <1>2 DEF Depth, Braces

LEMMA StartMatching ==
  ASSUME NEW t, NEW u, StartOf(t, u), NEW p \in Nat \ {0}, NEW q \in Matching(t, p)
  PROVE  q \in Matching(u, p) /\ q \in 1 .. Len(t)
<1> DEFINE A == {r \in Braces(t).close : r > p /\ Depth(Braces(t), p, r) = 0}
           B == {r \in Braces(u).close : r > p /\ Depth(Braces(u), p, r) = 0}
<1>1. /\ Len(t) \in Nat /\ Len(u) \in Nat /\ Len(t) <= Len(u)
      /\ DOMAIN t = 1 .. Len(t) /\ DOMAIN u = 1 .. Len(u)
      /\ \A i \in 1 .. Len(t) : t[i] = u[i]
  BY TextLength DEF StartOf
<1>2. Matching(t, p) = Least(A) /\ Matching(u, p) = Least(B)
  BY DEF Matching
<1>3. A \in SUBSET (1 .. Len(t)) /\ B \in SUBSET (1 .. Len(u))
  BY <1>1 DEF Braces, At
<1>4. \A r \in 1 .. Len(t) : r \in A <=> r \in B
  <2> SUFFICES ASSUME NEW r \in 1 .. Len(t) PROVE r \in A <=> r \in B
    OBVIOUS
  <2>1. Depth(Braces(t), p, r) = Depth(Braces(u), p, r)
    BY <1>1, StartDepth
  <2>2. r \in Braces(t).close <=> r \in Braces(u).close
    BY <1>1 DEF Braces, At
  <2> QED  BY <2>1, <2>2
<1> HIDE DEF A, B
<1>5. q \in A /\ \A r \in A : q <= r
  BY <1>2 DEF Least
<1>6. q \in B /\ \A r \in B : q <= r
  <2>1. q \in 1 .. Len(t) /\ q \in B
    BY <1>3, <1>4, <1>5
  <2>2. ASSUME NEW r \in B PROVE q <= r
    <3>1. r \in Nat /\ 1 <= r
      BY <1>1, <1>3
    <3>2. CASE r <= Len(t)
      BY <1>1, <1>4, <1>5, <3>1, <3>2
    <3>3. CASE ~(r <= Len(t))
      BY <1>1, <2>1, <3>1, <3>3
    <3> QED  BY <3>2, <3>3
  <2> QED  BY <2>1, <2>2
<1> QED  BY <1>2, <1>3, <1>5, <1>6 DEF Least

LEMMA StartObjects ==
  ASSUME NEW t, NEW u, StartOf(t, u), NEW P \in SUBSET (Nat \ {0})
  PROVE  Objects(t, P) \subseteq Objects(u, P)
<1> SUFFICES ASSUME NEW x \in Objects(t, P) PROVE x \in Objects(u, P)
  OBVIOUS
<1>1. PICK p \in P : /\ p <= Len(t) /\ t[p] = Open
                     /\ \E q \in Matching(t, p) : x = SubSeq(t, p, q)
  BY DEF Objects
<1>2. PICK q \in Matching(t, p) : x = SubSeq(t, p, q)
  BY <1>1
<1>3. q \in Matching(u, p) /\ q \in 1 .. Len(t)
  BY StartMatching
<1>4. /\ Len(t) \in Nat /\ Len(u) \in Nat /\ Len(t) <= Len(u)
      /\ \A i \in 1 .. Len(t) : t[i] = u[i]
  BY TextLength DEF StartOf
<1>5. p <= Len(u) /\ u[p] = Open
  BY <1>1, <1>4
<1>6. SubSeq(t, p, q) = SubSeq(u, p, q)
  <2>1. \A i \in p .. q : t[i] = u[i]
    BY <1>3, <1>4
  <2>2. p \in Nat /\ q \in Nat /\ p <= q + 1
    BY <1>3, MatchingIsOne DEF StartOf
  <2>3. /\ IsText(SubSeq(t, p, q)) /\ Len(SubSeq(t, p, q)) = q - p + 1
        /\ \A i \in 1 .. q - p + 1 : SubSeq(t, p, q)[i] = t[p + i - 1]
    BY <1>1, <1>3, <1>4, <2>2, SubSeqIndex DEF StartOf
  <2>4. /\ IsText(SubSeq(u, p, q)) /\ Len(SubSeq(u, p, q)) = q - p + 1
        /\ \A i \in 1 .. q - p + 1 : SubSeq(u, p, q)[i] = u[p + i - 1]
    BY <1>1, <1>3, <1>4, <2>2, SubSeqIndex DEF StartOf
  <2>5. \A i \in 1 .. q - p + 1 : t[p + i - 1] = u[p + i - 1]
    <3>1. \A i \in 1 .. q - p + 1 : p + i - 1 \in p .. q
      BY <2>2
    <3> QED  BY <2>1, <3>1
  <2> QED  BY <2>3, <2>4, <2>5, SameText
<1>7. x \in {SubSeq(u, p, r) : r \in Matching(u, p)}
  BY <1>2, <1>3, <1>6
<1> QED  BY <1>5, <1>7 DEF Objects

LEMMA StartObjectValue ==
  ASSUME NEW t, NEW u, StartOf(t, u), NEW key
  PROVE  ObjectValue(t, key) \subseteq ObjectValue(u, key)
<1> SUFFICES ASSUME NEW x \in ObjectValue(t, key) PROVE x \in ObjectValue(u, key)
  OBVIOUS
<1>1. x \in Objects(t, FindValue(t, key))
  BY DEF ObjectValue
<1>2. PICK p \in FindValue(t, key) : TRUE
  BY <1>1 DEF Objects
<1>3. FindValue(t, key) = {p} /\ FindValue(u, key) = {p} /\ p \in Nat \ {0}
  BY StartFindValue
<1>4. Objects(t, {p}) \subseteq Objects(u, {p})
  BY <1>3, StartObjects
<1> QED  BY <1>1, <1>3, <1>4 DEF ObjectValue

\* A validation that is null, or has a result, has the same in all of it.
LEMMA StartValidation ==
  ASSUME NEW t, NEW u, StartOf(t, u)
  PROVE  Nullable(t, "validation", ParseValidation(t))
           \subseteq Nullable(u, "validation", ParseValidation(u))
<1> SUFFICES ASSUME NEW x \in Nullable(t, "validation", ParseValidation(t))
             PROVE  x \in Nullable(u, "validation", ParseValidation(u))
  OBVIOUS
<1>1. \A p \in FindValue(t, "validation") :
        p <= Len(t) => p <= Len(u) /\ t[p] = u[p] /\ FindValue(u, "validation") = {p}
  BY StartFindValue, TextLength DEF StartOf
<1>2. CASE IsNull(t, FindValue(t, "validation"))
  <2>1. IsNull(u, FindValue(u, "validation"))
    BY <1>1, <1>2 DEF IsNull
  <2> QED  BY <1>2, <2>1 DEF Nullable
<1>3. CASE ~IsNull(t, FindValue(t, "validation"))
  <2>1. PICK r \in ParseValidation(t) : x = {r}
    BY <1>3 DEF Nullable
  <2>2. PICK o \in ObjectValue(t, "validation") : r \in {[passed |-> p] : p \in BoolValue(o, "passed")}
    BY <2>1 DEF ParseValidation
  <2>3. o \in ObjectValue(u, "validation")
    BY StartObjectValue
  <2>4. r \in ParseValidation(u)
    BY <2>2, <2>3 DEF ParseValidation
  <2>5. PICK p \in FindValue(t, "validation") : p <= Len(t) /\ t[p] = Open
    BY <2>2 DEF ObjectValue, Objects
  <2>6. ~IsNull(u, FindValue(u, "validation"))
    BY <1>1, <2>5, Scalars DEF IsNull
  <2> QED  BY <2>1, <2>4, <2>6 DEF Nullable
<1> QED  BY <1>2, <1>3

LEMMA StartSnapshot ==
  ASSUME NEW t, NEW u, StartOf(t, u)
  PROVE  ParseSnapshot(t) \subseteq ParseSnapshot(u)
<1> SUFFICES ASSUME NEW x \in ParseSnapshot(t) PROVE x \in ParseSnapshot(u)
  OBVIOUS
<1>1. PICK version \in NumberValue(t, "schema_version") \cap {2},
           build \in ObjectValue(t, "build"),
           environment \in ObjectValue(t, "environment"),
           latency \in ObjectValue(t, "latency_us"),
           slo \in ObjectValue(t, "slo") :
        x \in ParseFields(t, environment, latency, slo)
  BY DEF ParseSnapshot
<1>2. /\ version \in NumberValue(u, "schema_version") \cap {2}
      /\ build \in ObjectValue(u, "build")
      /\ environment \in ObjectValue(u, "environment")
      /\ latency \in ObjectValue(u, "latency_us")
      /\ slo \in ObjectValue(u, "slo")
  BY StartFields, StartObjectValue
<1>3. x \in ParseFields(u, environment, latency, slo)
  <2> DEFINE D == StringValue(environment, "device")
             E == ParseDistributions(ObjectValue(latency, "end_to_end"))
             C == Nullable(latency, "device_compute",
                           ParseDistributions(ObjectValue(latency, "device_compute")))
             S == ParseSlo(slo)
  <2>1. PICK m \in StringValue(t, "model"), b \in StringValue(t, "backend"),
             f \in BoolValue(t, "fallback_used"), g \in BoolValue(t, "cuda_graph"),
             d \in D, n \in NumberValue(t, "samples"),
             i \in NumberValue(t, "input_size"), k \in NumberValue(t, "batch_size"),
             e \in E, c \in C, v \in Nullable(t, "validation", ParseValidation(t)),
             s \in S :
          x = [model |-> m, backend |-> b, fallback_used |-> f, cuda_graph |-> g,
               device |-> {d}, samples |-> n, input_size |-> i, batch_size |-> k,
               end_to_end |-> e, device_compute |-> c, validation |-> v, slo |-> s]
    BY <1>1 DEF ParseFields
  <2>2. /\ m \in StringValue(u, "model") /\ b \in StringValue(u, "backend")
        /\ f \in BoolValue(u, "fallback_used") /\ g \in BoolValue(u, "cuda_graph")
        /\ n \in NumberValue(u, "samples")
        /\ i \in NumberValue(u, "input_size") /\ k \in NumberValue(u, "batch_size")
    BY StartFields
  <2>3. v \in Nullable(u, "validation", ParseValidation(u))
    BY StartValidation
  <2> HIDE DEF D, E, C, S
  <2> DEFINE M == StringValue(u, "model")
             B == StringValue(u, "backend")
             F == BoolValue(u, "fallback_used")
             G == BoolValue(u, "cuda_graph")
             N == NumberValue(u, "samples")
             I == NumberValue(u, "input_size")
             K == NumberValue(u, "batch_size")
             V == Nullable(u, "validation", ParseValidation(u))
  <2>4. /\ m \in M /\ b \in B /\ f \in F /\ g \in G /\ n \in N /\ i \in I /\ k \in K
        /\ v \in V
    BY <2>2, <2>3
  <2> HIDE DEF M, B, F, G, N, I, K, V
  <2> DEFINE Snapshot(m1, b1, f1, g1, d1, n1, i1, k1, e1, c1, v1, s1) ==
               [model |-> m1, backend |-> b1, fallback_used |-> f1, cuda_graph |-> g1,
                device |-> {d1}, samples |-> n1, input_size |-> i1, batch_size |-> k1,
                end_to_end |-> e1, device_compute |-> c1, validation |-> v1, slo |-> s1]
             All == {Snapshot(m1, b1, f1, g1, d1, n1, i1, k1, e1, c1, v1, s1) :
                       m1 \in M, b1 \in B, f1 \in F, g1 \in G, d1 \in D, n1 \in N,
                       i1 \in I, k1 \in K, e1 \in E, c1 \in C, v1 \in V, s1 \in S}
  <2>5. x = Snapshot(m, b, f, g, d, n, i, k, e, c, v, s)
    BY <2>1
  <2>6. ParseFields(u, environment, latency, slo) = All
    BY DEF ParseFields, D, E, C, S, M, B, F, G, N, I, K, V
  <2> HIDE DEF Snapshot
  <2>7. x \in All
    BY <2>4, <2>5
  <2> QED  BY <2>6, <2>7
<1> QED  BY <1>2, <1>3 DEF ParseSnapshot

-----------------------------------------------------------------------------
(* How many braces are open.                                               *)

Height(t, n) == Depth(Braces(t), 1, n)

\* What a token adds.
Opens(x) == IF x = Open THEN 1 ELSE IF x = Close THEN -1 ELSE 0

\* The occurrences of a token up to a position.
UpToAt(t, token, n) == {b \in At(t, token) : 1 <= b /\ b <= n}

LEMMA OccurrencesAreCounted ==
  ASSUME NEW t, IsText(t), NEW token, NEW p \in Nat, NEW n \in Nat
  PROVE  /\ IsFiniteSet({b \in At(t, token) : p <= b /\ b <= n})
         /\ Cardinality({b \in At(t, token) : p <= b /\ b <= n}) \in Nat
<1> DEFINE S == {b \in At(t, token) : p <= b /\ b <= n}
<1>1. S \in SUBSET (1 .. Len(t)) /\ Len(t) \in Nat
  BY TextLength DEF At
<1>2. IsFiniteSet(1 .. Len(t))
  BY <1>1, FS_Interval
<1> HIDE DEF S
<1>3. IsFiniteSet(S)
  BY <1>1, <1>2, FS_Subset
<1>4. Cardinality(S) \in Nat
  BY <1>3, FS_CardinalityType
<1> QED  BY <1>3, <1>4 DEF S

LEMMA UpToAreCounted ==
  ASSUME NEW t, IsText(t), NEW token, NEW n \in Nat
  PROVE  IsFiniteSet(UpToAt(t, token, n)) /\ Cardinality(UpToAt(t, token, n)) \in Nat
<1> DEFINE S == UpToAt(t, token, n)
<1>1. S \in SUBSET (1 .. Len(t)) /\ Len(t) \in Nat
  BY TextLength DEF At, UpToAt
<1>2. IsFiniteSet(1 .. Len(t))
  BY <1>1, FS_Interval
<1> HIDE DEF S
<1>3. IsFiniteSet(S)
  BY <1>1, <1>2, FS_Subset
<1>4. Cardinality(S) \in Nat
  BY <1>3, FS_CardinalityType
<1> QED  BY <1>3, <1>4 DEF S

LEMMA HeightIsInt ==
  ASSUME NEW t, IsText(t), NEW n \in Nat
  PROVE  Height(t, n) \in Int
<1>1. Cardinality(UpToAt(t, Open, n)) \in Nat /\ Cardinality(UpToAt(t, Close, n)) \in Nat
  BY UpToAreCounted
<1> QED  BY <1>1 DEF Height, Depth, Braces, UpToAt

LEMMA HeightOfNothing ==
  ASSUME NEW t, IsText(t)
  PROVE  Height(t, 0) = 0
<1>1. ASSUME NEW token PROVE {b \in At(t, token) : 1 <= b /\ b <= 0} = {}
  <2>1. \A b \in At(t, token) : ~(1 <= b /\ b <= 0)
    BY TextLength DEF At
  <2> QED  BY <2>1
<1>2. Cardinality({}) = 0
  BY FS_EmptySet
<1> QED  BY <1>1, <1>2 DEF Height, Depth, Braces

LEMMA OccurrencesOfMore ==
  ASSUME NEW t, IsText(t), NEW token, NEW n \in Nat, n < Len(t)
  PROVE  Cardinality(UpToAt(t, token, n + 1))
           = Cardinality(UpToAt(t, token, n)) + (IF t[n + 1] = token THEN 1 ELSE 0)
<1> DEFINE A == UpToAt(t, token, n)
           B == UpToAt(t, token, n + 1)
<1>1. IsFiniteSet(A) /\ Cardinality(A) \in Nat
  BY UpToAreCounted
<1>2. Len(t) \in Nat /\ DOMAIN t = 1 .. Len(t) /\ n + 1 \in 1 .. Len(t)
  BY TextLength
<1>3. CASE t[n + 1] = token
  <2>1. B = A \cup {n + 1} /\ n + 1 \notin A
    BY <1>2, <1>3 DEF UpToAt, At
  <2> HIDE DEF A, B
  <2>2. Cardinality(B) = Cardinality(A) + 1
    BY <1>1, <2>1, FS_AddElement
  <2> QED  BY <1>3, <2>2 DEF A, B
<1>4. CASE t[n + 1] # token
  <2>1. B = A
    BY <1>2, <1>4 DEF UpToAt, At
  <2> HIDE DEF A, B
  <2> QED  BY <1>1, <1>4, <2>1 DEF A, B
<1> QED  BY <1>3, <1>4

LEMMA HeightOfMore ==
  ASSUME NEW t, IsText(t), NEW n \in Nat, n < Len(t)
  PROVE  Height(t, n + 1) = Height(t, n) + Opens(t[n + 1])
<1> DEFINE o == Cardinality(UpToAt(t, Open, n))
           c == Cardinality(UpToAt(t, Close, n))
<1>1. o \in Nat /\ c \in Nat
  BY UpToAreCounted
<1>2. /\ Cardinality(UpToAt(t, Open, n + 1)) = o + (IF t[n + 1] = Open THEN 1 ELSE 0)
      /\ Cardinality(UpToAt(t, Close, n + 1)) = c + (IF t[n + 1] = Close THEN 1 ELSE 0)
  BY OccurrencesOfMore
<1>3. /\ Height(t, n) = o - c
      /\ Height(t, n + 1) = Cardinality(UpToAt(t, Open, n + 1))
                              - Cardinality(UpToAt(t, Close, n + 1))
  BY DEF Height, Depth, Braces, UpToAt
<1> HIDE DEF o, c
<1> QED  BY <1>1, <1>2, <1>3, Scalars DEF Opens

LEMMA DepthIsDifference ==
  ASSUME NEW t, IsText(t), NEW p \in Nat \ {0}, NEW q \in Nat, p <= q + 1
  PROVE  Depth(Braces(t), p, q) = Height(t, q) - Height(t, p - 1)
<1>1. ASSUME NEW token
      PROVE  LET From == {b \in At(t, token) : p <= b /\ b <= q}
             IN /\ Cardinality(From) = Cardinality(UpToAt(t, token, q))
                                         - Cardinality(UpToAt(t, token, p - 1))
                /\ Cardinality(UpToAt(t, token, q)) \in Nat
                /\ Cardinality(UpToAt(t, token, p - 1)) \in Nat
  <2> DEFINE A == {b \in At(t, token) : p <= b /\ b <= q}
             B == UpToAt(t, token, p - 1)
             C == UpToAt(t, token, q)
  <2>1. p - 1 \in Nat
    OBVIOUS
  <2>2. /\ IsFiniteSet(A) /\ IsFiniteSet(B)
        /\ Cardinality(A) \in Nat /\ Cardinality(B) \in Nat /\ Cardinality(C) \in Nat
    BY <2>1, OccurrencesAreCounted, UpToAreCounted
  <2>3. C = A \cup B /\ A \cap B = {}
    <3>1. At(t, token) \in SUBSET Nat
      BY TextLength DEF At
    <3> QED  BY <3>1 DEF UpToAt
  <2> HIDE DEF A, B, C
  <2>4. Cardinality(A \cup B) = Cardinality(A) + Cardinality(B) - Cardinality(A \cap B)
    BY <2>2, FS_Union
  <2>5. Cardinality(A \cap B) = 0
    BY <2>3, FS_EmptySet
  <2>6. Cardinality(A) = Cardinality(C) - Cardinality(B)
    BY <2>2, <2>3, <2>4, <2>5
  <2> QED  BY <2>2, <2>6 DEF A, B, C
<1> DEFINE a(token) == Cardinality({b \in At(t, token) : p <= b /\ b <= q})
           b(token) == Cardinality(UpToAt(t, token, q))
           c(token) == Cardinality(UpToAt(t, token, p - 1))
<1>2. /\ a(Open) = b(Open) - c(Open) /\ a(Close) = b(Close) - c(Close)
      /\ b(Open) \in Nat /\ b(Close) \in Nat /\ c(Open) \in Nat /\ c(Close) \in Nat
  BY <1>1
<1>3. /\ Depth(Braces(t), p, q) = a(Open) - a(Close)
      /\ Height(t, q) = b(Open) - b(Close) /\ Height(t, p - 1) = c(Open) - c(Close)
  BY DEF Height, Depth, Braces, UpToAt
<1> HIDE DEF a, b, c
<1> QED  BY <1>2, <1>3

LEMMA StartOfConcat ==
  ASSUME NEW a, NEW b, IsText(a), IsText(b)
  PROVE  StartOf(a, a \o b)
<1>1. IsText(a \o b) /\ Len(a) \in Nat /\ Len(b) \in Nat
  BY ConcatIsText, TextLength
<1>2. Len(a \o b) = Len(a) + Len(b) /\ \A i \in 1 .. Len(a) : (a \o b)[i] = a[i]
  BY ConcatIndex
<1> QED  BY <1>1, <1>2 DEF StartOf

LEMMA HeightOfStart ==
  ASSUME NEW a, NEW b, IsText(a), IsText(b), NEW n \in 0 .. Len(a)
  PROVE  Height(a \o b, n) = Height(a, n)
<1>1. Len(a) \in Nat /\ n \in Nat /\ n <= Len(a)
  BY TextLength
<1>2. StartOf(a, a \o b)
  BY StartOfConcat
<1> QED  BY <1>1, <1>2, StartDepth DEF Height

LEMMA HeightOfRest ==
  ASSUME NEW a, NEW b, IsText(a), IsText(b), NEW n \in 0 .. Len(b)
  PROVE  Height(a \o b, Len(a) + n) = Height(a, Len(a)) + Height(b, n)
<1> DEFINE t == a \o b
           Holds(m) == Height(t, Len(a) + m) = Height(a, Len(a)) + Height(b, m)
           P == {m \in Nat : m <= Len(b) => Holds(m)}
<1>1. Len(a) \in Nat /\ Len(b) \in Nat /\ IsText(t) /\ Len(t) = Len(a) + Len(b)
  BY TextLength, ConcatIsText, ConcatIndex
<1>2. \A i \in 1 .. Len(b) : t[Len(a) + i] = b[i]
  BY ConcatIndex
<1>3. Holds(0)
  <2>1. Height(t, Len(a)) = Height(a, Len(a))
    BY <1>1, HeightOfStart
  <2>2. Height(b, 0) = 0 /\ Height(a, Len(a)) \in Int
    BY <1>1, HeightOfNothing, HeightIsInt
  <2> HIDE DEF t
  <2> QED  BY <1>1, <2>1, <2>2
<1> HIDE DEF t
<1>4. ASSUME NEW m \in Nat, m \in P PROVE m + 1 \in P
  <2> SUFFICES ASSUME m + 1 <= Len(b) PROVE Holds(m + 1)
    OBVIOUS
  <2>1. Holds(m) /\ m < Len(b)
    BY <1>1, <1>4
  <2>2. Height(b, m + 1) = Height(b, m) + Opens(b[m + 1])
    BY <2>1, HeightOfMore
  <2>3. Height(t, (Len(a) + m) + 1) = Height(t, Len(a) + m) + Opens(t[(Len(a) + m) + 1])
    <3>1. Len(a) + m \in Nat /\ Len(a) + m < Len(t)
      BY <1>1, <2>1
    <3> QED  BY <1>1, <3>1, HeightOfMore
  <2>4. (Len(a) + m) + 1 = Len(a) + (m + 1) /\ t[Len(a) + (m + 1)] = b[m + 1]
    BY <1>1, <1>2
  <2>5. /\ Height(a, Len(a)) \in Int /\ Height(b, m) \in Int
        /\ Opens(b[m + 1]) \in Int
    BY <1>1, HeightIsInt DEF Opens
  <2> QED  BY <2>1, <2>2, <2>3, <2>4, <2>5
<1>5. Nat \subseteq P
  <2>1. 0 \in P
    BY <1>3
  <2> HIDE DEF P
  <2> QED  BY <1>4, <2>1, SetInduction
<1>6. n \in Nat /\ n <= Len(b)
  BY <1>1
<1> HIDE DEF Holds
<1>7. Holds(n)
  BY <1>5, <1>6
<1> QED  BY <1>7 DEF Holds, t

-----------------------------------------------------------------------------
(* The names in a text, which are the tokens before a colon.               *)

Named(t) == {q \in DOMAIN t : q + 1 \in DOMAIN t /\ t[q + 1] = Colon}
Names(t) == {t[q] : q \in Named(t)}

\* A text whose braces are closed.
Balanced(t) ==
    /\ IsText(t)
    /\ Height(t, Len(t)) = 0
    /\ \A n \in 0 .. Len(t) : Height(t, n) >= 0

\* What may follow what: a text that does not make a name of its predecessor's
\* last token.
Apart(t) == IsText(t) /\ (Len(t) > 0 => t[1] # Colon)

\* What may stand before a member of that name: no reader takes a part of it for
\* the member.
Free(t, key) == Balanced(t) /\ Apart(t) /\ Str(key) \notin Names(t)

LEMMA BalancedBoth ==
  ASSUME NEW a, NEW b, Balanced(a), Balanced(b)
  PROVE  Balanced(a \o b)
<1>1. IsText(a) /\ IsText(b) /\ IsText(a \o b)
  BY ConcatIsText DEF Balanced
<1>2. Len(a) \in Nat /\ Len(b) \in Nat /\ Len(a \o b) = Len(a) + Len(b)
  BY <1>1, TextLength, ConcatIndex
<1>3. ASSUME NEW n \in 0 .. Len(a) PROVE Height(a \o b, n) = Height(a, n)
  BY <1>1, HeightOfStart
<1>4. ASSUME NEW n \in 0 .. Len(b) PROVE Height(a \o b, Len(a) + n) = Height(b, n)
  <2>1. Height(a \o b, Len(a) + n) = Height(a, Len(a)) + Height(b, n)
    BY <1>1, HeightOfRest
  <2>2. Height(a, Len(a)) = 0 /\ Height(b, n) \in Int
    BY <1>1, <1>2, HeightIsInt DEF Balanced
  <2> QED  BY <2>1, <2>2
<1>5. Height(a \o b, Len(a \o b)) = 0
  BY <1>2, <1>4 DEF Balanced
<1>6. ASSUME NEW n \in 0 .. Len(a \o b) PROVE Height(a \o b, n) >= 0
  <2>1. CASE n <= Len(a)
    BY <1>2, <1>3, <2>1 DEF Balanced
  <2>2. CASE ~(n <= Len(a))
    <3>1. n - Len(a) \in 0 .. Len(b) /\ Len(a) + (n - Len(a)) = n
      BY <1>2, <2>2
    <3>2. Height(a \o b, n) = Height(b, n - Len(a))
      BY <1>4, <3>1
    <3> QED  BY <3>1, <3>2 DEF Balanced
  <2> QED  BY <2>1, <2>2
<1> QED  BY <1>1, <1>5, <1>6 DEF Balanced

LEMMA NamesOfBoth ==
  ASSUME NEW a, NEW b, IsText(a), Apart(b)
  PROVE  Names(a \o b) \subseteq Names(a) \cup Names(b)
<1> DEFINE t == a \o b
<1>1. IsText(b) /\ IsText(t)
  BY ConcatIsText DEF Apart
<1>2. /\ Len(a) \in Nat /\ Len(b) \in Nat /\ Len(t) = Len(a) + Len(b)
      /\ DOMAIN a = 1 .. Len(a) /\ DOMAIN b = 1 .. Len(b) /\ DOMAIN t = 1 .. Len(t)
      /\ \A i \in 1 .. Len(a) : t[i] = a[i]
      /\ \A i \in 1 .. Len(b) : t[Len(a) + i] = b[i]
  BY <1>1, TextLength, ConcatIndex
<1>3. ASSUME NEW q \in Named(t)
      PROVE  \/ q \in Named(a) /\ t[q] = a[q]
             \/ q - Len(a) \in Named(b) /\ t[q] = b[q - Len(a)]
  <2> HIDE DEF t
  <2>1. q \in 1 .. Len(t) /\ q + 1 \in 1 .. Len(t) /\ t[q + 1] = Colon
    BY <1>2 DEF Named
  <2>2. CASE q < Len(a)
    <3>1. q \in 1 .. Len(a) /\ q + 1 \in 1 .. Len(a)
      BY <1>2, <2>1, <2>2
    <3> QED  BY <1>2, <2>1, <3>1 DEF Named
  <2>3. CASE q = Len(a)
    <3>1. Len(b) > 0 /\ b[1] = Colon
      BY <1>2, <2>1, <2>3
    <3> QED  BY <3>1 DEF Apart
  <2>4. CASE q > Len(a)
    <3> DEFINE r == q - Len(a)
    <3>1. /\ r \in 1 .. Len(b) /\ r + 1 \in 1 .. Len(b)
          /\ Len(a) + r = q /\ Len(a) + (r + 1) = q + 1
      BY <1>2, <2>1, <2>4
    <3> HIDE DEF r
    <3>2. t[q] = b[r] /\ t[q + 1] = b[r + 1]
      BY <1>2, <3>1
    <3>3. r \in Named(b)
      BY <1>2, <2>1, <3>1, <3>2 DEF Named
    <3> QED  BY <3>2, <3>3 DEF r
  <2>5. q < Len(a) \/ q = Len(a) \/ q > Len(a)
    <3>1. q \in Int /\ Len(a) \in Int
      BY <1>2, <2>1
    <3>2. \A m, n \in Int : m < n \/ m = n \/ m > n
      OBVIOUS
    <3> QED  BY <3>1, <3>2, Zenon
  <2> QED  BY <2>2, <2>3, <2>4, <2>5
<1> QED  BY <1>3 DEF Names

LEMMA ApartBoth ==
  ASSUME NEW a, NEW b, Apart(a), Apart(b)
  PROVE  Apart(a \o b)
<1>1. IsText(a) /\ IsText(b) /\ IsText(a \o b) /\ Len(a) \in Nat /\ Len(b) \in Nat
  BY ConcatIsText, TextLength DEF Apart
<1>2. /\ Len(a \o b) = Len(a) + Len(b)
      /\ \A i \in 1 .. Len(a) : (a \o b)[i] = a[i]
      /\ \A i \in 1 .. Len(b) : (a \o b)[Len(a) + i] = b[i]
  BY <1>1, ConcatIndex
<1>3. CASE Len(a) > 0
  BY <1>1, <1>2, <1>3 DEF Apart
<1>4. CASE Len(a) = 0
  BY <1>1, <1>2, <1>4 DEF Apart
<1> QED  BY <1>1, <1>3, <1>4

LEMMA FreeBoth ==
  ASSUME NEW a, NEW b, NEW key, Free(a, key), Free(b, key)
  PROVE  Free(a \o b, key)
<1>1. Balanced(a \o b) /\ Apart(a \o b)
  BY BalancedBoth, ApartBoth DEF Free
<1>2. Names(a \o b) \subseteq Names(a) \cup Names(b)
  BY NamesOfBoth DEF Free, Balanced
<1> QED  BY <1>1, <1>2 DEF Free

LEMMA FreeNothing == \A key : Free(<<>>, key)
<1>1. IsText(<<>>) /\ Len(<<>>) = 0
  BY EmptyIsText
<1>2. Height(<<>>, 0) = 0
  BY <1>1, HeightOfNothing
<1>3. Balanced(<<>>) /\ Apart(<<>>)
  BY <1>1, <1>2 DEF Balanced, Apart
<1>4. Named(<<>>) = {}
  BY DEF Named
<1> QED  BY <1>3, <1>4 DEF Free, Names

LEMMA HeightOfToken ==
  ASSUME NEW x
  PROVE  Height(<<x>>, 0) = 0 /\ Height(<<x>>, 1) = Opens(x) /\ Opens(x) \in Int
<1>1. IsText(<<x>>) /\ Len(<<x>>) = 1 /\ <<x>>[1] = x
  BY TokenIsText
<1>2. Height(<<x>>, 0) = 0
  BY <1>1, HeightOfNothing
<1>3. Height(<<x>>, 0 + 1) = Height(<<x>>, 0) + Opens(<<x>>[0 + 1])
  BY <1>1, HeightOfMore
<1>4. Opens(x) \in Int
  BY DEF Opens
<1> QED  BY <1>1, <1>2, <1>3, <1>4

LEMMA NoNamesInToken == \A x : Names(<<x>>) = {}
BY DEF Names, Named

LEMMA FreeToken ==
  ASSUME NEW x, Scalar(x), NEW key
  PROVE  Free(<<x>>, key)
<1>1. IsText(<<x>>) /\ Len(<<x>>) = 1 /\ <<x>>[1] = x
  BY TokenIsText
<1>2. Height(<<x>>, 0) = 0 /\ Height(<<x>>, 1) = 0
  BY HeightOfToken DEF Scalar, Opens
<1>3. Balanced(<<x>>) /\ Apart(<<x>>)
  <2>1. \A n \in 0 .. 1 : n = 0 \/ n = 1
    OBVIOUS
  <2> QED  BY <1>1, <1>2, <2>1 DEF Balanced, Apart, Scalar
<1> QED  BY <1>3, NoNamesInToken DEF Free

LEMMA FreeAll ==
  ASSUME NEW S, NEW s \in Seq(S), NEW key, \A t \in S : Free(t, key)
  PROVE  Free(FlattenSeq(s), key)
<1> DEFINE start(m) == SubSeq(s, 1, m)
           Holds(m) == Free(FlattenSeq(start(m)), key)
           P == {m \in Nat : m <= Len(s) => Holds(m)}
<1>1. Len(s) \in Nat /\ \A t \in S : IsText(t)
  BY DEF Free, Apart
<1>2. Holds(0)
  <2>1. start(0) = <<>>
    OBVIOUS
  <2> QED  BY <2>1, FlattenOfNone, FreeNothing
<1>3. ASSUME NEW m \in Nat, m \in P PROVE m + 1 \in P
  <2> SUFFICES ASSUME m + 1 <= Len(s) PROVE Holds(m + 1)
    OBVIOUS
  <2> DEFINE b == start(m)
             x == s[m + 1]
  <2>1. Free(FlattenSeq(b), key)
    BY <1>1, <1>3
  <2>2. b \in Seq(S) /\ x \in S /\ start(m + 1) = Append(b, x)
    OBVIOUS
  <2> HIDE DEF b, x
  <2>3. FlattenSeq(Append(b, x)) = FlattenSeq(b) \o x
    BY <1>1, <2>2, FlattenOfMore
  <2>4. Free(FlattenSeq(b) \o x, key)
    BY <2>1, <2>2, FreeBoth
  <2> QED  BY <2>2, <2>3, <2>4
<1>4. Nat \subseteq P
  <2>1. 0 \in P
    BY <1>2
  <2> HIDE DEF P
  <2> QED  BY <1>3, <2>1, SetInduction
<1>5. Holds(Len(s))
  <2> HIDE DEF Holds
  <2> QED  BY <1>1, <1>4
<1>6. start(Len(s)) = s
  OBVIOUS
<1> QED  BY <1>5, <1>6

-----------------------------------------------------------------------------
(* Objects and their members.                                              *)

LEMMA ObjectHeights ==
  ASSUME NEW ms, Balanced(FlattenSeq(ms)), NEW f, f = FlattenSeq(ms),
         NEW o, o = Object(ms)
  PROVE  /\ IsText(f) /\ Len(f) \in Nat
         /\ IsText(o) /\ Len(o) = Len(f) + 2
         /\ o[1] = Open /\ o[Len(o)] = Close
         /\ Height(o, 0) = 0 /\ Height(o, Len(o)) = 0
         /\ \A n \in 0 .. Len(f) : Height(o, n + 1) = 1 + Height(f, n)
         /\ \A n \in 1 .. Len(o) - 1 : Height(o, n) >= 1
<1> DEFINE a == <<Open>>
           z == <<Close>>
           b == a \o f
<1>1. IsText(f) /\ Len(f) \in Nat /\ Height(f, Len(f)) = 0 /\ \A n \in 0 .. Len(f) : Height(f, n) >= 0
  BY TextLength DEF Balanced
<1>2. /\ IsText(a) /\ Len(a) = 1 /\ a[1] = Open
      /\ IsText(z) /\ Len(z) = 1 /\ z[1] = Close
  BY TokenIsText
<1>3. Height(a, 0) = 0 /\ Height(a, 1) = 1 /\ Height(z, 1) = -1
  BY HeightOfToken, Scalars DEF Opens
<1>4. o = b \o z
  BY DEF Object
<1> HIDE DEF a, z
<1>5. IsText(b) /\ Len(b) = 1 + Len(f) /\ b[1] = Open
  <2>1. IsText(a) /\ IsText(f) /\ 1 \in 1 .. Len(a)
    BY <1>1, <1>2
  <2>2. IsText(a \o f)
    BY <2>1, ConcatIsText
  <2>3. Len(a \o f) = Len(a) + Len(f) /\ \A i \in 1 .. Len(a) : (a \o f)[i] = a[i]
    BY <2>1, ConcatIndex
  <2> QED  BY <1>2, <2>1, <2>2, <2>3
<1>6. ASSUME NEW n \in 0 .. Len(f) PROVE Height(b, n + 1) = 1 + Height(f, n)
  <2>1. Height(b, Len(a) + n) = Height(a, Len(a)) + Height(f, n)
    <3>1. IsText(a) /\ IsText(f) /\ n \in 0 .. Len(f)
      BY <1>1, <1>2
    <3> QED  BY <3>1, HeightOfRest
  <2>2. Len(a) + n = n + 1
    BY <1>1, <1>2
  <2> QED  BY <1>2, <1>3, <2>1, <2>2
<1>7. Height(b, 0) = 0
  BY <1>5, HeightOfNothing
<1> HIDE DEF b
<1>8. IsText(o) /\ Len(o) = Len(f) + 2 /\ o[1] = Open /\ o[Len(o)] = Close
  <2>1. IsText(o)
    BY <1>2, <1>4, <1>5, ConcatIsText
  <2>2. /\ Len(o) = Len(b) + Len(z)
        /\ \A i \in 1 .. Len(b) : o[i] = b[i]
        /\ \A i \in 1 .. Len(z) : o[Len(b) + i] = z[i]
    <3>1. IsText(b) /\ IsText(z)
      BY <1>2, <1>5
    <3> QED  BY <1>4, <3>1, ConcatIndex
  <2>3. 1 \in 1 .. Len(b) /\ 1 \in 1 .. Len(z)
    BY <1>1, <1>2, <1>5
  <2> QED  BY <1>1, <1>2, <1>5, <2>1, <2>2, <2>3
<1>9. ASSUME NEW n \in 0 .. Len(b) PROVE Height(o, n) = Height(b, n)
  BY <1>2, <1>4, <1>5, HeightOfStart
<1>10. ASSUME NEW n \in 0 .. Len(f) PROVE Height(o, n + 1) = 1 + Height(f, n)
  <2>1. n + 1 \in 0 .. Len(b)
    BY <1>1, <1>5
  <2> QED  BY <1>6, <1>9, <2>1
<1>11. Height(o, 0) = 0
  BY <1>8, HeightOfNothing
<1>12. Height(o, Len(o)) = 0
  <2>1. Height(o, Len(b) + 1) = Height(b, Len(b)) + Height(z, 1)
    BY <1>2, <1>4, <1>5, HeightOfRest
  <2>2. Height(b, Len(f) + 1) = 1 + Height(f, Len(f))
    BY <1>1, <1>6
  <2>3. Len(b) = Len(f) + 1 /\ Len(o) = Len(b) + 1
    BY <1>1, <1>5, <1>8
  <2> QED  BY <1>1, <1>3, <2>1, <2>2, <2>3
<1>13. ASSUME NEW n \in 1 .. Len(o) - 1 PROVE Height(o, n) >= 1
  <2>1. n - 1 \in 0 .. Len(f) /\ (n - 1) + 1 = n
    BY <1>1, <1>8
  <2>2. Height(o, n) = 1 + Height(f, n - 1)
    BY <1>10, <2>1
  <2>3. Height(f, n - 1) >= 0 /\ Height(f, n - 1) \in Int
    BY <1>1, <2>1, HeightIsInt
  <2> QED  BY <2>2, <2>3
<1> QED  BY <1>1, <1>8, <1>10, <1>11, <1>12, <1>13

LEMMA FreeObject ==
  ASSUME NEW ms, NEW key, Free(FlattenSeq(ms), key)
  PROVE  Free(Object(ms), key)
<1> DEFINE o == Object(ms)
           f == FlattenSeq(ms)
<1>1. /\ IsText(f) /\ Len(f) \in Nat
      /\ IsText(o) /\ Len(o) = Len(f) + 2
      /\ o[1] = Open
      /\ Height(o, 0) = 0 /\ Height(o, Len(o)) = 0
      /\ \A n \in 1 .. Len(o) - 1 : Height(o, n) >= 1
  BY ObjectHeights DEF Free
<1>2. Balanced(o)
  <2> HIDE DEF o
  <2>1. \A n \in 0 .. Len(o) : n = 0 \/ n = Len(o) \/ n \in 1 .. Len(o) - 1
    BY <1>1
  <2>2. \A n \in 0 .. Len(o) : Height(o, n) >= 0
    <3> SUFFICES ASSUME NEW n \in 0 .. Len(o) PROVE Height(o, n) >= 0
      OBVIOUS
    <3>1. Height(o, n) \in Int
      BY <1>1, HeightIsInt
    <3> QED  BY <1>1, <2>1, <3>1
  <2> QED  BY <1>1, <2>2 DEF Balanced
<1>3. Apart(o)
  BY <1>1, Scalars DEF Apart
<1>4. Str(key) \notin Names(o)
  <2>1. IsText(<<Open>>) /\ Apart(<<Close>>) /\ Apart(f)
    BY TokenIsText, Scalars DEF Apart, Free
  <2>2. Names(<<Open>> \o f) \subseteq Names(<<Open>>) \cup Names(f)
    BY <2>1, NamesOfBoth
  <2>3. IsText(<<Open>> \o f)
    BY <1>1, <2>1, ConcatIsText
  <2>4. Names(o) \subseteq Names(<<Open>> \o f) \cup Names(<<Close>>)
    BY <2>1, <2>3, NamesOfBoth DEF Object
  <2> QED  BY <2>2, <2>4, NoNamesInToken DEF Free
<1> QED  BY <1>2, <1>3, <1>4 DEF Free

LEMMA FreeMember ==
  ASSUME NEW key, NEW name, NEW v, Free(v, key), name # key
  PROVE  Free(Member(name, v), key)
<1> DEFINE a == <<Str(name)>>
           c == <<Colon>>
           b == a \o c
<1>1. /\ IsText(a) /\ Len(a) = 1 /\ a[1] = Str(name)
      /\ IsText(c) /\ Len(c) = 1
  BY TokenIsText
<1>2. Height(a, 0) = 0 /\ Height(a, 1) = 0 /\ Height(c, 1) = 0
  BY HeightOfToken, Scalars DEF Scalar, Opens
<1>3. b = <<Str(name), Colon>>
  <2>1. Len(b) = Len(a) + Len(c) /\ \A i \in 1 .. Len(a) : b[i] = a[i]
    BY <1>1, ConcatIndex
  <2>2. \A i \in 1 .. Len(c) : b[Len(a) + i] = c[i]
    BY <1>1, ConcatIndex
  <2>3. IsText(b)
    BY <1>1, ConcatIsText
  <2>4. c[1] = Colon
    OBVIOUS
  <2> HIDE DEF a, b, c
  <2>5. Len(b) = 2 /\ b[1] = Str(name) /\ b[2] = Colon
    BY <1>1, <2>1, <2>2, <2>4
  <2> DEFINE w == <<Str(name), Colon>>
  <2>6. Len(w) = 2 /\ w[1] = Str(name) /\ w[2] = Colon /\ IsText(w)
    <3>1. w \in Seq({Str(name), Colon})
      OBVIOUS
    <3> QED  BY <3>1 DEF IsText
  <2> HIDE DEF w
  <2>7. \A i \in 1 .. 2 : b[i] = w[i]
    <3>1. \A i \in 1 .. 2 : i = 1 \/ i = 2
      OBVIOUS
    <3> QED  BY <2>5, <2>6, <3>1
  <2>8. b = w
    BY <2>3, <2>5, <2>6, <2>7, SameText
  <2> QED  BY <2>8 DEF w
<1>4. IsText(b) /\ Len(b) = 2 /\ b[1] = Str(name)
  <2>1. IsText(b)
    BY <1>1, ConcatIsText
  <2> QED  BY <1>3, <2>1
<1> HIDE DEF a, c
<1>5. Height(b, 0) = 0 /\ Height(b, 1) = 0 /\ Height(b, 2) = 0
  <2>1. Height(b, 0) = Height(a, 0) /\ Height(b, 1) = Height(a, 1)
    BY <1>1, HeightOfStart
  <2>2. Height(b, Len(a) + 1) = Height(a, Len(a)) + Height(c, 1)
    <3>1. IsText(a) /\ IsText(c) /\ 1 \in 0 .. Len(c)
      BY <1>1
    <3> QED  BY <3>1, HeightOfRest
  <2> QED  BY <1>1, <1>2, <2>1, <2>2
<1> HIDE DEF b
<1>6. Balanced(b) /\ Apart(b)
  <2>1. \A n \in 0 .. 2 : n = 0 \/ n = 1 \/ n = 2
    OBVIOUS
  <2> QED  BY <1>4, <1>5, <2>1, Scalars DEF Balanced, Apart, Scalar
<1>7. Str(key) \notin Names(b)
  <2>1. \A q \in Named(b) : q = 1
    BY <1>4, TextLength DEF Named
  <2> QED  BY <1>4, <2>1, Tokens DEF Names
<1>8. Member(name, v) = b \o v
  BY <1>3 DEF Member
<1> QED  BY <1>6, <1>7, <1>8, FreeBoth DEF Free

-----------------------------------------------------------------------------
(* What is found where.                                                    *)

\* The brace that closes an object inside a text.
LEMMA ObjectsAtObject ==
  ASSUME NEW a, NEW c, IsText(a), IsText(c), NEW ms, Balanced(FlattenSeq(ms))
  PROVE  /\ Objects(a \o (Object(ms) \o c), {Len(a) + 1}) = {Object(ms)}
         /\ Len(a) + 1 <= Len(a \o (Object(ms) \o c))
         /\ (a \o (Object(ms) \o c))[Len(a) + 1] = Open
<1> DEFINE t == a \o (Object(ms) \o c)
           o == Object(ms)
           f == FlattenSeq(ms)
           b == o \o c
           p == Len(a) + 1
           r == Len(a) + Len(o)
<1>1. /\ IsText(f) /\ Len(f) \in Nat
      /\ IsText(o) /\ Len(o) = Len(f) + 2
      /\ o[1] = Open /\ o[Len(o)] = Close
      /\ Height(o, 0) = 0 /\ Height(o, Len(o)) = 0
      /\ \A n \in 1 .. Len(o) - 1 : Height(o, n) >= 1
  BY ObjectHeights
<1> HIDE DEF o, f
<1>2. IsText(b) /\ Len(b) = Len(o) + Len(c) /\ \A i \in 1 .. Len(o) : b[i] = o[i]
  <2>1. IsText(o)
    BY <1>1
  <2>2. IsText(o \o c)
    BY <2>1, ConcatIsText
  <2>3. Len(o \o c) = Len(o) + Len(c) /\ \A i \in 1 .. Len(o) : (o \o c)[i] = o[i]
    BY <2>1, ConcatIndex
  <2> QED  BY <2>2, <2>3
<1>3. /\ Len(a) \in Nat /\ Len(c) \in Nat /\ Len(b) \in Nat
  BY <1>2, TextLength
<1>4. t = a \o b
  BY DEF o
<1> HIDE DEF b, t
<1>5. /\ IsText(t) /\ Len(t) = Len(a) + Len(b)
      /\ \A i \in 1 .. Len(b) : t[Len(a) + i] = b[i]
  <2>1. IsText(a) /\ IsText(b)
    BY <1>2
  <2> HIDE DEF p, r
  <2> QED  BY <1>4, <2>1, ConcatFacts
<1>6. ASSUME NEW k \in 0 .. Len(o)
      PROVE  Depth(Braces(t), p, Len(a) + k) = Height(o, k)
  <2>1. p \in Nat \ {0} /\ Len(a) + k \in Nat /\ p <= Len(a) + k + 1 /\ p - 1 = Len(a)
    BY <1>1, <1>3
  <2> HIDE DEF p
  <2>2. Depth(Braces(t), p, Len(a) + k) = Height(t, Len(a) + k) - Height(t, p - 1)
    BY <1>5, <2>1, DepthIsDifference
  <2>3. Height(t, Len(a) + k) = Height(a, Len(a)) + Height(b, k)
    <3>1. IsText(a) /\ IsText(b) /\ k \in 0 .. Len(b)
      BY <1>1, <1>2, <1>3
    <3> QED  BY <1>4, <3>1, HeightOfRest
  <2>4. Height(b, k) = Height(o, k)
    <3>1. IsText(o) /\ IsText(c)
      BY <1>1
    <3> QED  BY <3>1, HeightOfStart DEF b
  <2>5. Height(t, Len(a)) = Height(a, Len(a))
    <3>1. Len(a) \in 0 .. Len(a)
      BY <1>3
    <3> QED  BY <1>2, <1>4, <3>1, HeightOfStart
  <2>6. Height(a, Len(a)) \in Int /\ Height(o, k) \in Int
    BY <1>1, <1>3, HeightIsInt
  <2> QED  BY <2>1, <2>2, <2>3, <2>4, <2>5, <2>6
<1>7. p \in Nat \ {0} /\ p <= Len(t) /\ t[p] = Open
  BY <1>1, <1>2, <1>3, <1>5
<1> DEFINE S == {q \in Braces(t).close : q > p /\ Depth(Braces(t), p, q) = 0}
<1>8. r \in S
  <2>1. t[r] = Close /\ r \in 1 .. Len(t) /\ r > p
    BY <1>1, <1>2, <1>3, <1>5
  <2>2. Depth(Braces(t), p, r) = 0
    BY <1>1, <1>6
  <2> HIDE DEF p, r
  <2> QED  BY <1>5, <2>1, <2>2, TextLength DEF Braces, At
<1>9. \A q \in S : r <= q
  <2> SUFFICES ASSUME NEW q \in S, ~(r <= q) PROVE FALSE
    OBVIOUS
  <2>1. q \in 1 .. Len(t) /\ q > p /\ Depth(Braces(t), p, q) = 0
    BY <1>5, TextLength DEF Braces, At
  <2>2. q - Len(a) \in 1 .. Len(o) - 1 /\ Len(a) + (q - Len(a)) = q
        /\ q - Len(a) \in 0 .. Len(o)
    BY <1>1, <1>3, <1>5, <2>1
  <2>3. Height(o, q - Len(a)) = 0
    BY <1>6, <2>1, <2>2
  <2> QED  BY <1>1, <2>2, <2>3
<1>10. Matching(t, p) = {r}
  <2>1. S \in SUBSET Int
    BY <1>5, TextLength DEF Braces, At
  <2>2. Matching(t, p) = Least(S)
    BY DEF Matching
  <2> HIDE DEF S, p, r
  <2>3. r \in Least(S)
    BY <1>8, <1>9 DEF Least
  <2>4. AtMostOne(Least(S))
    BY <2>1, LeastIsOne
  <2> QED  BY <2>2, <2>3, <2>4 DEF AtMostOne
<1>11. SubSeq(t, p, r) = o
  BY <1>1, <1>4, MiddlePart DEF b
<1> HIDE DEF p, r
<1>12. Objects(t, {p}) = {o}
  <2> DEFINE all(x) == {SubSeq(t, x, q) : q \in Matching(t, x)}
             M == Matching(t, p)
  <2>1. Objects(t, {p}) = UNION {all(x) : x \in {p}}
    <3>1. {q \in {p} : q <= Len(t) /\ t[q] = Open} = {p}
      BY <1>7
    <3> QED  BY <3>1 DEF Objects
  <2>2. {SubSeq(t, p, q) : q \in M} = {o}
    <3>1. M = {r}
      BY <1>10
    <3> HIDE DEF M
    <3> QED  BY <1>11, <3>1
  <2>3. all(p) = {o}
    BY <2>2
  <2> HIDE DEF all
  <2> QED  BY <2>1, <2>3
<1> QED  BY <1>7, <1>12 DEF p, o, t

\* A text that has that value at that position.
Located(t, p, v) ==
    \E a, b : IsText(a) /\ IsText(b) /\ t = a \o (v \o b) /\ p = Len(a) + 1
Found(positions, t, v) == \E p : positions = {p} /\ Located(t, p, v)

LEMMA FoundToken ==
  ASSUME NEW P, NEW t, NEW x, Found(P, t, <<x>>)
  PROVE  /\ \A kind : Values(t, P, kind) = IF x[1] = kind THEN {x[2]} ELSE {}
         /\ IsNull(t, P) <=> x = Null
         /\ P # {}
         /\ x # Open => Objects(t, P) = {}
<1>1. PICK p, a, b : P = {p} /\ IsText(a) /\ IsText(b) /\ t = a \o (<<x>> \o b) /\ p = Len(a) + 1
  BY DEF Found, Located
<1>2. IsText(<<x>>) /\ Len(<<x>>) = 1 /\ <<x>>[1] = x
  BY TokenIsText
<1> DEFINE w == <<x>>
<1> HIDE DEF w
<1>3. IsText(w) /\ Len(w) = 1 /\ w[1] = x /\ t = a \o (w \o b)
  BY <1>1, <1>2 DEF w
<1> DEFINE c == w \o b
<1>4. IsText(c) /\ Len(c) = 1 + Len(b) /\ c[1] = x
  BY <1>1, <1>3, ConcatIsText, ConcatIndex
<1>5. Len(a) \in Nat /\ Len(b) \in Nat
  BY <1>1, TextLength
<1>6. t = a \o c
  BY <1>3
<1> HIDE DEF c
<1>7. Len(t) = Len(a) + Len(c) /\ \A i \in 1 .. Len(c) : t[Len(a) + i] = c[i]
  BY <1>1, <1>4, <1>6, ConcatIndex
<1>8. p <= Len(t) /\ t[p] = x
  BY <1>1, <1>4, <1>5, <1>7
<1>9. ASSUME NEW kind PROVE Values(t, P, kind) = IF x[1] = kind THEN {x[2]} ELSE {}
  BY <1>1, <1>8 DEF Values
<1>10. x # Open => Objects(t, P) = {}
  BY <1>1, <1>8 DEF Objects
<1> QED  BY <1>1, <1>8, <1>9, <1>10 DEF IsNull

LEMMA FoundObject ==
  ASSUME NEW P, NEW t, NEW ms, Balanced(FlattenSeq(ms)), Found(P, t, Object(ms))
  PROVE  Objects(t, P) = {Object(ms)} /\ ~IsNull(t, P) /\ P # {}
<1>1. PICK p, a, b : /\ P = {p} /\ IsText(a) /\ IsText(b)
                     /\ t = a \o (Object(ms) \o b) /\ p = Len(a) + 1
  BY DEF Found, Located
<1>2. Objects(t, {p}) = {Object(ms)} /\ p <= Len(t) /\ t[p] = Open
  BY <1>1, ObjectsAtObject
<1> QED  BY <1>1, <1>2, Scalars DEF IsNull

\* Both readers, in a text whose members before it are free of the name.
LEMMA BothFind ==
  ASSUME NEW key, NEW f, NEW v, NEW c, Free(f, key), IsText(v), IsText(c)
  PROVE  LET t == (<<Open>> \o f) \o (Member(key, v) \o c)
         IN Found(FindValue(t, key), t, v) /\ Found(Find(t, key), t, v)
<1> DEFINE t == (<<Open>> \o f) \o (Member(key, v) \o c)
           o == <<Open>>
           a == o \o f
           m == <<Str(key), Colon>>
           d == v \o c
           e == m \o d
           p == Len(a) + 1
<1>1. IsText(o) /\ Len(o) = 1 /\ o[1] = Open /\ Names(o) = {} /\ Height(o, 1) = 1
  BY TokenIsText, NoNamesInToken, HeightOfToken DEF Opens
<1>2. /\ IsText(m) /\ Len(m) = 2 /\ m[1] = Str(key) /\ m[2] = Colon
  <2>1. m \in Seq({Str(key), Colon})
    OBVIOUS
  <2> QED  BY <2>1 DEF IsText
<1>3. IsText(f) /\ Apart(f) /\ Str(key) \notin Names(f) /\ Height(f, Len(f)) = 0 /\ Len(f) \in Nat
  BY TextLength DEF Free, Apart, Balanced
<1>4. t = a \o e
  <2>1. (m \o v) \o c = m \o (v \o c)
    <3> HIDE DEF m
    <3> QED  BY <1>2, ConcatAssociates
  <2> QED  BY <2>1 DEF Member
<1> HIDE DEF o, m, t
<1>5. IsText(a) /\ Len(a) = 1 + Len(f) /\ Str(key) \notin Names(a)
  <2>1. IsText(a) /\ Len(a) = 1 + Len(f)
    <3>1. IsText(o) /\ IsText(f)
      BY <1>1, <1>3
    <3>2. IsText(a) /\ Len(a) = Len(o) + Len(f)
      BY <3>1, ConcatFacts
    <3> QED  BY <1>1, <3>2
  <2>2. Names(a) \subseteq Names(o) \cup Names(f)
    BY <1>1, <1>3, NamesOfBoth
  <2> HIDE DEF a
  <2> QED  BY <1>1, <1>3, <2>1, <2>2
<1>6. Height(a, Len(a)) = 1
  <2>1. Len(f) \in 0 .. Len(f)
    BY <1>3
  <2>2. Height(a, Len(o) + Len(f)) = Height(o, Len(o)) + Height(f, Len(f))
    <3>1. IsText(o) /\ IsText(f)
      BY <1>1, <1>3
    <3> QED  BY <2>1, <3>1, HeightOfRest
  <2> QED  BY <1>1, <1>3, <1>5, <2>2
<1> HIDE DEF a
<1>7. IsText(d)
  BY ConcatIsText
<1> HIDE DEF d
<1>8. IsText(e) /\ Len(e) = 2 + Len(d) /\ e[1] = Str(key) /\ e[2] = Colon
  <2>0. IsText(m) /\ IsText(d)
    BY <1>2, <1>7
  <2>1. Len(e) = Len(m) + Len(d) /\ \A i \in 1 .. Len(m) : e[i] = m[i]
    BY <2>0, ConcatIndex
  <2>2. 1 \in 1 .. Len(m) /\ 2 \in 1 .. Len(m)
    BY <1>2
  <2> QED  BY <1>2, <1>7, <2>1, <2>2, ConcatIsText
<1> HIDE DEF e
<1>9. /\ IsText(t) /\ Len(t) = Len(a) + Len(e)
      /\ \A i \in 1 .. Len(a) : t[i] = a[i]
      /\ \A i \in 1 .. Len(e) : t[Len(a) + i] = e[i]
  <2>1. IsText(a) /\ IsText(e)
    BY <1>5, <1>8
  <2> HIDE DEF p
  <2> QED  BY <1>4, <2>1, ConcatFacts
<1>10. /\ Len(a) \in Nat /\ Len(d) \in Nat /\ Len(e) \in Nat
       /\ DOMAIN a = 1 .. Len(a) /\ DOMAIN t = 1 .. Len(t)
  BY <1>5, <1>7, <1>8, <1>9, TextLength
<1> DEFINE S == {q \in At(t, Str(key)) : q < Len(t) /\ t[q + 1] = Colon}
<1>11. p \in S
  <2>1. p \in 1 .. Len(t) /\ p < Len(t)
    BY <1>8, <1>9, <1>10
  <2>2. t[p] = Str(key) /\ t[p + 1] = Colon
    <3>1. 1 \in 1 .. Len(e) /\ 2 \in 1 .. Len(e) /\ p + 1 = Len(a) + 2
      BY <1>8, <1>10
    <3> QED  BY <1>8, <1>9, <3>1
  <2> HIDE DEF p
  <2> QED  BY <1>10, <2>1, <2>2 DEF At
<1>12. \A q \in S : q \in Nat /\ p <= q
  <2> SUFFICES ASSUME NEW q \in S PROVE q \in Nat /\ p <= q
    OBVIOUS
  <2>1. q \in 1 .. Len(t) /\ t[q] = Str(key) /\ q < Len(t) /\ t[q + 1] = Colon
    BY <1>10 DEF At
  <2> HIDE DEF S
  <2>2. CASE q < Len(a)
    <3>1. q \in 1 .. Len(a) /\ q + 1 \in 1 .. Len(a)
      BY <1>10, <2>1, <2>2
    <3>2. a[q] = Str(key) /\ a[q + 1] = Colon
      BY <1>9, <2>1, <3>1
    <3>3. Str(key) \in Names(a)
      BY <1>10, <3>1, <3>2 DEF Names, Named
    <3> QED  BY <1>5, <3>3
  <2>3. CASE q = Len(a)
    <3>1. t[q + 1] = Str(key)
      <4>1. 1 \in 1 .. Len(e)
        BY <1>8, <1>10
      <4> QED  BY <1>8, <1>9, <2>3, <4>1
    <3> QED  BY <2>1, <3>1, Scalars DEF Scalar
  <2>4. q < Len(a) \/ q = Len(a) \/ q > Len(a)
    <3>1. q \in Nat /\ Len(a) \in Nat
      BY <1>9, <1>10, <2>1
    <3> QED  BY <3>1
  <2>5. CASE q > Len(a)
    BY <1>10, <2>1, <2>5
  <2> QED  BY <2>2, <2>3, <2>4, <2>5
<1>13. FindValue(t, key) = {p + 2}
  <2>1. FindValue(t, key) = {q + 2 : q \in Least(S)}
    BY DEF FindValue
  <2> HIDE DEF S, p
  <2>2. \A q \in Least(S) : q = p
    BY <1>11, <1>12 DEF Least
  <2>3. p \in Least(S)
    BY <1>11, <1>12 DEF Least
  <2> QED  BY <2>1, <2>2, <2>3
<1>14. Find(t, key) = {p + 2}
  <2> DEFINE R == {q \in At(t, Str(key)) :
                     /\ q < Len(t) /\ t[q + 1] = Colon /\ Depth(Braces(t), 1, q) = 1}
  <2>1. Find(t, key) = {q + 2 : q \in Least(R)}
    BY DEF Find
  <2>2. Height(t, p) = 1
    <3>1. Height(t, Len(a) + 0) = Height(a, Len(a)) /\ Len(a) + 0 = Len(a)
      <4>1. Len(a) \in 0 .. Len(a) /\ Len(a) + 0 = Len(a)
        BY <1>10
      <4>2. Height(a \o e, Len(a)) = Height(a, Len(a))
        BY <1>5, <1>8, <4>1, HeightOfStart
      <4> QED  BY <1>4, <4>1, <4>2
    <3>2. Height(t, Len(a) + 1) = Height(t, Len(a)) + Opens(t[Len(a) + 1])
      <4>1. Len(a) < Len(t)
        BY <1>8, <1>9, <1>10
      <4> QED  BY <1>9, <1>10, <4>1, HeightOfMore
    <3>3. t[p] = Str(key)
      BY <1>11 DEF At
    <3>4. Opens(t[p]) = 0
      <4>1. Opens(Str(key)) = 0
        BY Scalars DEF Opens, Scalar
      <4> QED  BY <3>3, <4>1, Zenon
    <3> QED  BY <1>6, <3>1, <3>2, <3>4
  <2>3. p \in R /\ R \subseteq S
    <3> HIDE DEF p
    <3> QED  BY <1>11, <2>2 DEF Height
  <2> HIDE DEF R, S, p
  <2>4. \A q \in Least(R) : q = p
    BY <1>12, <2>3 DEF Least
  <2>5. p \in Least(R)
    BY <1>12, <2>3 DEF Least
  <2> QED  BY <2>1, <2>4, <2>5
<1>15. Located(t, p + 2, v)
  <2> DEFINE b == a \o m
  <2>1. IsText(b) /\ Len(b) = Len(a) + 2
    <3>1. IsText(a) /\ IsText(m)
      BY <1>2, <1>5
    <3>2. IsText(b) /\ Len(b) = Len(a) + Len(m)
      BY <3>1, ConcatFacts
    <3> QED  BY <1>2, <3>2
  <2>2. t = b \o (v \o c)
    <3>1. (a \o m) \o d = a \o (m \o d)
      <4>1. IsText(a) /\ IsText(m) /\ IsText(d)
        BY <1>2, <1>5, <1>7
      <4>2. Cat(Cat(a, m), d) = Cat(a, Cat(m, d))
        BY <4>1, CatFacts
      <4> QED  BY <4>2 DEF Cat
    <3> QED  BY <1>4, <3>1 DEF d, e
  <2>3. p + 2 = Len(b) + 1
    BY <1>10, <2>1
  <2> HIDE DEF b, p
  <2> QED  BY <2>1, <2>2, <2>3 DEF Located
<1> QED  BY <1>13, <1>14, <1>15 DEF Found, t

-----------------------------------------------------------------------------
(* The members of an object, one after the other.                          *)

\* What both readers find under a name.
Reads(t, key, v) == Found(FindValue(t, key), t, v) /\ Found(Find(t, key), t, v)

\* The texts before a member, which are free of its name.
FreeBefore(ms, i, key) == \A j \in 1 .. i - 1 : Free(ms[j], key)

\* The text has that member after those before it.
Split(ms, i, g) ==
    \E c : /\ IsText(c)
           /\ Object(ms) \o g
                = (<<Open>> \o FlattenSeq(SubSeq(ms, 1, i - 1))) \o (ms[i] \o c)

LEMMA ObjectSplits ==
  ASSUME NEW S, NEW ms \in Seq(S), \A x \in S : IsText(x), NEW i \in 1 .. Len(ms),
         NEW g, IsText(g)
  PROVE  Split(ms, i, g)
<1> DEFINE before == SubSeq(ms, 1, i - 1)
           x == ms[i]
           after == SubSeq(ms, i + 1, Len(ms))
           b == FlattenSeq(before)
           a == FlattenSeq(after)
           o == <<Open>>
           z == <<Close>>
           c == a \o (z \o g)
<1>1. /\ before \in Seq(S) /\ after \in Seq(S) /\ x \in S /\ <<x>> \in Seq(S)
      /\ Append(before, x) \in Seq(S)
  OBVIOUS
<1>2. ms = Append(before, x) \o after
  <2>1. i \in Nat /\ i >= 1 /\ i <= Len(ms) /\ Len(ms) \in Nat
    OBVIOUS
  <2>2. SubSeq(ms, 1, i) = Append(before, x)
    OBVIOUS
  <2>3. 1 \in 1 .. Len(ms) + 1 /\ i \in 1 - 1 .. Len(ms) /\ Len(ms) \in i .. Len(ms)
    BY <2>1
  <2>4. SubSeq(ms, 1, i) \o after = SubSeq(ms, 1, Len(ms))
    BY <2>3, ConcatAdjacentSubSeq
  <2>5. SubSeq(ms, 1, Len(ms)) = ms
    BY SubSeqFull
  <2> HIDE DEF before, x, after
  <2> QED  BY <2>2, <2>4, <2>5
<1> HIDE DEF before, x, after
<1>3. FlattenSeq(ms) = FlattenSeq(Append(before, x)) \o a
  <2> DEFINE w == Append(before, x)
  <2>1. w \in Seq(S)
    BY <1>1
  <2> HIDE DEF w
  <2>2. FlattenSeq(w \o after) = FlattenSeq(w) \o FlattenSeq(after)
    BY <1>1, <2>1, FlattenOfBoth
  <2> QED  BY <1>2, <2>2 DEF w
<1>4. FlattenSeq(Append(before, x)) = b \o x
  BY <1>1, FlattenOfMore
<1>5. IsText(a) /\ IsText(b) /\ IsText(x)
  BY <1>1, FlattenIsText
<1>6. IsText(o) /\ IsText(z)
  BY TokenIsText
<1> HIDE DEF a, b, o, z
<1>7. Object(ms) \o g = ((o \o ((b \o x) \o a)) \o z) \o g
  BY <1>3, <1>4 DEF Object, o, z
<1>8. ((o \o ((b \o x) \o a)) \o z) \o g = (o \o b) \o (x \o (a \o (z \o g)))
  <2> DEFINE xa == Cat(x, a)
             zg == Cat(z, g)
  <2>1. Cat(Cat(b, x), a) = Cat(b, xa) /\ IsText(xa) /\ IsText(zg) /\ IsText(Cat(b, xa))
    BY <1>5, <1>6, CatFacts
  <2>2. Cat(o, Cat(b, xa)) = Cat(Cat(o, b), xa) /\ IsText(Cat(o, b)) /\ IsText(Cat(Cat(o, b), xa))
    <3> HIDE DEF xa
    <3> QED  BY <1>5, <1>6, <2>1, CatFacts
  <2>3. Cat(Cat(Cat(Cat(o, b), xa), z), g) = Cat(Cat(Cat(o, b), xa), zg)
    <3> DEFINE y == Cat(Cat(o, b), xa)
    <3>1. IsText(y) /\ IsText(z) /\ IsText(g)
      BY <1>6, <2>2
    <3> HIDE DEF y
    <3>2. Cat(Cat(y, z), g) = Cat(y, Cat(z, g))
      BY <3>1, CatFacts
    <3> QED  BY <3>2 DEF y
  <2>4. Cat(Cat(Cat(o, b), xa), zg) = Cat(Cat(o, b), Cat(xa, zg))
    <3> HIDE DEF xa, zg
    <3> QED  BY <2>1, <2>2, CatFacts
  <2>5. Cat(xa, zg) = Cat(x, Cat(a, zg))
    <3> HIDE DEF zg
    <3> QED  BY <1>5, <2>1, CatFacts
  <2> HIDE DEF xa, zg
  <2>6. Cat(Cat(Cat(o, Cat(Cat(b, x), a)), z), g) = Cat(Cat(o, b), Cat(x, Cat(a, zg)))
    BY <2>1, <2>2, <2>3, <2>4, <2>5, Zenon
  <2> QED  BY <2>6 DEF Cat, zg
<1>9. IsText(c)
  BY <1>5, <1>6, ConcatIsText
<1> QED  BY <1>7, <1>8, <1>9 DEF Split, b, o, x, before

LEMMA MemberFound ==
  ASSUME NEW S, NEW ms \in Seq(S), \A x \in S : IsText(x), NEW i \in 1 .. Len(ms),
         NEW key, NEW v, IsText(v), FreeBefore(ms, i, key), NEW g, IsText(g)
  PROVE  ms[i] = Member(key, v) => Reads(Object(ms) \o g, key, v)
<1> DEFINE before == SubSeq(ms, 1, i - 1)
           f == FlattenSeq(before)
<1>0. PICK c : IsText(c) /\ Object(ms) \o g = (<<Open>> \o f) \o (ms[i] \o c)
  <2>1. Split(ms, i, g)
    BY ObjectSplits
  <2> QED  BY <2>1 DEF Split
<1> HAVE ms[i] = Member(key, v)
<1>1. IsText(c) /\ Object(ms) \o g = (<<Open>> \o f) \o (Member(key, v) \o c)
  BY <1>0
<1>2. Free(f, key)
  <2> DEFINE B == {ms[j] : j \in 1 .. i - 1}
  <2>1. before \in Seq(B)
    <3>1. \A j \in 1 .. i - 1 : ms[j] \in B
      OBVIOUS
    <3>2. i - 1 \in Int /\ 1 \in Int
      OBVIOUS
    <3> HIDE DEF B
    <3> QED  BY <3>1, <3>2, SubSeqProperties
  <2>2. \A t \in B : Free(t, key)
    BY DEF FreeBefore
  <2> HIDE DEF B, before
  <2> QED  BY <2>1, <2>2, FreeAll
<1> HIDE DEF f
<1>3. LET t == (<<Open>> \o f) \o (Member(key, v) \o c)
      IN Found(FindValue(t, key), t, v) /\ Found(Find(t, key), t, v)
  BY <1>1, <1>2, BothFind
<1> QED  BY <1>1, <1>3 DEF Reads

\* The same for the whole of a text that is one object.
LEMMA InObject ==
  ASSUME NEW S, NEW ms \in Seq(S), \A x \in S : IsText(x), NEW i \in 1 .. Len(ms),
         NEW key, NEW v, IsText(v), FreeBefore(ms, i, key)
  PROVE  ms[i] = Member(key, v) => Reads(Object(ms), key, v)
<1>1. ms[i] = Member(key, v) => Reads(Object(ms) \o <<>>, key, v)
  BY EmptyIsText, MemberFound
<1>2. IsText(Object(ms))
  BY ObjectIsText
<1>3. Object(ms) \o <<>> = Object(ms)
  BY <1>2, ConcatOfNone
<1> QED  BY <1>1, <1>3

\* An object whose braces are closed.
IsObject(t) == \E ms : t = Object(ms) /\ Balanced(FlattenSeq(ms))

LEMMA ObjectOfAll ==
  ASSUME NEW S, NEW ms \in Seq(S), NEW key, \A x \in S : Free(x, key)
  PROVE  Free(Object(ms), key) /\ IsObject(Object(ms))
<1>1. Free(FlattenSeq(ms), key)
  BY FreeAll
<1> QED  BY <1>1, FreeObject DEF IsObject, Free

LEMMA FreeIsText == \A t, key : Free(t, key) => IsText(t)
BY DEF Free, Apart

LEMMA FreeScalar ==
  /\ \A v, key : Free(<<Str(v)>>, key) /\ Free(<<Num(v)>>, key) /\ Free(<<Bool(v)>>, key)
  /\ \A key : Free(<<Null>>, key)
BY FreeToken, Scalars

LEMMA OneMember ==
  ASSUME NEW k1, NEW v1, NEW x1, x1 = Member(k1, v1), IsText(v1)
  PROVE  /\ Reads(Object(<<x1>>), k1, v1)
         /\ \A key : Free(x1, key) => Free(Object(<<x1>>), key) /\ IsObject(Object(<<x1>>))
<1> DEFINE S == {x1}
           ms == <<x1>>
<1>1. IsText(x1)
  BY MemberIsText
<1>2. ms \in Seq(S) /\ Len(ms) = 1 /\ ms[1] = x1 /\ (\A x \in S : IsText(x))
  BY <1>1
<1>3. FreeBefore(ms, 1, k1)
  BY DEF FreeBefore
<1>4. \A key : Free(x1, key) => \A x \in S : Free(x, key)
  OBVIOUS
<1> HIDE DEF S, ms
<1>5. 1 \in 1 .. Len(ms)
  BY <1>2
<1>6. ms[1] = Member(k1, v1) => Reads(Object(ms), k1, v1)
  BY <1>2, <1>3, <1>5, InObject
<1>7. \A key : Free(x1, key) => Free(Object(ms), key) /\ IsObject(Object(ms))
  BY <1>2, <1>4, ObjectOfAll
<1> QED  BY <1>2, <1>6, <1>7 DEF ms

LEMMA TwoMembers ==
  ASSUME NEW k1, NEW v1, NEW x1, x1 = Member(k1, v1), IsText(v1),
         NEW k2, NEW v2, NEW x2, x2 = Member(k2, v2), IsText(v2), Free(x1, k2)
  PROVE  /\ Reads(Object(<<x1, x2>>), k1, v1)
         /\ Reads(Object(<<x1, x2>>), k2, v2)
         /\ \A key : Free(x1, key) /\ Free(x2, key) =>
              Free(Object(<<x1, x2>>), key) /\ IsObject(Object(<<x1, x2>>))
<1> DEFINE S == {x1, x2}
           ms == <<x1, x2>>
<1>1. IsText(x1) /\ IsText(x2)
  BY MemberIsText
<1>2. ms \in Seq(S) /\ Len(ms) = 2 /\ ms[1] = x1 /\ ms[2] = x2 /\ (\A x \in S : IsText(x))
  BY <1>1
<1>3. FreeBefore(ms, 1, k1) /\ FreeBefore(ms, 2, k2)
  <2>1. \A j \in 1 .. 2 - 1 : j = 1
    OBVIOUS
  <2> HIDE DEF ms
  <2> QED  BY <1>2, <2>1 DEF FreeBefore
<1>4. \A key : Free(x1, key) /\ Free(x2, key) => \A x \in S : Free(x, key)
  OBVIOUS
<1> HIDE DEF S, ms
<1>5. 1 \in 1 .. Len(ms) /\ 2 \in 1 .. Len(ms)
  BY <1>2
<1>6. ms[1] = Member(k1, v1) => Reads(Object(ms), k1, v1)
  BY <1>2, <1>3, <1>5, InObject
<1>7. ms[2] = Member(k2, v2) => Reads(Object(ms), k2, v2)
  BY <1>2, <1>3, <1>5, InObject
<1>8. \A key : Free(x1, key) /\ Free(x2, key) => Free(Object(ms), key) /\ IsObject(Object(ms))
  BY <1>2, <1>4, ObjectOfAll
<1> QED  BY <1>2, <1>6, <1>7, <1>8 DEF ms

-----------------------------------------------------------------------------
(* The objects of a document.                                              *)

LEMMA DistributionReads ==
  ASSUME NEW d
  PROVE  /\ Reads(DistributionText(d), "samples", <<Num(d.samples)>>)
         /\ Reads(DistributionText(d), "p99", <<Num(d.p99)>>)
         /\ IsObject(DistributionText(d))
         /\ \A key : key \notin {"samples", "p99"} => Free(DistributionText(d), key)
<1> DEFINE x1 == Member("samples", <<Num(d.samples)>>)
           x2 == Member("p99", <<Num(d.p99)>>)
<1>1. \A key : key # "samples" => Free(x1, key)
  BY FreeScalar, FreeMember
<1>2. \A key : key # "p99" => Free(x2, key)
  BY FreeScalar, FreeMember
<1>3. IsText(<<Num(d.samples)>>) /\ IsText(<<Num(d.p99)>>)
  BY TokenIsText
<1>4. Free(x1, "p99")
  BY <1>1
<1>5. /\ Reads(Object(<<x1, x2>>), "samples", <<Num(d.samples)>>)
      /\ Reads(Object(<<x1, x2>>), "p99", <<Num(d.p99)>>)
      /\ \A key : Free(x1, key) /\ Free(x2, key) =>
           Free(Object(<<x1, x2>>), key) /\ IsObject(Object(<<x1, x2>>))
  BY <1>3, <1>4, TwoMembers, Zenon
<1>6. DistributionText(d) = Object(<<x1, x2>>)
  BY DEF DistributionText
<1> HIDE DEF x1, x2
<1>7. Free(x1, "none") /\ Free(x2, "none")
  BY <1>1, <1>2
<1> QED  BY <1>1, <1>2, <1>5, <1>6, <1>7

LEMMA ValidationReads ==
  ASSUME NEW v
  PROVE  /\ Reads(ValidationText(v), "passed", <<Bool(v.passed)>>)
         /\ IsObject(ValidationText(v))
         /\ \A key : key \notin {"compared_elements", "passed"} => Free(ValidationText(v), key)
<1> DEFINE x1 == Member("compared_elements", <<Num(v.compared_elements)>>)
           x2 == Member("passed", <<Bool(v.passed)>>)
<1>1. \A key : key # "compared_elements" => Free(x1, key)
  BY FreeScalar, FreeMember
<1>2. \A key : key # "passed" => Free(x2, key)
  BY FreeScalar, FreeMember
<1>3. IsText(<<Num(v.compared_elements)>>) /\ IsText(<<Bool(v.passed)>>)
  BY TokenIsText
<1>4. Free(x1, "passed")
  BY <1>1
<1>5. /\ Reads(Object(<<x1, x2>>), "passed", <<Bool(v.passed)>>)
      /\ \A key : Free(x1, key) /\ Free(x2, key) =>
           Free(Object(<<x1, x2>>), key) /\ IsObject(Object(<<x1, x2>>))
  BY <1>3, <1>4, TwoMembers, Zenon
<1>6. ValidationText(v) = Object(<<x1, x2>>)
  BY DEF ValidationText
<1> HIDE DEF x1, x2
<1>7. Free(x1, "none") /\ Free(x2, "none")
  BY <1>1, <1>2
<1> QED  BY <1>1, <1>2, <1>5, <1>6, <1>7

LEMMA FreeOption ==
  /\ \A option, key : Free(OrNull(option, StringText), key)
  /\ \A option, key : Free(OrNull(option, NumberText), key)
  /\ \A option, key : Free(OrNull(option, BoolText), key)
  /\ \A option, key : key \notin {"samples", "p99"} => Free(OrNull(option, DistributionText), key)
  /\ \A option, key : key \notin {"compared_elements", "passed"} =>
       Free(OrNull(option, ValidationText), key)
<1>1. \A option, key : Free(OrNull(option, StringText), key)
  BY FreeScalar DEF OrNull, StringText
<1>2. \A option, key : Free(OrNull(option, NumberText), key)
  BY FreeScalar DEF OrNull, NumberText
<1>3. \A option, key : Free(OrNull(option, BoolText), key)
  BY FreeScalar DEF OrNull, BoolText
<1>4. \A option, key : key \notin {"samples", "p99"} => Free(OrNull(option, DistributionText), key)
  BY FreeScalar, DistributionReads DEF OrNull
<1>5. \A option, key : key \notin {"compared_elements", "passed"} =>
        Free(OrNull(option, ValidationText), key)
  BY FreeScalar, ValidationReads DEF OrNull
<1> QED  BY <1>1, <1>2, <1>3, <1>4, <1>5

\* The objects a document always has, of its fields.
EnvironmentText(doc) == Object(<<Member("device", OrNull(doc.device, StringText))>>)
LatencyText(doc) ==
    Object(<<Member("end_to_end", DistributionText(doc.end_to_end)),
             Member("device_compute", OrNull(doc.device_compute, DistributionText))>>)
SloText(doc) ==
    Object(<<Member("scope", <<Str(doc.slo.scope)>>),
             Member("target_us", OrNull(doc.slo.target_us, NumberText)),
             Member("observed_p99_us", OrNull(doc.slo.observed_p99_us, NumberText)),
             Member("passed", OrNull(doc.slo.passed, BoolText))>>)

LEMMA EnvironmentReads ==
  ASSUME NEW doc
  PROVE  /\ Reads(EnvironmentText(doc), "device", OrNull(doc.device, StringText))
         /\ IsObject(EnvironmentText(doc))
         /\ \A key : key # "device" => Free(EnvironmentText(doc), key)
<1> DEFINE v1 == OrNull(doc.device, StringText)
           x1 == Member("device", v1)
<1>1. \A key : Free(v1, key)
  BY FreeOption
<1> HIDE DEF v1
<1>2. \A key : key # "device" => Free(x1, key)
  BY <1>1, FreeMember
<1>3. IsText(v1)
  BY <1>1, FreeIsText
<1>4. /\ Reads(Object(<<x1>>), "device", v1)
      /\ \A key : Free(x1, key) => Free(Object(<<x1>>), key) /\ IsObject(Object(<<x1>>))
  BY <1>3, OneMember, Zenon
<1>5. EnvironmentText(doc) = Object(<<x1>>)
  BY DEF EnvironmentText, v1
<1> HIDE DEF x1
<1>6. Free(x1, "none")
  BY <1>2
<1> QED  BY <1>2, <1>4, <1>5, <1>6 DEF v1

LEMMA LatencyReads ==
  ASSUME NEW doc
  PROVE  /\ Reads(LatencyText(doc), "end_to_end", DistributionText(doc.end_to_end))
         /\ Reads(LatencyText(doc), "device_compute", OrNull(doc.device_compute, DistributionText))
         /\ IsObject(LatencyText(doc))
         /\ \A key : key \notin {"end_to_end", "device_compute", "samples", "p99"} =>
              Free(LatencyText(doc), key)
<1> DEFINE v1 == DistributionText(doc.end_to_end)
           v2 == OrNull(doc.device_compute, DistributionText)
           x1 == Member("end_to_end", v1)
           x2 == Member("device_compute", v2)
<1>1. \A key : key \notin {"samples", "p99"} => Free(v1, key)
  BY DistributionReads
<1>2. \A key : key \notin {"samples", "p99"} => Free(v2, key)
  BY FreeOption
<1> HIDE DEF v1, v2
<1>3. \A key : key \notin {"end_to_end", "samples", "p99"} => Free(x1, key)
  BY <1>1, FreeMember
<1>4. \A key : key \notin {"device_compute", "samples", "p99"} => Free(x2, key)
  BY <1>2, FreeMember
<1>5. IsText(v1) /\ IsText(v2)
  <2>1. Free(v1, "none") /\ Free(v2, "none")
    BY <1>1, <1>2
  <2> QED  BY <2>1, FreeIsText
<1>6. Free(x1, "device_compute")
  BY <1>3
<1>7. /\ Reads(Object(<<x1, x2>>), "end_to_end", v1)
      /\ Reads(Object(<<x1, x2>>), "device_compute", v2)
      /\ \A key : Free(x1, key) /\ Free(x2, key) =>
           Free(Object(<<x1, x2>>), key) /\ IsObject(Object(<<x1, x2>>))
  BY <1>5, <1>6, TwoMembers, Zenon
<1>8. LatencyText(doc) = Object(<<x1, x2>>)
  BY DEF LatencyText, v1, v2
<1> HIDE DEF x1, x2
<1>9. Free(x1, "none") /\ Free(x2, "none")
  BY <1>3, <1>4
<1> QED  BY <1>3, <1>4, <1>7, <1>8, <1>9 DEF v1, v2

LEMMA SloReads ==
  ASSUME NEW doc
  PROVE  /\ Reads(SloText(doc), "scope", <<Str(doc.slo.scope)>>)
         /\ Reads(SloText(doc), "target_us", OrNull(doc.slo.target_us, NumberText))
         /\ Reads(SloText(doc), "observed_p99_us", OrNull(doc.slo.observed_p99_us, NumberText))
         /\ Reads(SloText(doc), "passed", OrNull(doc.slo.passed, BoolText))
         /\ IsObject(SloText(doc)) /\ Free(SloText(doc), "none")
<1> DEFINE v1 == <<Str(doc.slo.scope)>>
           v2 == OrNull(doc.slo.target_us, NumberText)
           v3 == OrNull(doc.slo.observed_p99_us, NumberText)
           v4 == OrNull(doc.slo.passed, BoolText)
           x1 == Member("scope", v1)
           x2 == Member("target_us", v2)
           x3 == Member("observed_p99_us", v3)
           x4 == Member("passed", v4)
           ms == <<x1, x2, x3, x4>>
           S == {x1, x2, x3, x4}
<1>1. \A key : Free(v1, key) /\ Free(v2, key) /\ Free(v3, key) /\ Free(v4, key)
  BY FreeScalar, FreeOption
<1>2. SloText(doc) = Object(ms)
  BY DEF SloText
<1> HIDE DEF v1, v2, v3, v4
<1>3. /\ \A key : key # "scope" => Free(x1, key)
      /\ \A key : key # "target_us" => Free(x2, key)
      /\ \A key : key # "observed_p99_us" => Free(x3, key)
      /\ \A key : key # "passed" => Free(x4, key)
  BY <1>1, FreeMember
<1>4. /\ IsText(v1) /\ IsText(v2) /\ IsText(v3) /\ IsText(v4)
      /\ IsText(x1) /\ IsText(x2) /\ IsText(x3) /\ IsText(x4)
  BY <1>1, FreeIsText, MemberIsText
<1>5. /\ x1 = Member("scope", v1) /\ x2 = Member("target_us", v2)
      /\ x3 = Member("observed_p99_us", v3) /\ x4 = Member("passed", v4)
  OBVIOUS
<1> HIDE DEF x1, x2, x3, x4
<1>6. /\ ms \in Seq(S) /\ Len(ms) = 4 /\ \A x \in S : IsText(x)
      /\ ms[1] = x1 /\ ms[2] = x2 /\ ms[3] = x3 /\ ms[4] = x4
  BY <1>4
<1>7. \A x \in S : Free(x, "none")
  BY <1>3
<1> HIDE DEF ms, S
<1>8. /\ FreeBefore(ms, 1, "scope") /\ FreeBefore(ms, 2, "target_us")
      /\ FreeBefore(ms, 3, "observed_p99_us") /\ FreeBefore(ms, 4, "passed")
  <2>1. /\ \A j \in 1 .. 1 - 1 : FALSE
        /\ \A j \in 1 .. 2 - 1 : j = 1
        /\ \A j \in 1 .. 3 - 1 : j = 1 \/ j = 2
        /\ \A j \in 1 .. 4 - 1 : j = 1 \/ j = 2 \/ j = 3
    OBVIOUS
  <2> QED  BY <1>3, <1>6, <2>1 DEF FreeBefore
<1>9. 1 \in 1 .. Len(ms) /\ 2 \in 1 .. Len(ms) /\ 3 \in 1 .. Len(ms) /\ 4 \in 1 .. Len(ms)
  BY <1>6
<1>10. ms[1] = Member("scope", v1) => Reads(Object(ms), "scope", v1)
  BY <1>4, <1>6, <1>8, <1>9, InObject
<1>11. ms[2] = Member("target_us", v2) => Reads(Object(ms), "target_us", v2)
  BY <1>4, <1>6, <1>8, <1>9, InObject
<1>12. ms[3] = Member("observed_p99_us", v3) => Reads(Object(ms), "observed_p99_us", v3)
  BY <1>4, <1>6, <1>8, <1>9, InObject
<1>13. ms[4] = Member("passed", v4) => Reads(Object(ms), "passed", v4)
  BY <1>4, <1>6, <1>8, <1>9, InObject
<1>14. IsObject(Object(ms)) /\ Free(Object(ms), "none")
  BY <1>6, <1>7, ObjectOfAll
<1> QED
  BY <1>2, <1>5, <1>6, <1>10, <1>11, <1>12, <1>13, <1>14 DEF v1, v2, v3, v4

-----------------------------------------------------------------------------
(* A document, and whatever follows it.                                    *)

Members(doc) == <<
    Member("schema_version", <<Num(2)>>),
    Member("build", Object(<<>>)),
    Member("model", <<Str(doc.model)>>),
    Member("backend", <<Str(doc.backend)>>),
    Member("requested_backend", <<Str(doc.requested_backend)>>),
    Member("fallback_used", <<Bool(doc.fallback_used)>>),
    Member("cuda_graph", <<Bool(doc.cuda_graph)>>),
    Member("environment", EnvironmentText(doc)),
    Member("samples", <<Num(doc.samples)>>),
    Member("input_size", <<Num(doc.input_size)>>),
    Member("batch_size", <<Num(doc.batch_size)>>),
    Member("latency_us", LatencyText(doc)),
    Member("validation", OrNull(doc.validation, ValidationText)),
    Member("slo", SloText(doc))>>

LEMMA DocumentIsObject ==
  ASSUME NEW doc
  PROVE  DocumentText(doc) = Object(Members(doc))
BY DEF DocumentText, Members, EnvironmentText, LatencyText, SloText

LEMMA NoMembers == IsObject(Object(<<>>)) /\ \A key : Free(Object(<<>>), key)
<1> DEFINE S == {}
<1>1. <<>> \in Seq(S)
  OBVIOUS
<1>2. \A key : \A x \in S : Free(x, key)
  OBVIOUS
<1> HIDE DEF S
<1> QED  BY <1>1, <1>2, ObjectOfAll

\* Every name a reader looks for is that of the document's own member, also in a
\* text where something follows the document.
LEMMA DocumentReads ==
  ASSUME NEW doc, NEW g, IsText(g)
  PROVE  /\ Reads(DocumentText(doc) \o g, "schema_version", <<Num(2)>>)
         /\ Reads(DocumentText(doc) \o g, "build", Object(<<>>))
         /\ Reads(DocumentText(doc) \o g, "model", <<Str(doc.model)>>)
         /\ Reads(DocumentText(doc) \o g, "backend", <<Str(doc.backend)>>)
         /\ Reads(DocumentText(doc) \o g, "fallback_used", <<Bool(doc.fallback_used)>>)
         /\ Reads(DocumentText(doc) \o g, "cuda_graph", <<Bool(doc.cuda_graph)>>)
         /\ Reads(DocumentText(doc) \o g, "environment", EnvironmentText(doc))
         /\ Reads(DocumentText(doc) \o g, "samples", <<Num(doc.samples)>>)
         /\ Reads(DocumentText(doc) \o g, "input_size", <<Num(doc.input_size)>>)
         /\ Reads(DocumentText(doc) \o g, "batch_size", <<Num(doc.batch_size)>>)
         /\ Reads(DocumentText(doc) \o g, "latency_us", LatencyText(doc))
         /\ Reads(DocumentText(doc) \o g, "validation", OrNull(doc.validation, ValidationText))
         /\ Reads(DocumentText(doc) \o g, "slo", SloText(doc))
         /\ IsObject(DocumentText(doc))
<1> DEFINE v1 == <<Num(2)>>
           v2 == Object(<<>>)
           v3 == <<Str(doc.model)>>
           v4 == <<Str(doc.backend)>>
           v5 == <<Str(doc.requested_backend)>>
           v6 == <<Bool(doc.fallback_used)>>
           v7 == <<Bool(doc.cuda_graph)>>
           v8 == EnvironmentText(doc)
           v9 == <<Num(doc.samples)>>
           v10 == <<Num(doc.input_size)>>
           v11 == <<Num(doc.batch_size)>>
           v12 == LatencyText(doc)
           v13 == OrNull(doc.validation, ValidationText)
           v14 == SloText(doc)
           x1 == Member("schema_version", v1)
           x2 == Member("build", v2)
           x3 == Member("model", v3)
           x4 == Member("backend", v4)
           x5 == Member("requested_backend", v5)
           x6 == Member("fallback_used", v6)
           x7 == Member("cuda_graph", v7)
           x8 == Member("environment", v8)
           x9 == Member("samples", v9)
           x10 == Member("input_size", v10)
           x11 == Member("batch_size", v11)
           x12 == Member("latency_us", v12)
           x13 == Member("validation", v13)
           x14 == Member("slo", v14)
           ms == <<x1, x2, x3, x4, x5, x6, x7, x8, x9, x10, x11, x12, x13, x14>>
           S == {x1, x2, x3, x4, x5, x6, x7, x8, x9, x10, x11, x12, x13, x14}
<1>1. DocumentText(doc) = Object(ms)
  BY DocumentIsObject DEF Members
<1>2. \A key : /\ Free(v1, key) /\ Free(v3, key) /\ Free(v4, key) /\ Free(v5, key)
              /\ Free(v6, key) /\ Free(v7, key) /\ Free(v9, key) /\ Free(v10, key)
              /\ Free(v11, key)
  BY FreeScalar
<1>3. \A key : Free(v2, key)
  BY NoMembers
<1>4. \A key : key # "device" => Free(v8, key)
  BY EnvironmentReads
<1>5. \A key : key \notin {"end_to_end", "device_compute", "samples", "p99"} => Free(v12, key)
  BY LatencyReads
<1>6. \A key : key \notin {"compared_elements", "passed"} => Free(v13, key)
  BY FreeOption
<1>7. Free(v14, "none")
  BY SloReads
<1> HIDE DEF v1, v2, v3, v4, v5, v6, v7, v8, v9, v10, v11, v12, v13, v14
<1>8. IsText(v1) /\ IsText(v2) /\ IsText(v3) /\ IsText(v4) /\ IsText(v5) /\ IsText(v6)
      /\ IsText(v7) /\ IsText(v8) /\ IsText(v9) /\ IsText(v10) /\ IsText(v11) /\ IsText(v12) /\ IsText(v13)
      /\ IsText(v14)
  <2>1. Free(v1, "none") /\ Free(v2, "none") /\ Free(v3, "none") /\ Free(v4, "none") /\ Free(v5, "none")
        /\ Free(v6, "none") /\ Free(v7, "none") /\ Free(v8, "none") /\ Free(v9, "none") /\ Free(v10, "none") /\ Free(v11, "none")
        /\ Free(v12, "none") /\ Free(v13, "none") /\ Free(v14, "none")
    BY <1>2, <1>3, <1>4, <1>5, <1>6, <1>7
  <2> QED  BY <2>1, FreeIsText
<1>f1. \A key : key \notin {"schema_version"} => Free(x1, key)
  BY <1>2, FreeMember
<1>f2. \A key : key \notin {"build"} => Free(x2, key)
  BY <1>3, FreeMember
<1>f3. \A key : key \notin {"model"} => Free(x3, key)
  BY <1>2, FreeMember
<1>f4. \A key : key \notin {"backend"} => Free(x4, key)
  BY <1>2, FreeMember
<1>f5. \A key : key \notin {"requested_backend"} => Free(x5, key)
  BY <1>2, FreeMember
<1>f6. \A key : key \notin {"fallback_used"} => Free(x6, key)
  BY <1>2, FreeMember
<1>f7. \A key : key \notin {"cuda_graph"} => Free(x7, key)
  BY <1>2, FreeMember
<1>f8. \A key : key \notin {"environment", "device"} => Free(x8, key)
  BY <1>4, FreeMember
<1>f9. \A key : key \notin {"samples"} => Free(x9, key)
  BY <1>2, FreeMember
<1>f10. \A key : key \notin {"input_size"} => Free(x10, key)
  BY <1>2, FreeMember
<1>f11. \A key : key \notin {"batch_size"} => Free(x11, key)
  BY <1>2, FreeMember
<1>f12. \A key : key \notin {"latency_us", "end_to_end", "device_compute", "samples", "p99"} => Free(x12, key)
  BY <1>5, FreeMember
<1>f13. \A key : key \notin {"validation", "compared_elements", "passed"} => Free(x13, key)
  BY <1>6, FreeMember
<1>f14. Free(x14, "none")
  BY <1>7, FreeMember
<1>9. IsText(x1) /\ IsText(x2) /\ IsText(x3) /\ IsText(x4) /\ IsText(x5) /\ IsText(x6)
      /\ IsText(x7) /\ IsText(x8) /\ IsText(x9) /\ IsText(x10) /\ IsText(x11) /\ IsText(x12) /\ IsText(x13)
      /\ IsText(x14)
  BY <1>8, MemberIsText
<1>10. /\ x1 = Member("schema_version", v1)
       /\ x2 = Member("build", v2)
       /\ x3 = Member("model", v3)
       /\ x4 = Member("backend", v4)
       /\ x5 = Member("requested_backend", v5)
       /\ x6 = Member("fallback_used", v6)
       /\ x7 = Member("cuda_graph", v7)
       /\ x8 = Member("environment", v8)
       /\ x9 = Member("samples", v9)
       /\ x10 = Member("input_size", v10)
       /\ x11 = Member("batch_size", v11)
       /\ x12 = Member("latency_us", v12)
       /\ x13 = Member("validation", v13)
       /\ x14 = Member("slo", v14)
  OBVIOUS
<1> HIDE DEF x1, x2, x3, x4, x5, x6, x7, x8, x9, x10, x11, x12, x13, x14
<1>11. \A x \in S : IsText(x)
  BY <1>9, Zenon
<1>12. \A x \in S : Free(x, "none")
  <2>1. Free(x1, "none") /\ Free(x2, "none") /\ Free(x3, "none") /\ Free(x4, "none") /\ Free(x5, "none")
        /\ Free(x6, "none") /\ Free(x7, "none") /\ Free(x8, "none") /\ Free(x9, "none") /\ Free(x10, "none") /\ Free(x11, "none")
        /\ Free(x12, "none") /\ Free(x13, "none") /\ Free(x14, "none")
    BY <1>f1, <1>f2, <1>f3, <1>f4, <1>f5, <1>f6, <1>f7, <1>f8, <1>f9, <1>f10, <1>f11, <1>f12, <1>f13, <1>f14
  <2> QED  BY <2>1, Zenon
<1>13. ms \in Seq(S) /\ Len(ms) = 14
  OBVIOUS
<1>14. /\ ms[1] = x1 /\ ms[2] = x2 /\ ms[3] = x3 /\ ms[4] = x4 /\ ms[5] = x5
       /\ ms[6] = x6 /\ ms[7] = x7 /\ ms[8] = x8 /\ ms[9] = x9 /\ ms[10] = x10
       /\ ms[11] = x11 /\ ms[12] = x12 /\ ms[13] = x13 /\ ms[14] = x14
  OBVIOUS
<1> HIDE DEF ms, S
<1>r1. Reads(Object(ms) \o g, "schema_version", v1)
  <2>1. FreeBefore(ms, 1, "schema_version")
    BY DEF FreeBefore
  <2>2. 1 \in 1 .. Len(ms)
    BY <1>13
  <2>3. ms[1] = Member("schema_version", v1) => Reads(Object(ms) \o g, "schema_version", v1)
    BY <1>8, <1>11, <1>13, <2>1, <2>2, MemberFound
  <2> QED  BY <1>10, <1>14, <2>3
<1>r2. Reads(Object(ms) \o g, "build", v2)
  <2>1. FreeBefore(ms, 2, "build")
    <3>1. \A j \in 1 .. 2 - 1 : j = 1
      OBVIOUS
    <3>2. /\ Free(x1, "build")
      BY <1>f1
    <3> QED  BY <1>14, <3>1, <3>2 DEF FreeBefore
  <2>2. 2 \in 1 .. Len(ms)
    BY <1>13
  <2>3. ms[2] = Member("build", v2) => Reads(Object(ms) \o g, "build", v2)
    BY <1>8, <1>11, <1>13, <2>1, <2>2, MemberFound
  <2> QED  BY <1>10, <1>14, <2>3
<1>r3. Reads(Object(ms) \o g, "model", v3)
  <2>1. FreeBefore(ms, 3, "model")
    <3>1. \A j \in 1 .. 3 - 1 : j = 1 \/ j = 2
      OBVIOUS
    <3>2. /\ Free(x1, "model") /\ Free(x2, "model")
      BY <1>f1, <1>f2
    <3> QED  BY <1>14, <3>1, <3>2 DEF FreeBefore
  <2>2. 3 \in 1 .. Len(ms)
    BY <1>13
  <2>3. ms[3] = Member("model", v3) => Reads(Object(ms) \o g, "model", v3)
    BY <1>8, <1>11, <1>13, <2>1, <2>2, MemberFound
  <2> QED  BY <1>10, <1>14, <2>3
<1>r4. Reads(Object(ms) \o g, "backend", v4)
  <2>1. FreeBefore(ms, 4, "backend")
    <3>1. \A j \in 1 .. 4 - 1 : j = 1 \/ j = 2 \/ j = 3
      OBVIOUS
    <3>2. /\ Free(x1, "backend") /\ Free(x2, "backend") /\ Free(x3, "backend")
      BY <1>f1, <1>f2, <1>f3
    <3> QED  BY <1>14, <3>1, <3>2 DEF FreeBefore
  <2>2. 4 \in 1 .. Len(ms)
    BY <1>13
  <2>3. ms[4] = Member("backend", v4) => Reads(Object(ms) \o g, "backend", v4)
    BY <1>8, <1>11, <1>13, <2>1, <2>2, MemberFound
  <2> QED  BY <1>10, <1>14, <2>3
<1>r6. Reads(Object(ms) \o g, "fallback_used", v6)
  <2>1. FreeBefore(ms, 6, "fallback_used")
    <3>1. \A j \in 1 .. 6 - 1 : j = 1 \/ j = 2 \/ j = 3 \/ j = 4 \/ j = 5
      OBVIOUS
    <3>2. /\ Free(x1, "fallback_used") /\ Free(x2, "fallback_used") /\ Free(x3, "fallback_used")
          /\ Free(x4, "fallback_used") /\ Free(x5, "fallback_used")
      BY <1>f1, <1>f2, <1>f3, <1>f4, <1>f5
    <3> QED  BY <1>14, <3>1, <3>2 DEF FreeBefore
  <2>2. 6 \in 1 .. Len(ms)
    BY <1>13
  <2>3. ms[6] = Member("fallback_used", v6) => Reads(Object(ms) \o g, "fallback_used", v6)
    BY <1>8, <1>11, <1>13, <2>1, <2>2, MemberFound
  <2> QED  BY <1>10, <1>14, <2>3
<1>r7. Reads(Object(ms) \o g, "cuda_graph", v7)
  <2>1. FreeBefore(ms, 7, "cuda_graph")
    <3>1. \A j \in 1 .. 7 - 1 : j = 1 \/ j = 2 \/ j = 3 \/ j = 4 \/ j = 5 \/ j = 6
      OBVIOUS
    <3>2. /\ Free(x1, "cuda_graph") /\ Free(x2, "cuda_graph") /\ Free(x3, "cuda_graph")
          /\ Free(x4, "cuda_graph") /\ Free(x5, "cuda_graph") /\ Free(x6, "cuda_graph")
      BY <1>f1, <1>f2, <1>f3, <1>f4, <1>f5, <1>f6
    <3> QED  BY <1>14, <3>1, <3>2 DEF FreeBefore
  <2>2. 7 \in 1 .. Len(ms)
    BY <1>13
  <2>3. ms[7] = Member("cuda_graph", v7) => Reads(Object(ms) \o g, "cuda_graph", v7)
    BY <1>8, <1>11, <1>13, <2>1, <2>2, MemberFound
  <2> QED  BY <1>10, <1>14, <2>3
<1>r8. Reads(Object(ms) \o g, "environment", v8)
  <2>1. FreeBefore(ms, 8, "environment")
    <3>1. \A j \in 1 .. 8 - 1 : j = 1 \/ j = 2 \/ j = 3 \/ j = 4 \/ j = 5 \/ j = 6 \/ j = 7
      OBVIOUS
    <3>2. /\ Free(x1, "environment") /\ Free(x2, "environment") /\ Free(x3, "environment")
          /\ Free(x4, "environment") /\ Free(x5, "environment") /\ Free(x6, "environment")
          /\ Free(x7, "environment")
      BY <1>f1, <1>f2, <1>f3, <1>f4, <1>f5, <1>f6, <1>f7
    <3> QED  BY <1>14, <3>1, <3>2 DEF FreeBefore
  <2>2. 8 \in 1 .. Len(ms)
    BY <1>13
  <2>3. ms[8] = Member("environment", v8) => Reads(Object(ms) \o g, "environment", v8)
    BY <1>8, <1>11, <1>13, <2>1, <2>2, MemberFound
  <2> QED  BY <1>10, <1>14, <2>3
<1>r9. Reads(Object(ms) \o g, "samples", v9)
  <2>1. FreeBefore(ms, 9, "samples")
    <3>1. \A j \in 1 .. 9 - 1 : j = 1 \/ j = 2 \/ j = 3 \/ j = 4 \/ j = 5 \/ j = 6 \/ j = 7 \/ j = 8
      OBVIOUS
    <3>2. /\ Free(x1, "samples") /\ Free(x2, "samples") /\ Free(x3, "samples")
          /\ Free(x4, "samples") /\ Free(x5, "samples") /\ Free(x6, "samples")
          /\ Free(x7, "samples") /\ Free(x8, "samples")
      BY <1>f1, <1>f2, <1>f3, <1>f4, <1>f5, <1>f6, <1>f7, <1>f8
    <3> QED  BY <1>14, <3>1, <3>2 DEF FreeBefore
  <2>2. 9 \in 1 .. Len(ms)
    BY <1>13
  <2>3. ms[9] = Member("samples", v9) => Reads(Object(ms) \o g, "samples", v9)
    BY <1>8, <1>11, <1>13, <2>1, <2>2, MemberFound
  <2> QED  BY <1>10, <1>14, <2>3
<1>r10. Reads(Object(ms) \o g, "input_size", v10)
  <2>1. FreeBefore(ms, 10, "input_size")
    <3>1. \A j \in 1 .. 10 - 1 : j = 1 \/ j = 2 \/ j = 3 \/ j = 4 \/ j = 5 \/ j = 6 \/ j = 7 \/ j = 8 \/ j = 9
      OBVIOUS
    <3>2. /\ Free(x1, "input_size") /\ Free(x2, "input_size") /\ Free(x3, "input_size")
          /\ Free(x4, "input_size") /\ Free(x5, "input_size") /\ Free(x6, "input_size")
          /\ Free(x7, "input_size") /\ Free(x8, "input_size") /\ Free(x9, "input_size")
      BY <1>f1, <1>f2, <1>f3, <1>f4, <1>f5, <1>f6, <1>f7, <1>f8, <1>f9
    <3> QED  BY <1>14, <3>1, <3>2 DEF FreeBefore
  <2>2. 10 \in 1 .. Len(ms)
    BY <1>13
  <2>3. ms[10] = Member("input_size", v10) => Reads(Object(ms) \o g, "input_size", v10)
    BY <1>8, <1>11, <1>13, <2>1, <2>2, MemberFound
  <2> QED  BY <1>10, <1>14, <2>3
<1>r11. Reads(Object(ms) \o g, "batch_size", v11)
  <2>1. FreeBefore(ms, 11, "batch_size")
    <3>1. \A j \in 1 .. 11 - 1 : j = 1 \/ j = 2 \/ j = 3 \/ j = 4 \/ j = 5 \/ j = 6 \/ j = 7 \/ j = 8 \/ j = 9 \/ j = 10
      OBVIOUS
    <3>2. /\ Free(x1, "batch_size") /\ Free(x2, "batch_size") /\ Free(x3, "batch_size")
          /\ Free(x4, "batch_size") /\ Free(x5, "batch_size") /\ Free(x6, "batch_size")
          /\ Free(x7, "batch_size") /\ Free(x8, "batch_size") /\ Free(x9, "batch_size")
          /\ Free(x10, "batch_size")
      BY <1>f1, <1>f2, <1>f3, <1>f4, <1>f5, <1>f6, <1>f7, <1>f8, <1>f9, <1>f10
    <3> QED  BY <1>14, <3>1, <3>2 DEF FreeBefore
  <2>2. 11 \in 1 .. Len(ms)
    BY <1>13
  <2>3. ms[11] = Member("batch_size", v11) => Reads(Object(ms) \o g, "batch_size", v11)
    BY <1>8, <1>11, <1>13, <2>1, <2>2, MemberFound
  <2> QED  BY <1>10, <1>14, <2>3
<1>r12. Reads(Object(ms) \o g, "latency_us", v12)
  <2>1. FreeBefore(ms, 12, "latency_us")
    <3>1. \A j \in 1 .. 12 - 1 : j = 1 \/ j = 2 \/ j = 3 \/ j = 4 \/ j = 5 \/ j = 6 \/ j = 7 \/ j = 8 \/ j = 9 \/ j = 10 \/ j = 11
      OBVIOUS
    <3>2. /\ Free(x1, "latency_us") /\ Free(x2, "latency_us") /\ Free(x3, "latency_us")
          /\ Free(x4, "latency_us") /\ Free(x5, "latency_us") /\ Free(x6, "latency_us")
          /\ Free(x7, "latency_us") /\ Free(x8, "latency_us") /\ Free(x9, "latency_us")
          /\ Free(x10, "latency_us") /\ Free(x11, "latency_us")
      BY <1>f1, <1>f2, <1>f3, <1>f4, <1>f5, <1>f6, <1>f7, <1>f8, <1>f9, <1>f10, <1>f11
    <3> QED  BY <1>14, <3>1, <3>2 DEF FreeBefore
  <2>2. 12 \in 1 .. Len(ms)
    BY <1>13
  <2>3. ms[12] = Member("latency_us", v12) => Reads(Object(ms) \o g, "latency_us", v12)
    BY <1>8, <1>11, <1>13, <2>1, <2>2, MemberFound
  <2> QED  BY <1>10, <1>14, <2>3
<1>r13. Reads(Object(ms) \o g, "validation", v13)
  <2>1. FreeBefore(ms, 13, "validation")
    <3>1. \A j \in 1 .. 13 - 1 : j = 1 \/ j = 2 \/ j = 3 \/ j = 4 \/ j = 5 \/ j = 6 \/ j = 7 \/ j = 8 \/ j = 9 \/ j = 10 \/ j = 11 \/ j = 12
      OBVIOUS
    <3>2. /\ Free(x1, "validation") /\ Free(x2, "validation") /\ Free(x3, "validation")
          /\ Free(x4, "validation") /\ Free(x5, "validation") /\ Free(x6, "validation")
          /\ Free(x7, "validation") /\ Free(x8, "validation") /\ Free(x9, "validation")
          /\ Free(x10, "validation") /\ Free(x11, "validation") /\ Free(x12, "validation")
      BY <1>f1, <1>f2, <1>f3, <1>f4, <1>f5, <1>f6, <1>f7, <1>f8, <1>f9, <1>f10, <1>f11, <1>f12
    <3> QED  BY <1>14, <3>1, <3>2 DEF FreeBefore
  <2>2. 13 \in 1 .. Len(ms)
    BY <1>13
  <2>3. ms[13] = Member("validation", v13) => Reads(Object(ms) \o g, "validation", v13)
    BY <1>8, <1>11, <1>13, <2>1, <2>2, MemberFound
  <2> QED  BY <1>10, <1>14, <2>3
<1>r14. Reads(Object(ms) \o g, "slo", v14)
  <2>1. FreeBefore(ms, 14, "slo")
    <3>1. \A j \in 1 .. 14 - 1 : j = 1 \/ j = 2 \/ j = 3 \/ j = 4 \/ j = 5 \/ j = 6 \/ j = 7 \/ j = 8 \/ j = 9 \/ j = 10 \/ j = 11 \/ j = 12 \/ j = 13
      OBVIOUS
    <3>2. /\ Free(x1, "slo") /\ Free(x2, "slo") /\ Free(x3, "slo")
          /\ Free(x4, "slo") /\ Free(x5, "slo") /\ Free(x6, "slo")
          /\ Free(x7, "slo") /\ Free(x8, "slo") /\ Free(x9, "slo")
          /\ Free(x10, "slo") /\ Free(x11, "slo") /\ Free(x12, "slo")
          /\ Free(x13, "slo")
      BY <1>f1, <1>f2, <1>f3, <1>f4, <1>f5, <1>f6, <1>f7, <1>f8, <1>f9, <1>f10, <1>f11, <1>f12, <1>f13
    <3> QED  BY <1>14, <3>1, <3>2 DEF FreeBefore
  <2>2. 14 \in 1 .. Len(ms)
    BY <1>13
  <2>3. ms[14] = Member("slo", v14) => Reads(Object(ms) \o g, "slo", v14)
    BY <1>8, <1>11, <1>13, <2>1, <2>2, MemberFound
  <2> QED  BY <1>10, <1>14, <2>3
<1>15. IsObject(Object(ms))
  BY <1>12, <1>13, ObjectOfAll
<1> QED
  BY <1>1, <1>15, <1>r1, <1>r2, <1>r3, <1>r4, <1>r6, <1>r7, <1>r8, <1>r9, <1>r10, <1>r11, <1>r12, <1>r13, <1>r14
     DEF v1, v2, v3, v4, v5, v6, v7, v8, v9, v10, v11, v12, v13, v14

-----------------------------------------------------------------------------
(* What the exporter makes of a document.                                  *)

LEMMA FoundAnObject ==
  ASSUME NEW P, NEW t, NEW v, IsObject(v), Found(P, t, v)
  PROVE  Objects(t, P) = {v} /\ ~IsNull(t, P) /\ P # {}
BY FoundObject DEF IsObject

LEMMA ReadToken ==
  ASSUME NEW t, NEW key, NEW x, Reads(t, key, <<x>>)
  PROVE  /\ \A kind : Values(t, FindValue(t, key), kind) = IF x[1] = kind THEN {x[2]} ELSE {}
         /\ \A kind : Values(t, Find(t, key), kind) = IF x[1] = kind THEN {x[2]} ELSE {}
         /\ IsNull(t, FindValue(t, key)) <=> x = Null
         /\ FindValue(t, key) # {}
BY FoundToken DEF Reads

\* A name that is given a string, a number, a boolean, null or an object.
LEMMA ReadString ==
  ASSUME NEW t, NEW key, NEW v, Reads(t, key, <<Str(v)>>)
  PROVE  StringValue(t, key) = {v} /\ Values(t, Find(t, key), "string") = {v}
BY ReadToken, Tokens DEF StringValue

LEMMA ReadNumber ==
  ASSUME NEW t, NEW key, NEW v, Reads(t, key, <<Num(v)>>)
  PROVE  /\ NumberValue(t, key) = {v} /\ Values(t, Find(t, key), "number") = {v}
         /\ ~IsNull(t, FindValue(t, key)) /\ FindValue(t, key) # {}
BY ReadToken, Tokens, Scalars DEF NumberValue

LEMMA ReadBool ==
  ASSUME NEW t, NEW key, NEW v, Reads(t, key, <<Bool(v)>>)
  PROVE  /\ BoolValue(t, key) = {v} /\ Values(t, Find(t, key), "boolean") = {v}
         /\ ~IsNull(t, FindValue(t, key)) /\ FindValue(t, key) # {}
BY ReadToken, Tokens, Scalars DEF BoolValue

LEMMA ReadNull ==
  ASSUME NEW t, NEW key, Reads(t, key, <<Null>>)
  PROVE  /\ IsNull(t, FindValue(t, key)) /\ FindValue(t, key) # {}
         /\ StringValue(t, key) = {} /\ Values(t, Find(t, key), "string") = {}
BY ReadToken, Tokens DEF StringValue

LEMMA ReadObject ==
  ASSUME NEW t, NEW key, NEW v, IsObject(v), Reads(t, key, v)
  PROVE  /\ ObjectValue(t, key) = {v} /\ Objects(t, Find(t, key)) = {v}
         /\ ~IsNull(t, FindValue(t, key))
BY FoundAnObject DEF Reads, ObjectValue

LEMMA ParseDistributionOf ==
  ASSUME NEW d, IsDistribution(d)
  PROVE  ParseDistribution(DistributionText(d)) = {d}
<1> DEFINE t == DistributionText(d)
<1>1. Reads(t, "samples", <<Num(d.samples)>>) /\ Reads(t, "p99", <<Num(d.p99)>>)
  BY DistributionReads
<1>2. NumberValue(t, "samples") = {d.samples} /\ NumberValue(t, "p99") = {d.p99}
  BY <1>1, ReadNumber
<1>3. ParseDistribution(t) = {[samples |-> d.samples, p99 |-> d.p99]}
  BY <1>2 DEF ParseDistribution
<1> QED  BY <1>3 DEF IsDistribution

LEMMA ParseDistributionsOf ==
  ASSUME NEW d, IsDistribution(d)
  PROVE  ParseDistributions({DistributionText(d)}) = {d}
BY ParseDistributionOf DEF ParseDistributions

\* An option is nothing, or one thing, which CHOOSE finds.
LEMMA OptionIs ==
  ASSUME NEW option, Option(option)
  PROVE  option = {} \/ \E x : option = {x}
BY DEF Option

LEMMA OrNullIs ==
  /\ \A x : OrNull({x}, DistributionText) = DistributionText(x)
  /\ \A x : OrNull({x}, ValidationText) = ValidationText(x)
  /\ \A x : OrNull({x}, StringText) = <<Str(x)>>
  /\ \A x : OrNull({x}, NumberText) = <<Num(x)>>
  /\ \A x : OrNull({x}, BoolText) = <<Bool(x)>>
  /\ OrNull({}, DistributionText) = <<Null>> /\ OrNull({}, ValidationText) = <<Null>>
  /\ OrNull({}, StringText) = <<Null>> /\ OrNull({}, NumberText) = <<Null>>
  /\ OrNull({}, BoolText) = <<Null>>
<1>1. \A x : {x} # {} /\ (CHOOSE y \in {x} : TRUE) = x
  OBVIOUS
<1> QED  BY <1>1 DEF OrNull, StringText, NumberText, BoolText

LEMMA ReadDevice ==
  ASSUME NEW t, NEW key, NEW option, Option(option), Reads(t, key, OrNull(option, StringText))
  PROVE  StringValue(t, key) = option /\ Values(t, Find(t, key), "string") = option
<1>1. CASE option = {}
  BY <1>1, OrNullIs, ReadNull
<1>2. CASE \E x : option = {x}
  <2>1. PICK x : option = {x}
    BY <1>2
  <2>2. Reads(t, key, <<Str(x)>>)
    BY <2>1, OrNullIs
  <2> QED  BY <2>1, <2>2, ReadString
<1> QED  BY <1>1, <1>2, OptionIs

LEMMA ReadOptionalNumber ==
  ASSUME NEW t, NEW key, NEW option, Option(option), Reads(t, key, OrNull(option, NumberText))
  PROVE  Optional(t, key, NumberValue(t, key)) = {option}
<1>1. CASE option = {}
  BY <1>1, OrNullIs, ReadNull DEF Optional, Nullable
<1>2. CASE \E x : option = {x}
  <2>1. PICK x : option = {x}
    BY <1>2
  <2>2. Reads(t, key, <<Num(x)>>)
    BY <2>1, OrNullIs
  <2>3. NumberValue(t, key) = {x} /\ ~IsNull(t, FindValue(t, key)) /\ FindValue(t, key) # {}
    BY <2>2, ReadNumber
  <2> QED  BY <2>1, <2>3 DEF Optional, Nullable
<1> QED  BY <1>1, <1>2, OptionIs

LEMMA ReadOptionalBool ==
  ASSUME NEW t, NEW key, NEW option, Option(option), Reads(t, key, OrNull(option, BoolText))
  PROVE  Optional(t, key, BoolValue(t, key)) = {option}
<1>1. CASE option = {}
  BY <1>1, OrNullIs, ReadNull DEF Optional, Nullable
<1>2. CASE \E x : option = {x}
  <2>1. PICK x : option = {x}
    BY <1>2
  <2>2. Reads(t, key, <<Bool(x)>>)
    BY <2>1, OrNullIs
  <2>3. BoolValue(t, key) = {x} /\ ~IsNull(t, FindValue(t, key)) /\ FindValue(t, key) # {}
    BY <2>2, ReadBool
  <2> QED  BY <2>1, <2>3 DEF Optional, Nullable
<1> QED  BY <1>1, <1>2, OptionIs

LEMMA ParseSloOf ==
  ASSUME NEW doc, WellFormed(doc)
  PROVE  ParseSlo(SloText(doc)) = {doc.slo}
<1> DEFINE t == SloText(doc)
           T == Optional(t, "target_us", NumberValue(t, "target_us"))
           O == Optional(t, "observed_p99_us", NumberValue(t, "observed_p99_us"))
           P == Optional(t, "passed", BoolValue(t, "passed"))
<1>1. /\ Reads(t, "scope", <<Str(doc.slo.scope)>>)
      /\ Reads(t, "target_us", OrNull(doc.slo.target_us, NumberText))
      /\ Reads(t, "observed_p99_us", OrNull(doc.slo.observed_p99_us, NumberText))
      /\ Reads(t, "passed", OrNull(doc.slo.passed, BoolText))
  BY SloReads
<1> HIDE DEF t
<1>2. Option(doc.slo.target_us) /\ Option(doc.slo.observed_p99_us) /\ Option(doc.slo.passed)
  BY DEF WellFormed
<1>3. StringValue(t, "scope") = {doc.slo.scope}
  BY <1>1, ReadString
<1>4. T = {doc.slo.target_us} /\ O = {doc.slo.observed_p99_us}
  BY <1>1, <1>2, ReadOptionalNumber
<1>5. P = {doc.slo.passed}
  BY <1>1, <1>2, ReadOptionalBool
<1>6. ParseSlo(t) = {[scope |-> s, target_us |-> a, observed_p99_us |-> b, passed |-> p] :
                       s \in StringValue(t, "scope"), a \in T, b \in O, p \in P}
  BY DEF ParseSlo
<1> HIDE DEF T, O, P
<1>7. ParseSlo(t) = {[scope |-> doc.slo.scope, target_us |-> doc.slo.target_us,
                      observed_p99_us |-> doc.slo.observed_p99_us, passed |-> doc.slo.passed]}
  BY <1>3, <1>4, <1>5, <1>6
<1> QED  BY <1>7 DEF WellFormed, t

LEMMA ReadValidation ==
  ASSUME NEW t, NEW option, Option(option),
         Reads(t, "validation", OrNull(option, ValidationText))
  PROVE  Nullable(t, "validation", ParseValidation(t)) = {{[passed |-> v.passed] : v \in option}}
<1>1. CASE option = {}
  <2>1. IsNull(t, FindValue(t, "validation"))
    BY <1>1, OrNullIs, ReadNull
  <2> QED  BY <1>1, <2>1 DEF Nullable
<1>2. CASE \E x : option = {x}
  <2>1. PICK x : option = {x}
    BY <1>2
  <2>2. Reads(t, "validation", ValidationText(x))
    BY <2>1, OrNullIs
  <2>3. ObjectValue(t, "validation") = {ValidationText(x)} /\ ~IsNull(t, FindValue(t, "validation"))
    BY <2>2, ValidationReads, ReadObject
  <2>4. BoolValue(ValidationText(x), "passed") = {x.passed}
    BY ValidationReads, ReadBool
  <2>5. ParseValidation(t) = {[passed |-> x.passed]}
    BY <2>3, <2>4 DEF ParseValidation
  <2> QED  BY <2>1, <2>3, <2>5 DEF Nullable
<1> QED  BY <1>1, <1>2, OptionIs

LEMMA ReadDeviceCompute ==
  ASSUME NEW t, NEW option, Option(option), \A d \in option : IsDistribution(d),
         Reads(t, "device_compute", OrNull(option, DistributionText))
  PROVE  Nullable(t, "device_compute", ParseDistributions(ObjectValue(t, "device_compute")))
           = {option}
<1>1. CASE option = {}
  <2>1. IsNull(t, FindValue(t, "device_compute"))
    BY <1>1, OrNullIs, ReadNull
  <2> QED  BY <1>1, <2>1 DEF Nullable
<1>2. CASE \E x : option = {x}
  <2>1. PICK x : option = {x}
    BY <1>2
  <2>2. Reads(t, "device_compute", DistributionText(x))
    BY <2>1, OrNullIs
  <2>3. /\ ObjectValue(t, "device_compute") = {DistributionText(x)}
        /\ ~IsNull(t, FindValue(t, "device_compute"))
    BY <2>2, DistributionReads, ReadObject
  <2>4. ParseDistributions({DistributionText(x)}) = {x}
    BY <2>1, ParseDistributionsOf
  <2> QED  BY <2>1, <2>3, <2>4 DEF Nullable
<1> QED  BY <1>1, <1>2, OptionIs

\* The reading of a text that begins with a whole document is the document's.
LEMMA SnapshotOfDocument ==
  ASSUME NEW doc, WellFormed(doc), NEW g, IsText(g)
  PROVE  ParseSnapshot(DocumentText(doc) \o g) = Reading(doc)
<1> DEFINE t == DocumentText(doc) \o g
           environment == EnvironmentText(doc)
           latency == LatencyText(doc)
           slo == SloText(doc)
           validation == {[passed |-> v.passed] : v \in doc.validation}
<1>1. /\ Reads(t, "schema_version", <<Num(2)>>)
      /\ Reads(t, "build", Object(<<>>))
      /\ Reads(t, "model", <<Str(doc.model)>>)
      /\ Reads(t, "backend", <<Str(doc.backend)>>)
      /\ Reads(t, "fallback_used", <<Bool(doc.fallback_used)>>)
      /\ Reads(t, "cuda_graph", <<Bool(doc.cuda_graph)>>)
      /\ Reads(t, "environment", environment)
      /\ Reads(t, "samples", <<Num(doc.samples)>>)
      /\ Reads(t, "input_size", <<Num(doc.input_size)>>)
      /\ Reads(t, "batch_size", <<Num(doc.batch_size)>>)
      /\ Reads(t, "latency_us", latency)
      /\ Reads(t, "validation", OrNull(doc.validation, ValidationText))
      /\ Reads(t, "slo", slo)
  BY DocumentReads
<1> HIDE DEF t, environment, latency, slo, validation
<1>2. /\ Option(doc.device) /\ Option(doc.device_compute) /\ Option(doc.validation)
      /\ IsDistribution(doc.end_to_end) /\ \A d \in doc.device_compute : IsDistribution(d)
  BY DEF WellFormed
<1>3. IsObject(environment) /\ IsObject(latency) /\ IsObject(slo)
  BY EnvironmentReads, LatencyReads, SloReads DEF environment, latency, slo
<1>4. /\ NumberValue(t, "schema_version") = {2} /\ NumberValue(t, "samples") = {doc.samples}
      /\ NumberValue(t, "input_size") = {doc.input_size}
      /\ NumberValue(t, "batch_size") = {doc.batch_size}
  BY <1>1, ReadNumber
<1>5. /\ StringValue(t, "model") = {doc.model} /\ StringValue(t, "backend") = {doc.backend}
  BY <1>1, ReadString
<1>6. /\ BoolValue(t, "fallback_used") = {doc.fallback_used}
      /\ BoolValue(t, "cuda_graph") = {doc.cuda_graph}
  BY <1>1, ReadBool
<1>7. /\ ObjectValue(t, "build") = {Object(<<>>)}
      /\ ObjectValue(t, "environment") = {environment}
      /\ ObjectValue(t, "latency_us") = {latency}
      /\ ObjectValue(t, "slo") = {slo}
  BY <1>1, <1>3, NoMembers, ReadObject
<1>8. StringValue(environment, "device") = doc.device
  BY <1>2, EnvironmentReads, ReadDevice DEF environment
<1>9. ParseDistributions(ObjectValue(latency, "end_to_end")) = {doc.end_to_end}
  <2>1. ObjectValue(latency, "end_to_end") = {DistributionText(doc.end_to_end)}
    BY LatencyReads, DistributionReads, ReadObject DEF latency
  <2> QED  BY <1>2, <2>1, ParseDistributionsOf
<1>10. Nullable(latency, "device_compute",
                ParseDistributions(ObjectValue(latency, "device_compute")))
         = {doc.device_compute}
  BY <1>2, LatencyReads, ReadDeviceCompute DEF latency
<1>11. Nullable(t, "validation", ParseValidation(t)) = {validation}
  BY <1>1, <1>2, ReadValidation DEF validation
<1>12. ParseSlo(slo) = {doc.slo}
  BY ParseSloOf DEF slo
<1>13. ParseSnapshot(t) = ParseFields(t, environment, latency, slo)
  <2>1. {2} \cap {2} = {2}
    OBVIOUS
  <2>2. ParseSnapshot(t) = UNION {ParseFields(t, e, l, s) :
           version \in {2}, build \in {Object(<<>>)}, e \in {environment}, l \in {latency},
           s \in {slo}}
    BY <1>4, <1>7, <2>1 DEF ParseSnapshot
  <2>3. {ParseFields(t, e, l, s) :
           version \in {2}, build \in {Object(<<>>)}, e \in {environment}, l \in {latency},
           s \in {slo}} = {ParseFields(t, environment, latency, slo)}
    OBVIOUS
  <2> QED  BY <2>2, <2>3
<1> DEFINE Snapshot(m, b, f, h, d, n, i, k, e, c, v, s) ==
             [model |-> m, backend |-> b, fallback_used |-> f, cuda_graph |-> h,
              device |-> {d}, samples |-> n, input_size |-> i, batch_size |-> k,
              end_to_end |-> e, device_compute |-> c, validation |-> v, slo |-> s]
           Of(d) == Snapshot(doc.model, doc.backend, doc.fallback_used, doc.cuda_graph, d,
                             doc.samples, doc.input_size, doc.batch_size, doc.end_to_end,
                             doc.device_compute, validation, doc.slo)
<1>14. ParseFields(t, environment, latency, slo)
         = {Snapshot(m, b, f, h, d, n, i, k, e, c, v, s) :
              m \in {doc.model}, b \in {doc.backend}, f \in {doc.fallback_used},
              h \in {doc.cuda_graph}, d \in doc.device, n \in {doc.samples},
              i \in {doc.input_size}, k \in {doc.batch_size}, e \in {doc.end_to_end},
              c \in {doc.device_compute}, v \in {validation}, s \in {doc.slo}}
  BY <1>4, <1>5, <1>6, <1>8, <1>9, <1>10, <1>11, <1>12 DEF ParseFields
<1>15. Reading(doc) = {Of(d) : d \in doc.device}
  BY DEF Reading, validation
<1> HIDE DEF Snapshot
<1>16. {Snapshot(m, b, f, h, d, n, i, k, e, c, v, s) :
              m \in {doc.model}, b \in {doc.backend}, f \in {doc.fallback_used},
              h \in {doc.cuda_graph}, d \in doc.device, n \in {doc.samples},
              i \in {doc.input_size}, k \in {doc.batch_size}, e \in {doc.end_to_end},
              c \in {doc.device_compute}, v \in {validation}, s \in {doc.slo}}
         = {Of(d) : d \in doc.device}
  OBVIOUS
<1> QED  BY <1>13, <1>14, <1>15, <1>16 DEF t

\* And that of a text that was cut off is the document's, or there is none.
LEMMA SnapshotOfStart ==
  ASSUME NEW doc, WellFormed(doc), NEW t, StartOf(t, DocumentText(doc))
  PROVE  ParseSnapshot(t) \subseteq Reading(doc)
<1>1. ParseSnapshot(t) \subseteq ParseSnapshot(DocumentText(doc))
  BY StartSnapshot
<1>2. DocumentText(doc) \o <<>> = DocumentText(doc) /\ IsText(<<>>)
  BY DocumentIsText, EmptyIsText, ConcatOfNone
<1>3. ParseSnapshot(DocumentText(doc)) = Reading(doc)
  BY <1>2, SnapshotOfDocument
<1> QED  BY <1>1, <1>3

LEMMA SnapshotOfNothing == ParseSnapshot(<<>>) = {}
<1>1. At(<<>>, Str("schema_version")) = {}
  BY DEF At
<1>2. FindValue(<<>>, "schema_version") = {}
  BY <1>1 DEF FindValue, Least
<1>3. NumberValue(<<>>, "schema_version") = {}
  BY <1>2 DEF NumberValue, Values
<1> QED  BY <1>3 DEF ParseSnapshot

-----------------------------------------------------------------------------
(* What the comparator makes of it.                                        *)

LEMMA FirstObject ==
  ASSUME NEW doc, NEW g, IsText(g)
  PROVE  Objects(DocumentText(doc) \o g, {1}) = {DocumentText(doc)}
<1>1. PICK ms : DocumentText(doc) = Object(ms) /\ Balanced(FlattenSeq(ms))
  BY EmptyIsText, DocumentReads DEF IsObject
<1>2. IsText(<<>>) /\ Len(<<>>) + 1 = 1 /\ IsText(Object(ms) \o g)
  <2>1. IsText(Object(ms))
    BY <1>1, DocumentIsText
  <2> QED  BY <2>1, EmptyIsText, ConcatIsText
<1>3. <<>> \o (Object(ms) \o g) = Object(ms) \o g
  BY <1>2, ConcatOfNone
<1>4. Objects(<<>> \o (Object(ms) \o g), {Len(<<>>) + 1}) = {Object(ms)}
  BY <1>1, <1>2, ObjectsAtObject
<1> QED  BY <1>1, <1>2, <1>3, <1>4

\* A whole document is the root object, and nothing may follow it.
LEMMA RootOfDocument ==
  ASSUME NEW doc
  PROVE  RootObject(DocumentText(doc)) = {DocumentText(doc)}
<1>1. DocumentText(doc) \o <<>> = DocumentText(doc)
  BY DocumentIsText, ConcatOfNone
<1>2. Objects(DocumentText(doc), {1}) = {DocumentText(doc)}
  BY <1>1, EmptyIsText, FirstObject
<1> QED  BY <1>2 DEF RootObject

LEMMA RootOfMore ==
  ASSUME NEW doc, NEW g, IsText(g), g # <<>>
  PROVE  RootObject(DocumentText(doc) \o g) = {}
<1> DEFINE w == DocumentText(doc)
<1>1. IsText(w) /\ Objects(w \o g, {1}) = {w}
  BY DocumentIsText, FirstObject
<1> HIDE DEF w
<1>2. Len(g) # 0
  BY DEF IsText
<1>3. Len(w \o g) = Len(w) + Len(g) /\ Len(w) \in Nat /\ Len(g) \in Nat
  BY <1>1, ConcatIndex, TextLength
<1>4. w # w \o g
  BY <1>2, <1>3
<1> QED  BY <1>1, <1>4 DEF RootObject, w

LEMMA RootOfStart ==
  ASSUME NEW doc, NEW t, StartOf(t, DocumentText(doc)), Len(t) < Len(DocumentText(doc))
  PROVE  RootObject(t) = {}
<1> SUFFICES ASSUME t \in Objects(t, {1}) PROVE FALSE
  BY DEF RootObject
<1>1. DocumentText(doc) \o <<>> = DocumentText(doc)
  BY DocumentIsText, ConcatOfNone
<1>2. Objects(DocumentText(doc), {1}) = {DocumentText(doc)}
  BY <1>1, EmptyIsText, FirstObject
<1>3. Objects(t, {1}) \subseteq Objects(DocumentText(doc), {1})
  <2>1. {1} \in SUBSET (Nat \ {0})
    OBVIOUS
  <2> QED  BY <2>1, StartObjects
<1>4. t = DocumentText(doc)
  BY <1>2, <1>3
<1>5. Len(t) \in Nat
  BY TextLength DEF StartOf
<1> QED  BY <1>4, <1>5

LEMMA MetricsOfDocument ==
  ASSUME NEW doc, WellFormed(doc), NEW scope \in {"e2e", "device"}
  PROVE  ReadMetrics(DocumentText(doc), scope, "p99") = ParseMetrics({doc}, scope, "p99")
<1> DEFINE t == DocumentText(doc)
           environment == EnvironmentText(doc)
           latency == LatencyText(doc)
           key == IF scope = "e2e" THEN "end_to_end" ELSE "device_compute"
           D == UNION {Values(e, Find(e, "device"), "string") :
                         e \in Objects(t, Find(t, "environment"))}
           L == UNION {UNION {Values(o, Find(o, "p99"), "number") :
                                o \in Objects(l, Find(l, key))} :
                         l \in Objects(t, Find(t, "latency_us"))}
           P == {d.p99 : d \in ScopeDistribution(doc, scope)}
<1>1. t \o <<>> = t /\ IsText(<<>>)
  BY DocumentIsText, ConcatOfNone, EmptyIsText
<1>2. /\ Reads(t, "backend", <<Str(doc.backend)>>)
      /\ Reads(t, "cuda_graph", <<Bool(doc.cuda_graph)>>)
      /\ Reads(t, "environment", environment)
      /\ Reads(t, "input_size", <<Num(doc.input_size)>>)
      /\ Reads(t, "batch_size", <<Num(doc.batch_size)>>)
      /\ Reads(t, "latency_us", latency)
  <2>1. /\ Reads(t \o <<>>, "backend", <<Str(doc.backend)>>)
        /\ Reads(t \o <<>>, "cuda_graph", <<Bool(doc.cuda_graph)>>)
        /\ Reads(t \o <<>>, "environment", environment)
        /\ Reads(t \o <<>>, "input_size", <<Num(doc.input_size)>>)
        /\ Reads(t \o <<>>, "batch_size", <<Num(doc.batch_size)>>)
        /\ Reads(t \o <<>>, "latency_us", latency)
    BY EmptyIsText, DocumentReads
  <2> HIDE DEF t, environment, latency
  <2> QED  BY <1>1, <2>1
<1>3. RootObject(t) = {t}
  BY RootOfDocument
<1> HIDE DEF t, environment, latency
<1>4. /\ Option(doc.device) /\ Option(doc.device_compute)
  BY DEF WellFormed
<1>5. IsObject(environment) /\ IsObject(latency)
  BY EnvironmentReads, LatencyReads DEF environment, latency
<1>6. /\ Values(t, Find(t, "backend"), "string") = {doc.backend}
      /\ Values(t, Find(t, "input_size"), "number") = {doc.input_size}
      /\ Values(t, Find(t, "batch_size"), "number") = {doc.batch_size}
      /\ Values(t, Find(t, "cuda_graph"), "boolean") = {doc.cuda_graph}
  BY <1>2, ReadString, ReadNumber, ReadBool
<1>7. D = doc.device
  <2>1. Objects(t, Find(t, "environment")) = {environment}
    BY <1>2, <1>5, ReadObject
  <2>2. Values(environment, Find(environment, "device"), "string") = doc.device
    BY <1>4, EnvironmentReads, ReadDevice DEF environment
  <2> QED  BY <2>1, <2>2
<1>8. L = P
  <2>1. Objects(t, Find(t, "latency_us")) = {latency}
    BY <1>2, <1>5, ReadObject
  <2> DEFINE O == Objects(latency, Find(latency, key))
             V(o) == Values(o, Find(o, "p99"), "number")
  <2>2. L = UNION {V(o) : o \in O}
    BY <2>1
  <2>3. \A d : V(DistributionText(d)) = {d.p99}
    BY DistributionReads, ReadNumber
  <2>4. O = {DistributionText(d) : d \in ScopeDistribution(doc, scope)}
    <3>1. CASE scope = "e2e"
      <4>1. O = {DistributionText(doc.end_to_end)}
        BY <3>1, LatencyReads, DistributionReads, ReadObject DEF latency
      <4> QED  BY <3>1, <4>1 DEF ScopeDistribution
    <3>2. CASE scope = "device"
      <4> DEFINE option == doc.device_compute
      <4>1. Reads(latency, "device_compute", OrNull(option, DistributionText))
        BY LatencyReads DEF latency
      <4>2. O = Objects(latency, Find(latency, "device_compute"))
        BY <3>2
      <4>3. ScopeDistribution(doc, scope) = option
        BY <3>2 DEF ScopeDistribution
      <4>4. Option(option)
        BY <1>4
      <4> HIDE DEF option, O
      <4>5. CASE option = {}
        <5>1. Reads(latency, "device_compute", <<Null>>)
          BY <4>1, <4>5, OrNullIs
        <5>2. Objects(latency, Find(latency, "device_compute")) = {}
          BY <5>1, FoundToken, Scalars DEF Reads
        <5> QED  BY <4>2, <4>3, <4>5, <5>2
      <4>6. CASE \E x : option = {x}
        <5>1. PICK x : option = {x}
          BY <4>6
        <5>2. Reads(latency, "device_compute", DistributionText(x))
          BY <4>1, <5>1, OrNullIs
        <5>3. O = {DistributionText(x)}
          BY <4>2, <5>2, DistributionReads, ReadObject
        <5> QED  BY <4>3, <5>1, <5>3
      <4> QED  BY <4>4, <4>5, <4>6, OptionIs
    <3> QED  BY <3>1, <3>2
  <2> HIDE DEF O, V
  <2>5. UNION {V(o) : o \in O} = P
    BY <2>3, <2>4
  <2> QED  BY <2>2, <2>5
<1> DEFINE Run(l, d, b, i, k, h) ==
             [latency_us |-> l, backend |-> b, device |-> d,
              input_size |-> i, batch_size |-> k, cuda_graph |-> h]
<1> DEFINE read == ReadMetrics(t, scope, "p99")
           parsed == ParseMetrics({doc}, scope, "p99")
           A == {Run(l, d, b, i, k, h) :
                   l \in P, d \in doc.device, b \in {doc.backend}, i \in {doc.input_size},
                   k \in {doc.batch_size}, h \in {doc.cuda_graph}}
           B == {Run(d.p99, device, doc.backend, doc.input_size, doc.batch_size, doc.cuda_graph) :
                   d \in ScopeDistribution(doc, scope), device \in doc.device}
<1>9. read = A
  <2>1. ReadMetrics(t, scope, "p99") = UNION {
           {Run(l, d, b, i, k, h) :
             l \in UNION {UNION {Values(o, Find(o, "p99"), "number") :
                                   o \in Objects(x, Find(x, key))} :
                            x \in Objects(root, Find(root, "latency_us"))},
             d \in UNION {Values(e, Find(e, "device"), "string") :
                            e \in Objects(root, Find(root, "environment"))},
             b \in Values(root, Find(root, "backend"), "string"),
             i \in Values(root, Find(root, "input_size"), "number"),
             k \in Values(root, Find(root, "batch_size"), "number"),
             h \in Values(root, Find(root, "cuda_graph"), "boolean")} :
           root \in {t}}
    BY <1>3 DEF ReadMetrics
  <2> HIDE DEF Run
  <2>2. ReadMetrics(t, scope, "p99") =
          {Run(l, d, b, i, k, h) : l \in L, d \in D,
             b \in Values(t, Find(t, "backend"), "string"),
             i \in Values(t, Find(t, "input_size"), "number"),
             k \in Values(t, Find(t, "batch_size"), "number"),
             h \in Values(t, Find(t, "cuda_graph"), "boolean")}
    BY <2>1
  <2> HIDE DEF L, D, P
  <2> QED  BY <1>6, <1>7, <1>8, <2>2
<1>10. parsed = B
  BY DEF ParseMetrics
<1> HIDE DEF Run
<1>11. A = B
  OBVIOUS
<1> HIDE DEF A, B, read, parsed
<1>12. read = parsed
  BY <1>9, <1>10, <1>11
<1> QED  BY <1>12 DEF t, read, parsed

\* A text without a root object is refused.
LEMMA MetricsOfNoRoot ==
  ASSUME NEW t, RootObject(t) = {}, NEW scope, NEW metric
  PROVE  ReadMetrics(t, scope, metric) = {}
BY DEF ReadMetrics

LEMMA RootOfNothing == RootObject(<<>>) = {}
<1>1. Len(<<>>) = 0
  OBVIOUS
<1> QED  BY <1>1 DEF RootObject, Objects
-----------------------------------------------------------------------------
(* What the proofs above amount to.                                        *)

\* The exporter reads back every field it looks for, from a whole document and
\* whatever follows it, and refuses it exactly if the device is null: what the
\* other modules call accepted is what the parser accepts.
THEOREM ExporterReadsBack ==
  ASSUME NEW doc, WellFormed(doc), NEW rest, IsText(rest)
  PROVE  /\ ParseSnapshot(DocumentText(doc) \o rest) = Reading(doc)
         /\ ParseSnapshot(DocumentText(doc) \o rest) # {} <=> Accepted(doc)
<1>1. ParseSnapshot(DocumentText(doc) \o rest) = Reading(doc)
  BY SnapshotOfDocument
<1>2. Reading(doc) # {} <=> doc.device # {}
  BY DEF Reading
<1> QED  BY <1>1, <1>2 DEF Accepted

\* The exporter refuses the start of a document or reads from it what the whole
\* one says.
THEOREM ExporterRefusesOrAgrees ==
  ASSUME NEW doc, WellFormed(doc), NEW text, StartOf(text, DocumentText(doc))
  PROVE  ParseSnapshot(text) \subseteq Reading(doc)
BY SnapshotOfStart

\* The comparator takes from a document its own latency and context, and nothing
\* from a part of it or from one that something follows.
THEOREM ComparatorReadsWhole ==
  ASSUME NEW doc, WellFormed(doc), NEW scope \in {"e2e", "device"}
  PROVE  /\ ReadMetrics(DocumentText(doc), scope, "p99") = ParseMetrics({doc}, scope, "p99")
         /\ \A rest : IsText(rest) /\ rest # <<>> =>
              ReadMetrics(DocumentText(doc) \o rest, scope, "p99") = {}
         /\ \A text : StartOf(text, DocumentText(doc)) /\ Len(text) < Len(DocumentText(doc)) =>
              ReadMetrics(text, scope, "p99") = {}
<1>1. ReadMetrics(DocumentText(doc), scope, "p99") = ParseMetrics({doc}, scope, "p99")
  BY MetricsOfDocument
<1>2. ASSUME NEW rest, IsText(rest), rest # <<>>
      PROVE  ReadMetrics(DocumentText(doc) \o rest, scope, "p99") = {}
  <2>1. RootObject(DocumentText(doc) \o rest) = {}
    BY <1>2, RootOfMore
  <2> QED  BY <2>1, MetricsOfNoRoot
<1>3. ASSUME NEW text, StartOf(text, DocumentText(doc)), Len(text) < Len(DocumentText(doc))
      PROVE  ReadMetrics(text, scope, "p99") = {}
  <2>1. RootObject(text) = {}
    BY <1>3, RootOfStart
  <2> QED  BY <2>1, MetricsOfNoRoot
<1> QED  BY <1>1, <1>2, <1>3
=============================================================================
