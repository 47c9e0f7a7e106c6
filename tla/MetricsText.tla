---------------------------- MODULE MetricsText ----------------------------
(***************************************************************************)
(* The text of a metrics document and its two readers: the exporter, which *)
(* looks for the first occurrence of a key at any depth, and the           *)
(* comparator, which goes through the members of an object.                *)
(*                                                                         *)
(* A text is a sequence of tokens <<kind, value>>.  Space and commas are   *)
(* left out, and so are the members neither reader looks at by a name that *)
(* could be taken for another one.  A string is one token: escape_json     *)
(* escapes every quote, so no key is found inside one.                     *)
(***************************************************************************)
EXTENDS Integers, FiniteSets, Sequences, SequencesExt, Metrics

Str(v) == <<"string", v>>
Num(v) == <<"number", v>>
Bool(v) == <<"boolean", v>>
Null == <<"null", 0>>
Open == <<"open", 0>>
Close == <<"close", 0>>
Colon == <<"colon", 0>>

-----------------------------------------------------------------------------
(* format_metrics_json as text.                                            *)

Member(key, value) == <<Str(key), Colon>> \o value
Object(members) == <<Open>> \o FlattenSeq(members) \o <<Close>>
OrNull(option, Text(_)) ==
    IF option = {} THEN <<Null>> ELSE Text(CHOOSE x \in option : TRUE)
StringText(v) == <<Str(v)>>
NumberText(v) == <<Num(v)>>
BoolText(v) == <<Bool(v)>>

DistributionText(d) ==
    Object(<<Member("samples", <<Num(d.samples)>>), Member("p99", <<Num(d.p99)>>)>>)
ValidationText(v) ==
    Object(<<Member("compared_elements", <<Num(v.compared_elements)>>),
             Member("passed", <<Bool(v.passed)>>)>>)

DocumentText(doc) ==
    Object(<<
        Member("schema_version", <<Num(2)>>),
        Member("build", Object(<<>>)),
        Member("model", <<Str(doc.model)>>),
        Member("backend", <<Str(doc.backend)>>),
        Member("requested_backend", <<Str(doc.requested_backend)>>),
        Member("fallback_used", <<Bool(doc.fallback_used)>>),
        Member("cuda_graph", <<Bool(doc.cuda_graph)>>),
        Member("environment",
               Object(<<Member("device", OrNull(doc.device, StringText))>>)),
        Member("samples", <<Num(doc.samples)>>),
        Member("input_size", <<Num(doc.input_size)>>),
        Member("batch_size", <<Num(doc.batch_size)>>),
        Member("latency_us", Object(<<
            Member("end_to_end", DistributionText(doc.end_to_end)),
            Member("device_compute", OrNull(doc.device_compute, DistributionText))>>)),
        Member("validation", OrNull(doc.validation, ValidationText)),
        Member("slo", Object(<<
            Member("scope", <<Str(doc.slo.scope)>>),
            Member("target_us", OrNull(doc.slo.target_us, NumberText)),
            Member("observed_p99_us", OrNull(doc.slo.observed_p99_us, NumberText)),
            Member("passed", OrNull(doc.slo.passed, BoolText))>>))>>)

-----------------------------------------------------------------------------
(* The helpers of both readers.  A result is the set of the one value the  *)
(* reader returns, empty where it throws.                                  *)

Least(S) == {x \in S : \A y \in S : x <= y}
Values(text, positions, kind) ==
    {text[p][2] : p \in {q \in positions : q <= Len(text) /\ text[q][1] = kind}}
IsNull(text, positions) ==
    \E p \in positions : p <= Len(text) /\ text[p] = Null

At(text, token) == {k \in DOMAIN text : text[k] = token}

\* The braces of a text, and how many are open after the tokens from p to q.
Braces(text) == [open |-> At(text, Open), close |-> At(text, Close)]
Depth(braces, p, q) ==
    Cardinality({b \in braces.open : p <= b /\ b <= q})
      - Cardinality({b \in braces.close : p <= b /\ b <= q})

\* The position of the brace that closes the one at position p.
\* (EndOfText is the injected fault: the end of the text will do, too.)
EndOfText(text, p) ==
    UNION {Least({q \in braces.close \cup {Len(text)} :
                    q > p /\ (Depth(braces, p, q) = 0 \/ q = Len(text))}) :
           braces \in {Braces(text)}}
Matching(text, p) ==
    UNION {Least({q \in braces.close : q > p /\ Depth(braces, p, q) = 0}) :
           braces \in {Braces(text)}}
Objects(text, positions) ==
    UNION {{SubSeq(text, p, q) : q \in Matching(text, p)} :
           p \in {q \in positions : q <= Len(text) /\ text[q] = Open}}

-----------------------------------------------------------------------------
(* The exporter.                                                           *)

\* find_value: the first string of that name a colon follows, wherever it is.
\* (FirstName is the injected fault: the colon is not looked for.)
FirstName(text, key) ==
    {p + 2 : p \in Least(At(text, Str(key)))}
FindValue(text, key) ==
    {p + 2 : p \in Least({q \in At(text, Str(key)) :
                            q < Len(text) /\ text[q + 1] = Colon})}

StringValue(text, key) == Values(text, FindValue(text, key), "string")
NumberValue(text, key) == Values(text, FindValue(text, key), "number")
BoolValue(text, key) == Values(text, FindValue(text, key), "boolean")
ObjectValue(text, key) == Objects(text, FindValue(text, key))

\* Results of a value that may be null: one of null is {{}}.  Only members of
\* the slo object may also be missing.
Nullable(text, key, results) ==
    IF IsNull(text, FindValue(text, key)) THEN {{}} ELSE {{r} : r \in results}
Optional(text, key, results) ==
    IF FindValue(text, key) = {} THEN {{}} ELSE Nullable(text, key, results)

ParseDistribution(text) ==
    {[samples |-> n, p99 |-> v] :
        n \in NumberValue(text, "samples"), v \in NumberValue(text, "p99")}
ParseDistributions(texts) == UNION {ParseDistribution(t) : t \in texts}

ParseSlo(slo) ==
    {[scope |-> s, target_us |-> t, observed_p99_us |-> o, passed |-> p] :
        s \in StringValue(slo, "scope"),
        t \in Optional(slo, "target_us", NumberValue(slo, "target_us")),
        o \in Optional(slo, "observed_p99_us", NumberValue(slo, "observed_p99_us")),
        p \in Optional(slo, "passed", BoolValue(slo, "passed"))}

ParseValidation(text) ==
    UNION {{[passed |-> p] : p \in BoolValue(o, "passed")} :
           o \in ObjectValue(text, "validation")}

\* The fields, from the text or from one of its objects.
ParseFields(text, environment, latency, slo) ==
    {[model |-> m, backend |-> b, fallback_used |-> f, cuda_graph |-> g,
      device |-> {d}, samples |-> n, input_size |-> i, batch_size |-> k,
      end_to_end |-> e, device_compute |-> c, validation |-> v, slo |-> s] :
        m \in StringValue(text, "model"),
        b \in StringValue(text, "backend"),
        f \in BoolValue(text, "fallback_used"),
        g \in BoolValue(text, "cuda_graph"),
        d \in StringValue(environment, "device"),
        n \in NumberValue(text, "samples"),
        i \in NumberValue(text, "input_size"),
        k \in NumberValue(text, "batch_size"),
        e \in ParseDistributions(ObjectValue(latency, "end_to_end")),
        c \in Nullable(latency, "device_compute",
                       ParseDistributions(ObjectValue(latency, "device_compute"))),
        v \in Nullable(text, "validation", ParseValidation(text)),
        s \in ParseSlo(slo)}

ParseSnapshot(text) ==
    UNION {ParseFields(text, environment, latency, slo) :
             version \in NumberValue(text, "schema_version") \cap {2},
             build \in ObjectValue(text, "build"),
             environment \in ObjectValue(text, "environment"),
             latency \in ObjectValue(text, "latency_us"),
             slo \in ObjectValue(text, "slo")}

\* What a reading must be: the exporter's part of the document's own fields.
Reading(doc) ==
    {[model |-> doc.model, backend |-> doc.backend,
      fallback_used |-> doc.fallback_used, cuda_graph |-> doc.cuda_graph,
      device |-> {device}, samples |-> doc.samples,
      input_size |-> doc.input_size, batch_size |-> doc.batch_size,
      end_to_end |-> doc.end_to_end, device_compute |-> doc.device_compute,
      validation |-> {[passed |-> v.passed] : v \in doc.validation},
      slo |-> doc.slo] : device \in doc.device}

-----------------------------------------------------------------------------
(* The comparator.                                                         *)

\* root_object: nothing may follow the brace that closes the first one.
RootObject(text) == {t \in Objects(text, {1}) : t = text}

\* find: the first member of that name of the object itself.
Find(object, key) ==
    LET braces == Braces(object)
    IN {p + 2 : p \in Least({q \in At(object, Str(key)) :
                              /\ q < Len(object) /\ object[q + 1] = Colon
                              /\ Depth(braces, 1, q) = 1})}

\* Sorted out by parse_metrics: the latency, and the context of the run.
ReadMetrics(text, scope, metric) ==
    LET key == IF scope = "e2e" THEN "end_to_end" ELSE "device_compute"
    IN UNION {
         {[latency_us |-> l, backend |-> b, device |-> d,
           input_size |-> i, batch_size |-> k, cuda_graph |-> g] :
             l \in UNION {UNION {Values(o, Find(o, metric), "number") :
                                 o \in Objects(latency, Find(latency, key))} :
                          latency \in Objects(root, Find(root, "latency_us"))},
             d \in UNION {Values(e, Find(e, "device"), "string") :
                          e \in Objects(root, Find(root, "environment"))},
             b \in Values(root, Find(root, "backend"), "string"),
             i \in Values(root, Find(root, "input_size"), "number"),
             k \in Values(root, Find(root, "batch_size"), "number"),
             g \in Values(root, Find(root, "cuda_graph"), "boolean")} :
         root \in RootObject(text)}
=============================================================================
