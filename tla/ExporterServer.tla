--------------------------- MODULE ExporterServer ---------------------------
(***************************************************************************)
(* The process of tools/metrics_exporter.cpp: main's accept loop with      *)
(* handle_connection, one client at a time; request_stop, the handler of   *)
(* SIGINT and SIGTERM, which may run between any two steps of it and be    *)
(* interrupted by the other signal; the clients; and a benchmark that      *)
(* writes --json-out straight over the file the exporter reads.            *)
(*                                                                         *)
(* A descriptor is a number, and a new one the lowest that is free, so a   *)
(* closed one comes back as something else.  std::signal restarts a call   *)
(* that a handler interrupts, so a call here either blocks or ends.        *)
(***************************************************************************)
EXTENDS MetricsText, MetricsCompare

CONSTANTS
    Peers,         \* the clients, each of which connects once
    Requests(_),   \* what a client may have to say
    Documented,    \* the documents in the file and written to it, a sequence
    Cuts(_),       \* lengths of its text at which a write may stand still
    MaxWrites,     \* bound on the benchmarks that write the file
    MaxSignals     \* bound on the signals sent

\* What the documents look like in the file.
Written == DOMAIN Documented
Texts == [d \in Written |-> DocumentText(Documented[d])]

Paths == {"healthz", "readyz", "metrics", "other"}
AllRequests == Paths \cup {"post", "cut", "silent"}
Signals == {"SIGINT", "SIGTERM"}
Descriptors == 3 .. 6

ASSUME ExporterServerAssumption ==
    /\ IsFiniteSet(Peers)
    /\ \A p \in Peers : Requests(p) \subseteq AllRequests
    /\ Documented # <<>> /\ \A d \in Written : WellFormed(Documented[d])
    /\ \A d \in Written : Cuts(d) \subseteq 1 .. Len(Texts[d]) - 1
    /\ MaxWrites \in Nat /\ MaxSignals \in Nat

VARIABLES
    pc,                \* the step of main
    once,              \* whether --once is given
    descriptors,       \* what each descriptor is open on
    server, client,    \* main's own copies of two of them
    listening_socket,  \* the handler's, -1 for none
    stop_requested,
    handlers,          \* the handlers running, the innermost first
    signals,           \* how many signals were sent
    peer,              \* where each client is
    request,           \* what it has to say
    answer,            \* the status it got, 0 before
    backlog,           \* the connections not accepted yet
    served,            \* the client being served, none between two
    file,              \* the document in the file, how much of it is there
    writer,            \* whether a benchmark is writing it
    writes,            \* how many have
    contents,          \* what read_file has so far: parts of documents
    reading,           \* what parse_snapshot made of it
    split,             \* whether the file was truncated when half a document was read
    scrapes, failures, \* the counters of ExporterState
    exit

signalVars == <<handlers, signals, stop_requested, listening_socket>>
peerVars == <<peer, request, answer, backlog>>
fileVars == <<file, writer, writes>>
readVars == <<contents, reading, split>>
counters == <<scrapes, failures>>
vars == <<pc, once, descriptors, server, client, signalVars, peerVars, served,
          fileVars, readVars, counters, exit>>

-----------------------------------------------------------------------------

Init ==
    /\ pc = "arguments"
    /\ once = FALSE
    /\ descriptors = [d \in Descriptors |-> "free"]
    /\ server = -1 /\ client = -1 /\ listening_socket = -1
    /\ stop_requested = FALSE
    /\ handlers = <<>>
    /\ signals = 0
    /\ peer = [p \in Peers |-> "away"]
    /\ request \in {r \in [Peers -> AllRequests] : \A p \in Peers : r[p] \in Requests(p)}
    /\ answer = [p \in Peers |-> 0]
    /\ backlog = <<>>
    /\ served = {}
    /\ \E d \in Written : \E n \in {0, Len(Texts[d])} : file = [doc |-> d, length |-> n]
    /\ writer = FALSE
    /\ writes = 0
    /\ contents = <<>>
    /\ reading = {}
    /\ split = FALSE
    /\ scrapes = 0 /\ failures = 0
    /\ exit = {}

\* main goes on when no handler is running.
Main(from, to) ==
    /\ pc = from
    /\ handlers = <<>>
    /\ pc' = to
Exits(code) == exit' = {code}
Lives == exit' = exit

LowestFree == CHOOSE d \in Descriptors :
                 /\ descriptors[d] = "free"
                 /\ \A e \in Descriptors : descriptors[e] = "free" => d <= e
Opened(what) == descriptors' = [descriptors EXCEPT ![LowestFree] = what]
\* close of a descriptor that is not open is an error nobody looks at.
Closed(d) == descriptors' = [descriptors EXCEPT ![d] = "free"]

Arguments ==
    /\ \/ Main("arguments", "exited") /\ Exits(0) /\ once' = once
       \/ Main("arguments", "exited") /\ Exits(2) /\ once' = once
       \/ Main("arguments", "open") /\ Lives /\ once' = TRUE
       \/ Main("arguments", "listen") /\ Lives /\ once' = once
    /\ UNCHANGED <<descriptors, server, client, signalVars, peerVars, served,
                   fileVars, readVars, counters>>

\* create_listener; a socket that cannot be bound is closed again.
Listen ==
    /\ \/ /\ Main("listen", "publish") /\ Lives
          /\ server' = LowestFree
          /\ Opened("listener")
       \/ /\ Main("listen", "exited") /\ Exits(2)
          /\ UNCHANGED <<server, descriptors>>
    /\ UNCHANGED <<once, client, signalVars, peerVars, served, fileVars,
                   readVars, counters>>

\* From here on the handler knows the descriptor.
PublishListener ==
    /\ Main("publish", "test") /\ Lives
    /\ listening_socket' = server
    /\ UNCHANGED <<once, descriptors, server, client, stop_requested, handlers,
                   signals, peerVars, served, fileVars, readVars, counters>>

TestStop ==
    /\ Main("test", IF stop_requested THEN "finish" ELSE "accept") /\ Lives
    /\ UNCHANGED <<once, descriptors, server, client, signalVars, peerVars,
                   served, fileVars, readVars, counters>>

Accept ==
    /\ Main("accept", "recv") /\ Lives
    /\ descriptors[server] = "listener"
    /\ backlog # <<>>
    /\ client' = LowestFree
    /\ Opened("client")
    /\ served' = {Head(backlog)}
    /\ backlog' = Tail(backlog)
    /\ UNCHANGED <<once, server, signalVars, peer, request, answer, fileVars,
                   readVars, counters>>

\* The call fails: always on a closed descriptor, otherwise for want of
\* descriptors or memory, or because the connection is gone again.
AcceptFails ==
    /\ Main("accept", "failed") /\ Lives
    /\ UNCHANGED <<once, descriptors, server, client, signalVars, peerVars,
                   served, fileVars, readVars, counters>>
AcceptOnClosed ==
    /\ pc = "accept" /\ descriptors[server] # "listener"
    /\ AcceptFails

\* The failure is taken for the stop if one is on record by now.  (ErrorIsFatal
\* is the injected fault: a stop is not looked for.)
ErrorIsFatal == Main("failed", "throw")
OnAcceptError == Main("failed", IF stop_requested THEN "finish" ELSE "throw")

TestAcceptError ==
    /\ OnAcceptError /\ Lives
    /\ UNCHANGED <<once, descriptors, server, client, signalVars, peerVars,
                   served, fileVars, readVars, counters>>

\* The exception ends main; a stop that comes on the way changes nothing.
ExitOnError ==
    /\ Main("throw", "exited") /\ Exits(2)
    /\ UNCHANGED <<once, descriptors, server, client, signalVars, peerVars,
                   served, fileVars, readVars, counters>>

\* The first recv is the only one, and blocks while the client is silent.  A
\* request whose first part has no two spaces is answered 400.  (WaitForRest
\* is the injected fault: the rest of it is waited for.)
Status(asked) == CASE asked = "cut" -> 400 [] asked = "post" -> 405
                   [] asked = "healthz" -> 200 [] asked = "other" -> 404
WaitForRest(asked) ==
    CASE asked \in {"readyz", "metrics"} -> "open" [] asked = "cut" -> "recv"
      [] OTHER -> "close"
AfterFirstPart(asked) == IF asked \in {"readyz", "metrics"} THEN "open" ELSE "close"

\* load_for_scrape counts the scrape first.  (FailuresOnly is the injected
\* fault: it does not.)
FailuresOnly(p) == scrapes
Scraped(p) == IF request[p] = "metrics" THEN scrapes + 1 ELSE scrapes

Receive ==
    /\ \E p \in served :
         \/ /\ peer[p] = "gone" /\ Main("recv", "close")
            /\ UNCHANGED <<answer, scrapes>>
         \/ /\ peer[p] = "sent" /\ Main("recv", AfterFirstPart(request[p]))
            /\ answer' = IF pc' = "close" THEN [answer EXCEPT ![p] = Status(request[p])]
                         ELSE answer
            /\ scrapes' = Scraped(p)
    /\ Lives
    /\ UNCHANGED <<once, descriptors, server, client, signalVars, peer, request,
                   backlog, served, fileVars, readVars, failures>>

\* read_file; an empty file stands for one that cannot be opened, which is no
\* snapshot either.  The stream reads on from where it is until nothing
\* follows.
OpenFile ==
    /\ Main("open", "read") /\ Lives
    /\ Opened("file")
    /\ contents' = <<>>
    /\ split' = FALSE
    /\ UNCHANGED <<once, server, client, signalVars, peerVars, served, fileVars,
                   reading, counters>>

Offset == IF contents = <<>> THEN 0 ELSE Last(contents).to

ReadMore ==
    /\ Main("read", "read") /\ Lives
    /\ file.length > Offset
    /\ contents' = Append(contents, [doc |-> file.doc, from |-> Offset,
                                     to |-> file.length])
    /\ UNCHANGED <<once, descriptors, server, client, signalVars, peerVars,
                   served, fileVars, reading, split, counters>>

Text(parts) ==
    FlattenSeq([k \in DOMAIN parts |->
        SubSeq(Texts[parts[k].doc], parts[k].from + 1, parts[k].to)])

\* The end of the file is the end of what there is; the stream is closed.
ReadEnds ==
    /\ Main("read", "parse") /\ Lives
    /\ file.length <= Offset
    /\ \E d \in Descriptors : descriptors[d] = "file" /\ Closed(d)
    /\ \E text \in {Text(contents)} : reading' = ParseSnapshot(text)
    /\ UNCHANGED <<once, server, client, signalVars, peerVars, served, fileVars,
                   contents, split, counters>>

\* load_for_scrape answers 200 also without a snapshot, readyz 503.
Answer ==
    /\ IF once
       THEN /\ Main("parse", "exited")
            /\ Exits(IF reading = {} THEN 2 ELSE 0)
            /\ UNCHANGED <<answer, failures>>
       ELSE /\ Main("parse", "close") /\ Lives
            /\ \E p \in served :
                 /\ answer' = [answer EXCEPT ![p] =
                      IF reading = {} /\ request[p] = "readyz" THEN 503 ELSE 200]
                 /\ failures' = IF reading = {} /\ request[p] = "metrics"
                                THEN failures + 1 ELSE failures
    /\ contents' = <<>>
    /\ reading' = {}
    /\ UNCHANGED <<once, descriptors, server, client, signalVars, peer, request,
                   backlog, served, fileVars, split, scrapes>>

CloseClient ==
    /\ Main("close", "test") /\ Lives
    /\ Closed(client)
    /\ client' = -1
    /\ served' = {}
    /\ peer' = [p \in Peers |-> IF p \in served THEN "gone" ELSE peer[p]]
    /\ UNCHANGED <<once, server, signalVars, request, answer, backlog, fileVars,
                   readVars, counters>>

\* After the loop: close the listener unless the handler has, then forget it.
Finish ==
    /\ \/ listening_socket >= 0 /\ Main("finish", "shut") /\ Lives
       \/ listening_socket < 0 /\ Main("finish", "exited") /\ Exits(0)
    /\ UNCHANGED <<once, descriptors, server, client, signalVars, peerVars,
                   served, fileVars, readVars, counters>>

\* The handler may have closed it since the test: then this close fails.
CloseServer ==
    /\ Main("shut", "forget") /\ Lives
    /\ Closed(server)
    /\ UNCHANGED <<once, server, client, signalVars, peerVars, served, fileVars,
                   readVars, counters>>

Forget ==
    /\ Main("forget", "exited") /\ Exits(0)
    /\ listening_socket' = -1
    /\ UNCHANGED <<once, descriptors, server, client, stop_requested, handlers,
                   signals, peerVars, served, fileVars, readVars, counters>>

MainStep ==
    \/ Arguments \/ Listen \/ PublishListener \/ TestStop
    \/ Accept \/ AcceptOnClosed \/ TestAcceptError \/ ExitOnError \/ Receive
    \/ OpenFile \/ ReadMore \/ ReadEnds \/ Answer \/ CloseClient
    \/ Finish \/ CloseServer \/ Forget

-----------------------------------------------------------------------------
(* request_stop.  A signal is blocked while its own handler runs.          *)

Serving == pc \notin {"arguments", "exited"} /\ ~once

Deliver ==
    /\ Serving
    /\ signals < MaxSignals
    /\ signals' = signals + 1
    /\ \E s \in Signals :
         /\ \A k \in DOMAIN handlers : handlers[k].signal # s
         /\ handlers' = <<[signal |-> s, at |-> "flag"]>> \o handlers
    /\ UNCHANGED <<pc, once, descriptors, server, client, stop_requested,
                   listening_socket, peerVars, served, fileVars, readVars,
                   counters, exit>>

Handler(from) == handlers # <<>> /\ Head(handlers).at = from
HandlerGoto(to) == handlers' = [handlers EXCEPT ![1].at = to]
HandlerReturns == handlers' = Tail(handlers)

RequestStop ==
    /\ Handler("flag")
    /\ stop_requested' = TRUE
    /\ HandlerGoto("test")
    /\ UNCHANGED <<descriptors, listening_socket>>

TestListener ==
    /\ Handler("test")
    /\ IF listening_socket >= 0 THEN HandlerGoto("close") ELSE HandlerReturns
    /\ UNCHANGED <<descriptors, listening_socket, stop_requested>>

\* The other signal may have closed it in between: then close(-1) fails.
\* (LeftOpen is the injected fault: the flag alone has to do.)
LeftOpen == descriptors' = descriptors
ListenerClosed ==
    IF listening_socket >= 0 THEN Closed(listening_socket)
    ELSE descriptors' = descriptors

CloseListener ==
    /\ Handler("close")
    /\ ListenerClosed
    /\ HandlerGoto("reset")
    /\ UNCHANGED <<listening_socket, stop_requested>>

\* (StillListening is the injected fault: the descriptor is not forgotten.)
StillListening == listening_socket
NoListener == -1

ResetListener ==
    /\ Handler("reset")
    /\ listening_socket' = NoListener
    /\ HandlerReturns
    /\ UNCHANGED <<descriptors, stop_requested>>

HandlerStep ==
    /\ RequestStop \/ TestListener \/ CloseListener \/ ResetListener
    /\ UNCHANGED <<pc, once, server, client, signals, peerVars, served, fileVars,
                   readVars, counters, exit>>

-----------------------------------------------------------------------------
(* The clients and the benchmark, which know nothing of each other.        *)

Connect(p) ==
    /\ peer[p] = "away"
    /\ \E d \in Descriptors : descriptors[d] = "listener"
    /\ peer' = [peer EXCEPT ![p] = "connected"]
    /\ backlog' = Append(backlog, p)
    /\ UNCHANGED <<request, answer>>

Send(p) ==
    /\ peer[p] = "connected"
    /\ request[p] # "silent"
    /\ peer' = [peer EXCEPT ![p] = "sent"]
    /\ UNCHANGED <<request, answer, backlog>>

Leave(p) ==
    /\ peer[p] = "connected"
    /\ peer' = [peer EXCEPT ![p] = "gone"]
    /\ UNCHANGED <<request, answer, backlog>>

PeerStep(p) ==
    /\ Connect(p) \/ Send(p) \/ Leave(p)
    /\ UNCHANGED <<pc, once, descriptors, server, client, signalVars, served,
                   fileVars, readVars, counters, exit>>

\* The read has begun with a document, and has less than all of it.
HalfRead ==
    pc = "read" /\ contents # <<>> /\ Offset < Len(Texts[contents[1].doc])

\* The stream of main.cpp truncates when it is opened.
Truncate ==
    /\ ~writer
    /\ writes < MaxWrites
    /\ writer' = TRUE
    /\ writes' = writes + 1
    /\ \E d \in Written : file' = [doc |-> d, length |-> 0]
    /\ split' = (split \/ HalfRead)

Extend ==
    /\ writer
    /\ \E n \in Cuts(file.doc) :
         n > file.length /\ file' = [file EXCEPT !.length = n]
    /\ UNCHANGED <<writer, writes, split>>

WriteEnds ==
    /\ writer
    /\ writer' = FALSE
    /\ file' = [file EXCEPT !.length = Len(Texts[file.doc])]
    /\ UNCHANGED <<writes, split>>

\* A full disk, found by the stream or only by its last flush, or the benchmark
\* is killed.
WriteStops ==
    /\ writer
    /\ writer' = FALSE
    /\ UNCHANGED <<file, writes, split>>

WriterStep ==
    /\ Truncate \/ Extend \/ WriteEnds \/ WriteStops
    /\ UNCHANGED <<pc, once, descriptors, server, client, signalVars, peerVars,
                   served, contents, reading, counters, exit>>

Exited == pc = "exited" /\ UNCHANGED vars

Next ==
    \/ MainStep \/ AcceptFails \/ Deliver \/ HandlerStep
    \/ \E p \in Peers : PeerStep(p)
    \/ WriterStep
    \/ Exited

Spec == Init /\ [][Next]_vars

\* The scheduler runs the process, and a client that has a request sends it.
\* Nothing makes a client come, a signal arrive or accept fail.
FairSpec ==
    /\ Spec
    /\ WF_vars(MainStep)
    /\ WF_vars(HandlerStep)
    /\ \A p \in Peers : WF_vars(PeerStep(p) /\ peer'[p] = "sent")

-----------------------------------------------------------------------------
(* Properties.                                                             *)

TypeOK ==
    /\ pc \in {"arguments", "listen", "publish", "test", "accept", "failed", "throw",
              "recv", "open", "read", "parse", "close", "finish", "shut", "forget",
              "exited"}
    /\ once \in BOOLEAN /\ stop_requested \in BOOLEAN /\ writer \in BOOLEAN
    /\ descriptors \in [Descriptors -> {"free", "listener", "client", "file"}]
    /\ {server, client, listening_socket} \subseteq Descriptors \cup {-1}
    /\ Len(handlers) <= 2
    /\ \A k \in DOMAIN handlers :
         handlers[k].signal \in Signals
           /\ handlers[k].at \in {"flag", "test", "close", "reset"}
    /\ signals \in 0 .. MaxSignals /\ writes \in 0 .. MaxWrites
    /\ peer \in [Peers -> {"away", "connected", "sent", "gone"}]
    /\ answer \in [Peers -> {0, 200, 400, 404, 405, 503}]
    /\ \A k \in DOMAIN backlog : backlog[k] \in Peers \ served
    /\ served \subseteq Peers /\ Cardinality(served) <= 1
    /\ file.doc \in Written /\ file.length \in 0 .. Len(Texts[file.doc])
    /\ Cardinality(reading) <= 1
    /\ failures <= scrapes /\ scrapes <= Cardinality(Peers)
    /\ exit \subseteq {0, 2} /\ (exit = {} <=> pc # "exited")

\* Descriptors are reused at once, the handlers of two signals may overlap,
\* and each closes what it believes to be the listener: still, what main has
\* open stays open until main closes it, and nothing else is ever closed.
StopClosesTheListenerOnly ==
    /\ served # {} => descriptors[client] = "client"
    /\ pc = "read" => \E d \in Descriptors : descriptors[d] = "file"
    /\ \A d \in {server, listening_socket} \ {-1} :
         Handler("close") \/ pc = "shut" => descriptors[d] \in {"listener", "free"}

\* Closing the listener makes accept fail, and a failing accept is exit code 2.
\* Once a stop is on record, or its handler has closed the listener, the process
\* never ends with that code: whatever fails from then on is taken for the stop.
\* Only a failure that main has judged before the stop came still counts.
StopUnderWay ==
    /\ server # -1 /\ (stop_requested \/ descriptors[server] # "listener")
    /\ pc \notin {"throw", "exited"}
StopIsNoFailure == [](StopUnderWay => [](exit # {2}))

\* A read that overlaps writes in place is refused or is one document's, with
\* no field of another: at worst an older one.  The exception is a read that
\* was in the middle of a document when the next one took its place.
TornReadIsRefused ==
    pc = "parse" /\ ~split =>
        \A r \in reading : \E k \in DOMAIN contents : r \in Reading(Documented[contents[k].doc])

\* The exporter's search by name and the comparator's walk through the members
\* both find in a whole text what format_metrics_json put there, whatever the
\* strings in it are; of a text read while it was written, the comparator
\* accepts no more than what is one document.
ReadersReadTheDocument ==
    pc = "parse" =>
        \A scope \in {"e2e", "device"} :
            LET compared == ReadMetrics(Text(contents), scope, "p99")
                whole == {k \in DOMAIN contents : k = 1 /\ contents[k].to = Len(Texts[contents[k].doc])}
            IN IF Len(contents) = 1 /\ whole # {}
               THEN /\ reading = Reading(Documented[contents[1].doc])
                    /\ compared = ParseMetrics({Documented[contents[1].doc]}, scope, "p99")
               ELSE ~split => \A c \in compared : \E k \in DOMAIN contents :
                        c \in ParseMetrics({Documented[contents[k].doc]}, scope, "p99")

\* The one client a recv may wait for without end.
SilentClient == pc = "recv" /\ \E p \in served : request[p] = "silent"

\* A stop is answered by the end of the process, unless a silent client has
\* the server wait.
StopIsAnswered == stop_requested ~> (pc = "exited" \/ SilentClient)

\* A request that was sent is answered, also one cut in two, unless the
\* server ends first or waits for a silent client.
RequestIsAnswered ==
    \A p \in Peers :
        peer[p] = "sent" ~> (answer[p] # 0 \/ pc = "exited" \/ SilentClient)
=============================================================================
