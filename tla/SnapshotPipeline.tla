-------------------------- MODULE SnapshotPipeline --------------------------
(***************************************************************************)
(* How a metrics document travels from the benchmark to a scrape:          *)
(* scripts/run_monitored_benchmark.sh runs marketdata_ingress in a loop    *)
(* and publishes its document by renaming a temporary file, and            *)
(* tools/metrics_exporter.cpp reads the published file, twice, for every   *)
(* scrape: once for its contents and once for its modification time.       *)
(*                                                                         *)
(* Publishers are processes running the script on one metrics file, each   *)
(* with a temporary file of its own.  They are killed and started again at *)
(* any moment.  The exporter is one thread, interleaved with them.         *)
(*                                                                         *)
(* A run is known by its number, which is also its place in time: a file   *)
(* written by run n has modification time n, and rename keeps it.          *)
(***************************************************************************)
EXTENDS Naturals

CONSTANTS
    Publishers,     \* processes running the script
    MaxRuns         \* bound on benchmark runs that open their output

ASSUME PipelineAssumption == MaxRuns \in Nat

VARIABLES
    pub,        \* where each script is
    code,       \* exit code of the ingress run that the script last waited for
    runs,       \* number of runs that have written their document so far
    tmp,        \* what each temporary path holds
    file,       \* what the metrics path holds
    conn,       \* where the exporter is in the request it handles
    snapshot,   \* what the scrape in progress read
    response    \* the last exposition: last_load_success, document, stamp

vars == <<pub, code, runs, tmp, file, conn, snapshot, response>>
publisherVars == <<pub, code, runs, tmp>>
exporterVars == <<conn, snapshot, response>>

\* Contents of a file: nothing there, what a run has written so far, or what a
\* run with a verdict has left, with its exit code and whether the exporter's
\* parser accepts it: the document, or the start of one whose last flush failed.
\* mtime is 0 when there is no file.
NoFile == [text |-> "none", run |-> 0, exit |-> 0, accepted |-> FALSE, mtime |-> 0]
Partial(n) == [text |-> "partial", run |-> n, exit |-> 0, accepted |-> FALSE, mtime |-> n]
Left(text, n, x, a) == [text |-> text, run |-> n, exit |-> x, accepted |-> a, mtime |-> n]

\* The exit codes of a verdict (Ingress!VerdictIsOverItsOwnFile).
DocumentCodes == {0, 3, 4, 5}

\* A file that is there was made by a run, and rename keeps the run's time.
Files ==
    {f \in [text : {"none", "partial", "short", "document"}, run : 0 .. MaxRuns,
            exit : DocumentCodes, accepted : BOOLEAN, mtime : 0 .. MaxRuns] :
        /\ f.text = "none" <=> f.run = 0
        /\ f.accepted => f.text \in {"short", "document"}
        /\ f.mtime = f.run}

Responses == [success : BOOLEAN, doc : Files, stamp : 0 .. MaxRuns]
LoadFailed == [success |-> FALSE, doc |-> NoFile, stamp |-> 0]

Init ==
    /\ pub = [p \in Publishers |-> "waiting"]
    /\ code = [p \in Publishers |-> 0]
    /\ runs = 0
    /\ tmp = [p \in Publishers |-> NoFile]
    /\ file = NoFile
    /\ conn = "accept"
    /\ snapshot = NoFile
    /\ response = LoadFailed

-----------------------------------------------------------------------------
(* The script.                                                             *)

\* The temporary path carries the process number, so it is the publisher's.
\* (OneNameForAll is the injected fault: the suffix .$$ is dropped.)
OneNameForAll(p) == CHOOSE q \in Publishers : TRUE
TemporaryFile(p) == p

\* The body of the loop begins: ingress runs, and opens its output.
StartRun(p) ==
    /\ pub[p] = "waiting"
    /\ pub' = [pub EXCEPT ![p] = "running"]
    /\ UNCHANGED <<code, runs, tmp, file, exporterVars>>

\* ingress opens its output with truncation when its measurements are done.
OpenOutput(p) ==
    /\ pub[p] = "running"
    /\ runs < MaxRuns
    /\ runs' = runs + 1
    /\ tmp' = [tmp EXCEPT ![TemporaryFile(p)] = Partial(runs + 1)]
    /\ pub' = [pub EXCEPT ![p] = "writing"]
    /\ UNCHANGED <<code, file, exporterVars>>

\* ingress closes its output and exits with its verdict.  It has tested the
\* stream before: an error that only the last flush meets leaves a short file.
WriteOutput(p) ==
    /\ pub[p] = "writing"
    /\ \E text \in {"document", "short"}, x \in DocumentCodes, a \in BOOLEAN :
         /\ tmp' = [tmp EXCEPT ![TemporaryFile(p)] =
                      Left(text, tmp[TemporaryFile(p)].run, x, a)]
         /\ code' = [code EXCEPT ![p] = x]
    /\ pub' = [pub EXCEPT ![p] = "judging"]
    /\ UNCHANGED <<runs, file, exporterVars>>

\* ingress fails before it opens its output (1, 2, 6), or while it writes it
\* (2), or is killed (137): the temporary file stays as it is.
RunFails(p) ==
    /\ pub[p] \in {"running", "writing"}
    /\ \E x \in IF pub[p] = "running" THEN {1, 2, 6, 137} ELSE {2, 137} :
         code' = [code EXCEPT ![p] = x]
    /\ pub' = [pub EXCEPT ![p] = "judging"]
    /\ UNCHANGED <<runs, tmp, file, exporterVars>>

\* (AnyVerdict is the injected fault: the exit status is not tested.)
AnyVerdict(p) == TRUE
RunSucceeded(p) == code[p] = 0

\* mv: atomic, and keeps the modification time.
Publish(p) ==
    /\ pub[p] = "judging"
    /\ RunSucceeded(p)
    /\ file' = tmp[TemporaryFile(p)]
    /\ tmp' = [tmp EXCEPT ![TemporaryFile(p)] = NoFile]
    /\ pub' = [pub EXCEPT ![p] = "waiting"]
    /\ UNCHANGED <<code, runs, exporterVars>>

\* rm -f
Discard(p) ==
    /\ pub[p] = "judging"
    /\ ~RunSucceeded(p)
    /\ tmp' = [tmp EXCEPT ![TemporaryFile(p)] = NoFile]
    /\ pub' = [pub EXCEPT ![p] = "waiting"]
    /\ UNCHANGED <<code, runs, file, exporterVars>>

\* The script is killed with its run, or mv fails and set -e ends it; its
\* temporary file stays.  It is started again, in the worst case with the
\* process number, and so the leftover, of the killed one.
Kill(p) ==
    /\ pub[p] # "killed"
    /\ pub' = [pub EXCEPT ![p] = "killed"]
    /\ UNCHANGED <<code, runs, tmp, file, exporterVars>>

Restart(p) ==
    /\ pub[p] = "killed"
    /\ pub' = [pub EXCEPT ![p] = "waiting"]
    /\ code' = [code EXCEPT ![p] = 0]
    /\ UNCHANGED <<runs, tmp, file, exporterVars>>

-----------------------------------------------------------------------------
(* The exporter: GET /metrics.                                             *)

BeginScrape ==
    /\ conn = "accept"
    /\ conn' = "read"
    /\ UNCHANGED <<publisherVars, file, snapshot, response>>

\* read_file and parse_snapshot; when either throws, the exposition has the
\* exporter's own series only.  (FirstReadKept is the injected fault: a
\* document once parsed is kept.)
FirstReadKept == IF snapshot.accepted THEN snapshot ELSE file
ReadFile == file

ReadSnapshot ==
    /\ conn = "read"
    /\ snapshot' = ReadFile
    /\ IF snapshot'.accepted
       THEN conn' = "stamp" /\ response' = response
       ELSE conn' = "accept" /\ response' = LoadFailed
    /\ UNCHANGED <<publisherVars, file>>

\* file_timestamp opens the path again, and the exposition is sent.
StampSnapshot ==
    /\ conn = "stamp"
    /\ response' = [success |-> TRUE, doc |-> snapshot, stamp |-> file.mtime]
    /\ conn' = "accept"
    /\ UNCHANGED <<publisherVars, file, snapshot>>

-----------------------------------------------------------------------------

Script(p) ==
    \/ StartRun(p) \/ OpenOutput(p) \/ WriteOutput(p) \/ RunFails(p)
    \/ Publish(p) \/ Discard(p)

Exporter == BeginScrape \/ ReadSnapshot \/ StampSnapshot

Next ==
    \/ \E p \in Publishers : Script(p) \/ Kill(p) \/ Restart(p)
    \/ Exporter

Spec == Init /\ [][Next]_vars

\* Prometheus keeps scraping, and the exporter's thread runs; nothing is
\* assumed of the publishers.
FairSpec == Spec /\ WF_vars(Exporter)

-----------------------------------------------------------------------------
(* Properties.                                                             *)

TypeOK ==
    /\ pub \in [Publishers ->
                  {"waiting", "running", "writing", "judging", "killed"}]
    /\ code \in [Publishers -> {0, 1, 2, 3, 4, 5, 6, 137}]
    /\ runs \in 0 .. MaxRuns
    /\ tmp \in [Publishers -> Files]
    /\ file \in Files
    /\ conn \in {"accept", "read", "stamp"}
    /\ snapshot \in Files
    /\ response \in Responses

\* No reader of the metrics path ever finds a file that is still being written,
\* or that a run gave up, with several scripts on one path and any of them killed
\* at any moment.  It may find one that a failing last flush cut short.
PublishedIsFinished == file.text # "partial"

\* Only what runs left that exited 0 is published, and so served: also
\* when an earlier script was killed between its run and its mv.
PublishedRunPassed == file.exit = 0 /\ response.doc.exit = 0

\* A published file is served, or shown as a load failure if the parser
\* refuses it, unless another one replaces it first: the exposition never
\* stays behind the file.
ExpositionCatchesUp ==
    \A n \in 1 .. MaxRuns :
        file.run = n ~>
            \/ file.run # n
            \/ response.success = file.accepted
                 /\ (response.success => response.doc = file)

\* The exporter's help text for marketdata_metrics_file_timestamp_seconds:
\* "Modification time of the loaded snapshot."
StampIsOfLoadedSnapshot ==
    response.success => response.stamp = response.doc.mtime
=============================================================================
