---------------------- MODULE SnapshotPipeline_proofs ----------------------
(***************************************************************************)
(* Proofs about module SnapshotPipeline, for any set of scripts and any    *)
(* number of runs.                                                         *)
(***************************************************************************)
EXTENDS SnapshotPipeline, TLAPS

\* A file being written is a run's, a run that was judged good has finished its
\* file with exit code 0, and so has whatever was published or read.
PipelineInv ==
    /\ TypeOK
    /\ \A p \in Publishers :
         /\ pub[p] = "writing" => tmp[p].run # 0
         /\ pub[p] = "judging" /\ code[p] = 0 =>
              tmp[p].text # "partial" /\ tmp[p].exit = 0
    /\ PublishedIsFinished
    /\ file.exit = 0
    /\ snapshot.exit = 0
    /\ response.doc.exit = 0

\* The contents a file may have are well-formed.
LEMMA ContentsAreFiles ==
    /\ NoFile \in Files
    /\ \A n \in 1 .. MaxRuns :
         /\ Partial(n) \in Files
         /\ \A text \in {"document", "short"}, x \in DocumentCodes, a \in BOOLEAN :
              Left(text, n, x, a) \in Files
<1>. USE PipelineAssumption
<1>1. NoFile \in Files
    BY DEF NoFile, Files, DocumentCodes
<1>2. ASSUME NEW n \in 1 .. MaxRuns PROVE Partial(n) \in Files
    BY DEF Partial, Files, DocumentCodes
<1>3. ASSUME NEW n \in 1 .. MaxRuns, NEW text \in {"document", "short"},
             NEW x \in DocumentCodes, NEW a \in BOOLEAN
      PROVE  Left(text, n, x, a) \in Files
    BY DEF Left, Files
<1>. QED
    BY <1>1, <1>2, <1>3

\* The initial states satisfy the invariant.
LEMMA InitPipeline == Init => PipelineInv
<1>. SUFFICES ASSUME Init PROVE PipelineInv
    OBVIOUS
<1>1. NoFile \in Files /\ NoFile.exit = 0 /\ NoFile.text = "none"
    BY ContentsAreFiles DEF NoFile
<1>2. LoadFailed \in Responses /\ LoadFailed.doc.exit = 0
    BY <1>1, PipelineAssumption DEF LoadFailed, Responses
<1>3. TypeOK
    BY <1>1, <1>2, PipelineAssumption DEF Init, TypeOK
<1>. QED
    BY <1>1, <1>2, <1>3 DEF Init, PipelineInv, PublishedIsFinished

\* A step of the script that leaves the published file and the exporter alone
\* keeps the invariant if it keeps what it says of the script it is of.
LEMMA OneScript ==
    ASSUME PipelineInv, NEW p \in Publishers, TypeOK',
           UNCHANGED <<file, snapshot, response>>,
           \A q \in Publishers \ {p} :
               pub'[q] = pub[q] /\ code'[q] = code[q] /\ tmp'[q] = tmp[q],
           pub'[p] = "writing" => tmp'[p].run # 0,
           pub'[p] = "judging" /\ code'[p] = 0 =>
               tmp'[p].text # "partial" /\ tmp'[p].exit = 0
    PROVE  PipelineInv'
BY DEF PipelineInv, PublishedIsFinished

\* Every step keeps the invariant.
LEMMA PipelineStep == PipelineInv /\ [Next]_vars => PipelineInv'
<1>. SUFFICES ASSUME PipelineInv, [Next]_vars PROVE PipelineInv'
    OBVIOUS
<1>. USE PipelineAssumption DEF TemporaryFile, publisherVars, exporterVars
<1>t. TypeOK
    BY DEF PipelineInv
<1>n. NoFile \in Files /\ NoFile.exit = 0 /\ NoFile.text = "none"
    BY ContentsAreFiles DEF NoFile
<1>l. LoadFailed \in Responses /\ LoadFailed.doc.exit = 0
    BY <1>n DEF LoadFailed, Responses
<1>1. ASSUME NEW p \in Publishers, StartRun(p) PROVE PipelineInv'
  <2>1. TypeOK'
      BY <1>1, <1>t DEF StartRun, TypeOK
  <2>. QED
      BY <1>1, <1>t, <2>1, OneScript DEF StartRun, TypeOK
<1>2. ASSUME NEW p \in Publishers, OpenOutput(p) PROVE PipelineInv'
  <2>1. runs + 1 \in 1 .. MaxRuns
      BY <1>2, <1>t DEF OpenOutput, TypeOK
  <2>2. Partial(runs + 1) \in Files /\ Partial(runs + 1).run # 0
      BY <2>1, ContentsAreFiles DEF Partial
  <2>3. TypeOK'
      BY <1>2, <1>t, <2>1, <2>2 DEF OpenOutput, TypeOK
  <2>. QED
      BY <1>2, <1>t, <2>2, <2>3, OneScript DEF OpenOutput, TypeOK
<1>3. ASSUME NEW p \in Publishers, WriteOutput(p) PROVE PipelineInv'
  <2>1. PICK text \in {"document", "short"}, x \in DocumentCodes, a \in BOOLEAN :
            /\ tmp' = [tmp EXCEPT ![p] = Left(text, tmp[p].run, x, a)]
            /\ code' = [code EXCEPT ![p] = x]
      BY <1>3 DEF WriteOutput
  <2>2. tmp[p].run \in 1 .. MaxRuns
      BY <1>3, <1>t DEF WriteOutput, PipelineInv, TypeOK, Files
  <2>3. /\ Left(text, tmp[p].run, x, a) \in Files
        /\ Left(text, tmp[p].run, x, a).text # "partial"
        /\ Left(text, tmp[p].run, x, a).exit = x
      BY <2>2, ContentsAreFiles DEF Left
  <2>4. x \in {0, 1, 2, 3, 4, 5, 6, 137}
      BY DEF DocumentCodes
  <2>5. TypeOK'
      BY <1>3, <1>t, <2>1, <2>3, <2>4 DEF WriteOutput, TypeOK
  <2>. QED
      BY <1>3, <1>t, <2>1, <2>3, <2>5, OneScript DEF WriteOutput, TypeOK
<1>4. ASSUME NEW p \in Publishers, RunFails(p) PROVE PipelineInv'
  <2>1. PICK x \in {1, 2, 6, 137} : code' = [code EXCEPT ![p] = x]
      BY <1>4 DEF RunFails
  <2>2. TypeOK'
      BY <1>4, <1>t, <2>1 DEF RunFails, TypeOK
  <2>. QED
      BY <1>4, <1>t, <2>1, <2>2, OneScript DEF RunFails, TypeOK
<1>5. ASSUME NEW p \in Publishers, Publish(p) PROVE PipelineInv'
  <2>1. tmp[p].text # "partial" /\ tmp[p].exit = 0 /\ tmp[p] \in Files
      BY <1>5, <1>t DEF Publish, RunSucceeded, PipelineInv, TypeOK
  <2>2. TypeOK'
      BY <1>5, <1>t, <1>n, <2>1 DEF Publish, TypeOK
  <2>3. \A q \in Publishers :
            /\ pub'[q] = "writing" => tmp'[q].run # 0
            /\ pub'[q] = "judging" /\ code'[q] = 0 =>
                 tmp'[q].text # "partial" /\ tmp'[q].exit = 0
      BY <1>5, <1>t DEF Publish, PipelineInv, TypeOK
  <2>. QED
      BY <1>5, <2>1, <2>2, <2>3 DEF Publish, PipelineInv, PublishedIsFinished
<1>6. ASSUME NEW p \in Publishers, Discard(p) PROVE PipelineInv'
  <2>1. TypeOK'
      BY <1>6, <1>t, <1>n DEF Discard, TypeOK
  <2>. QED
      BY <1>6, <1>t, <2>1, OneScript DEF Discard, TypeOK
<1>7. ASSUME NEW p \in Publishers, Kill(p) PROVE PipelineInv'
  <2>1. TypeOK'
      BY <1>7, <1>t DEF Kill, TypeOK
  <2>. QED
      BY <1>7, <1>t, <2>1, OneScript DEF Kill, TypeOK
<1>8. ASSUME NEW p \in Publishers, Restart(p) PROVE PipelineInv'
  <2>1. TypeOK'
      BY <1>8, <1>t DEF Restart, TypeOK
  <2>. QED
      BY <1>8, <1>t, <2>1, OneScript DEF Restart, TypeOK
<1>9. CASE BeginScrape
    BY <1>9 DEF PipelineInv, BeginScrape, TypeOK, PublishedIsFinished
<1>10. CASE ReadSnapshot
  <2>1. snapshot' = file /\ response' \in {response, LoadFailed}
        /\ conn' \in {"accept", "stamp"} /\ UNCHANGED <<publisherVars, file>>
      BY <1>10 DEF ReadSnapshot, ReadFile
  <2>. QED
      BY <1>l, <2>1 DEF PipelineInv, TypeOK, PublishedIsFinished
<1>11. CASE StampSnapshot
  <2>1. file.mtime \in 0 .. MaxRuns
      BY <1>t DEF TypeOK, Files
  <2>2. response' \in Responses /\ response'.doc = snapshot
      BY <1>11, <1>t, <2>1 DEF StampSnapshot, Responses, TypeOK
  <2>. QED
      BY <1>11, <2>2 DEF StampSnapshot, PipelineInv, TypeOK, PublishedIsFinished
<1>12. CASE UNCHANGED vars
    BY <1>12 DEF vars, PipelineInv, TypeOK, PublishedIsFinished
<1>. QED
    BY <1>1, <1>2, <1>3, <1>4, <1>5, <1>6, <1>7, <1>8, <1>9, <1>10, <1>11, <1>12
    DEF Next, Script, Exporter

\* Files, codes and expositions are well-formed in every reachable state, for
\* any number of scripts and runs: no script writes into another's temporary
\* file.
THEOREM PipelineTypes == Spec => []TypeOK
<1>1. PipelineInv => TypeOK
    BY DEF PipelineInv
<1>. QED
    BY <1>1, InitPipeline, PipelineStep, PTL DEF Spec

\* However many scripts publish on one path and whenever they are killed and
\* restarted, a reader of the path finds no file or one whose run was over, with a
\* verdict of 0: nobody writes into it any more.
THEOREM PublishedFinished == Spec => []PublishedIsFinished
<1>1. PipelineInv => PublishedIsFinished
    BY DEF PipelineInv
<1>. QED
    BY <1>1, InitPipeline, PipelineStep, PTL DEF Spec

\* "Failed runs never replace the last valid snapshot": what is published, and
\* what the exporter serves, is of a run that exited 0.
THEOREM PublishedPassed == Spec => []PublishedRunPassed
<1>1. PipelineInv => PublishedRunPassed
    BY DEF PipelineInv, PublishedRunPassed
<1>. QED
    BY <1>1, InitPipeline, PipelineStep, PTL DEF Spec
=============================================================================
