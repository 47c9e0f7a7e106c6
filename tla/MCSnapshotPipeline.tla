------------------------- MODULE MCSnapshotPipeline -------------------------
(***************************************************************************)
(* Instances of SnapshotPipeline for TLC.                                  *)
(***************************************************************************)
EXTENDS SnapshotPipeline

CONSTANTS p1, p2    \* two processes running the script

OnePublisher == {p1}
TwoPublishers == {p1, p2}
=============================================================================
