-------------------------- MODULE MCTensorRTEngine --------------------------
(***************************************************************************)
(* Instances of TensorRTEngine for TLC.                                    *)
(***************************************************************************)
EXTENDS TensorRTEngine

\* One file of each format that is fine, and one for each place where load
\* can stop because of the file.
MCModels ==
    {[onnx |-> o, defect |-> "none"] : o \in BOOLEAN}
      \cup {[onnx |-> FALSE, defect |-> d] : d \in Defects}

\* A supported file and one that load abandons with a name already set.
MCTwoModels == {[onnx |-> FALSE, defect |-> d] : d \in {"none", "second_input"}}
=============================================================================
