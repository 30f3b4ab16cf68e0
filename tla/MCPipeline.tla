----------------------------- MODULE MCPipeline ------------------------------
(***************************************************************************)
(* An instance of the pipeline for TLC with everything that may disturb a  *)
(* stage, though little of it in one behaviour: the proofs of module       *)
(* PipelineProofs need no such bound.                                      *)
(***************************************************************************)
EXTENDS PipelineRefinement

CONSTANT MaxTroubles \* bound: troubles in one behaviour

ASSUME MaxTroublesAssumption == MaxTroubles \in Nat

\* Troubles: the context ends, a stage meets a fault of the operating system, leaves a
\* grandchild, has more to say than its pipe holds, or cannot write its output.
FewTroubles ==
  LET struck == {s \in Stages : r[s] \in {"pgidErr", "zeroId"}}
      forked == {s \in Stages : kid[s] # "none"}
      wordy  == {s \in Stages : wrote[s] > Cap}
      unsaid == {s \in Stages : errCp[s] = "failed"} \cup {s \in {N} : outCp[s] = "failed"}
      ended  == {x \in {ctx} : x = "done"}
  IN Cardinality(struck) + Cardinality(forked) + Cardinality(wordy) + Cardinality(unsaid)
     + Cardinality(ended) <= MaxTroubles
=============================================================================
