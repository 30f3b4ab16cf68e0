------------------------- MODULE PipelineRefinement -------------------------
(***************************************************************************)
(* Pipeline implements StageJoin: a stage ends when its function returns   *)
(* to the errgroup, and the call closes when execute returns.              *)
(***************************************************************************)
EXTENDS PipelineInvariant

Verdict(o) == IF o = "ok" THEN "ok" ELSE "failed"

\* A stage has ended once its goroutine has handed its error to the errgroup.
StageView == [s \in Stages |-> IF pc[s] = "done" THEN Verdict(r[s]) ELSE "running"]

\* The caller sees the result map when execute returns, and not before.
ResultView ==
  [s \in Stages |->
     IF Returned /\ saved[s] # "unset" THEN Verdict(saved[s]) ELSE "none"]

PhaseView == IF Returned THEN "closed" ELSE "open"

Join == INSTANCE StageJoin
          WITH stage <- StageView, err <- gerr, results <- ResultView, phase <- PhaseView

\* execute keeps the contract of StageJoin: all stages joined, every result present and
\* agreeing with how its stage ended, and the first failure returned as the error.
ImplementsJoin == Join!Spec
=============================================================================
