----------------------------- MODULE StageJoin ------------------------------
(***************************************************************************)
(* What a caller of execute (cage/os/exec/exec.go) may rely on, with no    *)
(* pipes, processes or signals: every stage ends once, successfully or     *)
(* not; the call closes only after all have ended; it then holds one       *)
(* result per stage, and the error of the stage that failed first.         *)
(***************************************************************************)
EXTENDS Naturals

CONSTANT N

VARIABLES stage, err, results, phase

jvars == <<stage, err, results, phase>>

Members == 1..N

Init ==
  /\ stage = [s \in Members |-> "running"]
  /\ err = 0
  /\ results = [s \in Members |-> "none"]
  /\ phase = "open"

\* A stage ends; the first one to fail gives the error.
End(s) ==
  /\ stage[s] = "running"
  /\ \E o \in {"ok", "failed"} :
       /\ stage' = [stage EXCEPT ![s] = o]
       /\ err' = IF err = 0 /\ o = "failed" THEN s ELSE err
  /\ UNCHANGED <<results, phase>>

\* The call returns with the outcome of every stage.
Close ==
  /\ phase = "open"
  /\ \A s \in Members : stage[s] # "running"
  /\ phase' = "closed"
  /\ results' = stage
  /\ UNCHANGED <<stage, err>>

Next == Close \/ \E s \in Members : End(s)

Spec == Init /\ [][Next]_jvars
=============================================================================
