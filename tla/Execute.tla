------------------------------- MODULE Execute -------------------------------
(***************************************************************************)
(* A whole call of CommonExecutor.execute (cage/os/exec/exec.go): the      *)
(* first pass wires the commands (module PipelineWiring), the second runs  *)
(* them (module Pipeline) and closes the pipe ends the first remembered.   *)
(*                                                                         *)
(* The first pass takes every argument list.  The second is followed for   *)
(* one list of N commands: it never looks at which commands they are.      *)
(***************************************************************************)
EXTENDS PipelineWiring, PipelineProperties

\* The bounds leave room for such a list.
ASSUME RoomAssumption == \E p \in Pipelines : Len(p) = N /\ \A i \in DOMAIN p : p[i] # Nil

\* The list the second pass is followed for.
Followed == CHOOSE p \in Pipelines : Len(p) = N /\ \A i \in DOMAIN p : p[i] # Nil

evars == <<wvars, vars>>

ExecuteInit == WiringInit /\ Init

\* A step of the second pass: the first is over, both run in the same goroutine.
InSecondPass(A) == Wired /\ cmds = Followed /\ A /\ UNCHANGED wvars

ExecuteNext ==
  \/ WiringNext /\ UNCHANGED vars
  \/ InSecondPass(Next)

ExecuteSpec == ExecuteInit /\ [][ExecuteNext]_evars

\* Every goroutine and timer of the second pass, in the program's own hands.
Code ==
  \/ Caller
  \/ \E s \in Stages : Executor(s) \/ Watcher(s) \/ OutCopier(s) \/ ErrEof(s) \/ InCopier(s)

\* While a goroutine can run or a timer is set, one runs or expires.  That is less than a
\* fair turn for each.  A process owes nothing, nor does whoever reads the program's output
\* (Sink), and os/exec is not relied on to kill a process: "we can rely on the cancellation
\* channel but not that the runtime actually kills the process" (exec.go 270-271).
FairExecute ==
  /\ ExecuteSpec
  /\ WF_evars(WiringNext /\ UNCHANGED vars)
  /\ WF_evars(InSecondPass(Code))
-----------------------------------------------------------------------------

\* The two passes agree on the pipes: when execute returns, the ends that were closed
\* are the ends that were made, each by the command it was remembered for.  The maps
\* filled in the first pass are read in the second by keys nothing else relates.
EveryEndIsClosed ==
  Returned =>
    /\ DOMAIN writer = {cmds[s] : s \in wclosed}
    /\ DOMAIN reader = {cmds[s] : s \in rclosed}

\* The stages do not wait for each other in a circle: if all processes end and the output
\* is taken, execute returns, provided it was given a context and a list without nil.
NoMutualWait ==
  ~ctxNil /\ cmds = Followed /\ OutputIsTaken /\ (<>[] \A s \in Stages : ~Open(s)) => <>Returned
=============================================================================
