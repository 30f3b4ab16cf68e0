------------------------- MODULE PipelineProperties -------------------------
(***************************************************************************)
(* What a call of execute promises about its stages, over module Pipeline. *)
(***************************************************************************)
EXTENDS Pipeline

Returned == call = "returned"

\* A stage reported as successful lost nothing, even when another stage failed: every
\* chunk its processes wrote is in its Result.Stdout.  It takes the copiers being joined
\* before the result is taken, and a failed copy being an error of the stage.
CompleteCapture ==
  Returned => \A s \in Stages : saved[s] = "ok" => captured[s] = wrote[s]

\* An io.Pipe end of a stage is closed under a copier of that stage which still uses it
\* (exec.go 176-178, 214-217) in one case only: Getpgid failed, and the goroutine calls
\* closePipe without a wait (exec.go 258).
PipeEndsClosedLate ==
  \A s \in Stages :
    \/ s \in wclosed /\ outCp[s] \in {"read", "write"}
    \/ s \in rclosed /\ inCp[s] \in {"read", "write"}
    => r[s] = "pgidErr"

\* stageResWg counts exactly the stages without a stored result: Done is called once
\* for each, so the counter never goes below zero (a panic in sync) nor stays above.
WaitGroupExact ==
  pending = Cardinality({s \in Stages : saved[s] = "unset"})

\* When execute returns, the map holds the result of every stage, and the error it
\* returns is nil exactly when all of them succeeded; otherwise it is the error of a
\* stage whose stored result says so too.
ErrorAgreesWithResults ==
  Returned =>
    /\ \A s \in Stages : saved[s] # "unset" /\ saved[s] = r[s]
    /\ gerr = 0 <=> \A s \in Stages : saved[s] = "ok"
    /\ gerr # 0 => saved[gerr] # "ok"

\* When execute returns, no child is left running or unreaped and no copier is still
\* writing: the caller may read the buffers without a lock (Buffered, exec.go 105).
NothingRunsAtReturn ==
  Returned => \A s \in Stages :
    /\ child[s] \in {"none", "reaped"}
    /\ {outCp[s], errCp[s]} \subseteq {"none", "done", "failed"}
    /\ inCp[s] \in {"none", "done"}

\* The error execute returns names the command that caused the failure: while the caller's
\* context lives it is never the error of a command that was merely brought down, by the
\* signals that another's failure made its watcher send.
FirstErrorIsOwn ==
  gerr # 0 /\ ctx = "live" => status[gerr] # "signaled"

\* A stage cannot see the end of its input while the stage before it may still write:
\* its stdin copier ends early only if its own processes stopped reading.
NoEarlyEof ==
  \A s \in Stages \ {1} :
    inCp[s] = "done" /\ Open(s) /\ "pgidErr" \notin OsFaults =>
      outCp[s-1] \in {"none", "done", "failed"}

-----------------------------------------------------------------------------

\* What the end of a call depends on and exec.go does not control: somebody takes what a
\* copier writes to input.stdout and input.stderr, or the write fails.
OutputIsTaken ==
  /\ []<>(outCp[N] # "write")
  /\ \A s \in Stages : []<>(errCp[s] # "write")

\* And no process that left its group, where exec.go 290 and 298 cannot signal it, holds
\* the pipes for ever.
EscapedEnd == \A s \in Stages : []<>(kid[s] # "escaped")

\* Fail fast: once the context ends or a stage's error reaches the errgroup, execute
\* returns, whatever the processes of the groups do and whoever of them holds the pipes.
FailFast == OutputIsTaken /\ EscapedEnd => (GroupCtxDone ~> Returned)

\* In a process that outlives the call, no member of a stage's group outlives it for
\* good: what is left after the return is killed by the watcher.
NoSurvivors == Returned ~> \A s \in Stages : child[s] # "alive" /\ ~KidInGroup(s)
=============================================================================
