------------------------- MODULE PipelineInvariant --------------------------
(***************************************************************************)
(* The inductive invariant of Pipeline, in parts: where a goroutine stands *)
(* fixes what it has recorded and closed (StageInv), its copiers account   *)
(* for every chunk (CopyInv), its result says how it got there (ResultInv),*)
(* the errgroup and the caller agree with the stages (JoinInv), the        *)
(* watchers obey the group's context (SignalInv) and did not touch the     *)
(* stage that ended it (FirstErrorIsOwn).                                  *)
(***************************************************************************)
EXTENDS PipelineProperties

Past(s) == pc[s] \in {"ret", "done"}

\* Where a goroutine stands, against what it has set.
StageInv ==
  \A s \in Stages :
    /\ r[s] = "unset" <=> pc[s] \in {"start", "pgid", "wait"}
    /\ r[s] = "zeroId" => Past(s)
    /\ saved[s] = IF Past(s) /\ r[s] # "zeroId" THEN r[s] ELSE "unset"
    /\ s \in wclosed => pc[s] \in {"closeR", "record", "ret", "done"} /\ r[s] # "zeroId"
    /\ s \in rclosed => pc[s] \in {"record", "ret", "done"} /\ r[s] # "zeroId"

\* Every chunk written is captured, in the OS pipe, or in the copier's hands, and a
\* copier that saw the end of its stream left nothing behind.
CopyInv ==
  \A s \in Stages :
    /\ outCp[s] # "failed" =>
         wrote[s] = captured[s] + obuf[s] + (IF outCp[s] = "write" THEN 1 ELSE 0)
    /\ outCp[s] = "done" => obuf[s] = 0 /\ ~Open(s)
    /\ errCp[s] = "done" => ~Open(s)
    /\ outCp[s] = "none" <=> child[s] = "none"
    /\ errCp[s] = "none" <=> child[s] = "none"
    /\ pc[s] = "start" => child[s] = "none"
    /\ child[s] = "none" => kid[s] = "none" /\ inCp[s] = "none"

\* What an outcome says about the processes and copiers of its stage.
ResultInv ==
  \A s \in Stages :
    /\ r[s] = "startErr" => child[s] = "none"
    /\ r[s] \in {"ok", "exit", "copyErr"} => child[s] = "reaped" /\ CopiersEnded(s)
    /\ r[s] = "ok" => outCp[s] = "done" /\ errCp[s] = "done"
    /\ r[s] \in {"pgidErr", "zeroId"} => r[s] \in OsFaults

\* The join: the errgroup holds an error exactly when an ended stage failed, the caller
\* passes g.Wait only after all stages, and stageResWg counts the missing results.
JoinInv ==
  /\ gerr = 0 => \A s \in Stages : pc[s] = "done" => r[s] = "ok"
  /\ gerr # 0 => pc[gerr] = "done" /\ r[gerr] # "ok"
  /\ call # "wait" => \A s \in Stages : pc[s] = "done"
  /\ Returned => pending = 0
  /\ WaitGroupExact

\* A watcher past its wait presupposes the end of gCtx, and so does a signalled command.
SignalInv ==
  \A s \in Stages :
    /\ watcher[s] = "fired" => GroupCtxDone
    /\ status[s] = "signaled" => GroupCtxDone
    /\ pc[s] \in {"start", "pgid"} => watcher[s] = "none"
    /\ r[s] \in {"startErr", "pgidErr", "zeroId"} => watcher[s] = "none"

\* The conjunction that every step preserves.
IInv == TypeOK /\ StageInv /\ CopyInv /\ ResultInv /\ JoinInv /\ SignalInv /\ FirstErrorIsOwn
=============================================================================
