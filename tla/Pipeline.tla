------------------------------ MODULE Pipeline ------------------------------
(***************************************************************************)
(* The second pass of CommonExecutor.execute (cage/os/exec/exec.go): N     *)
(* commands, already wired stdout to stdin through io.Pipe pairs (module   *)
(* PipelineWiring), each run by an errgroup goroutine, each watched by a   *)
(* signalling goroutine, and joined by g.Wait and stageResWg.Wait.         *)
(*                                                                         *)
(* Three layers act concurrently:                                          *)
(*  - the code of exec.go: the stage goroutine (pc, r), the result map and *)
(*    its WaitGroup (saved, pending), the errgroup (gerr), the caller      *)
(*    (call) and the signal watcher (watcher, sent);                       *)
(*  - os/exec, io.Pipe and errgroup, external: the copier of a command's   *)
(*    stdout (outCp), stderr (errCp) and stdin (inCp), and the kill on     *)
(*    context end;                                                         *)
(*  - the operating system, external: the child of a stage, one grandchild *)
(*    of it (kid), in its process group or escaped from it, the OS pipes   *)
(*    that connect them to the copiers (ibuf, obuf), and whoever takes     *)
(*    input.stdout and input.stderr, late, never or with an error.         *)
(*                                                                         *)
(* Data is counted in chunks, one Read/Write each; of stderr, whose amount *)
(* no property is about, only whether its copier has one in hand.  The     *)
(* reverse order in which the loop calls g.Go is subsumed: a goroutine may *)
(* run at any time after, so every order of first steps is reachable.      *)
(*                                                                         *)
(* A definition whose comment starts with "Mutant" is a deliberately wrong *)
(* variant of the definition after it; no behaviour of Spec takes it.      *)
(***************************************************************************)
EXTENDS Integers, FiniteSets

CONSTANTS
  N,          \* number of commands in the pipeline
  Cap,        \* chunks an OS pipe holds before a writer blocks
  MaxChunks,  \* bound: chunks one stage's processes write
  Unruly,     \* bound: the stages whose processes write to stderr and leave grandchildren
  Kids,       \* grandchildren a child may leave: in its group, "holding" its pipe ends or
              \* "detached" from them, or "escaped" from the group (setsid), holding them
  OsFaults,   \* failures of the OS: of Getpgid ("pgidErr"), a process id of 0 ("zeroId"),
              \* of a write to input.stdout or input.stderr ("sinkErr")
  MayCancel   \* whether the caller's context can end (timeout or cancel)

ASSUME NAssumption == N \in Nat \ {0}
ASSUME CapAssumption == Cap \in Nat \ {0}
ASSUME MaxChunksAssumption == MaxChunks \in Nat
ASSUME UnrulyAssumption == Unruly \subseteq 1..N
ASSUME KidsAssumption == Kids \subseteq {"holding", "detached", "escaped"}
ASSUME OsFaultsAssumption == OsFaults \subseteq {"pgidErr", "zeroId", "sinkErr"}
ASSUME MayCancelAssumption == MayCancel \in BOOLEAN

Stages == 1..N

VARIABLES
  ctx,      \* input.ctx: "live" or "done"
  call,     \* caller of execute: in g.Wait, in stageResWg.Wait, or returned
  pc,       \* where the goroutine of a stage stands
  r,        \* its local Result, reduced to how the stage ended
  saved,    \* output.pipelineResult.Cmd: the outcome recorded for a stage
  pending,  \* counter of stageResWg
  gerr,     \* stage whose error the errgroup keeps, 0 while it has none
  child,    \* process of a stage
  status,   \* its wait status: "signaled" by its group's signals or by os/exec
  kid,      \* its grandchild
  inCp,     \* os/exec goroutine: io.Pipe of the previous stage -> OS pipe
  outCp,    \* os/exec goroutine: OS pipe -> io.Pipe of the next stage and Result.Stdout
  errCp,    \* os/exec goroutine: OS pipe -> input.stderr and Result.Stderr
  ibuf,     \* chunks in the OS pipe of a child's stdin
  obuf,     \* chunks in the OS pipe of a child's stdout
  wclosed,  \* stages whose io.Pipe writer is closed
  rclosed,  \* stages whose io.Pipe reader is closed
  wrote,    \* chunks a stage's processes wrote to stdout
  captured, \* chunks in Result.Stdout
  watcher,  \* signal goroutine of a stage
  sent      \* signals it has sent to the group

goVars   == <<pc, r, saved, pending, gerr>>
joinVars == <<ctx, call>>
osVars   == <<child, status, kid>>
copyVars == <<inCp, outCp, errCp, ibuf, obuf, wrote, captured>>
endVars  == <<wclosed, rclosed>>
sigVars  == <<watcher, sent>>
vars     == <<goVars, joinVars, osVars, copyVars, endVars, sigVars>>

Outcomes == {"unset", "ok", "exit", "copyErr", "startErr", "pgidErr", "zeroId"}

TypeOK ==
  /\ ctx \in {"live", "done"}
  /\ call \in {"wait", "collect", "returned"}
  /\ pc \in [Stages -> {"start", "pgid", "wait", "closeW", "closeR", "record", "ret", "done"}]
  /\ r \in [Stages -> Outcomes]
  /\ saved \in [Stages -> Outcomes]
  /\ pending \in Int
  /\ gerr \in 0..N
  /\ child \in [Stages -> {"none", "alive", "zombie", "reaped"}]
  /\ status \in [Stages -> {"none", "zero", "nonzero", "signaled"}]
  /\ kid \in [Stages -> {"none", "holding", "detached", "escaped", "dead"}]
  /\ inCp \in [Stages -> {"none", "read", "write", "done"}]
  /\ outCp \in [Stages -> {"none", "read", "write", "done", "failed"}]
  /\ errCp \in [Stages -> {"none", "read", "write", "done", "failed"}]
  /\ ibuf \in [Stages -> 0..Cap]
  /\ obuf \in [Stages -> 0..Cap]
  /\ wclosed \subseteq Stages
  /\ rclosed \subseteq Stages
  /\ wrote \in [Stages -> 0..MaxChunks]
  /\ captured \in [Stages -> Nat]
  /\ watcher \in [Stages -> {"none", "armed", "fired"}]
  /\ sent \in [Stages -> SUBSET {"INT", "KILL"}]

Init ==
  /\ ctx = "live"
  /\ call = "wait"
  /\ pc = [s \in Stages |-> "start"]
  /\ r = [s \in Stages |-> "unset"]
  /\ saved = [s \in Stages |-> "unset"]
  /\ pending = N
  /\ gerr = 0
  /\ child = [s \in Stages |-> "none"]
  /\ status = [s \in Stages |-> "none"]
  /\ kid = [s \in Stages |-> "none"]
  /\ inCp = [s \in Stages |-> "none"]
  /\ outCp = [s \in Stages |-> "none"]
  /\ errCp = [s \in Stages |-> "none"]
  /\ ibuf = [s \in Stages |-> 0]
  /\ obuf = [s \in Stages |-> 0]
  /\ wclosed = {}
  /\ rclosed = {}
  /\ wrote = [s \in Stages |-> 0]
  /\ captured = [s \in Stages |-> 0]
  /\ watcher = [s \in Stages |-> "none"]
  /\ sent = [s \in Stages |-> {}]

-----------------------------------------------------------------------------
(* Derived conditions *)

\* gCtx.Done() is closed: the parent context ended, a stage failed, or g.Wait returned.
GroupCtxDone == ctx = "done" \/ gerr # 0 \/ call # "wait"

\* A grandchild holds the stage's ends of the OS pipes.
KidHolds(s) == kid[s] \in {"holding", "escaped"}

\* Some process does.
Open(s) == child[s] = "alive" \/ KidHolds(s)

\* A grandchild that a signal to the group reaches.
KidInGroup(s) == kid[s] \in {"holding", "detached"}

\* Mutant: the copier of stderr is not joined.
StdioEnded(s) ==
  /\ outCp[s] \in {"done", "failed"}
  /\ inCp[s] \in {"none", "done"}

\* The copiers that cmd.Wait joins have ended.
CopiersEnded(s) ==
  /\ outCp[s] \in {"done", "failed"}
  /\ errCp[s] \in {"done", "failed"}
  /\ inCp[s] \in {"none", "done"}

\* Mutant: only an exit error counts as a failure of cmd.Wait.
IgnoresCopyErr(s) == IF status[s] # "zero" THEN "exit" ELSE "ok"

\* The error cmd.Wait returns: a bad exit first, then the first copy error.
WaitOutcome(s) ==
  CASE status[s] # "zero"                   -> "exit"
    [] "failed" \in {outCp[s], errCp[s]}    -> "copyErr"
    [] OTHER                                -> "ok"

-----------------------------------------------------------------------------
(* The stage goroutine, exec.go 231-329 *)

\* cmd.Start fails: no such program, or its context is already done.
StartFail(s) ==
  /\ pc[s] = "start"
  /\ r' = [r EXCEPT ![s] = "startErr"]
  /\ pc' = [pc EXCEPT ![s] = "closeW"]
  /\ UNCHANGED <<saved, pending, gerr, joinVars, osVars, copyVars, endVars, sigVars>>

\* cmd.Start checks the context, starts the process in a group of its own and
\* one copier per stream that is not a file.  Stage 1 reads a file or nothing.
StartOk(s) ==
  /\ pc[s] = "start"
  /\ ctx = "live"
  /\ child' = [child EXCEPT ![s] = "alive"]
  /\ outCp' = [outCp EXCEPT ![s] = "read"]
  /\ errCp' = [errCp EXCEPT ![s] = "read"]
  /\ inCp' = [inCp EXCEPT ![s] = IF s = 1 THEN "none" ELSE "read"]
  /\ pc' = [pc EXCEPT ![s] = "pgid"]
  /\ UNCHANGED <<r, saved, pending, gerr, joinVars, status, kid, ibuf, obuf, wrote, captured,
                 endVars, sigVars>>

\* Mutant: closePipe closes the writer before the wait instead of after it.
ClosesBeforeWait(s) ==
  /\ pc[s] = "pgid"
  /\ watcher' = [watcher EXCEPT ![s] = "armed"]
  /\ wclosed' = IF s < N THEN wclosed \cup {s} ELSE wclosed
  /\ pc' = [pc EXCEPT ![s] = "wait"]
  /\ UNCHANGED <<r, saved, pending, gerr, joinVars, osVars, copyVars, rclosed, sent>>

\* The process group is known: the watcher is started and the goroutine waits.
GetpgidOk(s) ==
  /\ pc[s] = "pgid"
  /\ watcher' = [watcher EXCEPT ![s] = "armed"]
  /\ pc' = [pc EXCEPT ![s] = "wait"]
  /\ UNCHANGED <<r, saved, pending, gerr, joinVars, osVars, copyVars, endVars, sent>>

\* Getpgid fails: the goroutine ends without waiting for its child.
GetpgidFail(s) ==
  /\ "pgidErr" \in OsFaults
  /\ pc[s] = "pgid"
  /\ r' = [r EXCEPT ![s] = "pgidErr"]
  /\ pc' = [pc EXCEPT ![s] = "closeW"]
  /\ UNCHANGED <<saved, pending, gerr, joinVars, osVars, copyVars, endVars, sigVars>>

\* A process (group) id of 0: returns past closePipe and updatePipelineRes.
ZeroId(s) ==
  /\ "zeroId" \in OsFaults
  /\ pc[s] = "pgid"
  /\ r' = [r EXCEPT ![s] = "zeroId"]
  /\ pc' = [pc EXCEPT ![s] = "ret"]
  /\ UNCHANGED <<saved, pending, gerr, joinVars, osVars, copyVars, endVars, sigVars>>

\* Mutant: cmd.Process.Wait in place of cmd.Wait, the copiers are not joined.
ReapOnly(s) ==
  /\ pc[s] = "wait"
  /\ child[s] = "zombie"
  /\ child' = [child EXCEPT ![s] = "reaped"]
  /\ r' = [r EXCEPT ![s] = WaitOutcome(s)]
  /\ pc' = [pc EXCEPT ![s] = "closeW"]
  /\ UNCHANGED <<saved, pending, gerr, joinVars, status, kid, copyVars, endVars, sigVars>>

\* cmd.Wait, first half: the child is reaped.
Reap(s) ==
  /\ pc[s] = "wait"
  /\ child[s] = "zombie"
  /\ child' = [child EXCEPT ![s] = "reaped"]
  /\ UNCHANGED <<goVars, joinVars, status, kid, copyVars, endVars, sigVars>>

\* cmd.Wait, second half: it returns once every copier has ended.
WaitReturn(s) ==
  /\ pc[s] = "wait"
  /\ child[s] = "reaped"
  /\ CopiersEnded(s)
  /\ r' = [r EXCEPT ![s] = WaitOutcome(s)]
  /\ pc' = [pc EXCEPT ![s] = "closeW"]
  /\ UNCHANGED <<saved, pending, gerr, joinVars, osVars, copyVars, endVars, sigVars>>

\* closePipe, first half: the last stage has no writer to close.
CloseWriter(s) ==
  /\ pc[s] = "closeW"
  /\ wclosed' = IF s < N THEN wclosed \cup {s} ELSE wclosed
  /\ pc' = [pc EXCEPT ![s] = "closeR"]
  /\ UNCHANGED <<r, saved, pending, gerr, joinVars, osVars, copyVars, rclosed, sigVars>>

\* Mutant: closePipe closes only the writer.
KeepsReader(s) ==
  /\ pc[s] = "closeR"
  /\ pc' = [pc EXCEPT ![s] = "record"]
  /\ UNCHANGED <<r, saved, pending, gerr, joinVars, osVars, copyVars, endVars, sigVars>>

\* closePipe, second half: the first stage has no reader to close.
CloseReader(s) ==
  /\ pc[s] = "closeR"
  /\ rclosed' = IF s > 1 THEN rclosed \cup {s} ELSE rclosed
  /\ pc' = [pc EXCEPT ![s] = "record"]
  /\ UNCHANGED <<r, saved, pending, gerr, joinVars, osVars, copyVars, wclosed, sigVars>>

\* Mutant: Done is called, but a failed stage's result is not stored.
RecordsOkOnly(s) ==
  /\ pc[s] = "record"
  /\ saved' = IF r[s] = "ok" THEN [saved EXCEPT ![s] = "ok"] ELSE saved
  /\ pending' = pending - 1
  /\ pc' = [pc EXCEPT ![s] = "ret"]
  /\ UNCHANGED <<r, gerr, joinVars, osVars, copyVars, endVars, sigVars>>

\* updatePipelineRes, under mu: the result is stored and stageResWg.Done called.
Record(s) ==
  /\ pc[s] = "record"
  /\ saved' = [saved EXCEPT ![s] = r[s]]
  /\ pending' = pending - 1
  /\ pc' = [pc EXCEPT ![s] = "ret"]
  /\ UNCHANGED <<r, gerr, joinVars, osVars, copyVars, endVars, sigVars>>

\* Mutant: a copy error is stored but not returned to the errgroup.
DropsCopyErr(s) ==
  /\ pc[s] = "ret"
  /\ gerr' = IF gerr = 0 /\ r[s] \notin {"ok", "copyErr"} THEN s ELSE gerr
  /\ pc' = [pc EXCEPT ![s] = "done"]
  /\ UNCHANGED <<r, saved, pending, joinVars, osVars, copyVars, endVars, sigVars>>

\* Mutant: the last error wins instead of the first.
LastErrorWins(s) ==
  /\ pc[s] = "ret"
  /\ gerr' = IF r[s] # "ok" THEN s ELSE gerr
  /\ pc' = [pc EXCEPT ![s] = "done"]
  /\ UNCHANGED <<r, saved, pending, joinVars, osVars, copyVars, endVars, sigVars>>

\* The function returns to errgroup, which keeps the first error and cancels gCtx.
Return(s) ==
  /\ pc[s] = "ret"
  /\ gerr' = IF gerr = 0 /\ r[s] # "ok" THEN s ELSE gerr
  /\ pc' = [pc EXCEPT ![s] = "done"]
  /\ UNCHANGED <<r, saved, pending, joinVars, osVars, copyVars, endVars, sigVars>>

-----------------------------------------------------------------------------
(* The caller, exec.go 332-335, and its context *)

\* g.Wait returns and cancels gCtx.
JoinGroup ==
  /\ call = "wait"
  /\ \A s \in Stages : pc[s] = "done"
  /\ call' = "collect"
  /\ UNCHANGED <<goVars, ctx, osVars, copyVars, endVars, sigVars>>

\* stageResWg.Wait returns, and execute with it.
Collect ==
  /\ call = "collect"
  /\ pending = 0
  /\ call' = "returned"
  /\ UNCHANGED <<goVars, ctx, osVars, copyVars, endVars, sigVars>>

\* The context given to execute, and to every command, ends.
Cancel ==
  /\ MayCancel
  /\ ctx = "live"
  /\ ctx' = "done"
  /\ UNCHANGED <<goVars, call, osVars, copyVars, endVars, sigVars>>

-----------------------------------------------------------------------------
(* The signal watcher, exec.go 285-304 *)

\* Mutant: the watcher is given input.ctx in place of gCtx.
FiresOnCallerCtx(s) ==
  /\ watcher[s] = "armed"
  /\ ctx = "done"
  /\ watcher' = [watcher EXCEPT ![s] = "fired"]
  /\ UNCHANGED <<goVars, joinVars, osVars, copyVars, endVars, sent>>

\* <-ctx.Done(): the two timers start.
WatcherFire(s) ==
  /\ watcher[s] = "armed"
  /\ GroupCtxDone
  /\ watcher' = [watcher EXCEPT ![s] = "fired"]
  /\ UNCHANGED <<goVars, joinVars, osVars, copyVars, endVars, sent>>

\* SIGINT to the group: each live member dies of it or ignores it.
SigInt(s) ==
  /\ watcher[s] = "fired"
  /\ "INT" \notin sent[s]
  /\ sent' = [sent EXCEPT ![s] = @ \cup {"INT"}]
  /\ \/ UNCHANGED <<child, status>>
     \/ /\ child[s] = "alive"
        /\ child' = [child EXCEPT ![s] = "zombie"]
        /\ status' = [status EXCEPT ![s] = "signaled"]
  /\ \/ UNCHANGED kid
     \/ /\ KidInGroup(s)
        /\ kid' = [kid EXCEPT ![s] = "dead"]
  /\ UNCHANGED <<goVars, joinVars, copyVars, endVars, watcher>>

\* Mutant: the id is not negated, so only the group leader gets the signal.
KillsLeaderOnly(s) ==
  /\ watcher[s] = "fired"
  /\ "KILL" \notin sent[s]
  /\ sent' = [sent EXCEPT ![s] = @ \cup {"KILL"}]
  /\ child' = [child EXCEPT ![s] = IF @ = "alive" THEN "zombie" ELSE @]
  /\ status' = [status EXCEPT ![s] = IF child[s] = "alive" THEN "signaled" ELSE @]
  /\ UNCHANGED <<goVars, joinVars, kid, copyVars, endVars, watcher>>

\* SIGKILL to the group: every live member dies.  Who left the group is not reached.
SigKill(s) ==
  /\ watcher[s] = "fired"
  /\ "KILL" \notin sent[s]
  /\ sent' = [sent EXCEPT ![s] = @ \cup {"KILL"}]
  /\ child' = [child EXCEPT ![s] = IF @ = "alive" THEN "zombie" ELSE @]
  /\ status' = [status EXCEPT ![s] = IF child[s] = "alive" THEN "signaled" ELSE @]
  /\ kid' = [kid EXCEPT ![s] = IF KidInGroup(s) THEN "dead" ELSE @]
  /\ UNCHANGED <<goVars, joinVars, copyVars, endVars, watcher>>

\* os/exec: a command built with CommandContext has its own process killed when
\* that context ends before the process is reaped.
CtxKill(s) ==
  /\ ctx = "done"
  /\ child[s] = "alive"
  /\ child' = [child EXCEPT ![s] = "zombie"]
  /\ status' = [status EXCEPT ![s] = "signaled"]
  /\ UNCHANGED <<goVars, joinVars, kid, copyVars, endVars, sigVars>>

-----------------------------------------------------------------------------
(* Processes and OS pipes *)

ChildWrite(s) ==
  /\ Open(s)
  /\ outCp[s] \in {"read", "write"}
  /\ obuf[s] < Cap
  /\ wrote[s] < MaxChunks
  /\ obuf' = [obuf EXCEPT ![s] = @ + 1]
  /\ wrote' = [wrote EXCEPT ![s] = @ + 1]
  /\ UNCHANGED <<goVars, joinVars, osVars, inCp, outCp, errCp, ibuf, captured, endVars, sigVars>>

\* A process writes to stderr, whose copier reads it.
ErrWrite(s) ==
  /\ s \in Unruly
  /\ Open(s)
  /\ errCp[s] = "read"
  /\ errCp' = [errCp EXCEPT ![s] = "write"]
  /\ UNCHANGED <<goVars, joinVars, osVars, inCp, outCp, ibuf, obuf, wrote, captured, endVars,
                 sigVars>>

ChildRead(s) ==
  /\ Open(s)
  /\ ibuf[s] > 0
  /\ ibuf' = [ibuf EXCEPT ![s] = @ - 1]
  /\ UNCHANGED <<goVars, joinVars, osVars, inCp, outCp, errCp, obuf, wrote, captured, endVars,
                 sigVars>>

\* The child ends of itself, with a code or of a signal it brought upon itself: SIGPIPE,
\* once a copier gave up and closed the read end of its stdout or stderr.
ChildExit(s) ==
  /\ child[s] = "alive"
  /\ child' = [child EXCEPT ![s] = "zombie"]
  /\ \E code \in {"zero", "nonzero"} : status' = [status EXCEPT ![s] = code]
  /\ UNCHANGED <<goVars, joinVars, kid, copyVars, endVars, sigVars>>

ChildFork(s) ==
  /\ s \in Unruly
  /\ child[s] = "alive"
  /\ kid[s] = "none"
  /\ \E k \in Kids : kid' = [kid EXCEPT ![s] = k]
  /\ UNCHANGED <<goVars, joinVars, child, status, copyVars, endVars, sigVars>>

KidExit(s) ==
  /\ KidHolds(s) \/ KidInGroup(s)
  /\ kid' = [kid EXCEPT ![s] = "dead"]
  /\ UNCHANGED <<goVars, joinVars, child, status, copyVars, endVars, sigVars>>

-----------------------------------------------------------------------------
(* os/exec copiers: io.Copy(MultiWriter(pipe writer or sink, its buffer), OS pipe) *)

\* A chunk is read from the OS pipe and offered to the first writer.
OutTake(s) ==
  /\ outCp[s] = "read"
  /\ obuf[s] > 0
  /\ obuf' = [obuf EXCEPT ![s] = @ - 1]
  /\ outCp' = [outCp EXCEPT ![s] = "write"]
  /\ UNCHANGED <<goVars, joinVars, osVars, inCp, errCp, ibuf, wrote, captured, endVars, sigVars>>

\* End of file: the pipe is empty and no process holds its write end.
OutEof(s) ==
  /\ outCp[s] = "read"
  /\ obuf[s] = 0
  /\ ~Open(s)
  /\ outCp' = [outCp EXCEPT ![s] = "done"]
  /\ UNCHANGED <<goVars, joinVars, osVars, inCp, errCp, ibuf, obuf, wrote, captured, endVars,
                 sigVars>>

\* The last stage writes to input.stdout, then to its buffer.  The write lasts until
\* somebody takes it: a reader of os.Stdout may stall.
OutSink(s) ==
  /\ s = N
  /\ outCp[s] = "write"
  /\ captured' = [captured EXCEPT ![s] = @ + 1]
  /\ outCp' = [outCp EXCEPT ![s] = "read"]
  /\ UNCHANGED <<goVars, joinVars, osVars, inCp, errCp, ibuf, obuf, wrote, endVars, sigVars>>

\* input.stdout fails (a full disk): MultiWriter stops before the buffer, the copy ends
\* and the read end of the OS pipe is closed.
OutSinkFails(s) ==
  /\ "sinkErr" \in OsFaults
  /\ s = N
  /\ outCp[s] = "write"
  /\ outCp' = [outCp EXCEPT ![s] = "failed"]
  /\ obuf' = [obuf EXCEPT ![s] = 0]
  /\ UNCHANGED <<goVars, joinVars, osVars, inCp, errCp, ibuf, wrote, captured, endVars, sigVars>>

\* Every stage writes its stderr to input.stderr, then to its buffer.
ErrSink(s) ==
  /\ errCp[s] = "write"
  /\ errCp' = [errCp EXCEPT ![s] = "read"]
  /\ UNCHANGED <<goVars, joinVars, osVars, inCp, outCp, ibuf, obuf, wrote, captured, endVars,
                 sigVars>>

\* input.stderr fails.
ErrSinkFails(s) ==
  /\ "sinkErr" \in OsFaults
  /\ errCp[s] = "write"
  /\ errCp' = [errCp EXCEPT ![s] = "failed"]
  /\ UNCHANGED <<goVars, joinVars, osVars, inCp, outCp, ibuf, obuf, wrote, captured, endVars,
                 sigVars>>

\* End of file on stderr.
ErrEof(s) ==
  /\ errCp[s] = "read"
  /\ ~Open(s)
  /\ errCp' = [errCp EXCEPT ![s] = "done"]
  /\ UNCHANGED <<goVars, joinVars, osVars, inCp, outCp, ibuf, obuf, wrote, captured, endVars,
                 sigVars>>

\* io.Pipe: a Write of stage s meets the Read of stage s + 1; then the buffer is written.
Handover(s) ==
  /\ s < N
  /\ outCp[s] = "write"
  /\ inCp[s+1] = "read"
  /\ s \notin wclosed /\ s+1 \notin rclosed
  /\ captured' = [captured EXCEPT ![s] = @ + 1]
  /\ outCp' = [outCp EXCEPT ![s] = "read"]
  /\ inCp' = [inCp EXCEPT ![s+1] = "write"]
  /\ UNCHANGED <<goVars, joinVars, osVars, errCp, ibuf, obuf, wrote, endVars, sigVars>>

\* io.ErrClosedPipe: the chunk is dropped before the buffer, the copy stops and
\* the read end of the OS pipe is closed.
OutBroken(s) ==
  /\ s < N
  /\ outCp[s] = "write"
  /\ s \in wclosed \/ s+1 \in rclosed
  /\ outCp' = [outCp EXCEPT ![s] = "failed"]
  /\ obuf' = [obuf EXCEPT ![s] = 0]
  /\ UNCHANGED <<goVars, joinVars, osVars, inCp, errCp, ibuf, wrote, captured, endVars, sigVars>>

InPut(s) ==
  /\ inCp[s] = "write"
  /\ Open(s)
  /\ ibuf[s] < Cap
  /\ ibuf' = [ibuf EXCEPT ![s] = @ + 1]
  /\ inCp' = [inCp EXCEPT ![s] = "read"]
  /\ UNCHANGED <<goVars, joinVars, osVars, outCp, errCp, obuf, wrote, captured, endVars, sigVars>>

\* EPIPE: nobody reads stdin any more.  os/exec ignores the error and ends the copy.
InEpipe(s) ==
  /\ inCp[s] = "write"
  /\ ~Open(s)
  /\ inCp' = [inCp EXCEPT ![s] = "done"]
  /\ UNCHANGED <<goVars, joinVars, osVars, outCp, errCp, ibuf, obuf, wrote, captured, endVars,
                 sigVars>>

\* End of file from the io.Pipe, or its reader was closed under the copy.
InEof(s) ==
  /\ inCp[s] = "read"
  /\ s-1 \in wclosed \/ s \in rclosed
  /\ inCp' = [inCp EXCEPT ![s] = "done"]
  /\ UNCHANGED <<goVars, joinVars, osVars, outCp, errCp, ibuf, obuf, wrote, captured, endVars,
                 sigVars>>

-----------------------------------------------------------------------------

\* The goroutine of stage s.
Executor(s) ==
  \/ StartFail(s) \/ StartOk(s) \/ GetpgidOk(s) \/ GetpgidFail(s) \/ ZeroId(s)
  \/ Reap(s) \/ WaitReturn(s) \/ CloseWriter(s) \/ CloseReader(s) \/ Record(s) \/ Return(s)

\* The goroutine that runs execute.
Caller == JoinGroup \/ Collect

\* The signal goroutines of exec.go.
Watcher(s) == WatcherFire(s) \/ SigInt(s) \/ SigKill(s)

\* The copiers of os/exec.
OutCopier(s) == OutTake(s) \/ OutEof(s) \/ Handover(s) \/ OutBroken(s)
InCopier(s)  == InPut(s) \/ InEpipe(s) \/ InEof(s)

\* The same, where they depend on whoever reads the program's output.
Sink(s) == OutSink(s) \/ OutSinkFails(s) \/ ErrSink(s) \/ ErrSinkFails(s)

\* The processes of stage s: unconstrained.
Processes(s) ==
  ChildWrite(s) \/ ErrWrite(s) \/ ChildRead(s) \/ ChildExit(s) \/ ChildFork(s) \/ KidExit(s)

\* execute has returned: the caller may never do anything else.
Terminated == call = "returned" /\ UNCHANGED vars

Next ==
  \/ \E s \in Stages :
       \/ Executor(s) \/ Watcher(s) \/ CtxKill(s)
       \/ OutCopier(s) \/ ErrEof(s) \/ InCopier(s) \/ Sink(s)
       \/ Processes(s)
  \/ Caller
  \/ Cancel
  \/ Terminated

Spec == Init /\ [][Next]_vars
=============================================================================
