------------------------------- MODULE Program -------------------------------
(***************************************************************************)
(* The process that runs the command: Exec.Do of mixin/mixin.go gives one  *)
(* command to ExecAs, which hands it either to execute, with the context   *)
(* of --timeout (module Pipeline), or to Pty (module Pty).  The program    *)
(* ends as soon as that has returned, by os.Exit or by the end of main, or *)
(* at any moment by a signal: it handles none.  Its goroutines end with it,*)
(* the signal watchers and their sleeping timers included; the processes   *)
(* it started do not.                                                      *)
(***************************************************************************)
EXTENDS PipelineProperties, Pty

\* Exec.Do makes one command of its arguments.
ASSUME OneCommandAssumption == N = 1

VARIABLES
  viaPty, \* --pty
  program \* the program's process: "running", "exited", "interrupted" or "killed"

pvars == <<vars, ptyVars, viaPty, program>>

Running == program = "running"

ProgramInit ==
  /\ Init /\ PtyInit
  /\ viaPty \in BOOLEAN
  /\ program = "running"

\* Do returns or calls os.Exit: neither waits for the watchers.
ExitProgram ==
  /\ Running
  /\ IF viaPty THEN place = "returned" ELSE call = "returned"
  /\ program' = "exited"
  /\ UNCHANGED <<vars, ptyVars, viaPty>>

\* The end of a program by a signal: a pseudo-terminal is hung up, a pipeline is left to
\* itself, since its command is in a process group of its own.
DieOf(how) ==
  /\ Running
  /\ program' = how
  /\ IF viaPty THEN Die ELSE UNCHANGED ptyVars
  /\ UNCHANGED <<vars, viaPty>>

\* Ctrl-C.  A terminal in raw mode makes no signal of it.
Interrupt == mode = "cooked" /\ DieOf("interrupted")

\* Any other signal: nobody restores a terminal in raw mode.
Kill == DieOf("killed")

\* What runs in the program's process, without and with a pseudo-terminal.
Goroutine ==
  \/ \E s \in Stages :
       \/ Executor(s) \/ Watcher(s) \/ CtxKill(s)
       \/ OutCopier(s) \/ ErrEof(s) \/ InCopier(s) \/ Sink(s)
  \/ Caller
  \/ Cancel

PtyGoroutine == PtyBody \/ Deliver \/ Resizer

\* After the program's end nobody reads the pipes: whoever writes next dies of SIGPIPE.
OrphanWrite(s) ==
  /\ \/ /\ child[s] = "alive"
        /\ child' = [child EXCEPT ![s] = "zombie"]
        /\ status' = [status EXCEPT ![s] = "nonzero"]
        /\ UNCHANGED kid
     \/ /\ KidHolds(s)
        /\ kid' = [kid EXCEPT ![s] = "dead"]
        /\ UNCHANGED <<child, status>>
  /\ UNCHANGED <<goVars, joinVars, copyVars, endVars, sigVars>>

Orphans(s) == ChildRead(s) \/ ChildExit(s) \/ ChildFork(s) \/ KidExit(s) \/ OrphanWrite(s)

ProgramNext ==
  \/ /\ ~viaPty
     /\ \/ Running /\ Goroutine
        \/ \E s \in Stages : IF Running THEN Processes(s) ELSE Orphans(s)
     /\ UNCHANGED <<ptyVars, viaPty, program>>
  \/ /\ viaPty
     /\ \/ Running /\ PtyGoroutine
        \/ Terminals
     /\ UNCHANGED <<vars, viaPty, program>>
  \/ ExitProgram \/ Interrupt \/ Kill
  \/ ~Running /\ UNCHANGED pvars

ProgramSpec == ProgramInit /\ [][ProgramNext]_pvars

\* As in Pipeline: goroutines are scheduled and timers expire while there is a process;
\* a pending signal is delivered.  A sender that waits for the channel is served first when
\* a place is free (InitialResize), however many more signals arrive.
InPipeline(A) == Running /\ ~viaPty /\ A /\ UNCHANGED <<ptyVars, viaPty, program>>
InPty(A) == Running /\ viaPty /\ A /\ UNCHANGED <<vars, viaPty, program>>

ProgramFairness ==
  /\ WF_pvars(ExitProgram)
  /\ WF_pvars(InPipeline(Caller))
  /\ \A s \in Stages :
       /\ WF_pvars(InPipeline(Executor(s)))
       /\ WF_pvars(InPipeline(Watcher(s)))
       /\ WF_pvars(InPipeline(OutCopier(s)))
       /\ WF_pvars(InPipeline(ErrEof(s)))
       /\ WF_pvars(InPipeline(InCopier(s)))
  /\ WF_pvars(InPty(PtyBody)) /\ SF_pvars(InPty(InitialResize))
  /\ WF_pvars(InPty(Deliver))
  /\ WF_pvars(InPty(Resizer))

FairProgram == ProgramSpec /\ ProgramFairness
-----------------------------------------------------------------------------

\* Unless a signal ends it, the program ends after everything that can still write to its
\* output: who holds the command's pipes then holds them in vain, for the copying of both
\* had failed.
OutputEndsFirst ==
  program = "exited" /\ ~viaPty =>
    \A s \in Stages :
      /\ child[s] \in {"none", "reaped"}
      /\ KidHolds(s) => outCp[s] = "failed" /\ errCp[s] = "failed"

\* mixin.go 32: --timeout is the time "to wait for a non-[--pty] command to finish".  Once
\* it is over the program ends, whatever the processes of the command's group do, under two
\* conditions the option's text does not tell: the program's output is taken, and nobody who
\* left the group holds it open.
TimeoutEndsProgram == OutputIsTaken /\ EscapedEnd => (ctx = "done" ~> ~Running)

\* exec.go 234: "Start process in a group so the context can kill the group as a whole."
\* A command that was killed for the end of the context leaves no member of its group.
GroupDiesWithContext ==
  program = "exited" =>
    \A s \in Stages : ctx = "done" /\ status[s] = "signaled" => ~KidInGroup(s)
=============================================================================
