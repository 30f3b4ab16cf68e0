---------------------------- MODULE ProgramProofs ----------------------------
(***************************************************************************)
(* Proofs, for every terminal and every amount of output, of what is left  *)
(* when the program ends (module Program): the invariant of the pipeline   *)
(* outlives the program's goroutines, and Pty (module Pty) keeps account   *)
(* of the terminal, of its command and of every chunk.                     *)
(***************************************************************************)
EXTENDS Program, PipelineProofs

(* The pseudo-terminal *)

\* Where Pty stands, against what it has opened and whom it has told to end.
PlaceInv ==
  /\ place = "start" => master = "none" /\ cmd = "none" /\ bg = "none"
  /\ place \in {"notify", "size", "raw", "copy", "restore", "close"} => master = "open"
  /\ place \in {"returned", "gone"} => master # "open" /\ cmd # "alive"
  /\ mode = "raw" => place \in {"copy", "restore", "gone"}

\* Every chunk printed is shown or in the pseudo-terminal, until os.Stdout fails; and the
\* copy that ended without such a failure left nothing and nobody behind.
ChunkInv ==
  /\ shown + buf <= printed
  /\ ~cut => printed = shown + buf
  /\ place = "restore" /\ ~cut => buf = 0 /\ ~Held

PtyInv == PtyTypeOK /\ PlaceInv /\ ChunkInv

LEMMA InitPtyInv == PtyInit => PtyInv
<1> SUFFICES ASSUME PtyInit PROVE PtyInv
  OBVIOUS
<1>1. PtyTypeOK
  <2>1. cut \in BOOLEAN /\ winch \in BOOLEAN
    BY DEF PtyInit
  <2>2. buf \in 0..TtyCap /\ printed \in 0..TtyMax /\ shown \in 0..printed /\ ch \in 0..1
    BY TtyAssumption DEF PtyInit
  <2> QED
    BY <2>1, <2>2 DEF PtyInit, PtyTypeOK
<1>2. PlaceInv /\ ChunkInv
  BY DEF PtyInit, PlaceInv, ChunkInv
<1> QED
  BY <1>1, <1>2 DEF PtyInv

\* What runs in the program keeps the invariant.
LEMMA PtyGoroutineStep ==
  ASSUME PtyInv, PtyGoroutine
  PROVE  PtyInv'
<1> USE SizesAssumption, TtyAssumption
    DEF PtyInv, PtyTypeOK, PlaceInv, ChunkInv, Held, ttyVars, outVars, winVars
<1>1. CASE PtyStartFails
  BY <1>1 DEF PtyStartFails
<1>2. CASE PtyStart
  BY <1>2 DEF PtyStart
<1>3. CASE Notify
  BY <1>3 DEF Notify
<1>4. CASE InitialResize
  BY <1>4 DEF InitialResize
<1>5. CASE RawFails
  BY <1>5 DEF RawFails
<1>6. CASE MakeRaw
  BY <1>6 DEF MakeRaw
<1>7. CASE Show
  BY <1>7 DEF Show
<1>8. CASE CopyEnds
  BY <1>8 DEF CopyEnds
<1>9. CASE CopyBreaks
  BY <1>9 DEF CopyBreaks
<1>10. CASE Restore
  BY <1>10 DEF Restore
<1>11. CASE CloseMaster
  BY <1>11 DEF CloseMaster, HangUp
<1>12. CASE Deliver
  <2>1. PtyTypeOK'
    <3>1. winch' \in BOOLEAN
      BY <1>12 DEF Deliver
    <3>2. ch' \in 0..1
      BY <1>12 DEF Deliver
    <3> QED
      BY <1>12, <3>1, <3>2 DEF Deliver
  <2>2. PlaceInv' /\ ChunkInv'
    BY <1>12 DEF Deliver
  <2> QED
    BY <2>1, <2>2
<1>13. CASE Wake
  BY <1>13 DEF Wake
<1>14. CASE ReadSize \/ SetSize
  BY <1>14 DEF ReadSize, SetSize
<1> QED
  BY <1>1, <1>2, <1>3, <1>4, <1>5, <1>6, <1>7, <1>8, <1>9, <1>10, <1>11, <1>12, <1>13, <1>14
  DEF PtyGoroutine, PtyBody, Resizer

\* So does what goes on at the terminals, and the end of the program under Pty.
LEMMA TerminalStep ==
  ASSUME PtyInv, Terminals \/ Die
  PROVE  PtyInv'
<1> USE SizesAssumption, TtyAssumption
    DEF PtyInv, PtyTypeOK, PlaceInv, ChunkInv, Held, ttyVars, outVars, winVars
<1>1. CASE DragWindow
  BY <1>1 DEF DragWindow
<1>2. CASE TtyWrite
  BY <1>2 DEF TtyWrite
<1>3. CASE Background
  BY <1>3 DEF Background
<1>4. CASE CommandEnd \/ BackgroundEnd
  BY <1>4 DEF CommandEnd, BackgroundEnd
<1>5. CASE Die
  BY <1>5 DEF Die, HangUp
<1> QED
  BY <1>1, <1>2, <1>3, <1>4, <1>5 DEF Terminals

LEMMA PtyFrame == PtyInv /\ UNCHANGED ptyVars => PtyInv'
  BY DEF PtyInv, PtyTypeOK, PlaceInv, ChunkInv, Held, ptyVars, ttyVars, outVars, winVars

-----------------------------------------------------------------------------
(* The pipeline, in a program that may end under it *)

\* A process that dies of writing to nobody leaves the program's last state as it was.
LEMMA OrphanStep ==
  ASSUME IInv, NEW s \in Stages, OrphanWrite(s)
  PROVE  IInv'
<1> USE DEF OrphanWrite
<1>1. UNCHANGED <<goVars, joinVars, copyVars, endVars, sigVars>>
  OBVIOUS
<1>2. /\ \A t \in Stages : child'[t] = child[t] \/ (child[t] = "alive" /\ child'[t] = "zombie")
      /\ \A t \in Stages : kid'[t] = kid[t] \/ (KidHolds(t) /\ kid'[t] = "dead")
      /\ \A t \in Stages : status'[t] = status[t] \/ status'[t] = "nonzero"
      /\ TypeOK'
  BY DEF IInv, TypeOK, KidHolds, goVars, joinVars, copyVars, endVars, sigVars
<1>3. StageInv' /\ JoinInv'
  BY <1>1 DEF IInv, StageInv, Past, JoinInv, WaitGroupExact, Returned, goVars, joinVars, endVars
<1>4. CopyInv'
  BY <1>1, <1>2 DEF IInv, CopyInv, Open, KidHolds, goVars, copyVars
<1>5. ResultInv'
  BY <1>1, <1>2 DEF IInv, ResultInv, CopiersEnded, goVars, copyVars
<1>6. SignalInv'
  BY <1>1, <1>2 DEF IInv, SignalInv, GroupCtxDone, goVars, joinVars, sigVars
<1>7. FirstErrorIsOwn'
  <2>1. gerr # 0 => gerr \in Stages
    BY NAssumption DEF IInv, TypeOK, Stages
  <2> QED
    BY <1>1, <1>2, <2>1 DEF IInv, FirstErrorIsOwn, goVars, joinVars
<1> QED
  BY <1>2, <1>3, <1>4, <1>5, <1>6, <1>7 DEF IInv

-----------------------------------------------------------------------------
(* The program *)

\* It ends of itself only after the call it made has returned.
EndInv ==
  /\ viaPty \in BOOLEAN
  /\ program \in {"running", "exited", "interrupted", "killed"}
  /\ program = "exited" => IF viaPty THEN place = "returned" ELSE Returned

ProgramInv == IInv /\ PtyInv /\ EndInv

LEMMA InitProgramInv == ProgramInit => ProgramInv
<1> SUFFICES ASSUME ProgramInit PROVE ProgramInv
  OBVIOUS
<1>1. IInv /\ PtyInv
  BY InitIInv, InitPtyInv DEF ProgramInit
<1>2. EndInv
  BY DEF ProgramInit, EndInv
<1> QED
  BY <1>1, <1>2 DEF ProgramInv

\* No step of the program, of its processes, or of what it leaves behind breaks the
\* invariant.
LEMMA NextProgramInv == ProgramInv /\ [ProgramNext]_pvars => ProgramInv'
<1> SUFFICES ASSUME ProgramInv, [ProgramNext]_pvars PROVE ProgramInv'
  OBVIOUS
<1> USE DEF ProgramInv
<1>1. CASE Running /\ ~viaPty /\ (Goroutine \/ \E s \in Stages : Processes(s))
           /\ UNCHANGED <<ptyVars, viaPty, program>>
  <2>1. Next
    BY <1>1 DEF Goroutine, Next
  <2>2. EndInv'
    BY <1>1 DEF EndInv, Running
  <2> QED
    BY <1>1, <2>1, <2>2, NextIInv, PtyFrame
<1>2. ASSUME NEW s \in Stages, Orphans(s), ~Running, ~viaPty, UNCHANGED <<ptyVars, viaPty, program>>
      PROVE  ProgramInv'
  <2>1. IInv' /\ UNCHANGED joinVars
    <3>1. CASE OrphanWrite(s)
      BY <3>1, OrphanStep DEF OrphanWrite
    <3>2. CASE ~OrphanWrite(s)
      <4>1. Next /\ UNCHANGED joinVars
        BY <1>2, <3>2 DEF Orphans, Next, Processes, ChildRead, ChildExit, ChildFork, KidExit
      <4> QED
        BY <4>1, NextIInv
    <3> QED
      BY <3>1, <3>2
  <2>2. EndInv'
    BY <1>2, <2>1 DEF EndInv, Returned, joinVars
  <2> QED
    BY <1>2, <2>1, <2>2, PtyFrame
<1>3. CASE viaPty /\ ((Running /\ PtyGoroutine) \/ Terminals) /\ UNCHANGED <<vars, viaPty, program>>
  <2>1. PtyInv'
    BY <1>3, PtyGoroutineStep, TerminalStep
  <2>2. IInv'
    BY <1>3, NextIInv
  <2>3. Terminals => UNCHANGED place
    BY DEF Terminals, DragWindow, TtyWrite, Background, CommandEnd, BackgroundEnd
  <2>4. EndInv'
    BY <1>3, <2>3 DEF EndInv, Running
  <2> QED
    BY <2>1, <2>2, <2>4
<1>4. CASE ExitProgram
  BY <1>4, NextIInv, PtyFrame DEF ExitProgram, EndInv, Returned, vars, joinVars, ptyVars
<1>5. CASE Interrupt \/ Kill
  <2>1. /\ program' \in {"interrupted", "killed"} /\ UNCHANGED <<vars, viaPty>>
        /\ Die \/ UNCHANGED ptyVars
    BY <1>5 DEF Interrupt, Kill, DieOf
  <2>2. PtyInv'
    BY <2>1, PtyFrame, TerminalStep
  <2>3. EndInv'
    BY <2>1 DEF EndInv
  <2> QED
    BY <2>1, <2>2, <2>3, NextIInv
<1>6. CASE UNCHANGED pvars
  BY <1>6, NextIInv, PtyFrame DEF pvars, EndInv, Returned, vars, joinVars, ptyVars
<1> QED
  BY <1>1, <1>2, <1>3, <1>4, <1>5, <1>6 DEF ProgramNext

\* The invariant of the pipeline and that of the pseudo-terminal hold whenever and however
\* the program ends.
THEOREM ProgramInvariance == ProgramSpec => []ProgramInv
<1> QED
  BY InitProgramInv, NextProgramInv, PTL DEF ProgramSpec

\* The variables of Pty keep their types.
THEOREM PtyTypes == ProgramSpec => []PtyTypeOK
<1>1. ProgramInv => PtyTypeOK
  BY DEF ProgramInv, PtyInv
<1> QED
  BY <1>1, ProgramInvariance, PTL

\* Every path out of Pty restores the terminal, closes the master, and leaves no command
\* that was not told to end.
THEOREM PtyLeavesNothing == ProgramSpec => []NothingLeftBehind
<1>1. ProgramInv => NothingLeftBehind
  BY DEF ProgramInv, PtyInv, PtyTypeOK, PlaceInv, NothingLeftBehind
<1> QED
  BY <1>1, ProgramInvariance, PTL

\* However much is printed, and by whom, nothing is lost between the pseudo-terminal and
\* a stdout that does not fail.
THEOREM PtyShowsAll == ProgramSpec => []AllShown
<1>1. ProgramInv => AllShown
  BY DEF ProgramInv, PtyInv, PtyTypeOK, ChunkInv, AllShown
<1> QED
  BY <1>1, ProgramInvariance, PTL

\* When Getpgid does not fail and no id is 0, the program that ends of itself ends after
\* everything that can still write to its output; who holds a pipe then, after its output
\* had failed, finds nobody at the other end.
THEOREM OutputEnds ==
  ASSUME OsFaults \subseteq {"sinkErr"}
  PROVE  ProgramSpec => []OutputEndsFirst
<1>1. ProgramInv => OutputEndsFirst
  BY QuietStage DEF ProgramInv, EndInv, OutputEndsFirst
<1> QED
  BY <1>1, ProgramInvariance, PTL

\* And no child or copier runs after execute's return, whatever ends the program then.
THEOREM QuietProgram ==
  ASSUME OsFaults \subseteq {"sinkErr"}
  PROVE  ProgramSpec => []NothingRunsAtReturn
<1>1. ProgramInv => NothingRunsAtReturn
  BY QuietStage DEF ProgramInv, NothingRunsAtReturn
<1> QED
  BY <1>1, ProgramInvariance, PTL
=============================================================================
