--------------------------------- MODULE Pty ---------------------------------
(***************************************************************************)
(* Function Pty of third_party/github.com/os/exec/pty.go: the command runs *)
(* in a pseudo-terminal while the user's own terminal is in raw mode, and  *)
(* a second goroutine hands the size of the one on to the other.           *)
(*                                                                         *)
(* External: the kernel's side of the pseudo-terminal (master, buf), the   *)
(* user's window (win, winch), the command and a process it leaves in the  *)
(* background (cmd, bg).  What the user types only passes through and is   *)
(* left out, as is the goroutine that copies it: nothing waits for it.     *)
(* Output is counted in chunks.                                            *)
(*                                                                         *)
(* Definitions whose comment starts with "Mutant" are wrong on purpose and *)
(* used by no action.                                                      *)
(***************************************************************************)
EXTENDS Naturals

CONSTANTS
  Sizes,  \* sizes of the user's window
  TtyCap, \* chunks the pseudo-terminal holds before a writer blocks
  TtyMax  \* bound: chunks the command and its background process write

ASSUME SizesAssumption == Sizes \subseteq Nat \ {0} /\ Sizes # {}
ASSUME TtyAssumption == TtyCap \in Nat \ {0} /\ TtyMax \in Nat

VARIABLES
  place,   \* where Pty stands: "gone" if its program ended under it
  mode,    \* mode of the user's terminal
  master,  \* ptmx
  cmd,     \* the command: "hungup" is alive with a SIGHUP behind it
  bg,      \* its background process
  buf,     \* chunks in the pseudo-terminal
  printed, \* chunks written to it
  shown,   \* chunks written to os.Stdout
  cut,     \* os.Stdout failed
  win,     \* size of the user's window
  got,     \* size the pseudo-terminal was given, 0 before
  winch,   \* SIGWINCH is pending for the process
  ch,      \* signals in the channel ch
  resizer, \* its goroutine
  seen     \* the size it has read

ttyVars == <<master, cmd, bg, buf, printed>>
winVars == <<win, got, winch, ch, resizer, seen>>
outVars == <<shown, cut>>
ptyVars == <<place, mode, ttyVars, outVars, winVars>>

PtyTypeOK ==
  /\ place \in {"start", "notify", "size", "raw", "copy", "restore", "close", "returned", "gone"}
  /\ mode \in {"cooked", "raw"}
  /\ master \in {"none", "open", "closed"}
  /\ cmd \in {"none", "alive", "hungup", "ended"}
  /\ bg \in {"none", "alive", "ended"}
  /\ buf \in 0..TtyCap
  /\ printed \in 0..TtyMax
  /\ shown \in 0..printed
  /\ cut \in BOOLEAN
  /\ win \in Sizes
  /\ got \in {0} \cup Sizes
  /\ winch \in BOOLEAN
  /\ ch \in 0..1
  /\ resizer \in {"none", "idle", "woken", "setting"}
  /\ seen \in {0} \cup Sizes

PtyInit ==
  /\ place = "start" /\ mode = "cooked" /\ master = "none"
  /\ cmd = "none" /\ bg = "none"
  /\ buf = 0 /\ printed = 0 /\ shown = 0 /\ cut = FALSE
  /\ win \in Sizes
  /\ got = 0 /\ winch = FALSE /\ ch = 0 /\ resizer = "none" /\ seen = 0

\* Somebody has the terminal side open.
Held == cmd \in {"alive", "hungup"} \/ bg = "alive"

-----------------------------------------------------------------------------
(* The function itself *)

\* pty.Start fails and has closed what it opened.
PtyStartFails ==
  /\ place = "start"
  /\ place' = "returned"
  /\ UNCHANGED <<mode, ttyVars, outVars, winVars>>

PtyStart ==
  /\ place = "start"
  /\ place' = "notify"
  /\ master' = "open"
  /\ cmd' = "alive"
  /\ UNCHANGED <<mode, bg, buf, printed, outVars, winVars>>

\* signal.Notify, and the goroutine is started.
Notify ==
  /\ place = "notify"
  /\ place' = "size"
  /\ resizer' = "idle"
  /\ UNCHANGED <<mode, ttyVars, outVars, win, got, winch, ch, seen>>

\* Mutant: the channel is taken for unbounded.
SendsAnyway ==
  /\ place = "size"
  /\ ch' = ch + 1
  /\ place' = "raw"
  /\ UNCHANGED <<mode, ttyVars, outVars, win, got, winch, resizer, seen>>

\* ch <- syscall.SIGWINCH, which waits while a real one is in the channel.
InitialResize ==
  /\ place = "size"
  /\ ch = 0
  /\ ch' = 1
  /\ place' = "raw"
  /\ UNCHANGED <<mode, ttyVars, outVars, win, got, winch, resizer, seen>>

\* Mutant: the master is not closed on this path.
RawFailsOpen ==
  /\ place = "raw"
  /\ place' = "returned"
  /\ UNCHANGED <<mode, ttyVars, outVars, winVars>>

\* Stdin is no terminal: the error is returned, past the deferred Close.
RawFails ==
  /\ place = "raw"
  /\ place' = "close"
  /\ UNCHANGED <<mode, ttyVars, outVars, winVars>>

MakeRaw ==
  /\ place = "raw"
  /\ mode' = "raw"
  /\ place' = "copy"
  /\ UNCHANGED <<ttyVars, outVars, winVars>>

Show ==
  /\ place = "copy"
  /\ buf > 0
  /\ buf' = buf - 1
  /\ shown' = shown + 1
  /\ UNCHANGED <<place, mode, master, cmd, bg, printed, cut, winVars>>

\* Mutant: the copy ends with the command.
CopyEndsEarly ==
  /\ place = "copy"
  /\ cmd = "ended"
  /\ place' = "restore"
  /\ UNCHANGED <<mode, ttyVars, outVars, winVars>>

\* The master reads EIO: the buffer is empty and nobody has the terminal side open.
CopyEnds ==
  /\ place = "copy"
  /\ buf = 0 /\ ~Held
  /\ place' = "restore"
  /\ UNCHANGED <<mode, ttyVars, outVars, winVars>>

\* os.Stdout fails, which ends the copy as well: the error of io.Copy is dropped.
CopyBreaks ==
  /\ place = "copy"
  /\ buf > 0
  /\ buf' = buf - 1
  /\ cut' = TRUE
  /\ place' = "restore"
  /\ UNCHANGED <<mode, master, cmd, bg, printed, shown, winVars>>

Restore ==
  /\ place = "restore"
  /\ mode' = "cooked"
  /\ place' = "close"
  /\ UNCHANGED <<ttyVars, outVars, winVars>>

\* The master is closed: the kernel sends SIGHUP to the command, which may ignore it.
HangUp ==
  /\ master' = IF master = "open" THEN "closed" ELSE master
  /\ cmd' = IF cmd = "alive" THEN "hungup" ELSE cmd
  /\ UNCHANGED <<bg, buf, printed>>

CloseMaster ==
  /\ place = "close"
  /\ HangUp
  /\ place' = "returned"
  /\ UNCHANGED <<mode, outVars, winVars>>

\* The program ends in the middle of it: the kernel closes the master.
Die ==
  /\ HangUp
  /\ place' = "gone"
  /\ UNCHANGED <<mode, outVars, winVars>>

-----------------------------------------------------------------------------
(* The size *)

\* The user drags the window.  Before Notify the signal is ignored.
DragWindow ==
  /\ \E z \in Sizes \ {win} : win' = z
  /\ winch' = (resizer # "none")
  /\ UNCHANGED <<place, mode, ttyVars, outVars, got, ch, resizer, seen>>

\* Mutant: the channel has no place, so a signal is lost while the goroutine is busy.
DeliverIfIdle ==
  /\ winch
  /\ winch' = FALSE
  /\ ch' = IF resizer = "idle" THEN 1 ELSE ch
  /\ UNCHANGED <<place, mode, ttyVars, outVars, win, got, resizer, seen>>

\* package signal: a send that does not wait, dropped when the channel is full.
Deliver ==
  /\ winch
  /\ winch' = FALSE
  /\ ch' = 1
  /\ UNCHANGED <<place, mode, ttyVars, outVars, win, got, resizer, seen>>

\* Mutant: the goroutine is started after the initial resize was sent.
WakeLate ==
  /\ resizer = "idle" /\ place # "size"
  /\ ch > 0
  /\ ch' = ch - 1
  /\ resizer' = "woken"
  /\ UNCHANGED <<place, mode, ttyVars, outVars, win, got, winch, seen>>

Wake ==
  /\ resizer = "idle"
  /\ ch > 0
  /\ ch' = ch - 1
  /\ resizer' = "woken"
  /\ UNCHANGED <<place, mode, ttyVars, outVars, win, got, winch, seen>>

\* pty.InheritSize, first half.
ReadSize ==
  /\ resizer = "woken"
  /\ resizer' = "setting"
  /\ seen' = win
  /\ UNCHANGED <<place, mode, ttyVars, outVars, win, got, winch, ch>>

\* pty.InheritSize, second half: an error on a closed master is not even printed.
SetSize ==
  /\ resizer = "setting"
  /\ got' = IF master = "open" THEN seen ELSE got
  /\ resizer' = "idle"
  /\ seen' = 0
  /\ UNCHANGED <<place, mode, ttyVars, outVars, win, winch, ch>>

-----------------------------------------------------------------------------
(* The processes on the terminal side *)

TtyWrite ==
  /\ Held /\ master = "open"
  /\ buf < TtyCap /\ printed < TtyMax
  /\ buf' = buf + 1
  /\ printed' = printed + 1
  /\ UNCHANGED <<place, mode, master, cmd, bg, outVars, winVars>>

Background ==
  /\ cmd = "alive" /\ bg = "none"
  /\ bg' = "alive"
  /\ UNCHANGED <<place, mode, master, cmd, buf, printed, outVars, winVars>>

CommandEnd ==
  /\ cmd \in {"alive", "hungup"}
  /\ cmd' = "ended"
  /\ UNCHANGED <<place, mode, master, bg, buf, printed, outVars, winVars>>

BackgroundEnd ==
  /\ bg = "alive"
  /\ bg' = "ended"
  /\ UNCHANGED <<place, mode, master, cmd, buf, printed, outVars, winVars>>

-----------------------------------------------------------------------------

PtyBody ==
  \/ PtyStartFails \/ PtyStart \/ Notify \/ InitialResize \/ RawFails \/ MakeRaw
  \/ Show \/ CopyEnds \/ CopyBreaks \/ Restore \/ CloseMaster

Resizer == Wake \/ ReadSize \/ SetSize

Terminals == DragWindow \/ TtyWrite \/ Background \/ CommandEnd \/ BackgroundEnd
-----------------------------------------------------------------------------

\* When Pty returns, however it got there, the user's terminal is as it was, the master
\* is closed, and the command has ended or was told to by a SIGHUP: a failure after
\* pty.Start leaves no command waiting for a terminal nobody reads.
NothingLeftBehind ==
  place = "returned" => mode = "cooked" /\ master # "open" /\ cmd # "alive"

\* Everything written to the pseudo-terminal was shown before Pty goes on, what a process
\* in the background printed after the command's end included, unless stdout itself failed.
AllShown == place = "restore" /\ ~cut => shown = printed /\ ~Held

\* The last size wins: however the signals coalesce, and although the size is read and
\* set in two steps, the pseudo-terminal ends up as large as a window that rests.
LastSizeWins ==
  \A z \in Sizes :
    <>[](win = z /\ place \in {"raw", "copy"}) => <>[](got = z)

\* Pty returns once nobody has the terminal side open, without waiting for a key press.
PtyReturns == cmd = "ended" /\ ~Held ~> place \in {"returned", "gone"}
=============================================================================
