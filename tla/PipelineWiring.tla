--------------------------- MODULE PipelineWiring ---------------------------
(***************************************************************************)
(* The argument checks and the first pass of CommonExecutor.execute        *)
(* (cage/os/exec/exec.go): each command's stdin and stdout are assigned,   *)
(* with one io.Pipe between a command and the next, and both ends are      *)
(* remembered so that the second pass (module Pipeline) can close them.    *)
(*                                                                         *)
(* A pipe is named by the 1-based position of the command that writes to   *)
(* it.  Stderr is always the caller's stream and is left out; the buffer   *)
(* each stdout also goes to is the command's own entry of the result map.  *)
(* The same *exec.Cmd is not passed twice: ArgToCmd and the callers make   *)
(* one per stage.  Definitions whose comment starts with "Mutant" are wrong *)
(* on purpose and used by no action.                                       *)
(***************************************************************************)
EXTENDS Integers, Sequences, FiniteSets

CONSTANTS
  Commands, \* the *exec.Cmd values a caller has at hand
  Nil,      \* a nil *exec.Cmd
  MaxLen    \* bound: length of the pipeline

ASSUME NilAssumption == Nil \notin Commands
ASSUME MaxLenAssumption == MaxLen \in Nat

VARIABLES
  ctxNil,  \* input.ctx == nil
  cmds,    \* input.cmds
  n,       \* position of the loop, 1-based
  outcome, \* "running", "wired", or how execute ended: "ctx", "empty", "nil", "panic"
  results, \* keys of output.pipelineResult.Cmd
  stdin,   \* cmd.Stdin
  stdout,  \* cmd.Stdout
  reader,  \* the pipe whose reader belongs to a command
  writer   \* the pipe whose writer belongs to a command

wvars == <<ctxNil, cmds, n, outcome, results, stdin, stdout, reader, writer>>

\* Values of stdin and stdout other than a pipe.
Unset  == 0
CallersOwn == -1

\* No key of the reader or writer map.
NoEnds == [c \in {} |-> Unset]

\* An entry of such a map, new or overwritten.
Put(ends, c, pipe) == [x \in DOMAIN ends \cup {c} |-> IF x = c THEN pipe ELSE ends[x]]

\* Every argument list: a command appears once, nil any number of times.
Pipelines ==
  {p \in UNION {[1..len -> Commands \cup {Nil}] : len \in 0..MaxLen} :
     \A i, j \in DOMAIN p : p[i] = p[j] /\ p[i] # Nil => i = j}

WiringInit ==
  /\ ctxNil \in BOOLEAN
  /\ cmds \in Pipelines
  /\ n = 1
  /\ outcome = "running"
  /\ results = {}
  /\ stdin = [c \in Commands |-> Unset]
  /\ stdout = [c \in Commands |-> Unset]
  /\ reader = NoEnds
  /\ writer = NoEnds

End(how) ==
  /\ outcome' = how
  /\ UNCHANGED <<ctxNil, cmds, n, results, stdin, stdout, reader, writer>>

\* The checks that precede the loop, in the order of the code.
RejectContext == outcome = "running" /\ ctxNil /\ End("ctx")
RejectEmpty   == outcome = "running" /\ ~ctxNil /\ Len(cmds) = 0 /\ End("empty")

\* The loop body is reached for position n.
InLoop == outcome = "running" /\ ~ctxNil /\ n <= Len(cmds)

RejectNil == InLoop /\ cmds[n] = Nil /\ End("nil")

\* A command that is not the last is piped into its successor, which is dereferenced
\* here, one iteration before it is compared with nil.
PanicOnNil ==
  /\ InLoop
  /\ cmds[n] # Nil
  /\ n < Len(cmds)
  /\ cmds[n+1] = Nil
  /\ End("panic")

\* Mutant: the caller's stdin is given to every command, over the pipe's reader.
StdinForAll(c) == [stdin EXCEPT ![c] = CallersOwn]

\* Only the first command reads the caller's stdin.
OwnStdin(c) == IF n = 1 THEN [stdin EXCEPT ![c] = CallersOwn] ELSE stdin

\* Mutant: the reader is remembered for the command that writes.
ReaderOfWriter(c, next) == Put(reader, c, n)

\* The ends to close: the writer with this command, the reader with the following one.
AddReader(c, next) == Put(reader, next, n)

LastStdout(c) == [stdout EXCEPT ![c] = CallersOwn]

ConnectMiddle ==
  /\ InLoop
  /\ cmds[n] # Nil
  /\ n < Len(cmds)
  /\ cmds[n+1] # Nil
  /\ LET c == cmds[n]  next == cmds[n+1]
     IN /\ results' = results \cup {c}
        /\ stdin' = [OwnStdin(c) EXCEPT ![next] = n]
        /\ stdout' = [stdout EXCEPT ![c] = n]
        /\ writer' = Put(writer, c, n)
        /\ reader' = AddReader(c, next)
  /\ n' = n + 1
  /\ UNCHANGED <<ctxNil, cmds, outcome>>

ConnectLast ==
  /\ InLoop
  /\ cmds[n] # Nil
  /\ n = Len(cmds)
  /\ results' = results \cup {cmds[n]}
  /\ stdin' = OwnStdin(cmds[n])
  /\ stdout' = LastStdout(cmds[n])
  /\ n' = n + 1
  /\ UNCHANGED <<ctxNil, cmds, outcome, reader, writer>>

\* The loop is over and the second pass begins.
BeginSecondPass ==
  /\ outcome = "running" /\ ~ctxNil
  /\ Len(cmds) > 0 /\ n > Len(cmds)
  /\ End("wired")

Finished == outcome # "running" /\ UNCHANGED wvars

WiringNext ==
  \/ RejectContext \/ RejectEmpty \/ RejectNil \/ PanicOnNil
  \/ ConnectMiddle \/ ConnectLast \/ BeginSecondPass
  \/ Finished

WiringSpec == WiringInit /\ [][WiringNext]_wvars
-----------------------------------------------------------------------------

WiringTypeOK ==
  /\ ctxNil \in BOOLEAN
  /\ cmds \in Pipelines
  /\ n \in 1..MaxLen + 1
  /\ outcome \in {"running", "wired", "ctx", "empty", "nil", "panic"}
  /\ results \subseteq Commands
  /\ stdin \in [Commands -> -1..MaxLen]
  /\ stdout \in [Commands -> -1..MaxLen]
  /\ DOMAIN reader \subseteq Commands
  /\ DOMAIN writer \subseteq Commands

Wired == outcome = "wired"

\* Once wired, data has exactly one way through: the caller's stdin enters the first
\* command, each stdout feeds the next stdin through a pipe of their own, and only the
\* last stdout reaches the caller.  The ends the second pass closes are remembered with the
\* command that uses them, and the result map has one entry for each command: a missing or
\* misplaced end would leave a neighbour blocked for ever.
WiredInOrder ==
  Wired =>
    /\ stdin[cmds[1]] = CallersOwn
    /\ stdout[cmds[Len(cmds)]] = CallersOwn
    /\ \A k \in 1..Len(cmds) - 1 :
         /\ stdout[cmds[k]] = k /\ cmds[k] \in DOMAIN writer /\ writer[cmds[k]] = k
         /\ stdin[cmds[k+1]] = k /\ cmds[k+1] \in DOMAIN reader /\ reader[cmds[k+1]] = k
    /\ cmds[Len(cmds)] \notin DOMAIN writer /\ cmds[1] \notin DOMAIN reader
    /\ Cardinality(results) = Len(cmds)

\* exec.go 152-153 and exec_test.go 137-141: a nil command is answered with an error.
NilIsAnError == outcome # "panic"
=============================================================================
