---------------------------- MODULE ExecuteProofs ----------------------------
(***************************************************************************)
(* Proofs, for every set of commands and every length, of what the first   *)
(* pass of execute leaves behind (module PipelineWiring), that a call of   *)
(* execute is both passes (modules PipelineWiring and Pipeline), and that  *)
(* the second pass closes exactly the pipe ends the first one made.        *)
(***************************************************************************)
EXTENDS Execute, PipelineProofs

\* A command whose turn has come: it has a stdout, and a stdin that came from the caller
\* or with the command before it.
Connected(k) ==
  /\ cmds[k] \in Commands
  /\ stdin[cmds[k]] = IF k = 1 THEN CallersOwn ELSE k - 1
  /\ stdout[cmds[k]] = IF k = Len(cmds) THEN CallersOwn ELSE k

\* The pipe between position k and the next.
Piped(k) ==
  /\ cmds[k+1] \in Commands
  /\ stdin[cmds[k+1]] = k
  /\ cmds[k] \in DOMAIN writer /\ writer[cmds[k]] = k
  /\ cmds[k+1] \in DOMAIN reader /\ reader[cmds[k+1]] = k

\* What the loop has done when it comes to position n.
LoopInv ==
  /\ n <= Len(cmds) + 1
  /\ \A k \in 1..n - 1 : Connected(k) /\ (k < Len(cmds) => Piped(k))
  /\ results = {cmds[k] : k \in 1..n - 1}
  /\ IsFiniteSet(results) /\ Cardinality(results) = n - 1
  /\ DOMAIN writer = {cmds[k] : k \in {i \in 1..n - 1 : i < Len(cmds)}}
  /\ DOMAIN reader = {cmds[k+1] : k \in {i \in 1..n - 1 : i < Len(cmds)}}
  /\ outcome = "wired" => n = Len(cmds) + 1 /\ Len(cmds) > 0

WiringInv == WiringTypeOK /\ LoopInv

\* An argument list is a sequence of commands and nils in which no command is repeated.
LEMMA ListIsSequence ==
  ASSUME NEW p \in Pipelines
  PROVE  /\ Len(p) \in 0..MaxLen /\ DOMAIN p = 1..Len(p)
         /\ \A i \in 1..Len(p) : p[i] \in Commands \cup {Nil}
         /\ \A i, j \in 1..Len(p) : p[i] = p[j] /\ p[i] # Nil => i = j
<1>1. PICK len \in 0..MaxLen : p \in [1..len -> Commands \cup {Nil}]
  BY DEF Pipelines
<1>2. Len(p) = len
  BY <1>1, MaxLenAssumption
<1> QED
  BY <1>1, <1>2 DEF Pipelines

\* Before the loop.
LEMMA InitWiringInv == WiringInit => WiringInv
<1> SUFFICES ASSUME WiringInit PROVE WiringInv
  OBVIOUS
<1>1. Len(cmds) \in 0..MaxLen
  BY ListIsSequence DEF WiringInit
<1>2. WiringTypeOK
  BY MaxLenAssumption DEF WiringInit, WiringTypeOK, NoEnds, Unset
<1>3. IsFiniteSet({}) /\ Cardinality({}) = 0
  BY FS_EmptySet
<1>4. LoopInv
  BY <1>1, <1>3, MaxLenAssumption DEF WiringInit, LoopInv, NoEnds
<1> QED
  BY <1>2, <1>4 DEF WiringInv

\* A new entry of the result map: the command at n was not met before.
LEMMA ResultAdded ==
  ASSUME WiringInv, InLoop, cmds[n] # Nil, results' = results \cup {cmds[n]}, n' = n + 1,
         UNCHANGED cmds
  PROVE  /\ (results = {cmds[k] : k \in 1..n - 1})'
         /\ (IsFiniteSet(results) /\ Cardinality(results) = n - 1)'
<1>1. /\ cmds \in Pipelines /\ n \in 1..Len(cmds)
      /\ n - 1 \in Nat /\ n' - 1 = n
  BY MaxLenAssumption, ListIsSequence DEF WiringInv, WiringTypeOK, InLoop
<1>2. (1..n' - 1) = (1..n - 1) \cup {n}
  BY <1>1
<1>3. results' = {cmds[k] : k \in 1..n' - 1}
  BY <1>2 DEF WiringInv, LoopInv
<1>4. cmds[n] \notin results
  <2> SUFFICES ASSUME NEW k \in 1..n - 1, cmds[k] = cmds[n] PROVE FALSE
    BY DEF WiringInv, LoopInv
  <2>1. k \in 1..Len(cmds) /\ k # n
    BY <1>1
  <2> QED
    BY <1>1, <2>1, ListIsSequence
<1>5. IsFiniteSet(results)
  BY DEF WiringInv, LoopInv
<1>6. IsFiniteSet(results') /\ Cardinality(results') = (n - 1) + 1
  BY <1>4, <1>5, FS_AddElement DEF WiringInv, LoopInv
<1>7. n - 1 + 1 = n' - 1 /\ cmds' = cmds
  BY <1>1
<1>8. results' = {cmds'[k] : k \in 1..n' - 1}
  BY <1>3, <1>7
<1>9. IsFiniteSet(results') /\ Cardinality(results') = n' - 1
  BY <1>6, <1>7
<1> QED
  BY <1>8, <1>9

\* The step that wires a command to its successor.
LEMMA MiddleStep ==
  ASSUME WiringInv, ConnectMiddle
  PROVE  WiringInv'
<1> DEFINE c == cmds[n]
           next == cmds[n+1]
<1>1. /\ cmds \in Pipelines /\ Len(cmds) \in 0..MaxLen
      /\ n \in 1..Len(cmds) /\ n + 1 \in 1..Len(cmds)
      /\ n' = n + 1 /\ n' - 1 = n /\ (1..n' - 1) = (1..n - 1) \cup {n}
  BY MaxLenAssumption, ListIsSequence DEF WiringInv, WiringTypeOK, InLoop, ConnectMiddle
<1>2. /\ c \in Commands /\ next \in Commands /\ c # next
      /\ \A k \in 1..n - 1 : cmds[k] # c /\ cmds[k] # next
      /\ \A k \in 1..n - 1 : k + 1 < n => cmds[k+1] # c
      /\ \A k \in 1..n - 1 : cmds[k+1] # next
  BY <1>1, ListIsSequence DEF ConnectMiddle
<1>3. /\ stdin \in [Commands -> -1..MaxLen] /\ stdout \in [Commands -> -1..MaxLen]
      /\ stdin' = [OwnStdin(c) EXCEPT ![next] = n]
      /\ stdout' = [stdout EXCEPT ![c] = n]
      /\ writer' = Put(writer, c, n) /\ reader' = Put(reader, next, n)
      /\ UNCHANGED <<ctxNil, cmds, outcome>>
  BY DEF ConnectMiddle, WiringInv, WiringTypeOK, AddReader
<1>4. /\ DOMAIN writer' = DOMAIN writer \cup {c}
      /\ writer'[c] = n
      /\ \A x \in DOMAIN writer : x # c => writer'[x] = writer[x]
      /\ DOMAIN reader' = DOMAIN reader \cup {next}
      /\ reader'[next] = n
      /\ \A x \in DOMAIN reader : x # next => reader'[x] = reader[x]
  BY <1>3 DEF Put
<1>5. /\ stdin' \in [Commands -> -1..MaxLen] /\ stdin'[next] = n
      /\ \A x \in Commands : x # c /\ x # next => stdin'[x] = stdin[x]
      /\ stdin'[c] = IF n = 1 THEN CallersOwn ELSE stdin[c]
      /\ stdout' \in [Commands -> -1..MaxLen] /\ stdout'[c] = n
      /\ \A x \in Commands : x # c => stdout'[x] = stdout[x]
  <2> HIDE DEF c, next
  <2>1. n \in -1..MaxLen /\ -1 \in -1..MaxLen
    BY <1>1, MaxLenAssumption
  <2>2. /\ OwnStdin(c) \in [Commands -> -1..MaxLen]
        /\ OwnStdin(c)[c] = IF n = 1 THEN CallersOwn ELSE stdin[c]
        /\ \A x \in Commands : x # c => OwnStdin(c)[x] = stdin[x]
    BY <1>2, <1>3, <2>1 DEF OwnStdin, CallersOwn
  <2> QED
    BY <1>2, <1>3, <2>1, <2>2
<1>6. WiringTypeOK'
  <2>1. (cmds \in Pipelines /\ ctxNil \in BOOLEAN)'
    BY <1>1, <1>3 DEF WiringInv, WiringTypeOK
  <2>2. (outcome \in {"running", "wired", "ctx", "empty", "nil", "panic"})'
    BY <1>3 DEF WiringInv, WiringTypeOK
  <2>3. (n \in 1..MaxLen + 1)'
    BY <1>1, MaxLenAssumption
  <2>4. results' \subseteq Commands
    BY <1>2 DEF ConnectMiddle, WiringInv, WiringTypeOK
  <2>5. DOMAIN reader' \subseteq Commands /\ DOMAIN writer' \subseteq Commands
    BY <1>2, <1>4 DEF WiringInv, WiringTypeOK
  <2> QED
    BY <1>5, <2>1, <2>2, <2>3, <2>4, <2>5 DEF WiringTypeOK
<1>7. n # 1 => stdin[c] = n - 1
  <2> SUFFICES ASSUME n # 1 PROVE stdin[c] = n - 1
    OBVIOUS
  <2>1. n - 1 \in 1..n - 1 /\ n - 1 < Len(cmds) /\ (n - 1) + 1 = n
    BY <1>1
  <2>2. Piped(n - 1)
    BY <2>1 DEF WiringInv, LoopInv
  <2> QED
    BY <2>1, <2>2 DEF Piped
<1>8. ASSUME NEW k \in 1..n' - 1
      PROVE  Connected(k)' /\ (k < Len(cmds) => Piped(k)')
  <2>1. CASE k = n
    BY <1>1, <1>2, <1>3, <1>4, <1>5, <1>7, <2>1 DEF Connected, Piped
  <2>2. CASE k # n
    <3>1. k \in 1..n - 1 /\ Connected(k) /\ Piped(k)
      BY <1>1, <2>2 DEF WiringInv, LoopInv
    <3>2. cmds[k+1] # next /\ cmds[k] # c /\ cmds[k] # next
      BY <1>2, <3>1
    <3>3. k + 1 = n \/ cmds[k+1] # c
      BY <1>1, <1>2, <3>1
    <3>4. stdin'[cmds[k+1]] = k
      BY <1>5, <1>7, <3>1, <3>2, <3>3 DEF Piped
    <3>5. Piped(k)'
      BY <1>3, <1>4, <3>1, <3>2, <3>4 DEF Piped
    <3>6. Connected(k)'
      BY <1>3, <1>5, <3>1, <3>2 DEF Connected
    <3> QED
      BY <3>5, <3>6
  <2> QED
    BY <2>1, <2>2
<1>9. /\ DOMAIN writer' = {cmds[k] : k \in {i \in 1..n' - 1 : i < Len(cmds)}}
      /\ DOMAIN reader' = {cmds[k+1] : k \in {i \in 1..n' - 1 : i < Len(cmds)}}
  <2> DEFINE Before == {i \in 1..n - 1 : i < Len(cmds)}
  <2>1. {i \in 1..n' - 1 : i < Len(cmds)} = Before \cup {n}
    BY <1>1
  <2>2. DOMAIN writer = {cmds[k] : k \in Before} /\ DOMAIN reader = {cmds[k+1] : k \in Before}
    BY DEF WiringInv, LoopInv
  <2> HIDE DEF Before
  <2>3. {cmds[k] : k \in Before \cup {n}} = {cmds[k] : k \in Before} \cup {cmds[n]}
    OBVIOUS
  <2>4. {cmds[k+1] : k \in Before \cup {n}} = {cmds[k+1] : k \in Before} \cup {cmds[n+1]}
    OBVIOUS
  <2> QED
    BY <1>4, <2>1, <2>2, <2>3, <2>4
<1>10. (results = {cmds[k] : k \in 1..n - 1})' /\ (IsFiniteSet(results) /\ Cardinality(results) = n - 1)'
  BY ResultAdded DEF ConnectMiddle
<1>11. LoopInv'
  BY <1>1, <1>3, <1>8, <1>9, <1>10 DEF LoopInv, ConnectMiddle, InLoop
<1> QED
  BY <1>6, <1>11 DEF WiringInv

\* The step that wires the last command to the caller.
LEMMA LastStep ==
  ASSUME WiringInv, ConnectLast
  PROVE  WiringInv'
<1> DEFINE c == cmds[n]
<1>1. /\ cmds \in Pipelines /\ Len(cmds) \in 0..MaxLen /\ Len(cmds) > 0
      /\ n \in 1..Len(cmds) /\ n = Len(cmds)
      /\ n' = n + 1 /\ n' - 1 = n /\ (1..n' - 1) = (1..n - 1) \cup {n}
  BY MaxLenAssumption, ListIsSequence DEF WiringInv, WiringTypeOK, InLoop, ConnectLast
<1>2. /\ c \in Commands
      /\ \A k \in 1..n - 1 : cmds[k] # c
      /\ \A k \in 1..n - 1 : k + 1 < n => cmds[k+1] # c
  BY <1>1, ListIsSequence DEF ConnectLast
<1>3. /\ stdin \in [Commands -> -1..MaxLen] /\ stdout \in [Commands -> -1..MaxLen]
      /\ stdin' = OwnStdin(c) /\ stdout' = LastStdout(c)
      /\ UNCHANGED <<ctxNil, cmds, outcome, reader, writer>>
  BY DEF ConnectLast, WiringInv, WiringTypeOK
<1>4. /\ stdin' \in [Commands -> -1..MaxLen]
      /\ \A x \in Commands : x # c => stdin'[x] = stdin[x]
      /\ stdin'[c] = IF n = 1 THEN CallersOwn ELSE stdin[c]
      /\ stdout' \in [Commands -> -1..MaxLen] /\ stdout'[c] = CallersOwn
      /\ \A x \in Commands : x # c => stdout'[x] = stdout[x]
  <2> HIDE DEF c
  <2>1. -1 \in -1..MaxLen
    BY MaxLenAssumption
  <2> QED
    BY <1>2, <1>3, <2>1 DEF OwnStdin, LastStdout, CallersOwn
<1>5. WiringTypeOK'
  BY <1>1, <1>2, <1>3, <1>4, MaxLenAssumption DEF ConnectLast, WiringInv, WiringTypeOK
<1>6. n # 1 => stdin[c] = n - 1
  <2> SUFFICES ASSUME n # 1 PROVE stdin[c] = n - 1
    OBVIOUS
  <2>1. n - 1 \in 1..n - 1 /\ n - 1 < Len(cmds) /\ (n - 1) + 1 = n
    BY <1>1
  <2>2. Piped(n - 1)
    BY <2>1 DEF WiringInv, LoopInv
  <2> QED
    BY <2>1, <2>2 DEF Piped
<1>7. ASSUME NEW k \in 1..n' - 1
      PROVE  Connected(k)' /\ (k < Len(cmds) => Piped(k)')
  <2>1. CASE k = n
    BY <1>1, <1>2, <1>3, <1>4, <1>6, <2>1 DEF Connected
  <2>2. CASE k # n
    <3>1. k \in 1..n - 1 /\ k < Len(cmds) /\ n # 1 /\ Connected(k) /\ Piped(k)
      BY <1>1, <2>2 DEF WiringInv, LoopInv
    <3>2. cmds[k] # c /\ (k + 1 = n \/ cmds[k+1] # c)
      BY <1>1, <1>2, <3>1
    <3>3. stdin'[cmds[k+1]] = k
      BY <1>4, <1>6, <3>1, <3>2 DEF Piped
    <3>4. Piped(k)'
      BY <1>3, <3>1, <3>3 DEF Piped
    <3>5. Connected(k)'
      BY <1>3, <1>4, <3>1, <3>2 DEF Connected
    <3> QED
      BY <3>4, <3>5
  <2> QED
    BY <2>1, <2>2
<1>8. {i \in 1..n' - 1 : i < Len(cmds)} = {i \in 1..n - 1 : i < Len(cmds)}
  BY <1>1
<1>9. (results = {cmds[k] : k \in 1..n - 1})' /\ (IsFiniteSet(results) /\ Cardinality(results) = n - 1)'
  BY ResultAdded DEF ConnectLast
<1>10. LoopInv'
  BY <1>1, <1>3, <1>7, <1>8, <1>9 DEF LoopInv, WiringInv, ConnectLast, InLoop
<1> QED
  BY <1>5, <1>10 DEF WiringInv

\* A step that ends the pass changes the outcome only.
LEMMA EndStep ==
  ASSUME WiringInv, NEW how \in {"wired", "ctx", "empty", "nil", "panic"}, End(how),
         how = "wired" => n = Len(cmds) + 1 /\ Len(cmds) > 0
  PROVE  WiringInv'
<1>1. WiringTypeOK'
  BY DEF WiringInv, WiringTypeOK, End
<1>2. \A k : (Connected(k)' <=> Connected(k)) /\ (Piped(k)' <=> Piped(k))
  BY DEF End, Connected, Piped
<1>3. LoopInv'
  BY <1>2 DEF WiringInv, LoopInv, End
<1> QED
  BY <1>1, <1>3 DEF WiringInv

\* Every step of the first pass keeps what the loop has done.
LEMMA NextWiringInv == WiringInv /\ [WiringNext]_wvars => WiringInv'
<1> SUFFICES ASSUME WiringInv, [WiringNext]_wvars PROVE WiringInv'
  OBVIOUS
<1>1. CASE RejectContext
  BY <1>1, EndStep DEF RejectContext
<1>2. CASE RejectEmpty
  BY <1>2, EndStep DEF RejectEmpty
<1>3. CASE RejectNil
  BY <1>3, EndStep DEF RejectNil
<1>4. CASE PanicOnNil
  BY <1>4, EndStep DEF PanicOnNil
<1>5. CASE ConnectMiddle
  BY <1>5, MiddleStep
<1>6. CASE ConnectLast
  BY <1>6, LastStep
<1>7. CASE BeginSecondPass
  <2>1. Len(cmds) \in Nat /\ n \in Nat /\ n <= Len(cmds) + 1
    BY ListIsSequence, MaxLenAssumption DEF WiringInv, WiringTypeOK, LoopInv
  <2> QED
    BY <1>7, <2>1, EndStep DEF BeginSecondPass
<1>8. CASE UNCHANGED wvars
  <2>1. WiringTypeOK'
    BY <1>8 DEF wvars, WiringInv, WiringTypeOK
  <2>2. \A k : (Connected(k)' <=> Connected(k)) /\ (Piped(k)' <=> Piped(k))
    BY <1>8 DEF wvars, Connected, Piped
  <2>3. LoopInv'
    BY <1>8, <2>2 DEF wvars, WiringInv, LoopInv
  <2> QED
    BY <2>1, <2>3 DEF WiringInv
<1> QED
  BY <1>1, <1>2, <1>3, <1>4, <1>5, <1>6, <1>7, <1>8 DEF WiringNext, Finished

\* The invariant of the loop, for any number of commands.
THEOREM WiringInvariance == WiringSpec => []WiringInv
<1> QED
  BY InitWiringInv, NextWiringInv, PTL DEF WiringSpec

\* The invariant says of a finished loop what its readers care for.
LEMMA InvImpliesOrder == WiringInv => WiredInOrder
<1> SUFFICES ASSUME WiringInv, Wired PROVE WiredInOrder
  BY DEF WiredInOrder
<1> DEFINE len == Len(cmds)
<1>1. /\ cmds \in Pipelines /\ len \in Nat /\ len > 0 /\ n = len + 1 /\ n - 1 = len
  <2>1. cmds \in Pipelines /\ n = len + 1 /\ len > 0
    BY DEF WiringInv, WiringTypeOK, LoopInv, Wired
  <2>2. len \in Nat
    BY <2>1, ListIsSequence, MaxLenAssumption
  <2> QED
    BY <2>1, <2>2
<1>2. \A k \in 1..len : Connected(k) /\ (k < len => Piped(k))
  BY <1>1 DEF WiringInv, LoopInv
<1>3. \A i, j \in 1..len : cmds[i] = cmds[j] => i = j
  BY <1>1, <1>2, NilAssumption, ListIsSequence DEF Connected
<1>4. stdin[cmds[1]] = CallersOwn /\ stdout[cmds[len]] = CallersOwn
  <2>1. 1 \in 1..len /\ len \in 1..len
    BY <1>1
  <2>2. Connected(1) /\ Connected(len)
    BY <1>2, <2>1
  <2> QED
    BY <2>2 DEF Connected
<1>5. \A k \in 1..len - 1 :
         /\ stdout[cmds[k]] = k /\ cmds[k] \in DOMAIN writer /\ writer[cmds[k]] = k
         /\ stdin[cmds[k+1]] = k /\ cmds[k+1] \in DOMAIN reader /\ reader[cmds[k+1]] = k
  <2> SUFFICES ASSUME NEW k \in 1..len - 1
               PROVE /\ stdout[cmds[k]] = k /\ cmds[k] \in DOMAIN writer /\ writer[cmds[k]] = k
                     /\ stdin[cmds[k+1]] = k /\ cmds[k+1] \in DOMAIN reader /\ reader[cmds[k+1]] = k
    OBVIOUS
  <2>1. k \in 1..len /\ k < len /\ k # len
    <3> HIDE DEF len
    <3> QED
      BY <1>1
  <2>2. Connected(k) /\ Piped(k)
    BY <1>2, <2>1
  <2> QED
    BY <2>1, <2>2 DEF Connected, Piped
<1>6. cmds[len] \notin DOMAIN writer
  <2> SUFFICES ASSUME NEW k \in {i \in 1..n - 1 : i < len}, cmds[k] = cmds[len] PROVE FALSE
    BY DEF WiringInv, LoopInv
  <2> QED
    BY <1>1, <1>3
<1>7. cmds[1] \notin DOMAIN reader
  <2> SUFFICES ASSUME NEW k \in {i \in 1..n - 1 : i < len}, cmds[k+1] = cmds[1] PROVE FALSE
    BY DEF WiringInv, LoopInv
  <2> QED
    BY <1>1, <1>3
<1>8. Cardinality(results) = len
  BY <1>1 DEF WiringInv, LoopInv
<1> QED
  BY <1>4, <1>5, <1>6, <1>7, <1>8 DEF WiredInOrder

\* Whatever commands are passed, the first pass leaves one way through for the data, and
\* remembers each pipe end with the command that uses it.
THEOREM OrderOfWiring == WiringSpec => []WiredInOrder
<1> QED
  BY WiringInvariance, InvImpliesOrder, PTL
-----------------------------------------------------------------------------
(* Both passes *)

\* A step of execute is one of each pass or leaves that pass alone.
LEMMA PassStep ==
  ASSUME [ExecuteNext]_evars
  PROVE  /\ [WiringNext]_wvars /\ [Next]_vars
         /\ UNCHANGED vars \/ (Wired /\ cmds = Followed /\ UNCHANGED wvars)
<1>1. CASE UNCHANGED evars
  BY <1>1 DEF evars, wvars, vars, goVars, joinVars, osVars, copyVars, endVars, sigVars
<1>2. CASE ExecuteNext
  BY <1>2 DEF ExecuteNext, InSecondPass
<1> QED
  BY <1>1, <1>2

\* Every behaviour of execute is one of its first pass and one of its second, so all that
\* is proved of either pass alone holds of the whole call.
THEOREM ExecuteRunsBothPasses == ExecuteSpec => WiringSpec /\ Spec
<1>1. ExecuteInit => WiringInit /\ Init
  BY DEF ExecuteInit
<1> QED
  BY <1>1, PassStep, PTL DEF ExecuteSpec, WiringSpec, Spec

\* A goroutine past closePipe has closed the ends that its stage has.
CloseInv ==
  /\ \A s \in wclosed : s < N
  /\ \A s \in rclosed : s > 1
  /\ \A s \in Stages : r[s] # "zeroId" =>
       /\ s < N /\ pc[s] \in {"closeR", "record", "ret", "done"} => s \in wclosed
       /\ s > 1 /\ pc[s] \in {"record", "ret", "done"} => s \in rclosed

\* CloseInv is preserved.  Only zeroId comes past closePipe without closing.
LEMMA CloseStep ==
  ASSUME TypeOK, StageInv, CloseInv, [Next]_vars
  PROVE  CloseInv'
<1> USE DEF CloseInv, TypeOK
<1>1. CASE UNCHANGED <<goVars, endVars>>
  BY <1>1 DEF goVars, endVars
<1>2. ASSUME NEW s \in Stages, StartFail(s) PROVE CloseInv'
  BY <1>2 DEF StartFail, endVars
<1>3. ASSUME NEW s \in Stages, StartOk(s) PROVE CloseInv'
  BY <1>3 DEF StartOk, endVars
<1>4. ASSUME NEW s \in Stages, GetpgidOk(s) \/ GetpgidFail(s) \/ ZeroId(s) PROVE CloseInv'
  BY <1>4 DEF GetpgidOk, GetpgidFail, ZeroId, endVars
<1>5. ASSUME NEW s \in Stages, Reap(s) PROVE CloseInv'
  BY <1>5 DEF Reap, goVars, endVars
<1>6. ASSUME NEW s \in Stages, WaitReturn(s) PROVE CloseInv'
  BY <1>6 DEF WaitReturn, endVars
<1>7. ASSUME NEW s \in Stages, CloseWriter(s) PROVE CloseInv'
  BY <1>7 DEF CloseWriter
<1>8. ASSUME NEW s \in Stages, CloseReader(s) PROVE CloseInv'
  BY <1>8 DEF CloseReader
<1>9. ASSUME NEW s \in Stages, Record(s) \/ Return(s) PROVE CloseInv'
  BY <1>9 DEF Record, Return, endVars
<1> QED
  BY <1>1, <1>2, <1>3, <1>4, <1>5, <1>6, <1>7, <1>8, <1>9, GoFrame DEF Executor

\* The second pass has run only over the list it is followed for.
EntryInv == Returned => Wired /\ cmds = Followed

ExecuteInv == WiringInv /\ IInv /\ CloseInv /\ EntryInv

LEMMA InitExecuteInv == ExecuteInit => ExecuteInv
<1> SUFFICES ASSUME ExecuteInit PROVE ExecuteInv
  OBVIOUS
<1>1. WiringInv /\ IInv
  BY InitWiringInv, InitIInv DEF ExecuteInit
<1>2. CloseInv /\ EntryInv
  BY DEF ExecuteInit, Init, CloseInv, EntryInv, Returned
<1> QED
  BY <1>1, <1>2 DEF ExecuteInv

\* Each part of the invariant is kept by the pass it is about.
LEMMA NextExecuteInv == ExecuteInv /\ [ExecuteNext]_evars => ExecuteInv'
<1> SUFFICES ASSUME ExecuteInv, [ExecuteNext]_evars PROVE ExecuteInv'
  OBVIOUS
<1>1. WiringInv' /\ IInv' /\ CloseInv'
  BY PassStep, NextWiringInv, NextIInv, CloseStep DEF ExecuteInv, IInv
<1>2. EntryInv'
  <2>1. CASE UNCHANGED vars
    <3>1. Wired /\ [WiringNext]_wvars => UNCHANGED wvars
      BY DEF Wired, WiringNext, RejectContext, RejectEmpty, RejectNil, PanicOnNil, ConnectMiddle,
             ConnectLast, BeginSecondPass, Finished, InLoop
    <3>2. UNCHANGED call
      BY <2>1 DEF vars, joinVars
    <3> QED
      BY <3>1, <3>2, PassStep DEF ExecuteInv, EntryInv, Returned, Wired, wvars
  <2>2. CASE Wired /\ cmds = Followed /\ UNCHANGED wvars
    BY <2>2 DEF EntryInv, Wired, wvars
  <2> QED
    BY <2>1, <2>2, PassStep
<1> QED
  BY <1>1, <1>2 DEF ExecuteInv

\* At the return of the second pass, every stage but the last has closed its writer and
\* every stage but the first its reader.
LEMMA AllClosed ==
  ASSUME IInv, CloseInv, Returned
  PROVE  wclosed = {s \in Stages : s < N} /\ rclosed = {s \in Stages : s > 1}
<1>1. \A s \in Stages : pc[s] = "done" /\ r[s] # "zeroId"
  BY AllSaved DEF IInv, StageInv
<1>2. wclosed \subseteq Stages /\ rclosed \subseteq Stages
  BY DEF IInv, TypeOK
<1> QED
  BY <1>1, <1>2 DEF CloseInv

LEMMA InvClosesEveryEnd == ExecuteInv => EveryEndIsClosed
<1> SUFFICES ASSUME ExecuteInv, Returned
             PROVE  /\ DOMAIN writer = {cmds[s] : s \in wclosed}
                    /\ DOMAIN reader = {cmds[s] : s \in rclosed}
  BY DEF EveryEndIsClosed
<1>1. Len(cmds) = N
  BY RoomAssumption DEF ExecuteInv, EntryInv, Followed
<1>2. n = N + 1 /\ n - 1 = N
  BY <1>1, NAssumption DEF ExecuteInv, EntryInv, Wired, WiringInv, LoopInv
<1>3. wclosed = {s \in Stages : s < N} /\ rclosed = {s \in Stages : s > 1}
  BY AllClosed DEF ExecuteInv
<1>4. DOMAIN writer = {cmds[k] : k \in {i \in 1..n - 1 : i < Len(cmds)}}
  BY DEF ExecuteInv, WiringInv, LoopInv
<1>5. {i \in 1..n - 1 : i < Len(cmds)} = wclosed
  BY <1>1, <1>2, <1>3 DEF Stages
<1>6. DOMAIN reader = {cmds[k+1] : k \in wclosed}
  BY <1>5 DEF ExecuteInv, WiringInv, LoopInv
<1>7. \A k \in wclosed : k + 1 \in rclosed
  BY <1>3, NAssumption DEF Stages
<1>8. \A s \in rclosed : s - 1 \in wclosed /\ (s - 1) + 1 = s
  BY <1>3, NAssumption DEF Stages
<1>9. {cmds[k+1] : k \in wclosed} = {cmds[s] : s \in rclosed}
  BY <1>7, <1>8
<1> QED
  BY <1>4, <1>5, <1>6, <1>9

\* When execute returns, each pipe end the first pass remembered was closed by the command
\* it was remembered for, whatever failed, and nothing else was.
THEOREM EveryEndClosed == ExecuteSpec => []EveryEndIsClosed
<1> QED
  BY InitExecuteInv, NextExecuteInv, InvClosesEveryEnd, PTL DEF ExecuteSpec

\* What the passes promise alone they promise together.
THEOREM ExecuteKeepsPromises ==
  ExecuteSpec => [](WiredInOrder /\ PipeEndsClosedLate /\ FirstErrorIsOwn /\ NoEarlyEof)
<1> QED
  BY ExecuteRunsBothPasses, OrderOfWiring, EndsClosedLate, ErrorIsOwn, EofIsTrue, PTL

\* And the whole call, arguments checked and streams wired, is still the abstract join:
\* until the second pass starts, nothing has ended and nothing is returned.
THEOREM ExecuteImplementsJoin == ExecuteSpec => ImplementsJoin
<1> QED
  BY ExecuteRunsBothPasses, Implementation, PTL
=============================================================================
