------------------------------ MODULE StringSet ------------------------------
(***************************************************************************)
(* Sets of strings shared by goroutines (cage/strings/set.go): each set is *)
(* a map and a sync.RWMutex.  Diff keeps its read lock over several steps, *)
(* Equals takes three looks at two sets, and both AddSet and Equals look   *)
(* at the other set without its lock.                                      *)
(*                                                                         *)
(* A read lock that is released in the step that takes it is a guard: it   *)
(* is granted when no writer has announced itself (sync.RWMutex blocks new *)
(* readers from then on, those that already hold the lock included).       *)
(*                                                                         *)
(* Definitions whose comment starts with "Mutant" are wrong on purpose and *)
(* used by no action.                                                      *)
(***************************************************************************)
EXTENDS Integers, FiniteSets, Sequences

CONSTANTS
  Procs,     \* goroutines
  Sets,      \* the sets they share
  Strings,   \* the strings, as numbers for their order
  DiffPairs, \* pairs <<s, t>> for which s.Diff(t) is called
  Free       \* no goroutine

ASSUME StringsAssumption == Strings \subseteq Nat
ASSUME DiffPairsAssumption == DiffPairs \subseteq Sets \X Sets
ASSUME FreeAssumption == Free \notin Procs

VARIABLES
  data,    \* what a set holds
  writer,  \* the goroutine that has announced or holds the write lock of a set
  readers, \* those that hold its read lock over several steps
  pc,      \* where a goroutine stands in its call
  call,    \* the call: a method, its receiver, its other set and its strings
  rest,    \* Diff: elements not looked up yet
  acc,     \* Diff: unique; Equals: the copy of the other set
  answer,  \* what Equals answered, or its panic
  fatal,   \* the runtime stopped the program: "concurrent map iteration and map write"
  seen,    \* history: the contents the other set of a Diff had during the call
  touched  \* history: a set of an Equals was written during the call

svars == <<data, writer, readers, pc, call, rest, acc, answer, fatal, seen, touched>>

Methods == {"AddSlice", "Remove", "Clear", "AddSet", "Read", "Equals", "Diff"}
Writers == {"AddSlice", "Remove", "Clear", "AddSet"}

\* Add is an AddSlice of one; Contains, Len, Slice and Copy answer from one Read.
Calls ==
  {c \in [does : Methods, s : Sets, t : Sets, els : SUBSET Strings] :
     /\ IsFiniteSet(c.els)
     /\ c.does \notin {"AddSet", "Equals", "Diff"} => c.t = c.s
     /\ CASE c.does = "AddSlice" -> c.els # {}
          [] c.does = "Remove"   -> Cardinality(c.els) = 1
          [] OTHER               -> c.els = {}
     /\ c.does = "Diff" => <<c.s, c.t>> \in DiffPairs}

\* The types, and the exclusion the lock gives: who writes has announced itself, and
\* no reader is inside.
StringSetTypeOK ==
  /\ data \in [Sets -> SUBSET Strings]
  /\ writer \in [Sets -> Procs \cup {Free}]
  /\ readers \in [Sets -> SUBSET Procs]
  /\ pc \in [Procs -> {"idle", "start", "lock", "write", "others", "own", "lookup"}]
  /\ \A p \in Procs : pc[p] # "idle" => call[p] \in Calls
  /\ \A p \in Procs : pc[p] = "write" => writer[call[p].s] = p /\ readers[call[p].s] = {}
  /\ rest \in [Procs -> SUBSET Strings]
  /\ acc \in [Procs -> SUBSET Strings]
  /\ answer \in [Procs -> {"none", "yes", "no", "panic"}]
  /\ fatal \in BOOLEAN
  /\ seen \in [Procs -> SUBSET SUBSET Strings]
  /\ touched \in [Procs -> BOOLEAN]

Init ==
  /\ data = [s \in Sets |-> {}]
  /\ writer = [s \in Sets |-> Free]
  /\ readers = [s \in Sets |-> {}]
  /\ pc = [p \in Procs |-> "idle"]
  /\ call = [p \in Procs |-> [does |-> "none"]]
  /\ rest = [p \in Procs |-> {}]
  /\ acc = [p \in Procs |-> {}]
  /\ answer = [p \in Procs |-> "none"]
  /\ fatal = FALSE
  /\ seen = [p \in Procs |-> {}]
  /\ touched = [p \in Procs |-> FALSE]

At(p, place, does) == ~fatal /\ pc[p] = place /\ call[p].does \in does
Goes(p, place) == pc' = [pc EXCEPT ![p] = place]

\* The call of p is over and leaves nothing behind but its answer.
Returns(p, ans) ==
  /\ Goes(p, "idle")
  /\ call' = [call EXCEPT ![p] = [does |-> "none"]]
  /\ rest' = [rest EXCEPT ![p] = {}]
  /\ acc' = [acc EXCEPT ![p] = {}]
  /\ answer' = [answer EXCEPT ![p] = ans]

\* Nobody's history changes but that p's own ends.
Forget(p) ==
  /\ seen' = [seen EXCEPT ![p] = {}]
  /\ touched' = [touched EXCEPT ![p] = FALSE]

\* A goroutine calls a method.
Call(p) ==
  /\ ~fatal /\ pc[p] = "idle"
  /\ \E c \in Calls :
       /\ call' = [call EXCEPT ![p] = c]
       /\ seen' = [seen EXCEPT ![p] = IF c.does = "Diff" THEN {data[c.t]} ELSE {}]
  /\ Goes(p, "start")
  /\ answer' = [answer EXCEPT ![p] = "none"]
  /\ UNCHANGED <<data, writer, readers, rest, acc, fatal, touched>>

Unlocked(s) == writer[s] = Free

-----------------------------------------------------------------------------
(* Add, AddSlice, Remove, Clear, AddSet: one exclusive section *)

\* Mutant: RLock where Lock is meant.
SharedEnter(p) ==
  /\ At(p, "start", Writers)
  /\ Unlocked(call[p].s)
  /\ Goes(p, "write")
  /\ UNCHANGED <<data, writer, readers, call, rest, acc, answer, fatal, seen, touched>>

\* Lock, first half: new readers wait from here on.
Announce(p) ==
  /\ At(p, "start", Writers)
  /\ Unlocked(call[p].s)
  /\ writer' = [writer EXCEPT ![call[p].s] = p]
  /\ Goes(p, "lock")
  /\ UNCHANGED <<data, readers, call, rest, acc, answer, fatal, seen, touched>>

\* Lock, second half: the readers are gone.
Enter(p) ==
  /\ At(p, "lock", Writers)
  /\ readers[call[p].s] = {}
  /\ Goes(p, "write")
  /\ UNCHANGED <<data, writer, readers, call, rest, acc, answer, fatal, seen, touched>>

\* Another goroutine is inside the exclusive section of t.
BeingWritten(t, p) == \E q \in Procs \ {p} : pc[q] = "write" /\ call[q].s = t

Result(c) ==
  CASE c.does = "AddSlice" -> data[c.s] \cup c.els
    [] c.does = "Remove"   -> data[c.s] \ c.els
    [] c.does = "Clear"    -> {}
    [] c.does = "AddSet"   -> data[c.s] \cup data[c.t]

\* The map is changed and the lock released.
Write(p) ==
  /\ At(p, "write", Writers)
  /\ LET c == call[p]
     IN /\ data' = [data EXCEPT ![c.s] = Result(c)]
        /\ writer' = [writer EXCEPT ![c.s] = Free]
        /\ touched' = [q \in Procs |->
             touched[q] \/ (call[q].does = "Equals" /\ c.s \in {call[q].s, call[q].t})]
        /\ seen' = [q \in Procs |->
             seen[q] \cup (IF call[q].does = "Diff" /\ c.s = call[q].t THEN {Result(c)} ELSE {})]
  /\ Returns(p, "none")
  /\ UNCHANGED <<readers, fatal>>

\* AddSet ranges over a map that another goroutine is writing.
Race(p) ==
  /\ At(p, "write", {"AddSet"})
  /\ BeingWritten(call[p].t, p)
  /\ fatal' = TRUE
  /\ UNCHANGED <<data, writer, readers, pc, call, rest, acc, answer, seen, touched>>

-----------------------------------------------------------------------------
(* Contains, Len, Slice, Copy *)

Read(p) ==
  /\ At(p, "start", {"Read"})
  /\ Unlocked(call[p].s)
  /\ Returns(p, "none")
  /\ UNCHANGED <<data, writer, readers, fatal, seen, touched>>

-----------------------------------------------------------------------------
(* Equals *)

\* Mutant: the lengths are not compared.
AnyLength(p) ==
  /\ At(p, "start", {"Equals"})
  /\ Unlocked(call[p].s)
  /\ Goes(p, "others")
  /\ UNCHANGED <<data, writer, readers, call, rest, acc, answer, fatal, seen, touched>>

\* Mutant: the read lock of s is deferred to the end, while the slices are taken under it.
KeepsLock(p) ==
  /\ At(p, "start", {"Equals"})
  /\ Unlocked(call[p].s)
  /\ readers' = [readers EXCEPT ![call[p].s] = @ \cup {p}]
  /\ Goes(p, "others")
  /\ UNCHANGED <<data, writer, call, rest, acc, answer, fatal, seen, touched>>

\* The lengths under the lock of s only, which is then released.
CompareLengths(p) ==
  /\ At(p, "start", {"Equals"})
  /\ LET c == call[p]
     IN /\ Unlocked(c.s)
        /\ IF Cardinality(data[c.s]) # Cardinality(data[c.t])
             THEN Returns(p, "no") /\ Forget(p)
             ELSE Goes(p, "others") /\ UNCHANGED <<call, rest, acc, answer, seen, touched>>
  /\ UNCHANGED <<data, writer, readers, fatal>>

\* other.SortedSlice()
CopyOther(p) ==
  /\ At(p, "others", {"Equals"})
  /\ Unlocked(call[p].t)
  /\ acc' = [acc EXCEPT ![p] = data[call[p].t]]
  /\ Goes(p, "own")
  /\ UNCHANGED <<data, writer, readers, call, rest, answer, fatal, seen, touched>>

\* At position i stands the string that i - 1 strings of the set come before.
Rank(S, el) == Cardinality({x \in S : x < el})
Sorted(S) == [i \in 1..Cardinality(S) |-> CHOOSE el \in S : Rank(S, el) = i - 1]

\* s.SortedSlice() against the other's, position by position: an index beyond the other's
\* end panics, and what the other has beyond the end of s is not looked at.
Compared(mine, others) ==
  LET a == Sorted(mine)  b == Sorted(others)
  IN CASE \E i \in DOMAIN a \cap DOMAIN b : a[i] # b[i] -> "no"
       [] Len(a) > Len(b)                              -> "panic"
       [] OTHER                                        -> "yes"

CompareSlices(p) ==
  /\ At(p, "own", {"Equals"})
  /\ Unlocked(call[p].s)
  /\ Returns(p, Compared(data[call[p].s], acc[p]))
  /\ readers' = [readers EXCEPT ![call[p].s] = @ \ {p}] \* no lock is held: see KeepsLock
  /\ Forget(p)
  /\ UNCHANGED <<data, writer, fatal>>

-----------------------------------------------------------------------------
(* Diff *)

\* Mutant: the read lock covers only the start of the loop.
DiffUnlocked(p) ==
  /\ At(p, "start", {"Diff"})
  /\ Unlocked(call[p].s)
  /\ rest' = [rest EXCEPT ![p] = data[call[p].s]]
  /\ Goes(p, "lookup")
  /\ UNCHANGED <<data, writer, readers, call, acc, answer, fatal, seen, touched>>

\* The read lock of s, which is kept.
DiffStart(p) ==
  /\ At(p, "start", {"Diff"})
  /\ Unlocked(call[p].s)
  /\ readers' = [readers EXCEPT ![call[p].s] = @ \cup {p}]
  /\ rest' = [rest EXCEPT ![p] = data[call[p].s]]
  /\ Goes(p, "lookup")
  /\ UNCHANGED <<data, writer, call, acc, answer, fatal, seen, touched>>

\* other.Contains(el), each under the other's lock anew, in any order of the map.
Lookup(p) ==
  /\ At(p, "lookup", {"Diff"})
  /\ Unlocked(call[p].t)
  /\ \E el \in rest[p] :
       /\ rest' = [rest EXCEPT ![p] = @ \ {el}]
       /\ acc' = [acc EXCEPT ![p] = @ \cup ({el} \ data[call[p].t])]
  /\ UNCHANGED <<data, writer, readers, pc, call, answer, fatal, seen, touched>>

DiffReturn(p) ==
  /\ At(p, "lookup", {"Diff"})
  /\ rest[p] = {}
  /\ readers' = [readers EXCEPT ![call[p].s] = @ \ {p}]
  /\ Returns(p, "none")
  /\ Forget(p)
  /\ UNCHANGED <<data, writer, fatal>>

-----------------------------------------------------------------------------

Proceed(p) ==
  \/ Announce(p) \/ Enter(p) \/ Write(p) \/ Race(p)
  \/ Read(p)
  \/ CompareLengths(p) \/ CopyOther(p) \/ CompareSlices(p)
  \/ DiffStart(p) \/ Lookup(p) \/ DiffReturn(p)

Next == \E p \in Procs : Call(p) \/ Proceed(p)

Spec == Init /\ [][Next]_svars

\* Goroutines run, and a lock that becomes free again and again is granted in the end:
\* sync.RWMutex serves the readers that wait before the next writer, and its mutex hands
\* over to a writer that has waited for long.
FairSpec == Spec /\ \A p \in Procs : SF_svars(Proceed(p))
-----------------------------------------------------------------------------

\* What Diff returns is true of the receiver as it is at the return and of the other set
\* at moments of the call: an element is left out only if the other set held it at some
\* moment, and kept only if it lacked it at some moment, however both are written to.
DiffTellsTruth ==
  \A p \in Procs : pc[p] = "lookup" /\ rest[p] = {} =>
    LET own == data[call[p].s]
    IN /\ acc[p] \subseteq own
       /\ \A el \in own : \E there \in seen[p] : (el \in acc[p]) <=> (el \notin there)

\* Equals is exact, and does not run past the end of a slice, when neither set was written
\* between its three looks.  Otherwise it may answer anything, or panic.
EqualsIsExact ==
  [][\A p \in Procs : answer[p] = "none" /\ answer'[p] # "none" /\ ~touched[p] =>
       answer'[p] = IF data[call[p].s] = data[call[p].t] THEN "yes" ELSE "no"]_svars

\* set.go 115: "RUnlock this prior to SortedSlice to avoid double lock."  Every call ends,
\* with writers arriving at any moment, as long as the sets of nested calls are ordered.
CallsReturn == \A p \in Procs : pc[p] # "idle" ~> pc[p] = "idle" \/ fatal
=============================================================================
