--------------------------- MODULE StringSetProofs ---------------------------
(***************************************************************************)
(* Proofs, for any number of goroutines, sets and strings: the write lock  *)
(* excludes whoever holds a read lock, Diff tells the truth, and Equals    *)
(* that of sets left alone (module StringSet).  It needs no order between  *)
(* nested calls: a Diff that never returns tells no lie.                   *)
(***************************************************************************)
EXTENDS StringSet, FiniteSetTheorems, TLAPS

\* Who holds what, by where a goroutine stands.
LockInv ==
  /\ DOMAIN call = Procs
  /\ \A p \in Procs :
       /\ pc[p] \in {"lock", "write"} => call[p].does \in Writers /\ writer[call[p].s] = p
       /\ pc[p] = "lookup" => call[p].does = "Diff" /\ p \in readers[call[p].s]

\* A string that Diff has dealt with is in its answer exactly if the other set lacked it
\* at some moment of the call.
DiffInv ==
  \A p \in Procs :
    /\ pc[p] \in {"idle", "start"} => acc[p] = {}
    /\ pc[p] \in {"start", "lookup"} /\ call[p].does = "Diff" => data[call[p].t] \in seen[p]
    /\ pc[p] = "lookup" =>
         LET own == data[call[p].s]
         IN /\ rest[p] \subseteq own
            /\ acc[p] \subseteq own \ rest[p]
            /\ \A el \in own \ rest[p] : \E there \in seen[p] : (el \in acc[p]) <=> (el \notin there)

SetInv == StringSetTypeOK /\ LockInv /\ DiffInv

\* A call in progress has its sets and strings.
LEMMA CallIsTyped ==
  ASSUME NEW c \in Calls
  PROVE  c.does \in Methods /\ c.s \in Sets /\ c.t \in Sets /\ c.els \subseteq Strings
  BY DEF Calls

\* The shared sets start empty, the goroutines idle.
LEMMA SetInit == Init => SetInv
  BY DEF Init, SetInv, StringSetTypeOK, LockInv, DiffInv

\* A returning goroutine is idle, and the others stay where they were.
LEMMA ReturnsOne ==
  ASSUME SetInv, NEW p \in Procs, NEW ans \in {"none", "yes", "no", "panic"}, Returns(p, ans)
  PROVE  /\ pc' \in [Procs -> {"idle", "start", "lock", "write", "others", "own", "lookup"}]
         /\ pc'[p] = "idle" /\ acc'[p] = {} /\ DOMAIN call' = Procs
         /\ \A q \in Procs \ {p} : pc'[q] = pc[q] /\ call'[q] = call[q] /\ rest'[q] = rest[q] /\ acc'[q] = acc[q]
         /\ rest' \in [Procs -> SUBSET Strings] /\ acc' \in [Procs -> SUBSET Strings]
         /\ answer' \in [Procs -> {"none", "yes", "no", "panic"}]
  BY DEF SetInv, StringSetTypeOK, LockInv, Returns, Goes

\* The types and the exclusion.
LEMMA TypeStep ==
  ASSUME SetInv, NEW p \in Procs, Call(p) \/ Proceed(p)
  PROVE  StringSetTypeOK' /\ LockInv'
<1> USE DEF StringSetTypeOK, LockInv, At, Goes, Unlocked
<1>a. StringSetTypeOK /\ LockInv
  BY DEF SetInv
<1>b. \A q \in Procs : pc[q] # "idle" =>
        call[q].does \in Methods /\ call[q].s \in Sets /\ call[q].t \in Sets /\ call[q].els \subseteq Strings
  BY <1>a, CallIsTyped
<1>1. CASE Call(p)
  <2>1. PICK c \in Calls : /\ call' = [call EXCEPT ![p] = c]
                           /\ seen' = [seen EXCEPT ![p] = IF c.does = "Diff" THEN {data[c.t]} ELSE {}]
    BY <1>1 DEF Call
  <2>2. data[c.t] \subseteq Strings
    BY <1>a, <2>1, CallIsTyped
  <2> QED
    BY <1>a, <1>1, <2>1, <2>2 DEF Call
<1>2. CASE Announce(p)
  BY <1>a, <1>b, <1>2, FreeAssumption DEF Announce
<1>3. CASE Enter(p)
  BY <1>a, <1>b, <1>3 DEF Enter
<1>4. CASE Write(p)
  <2> DEFINE c == call[p]
  <2>1. /\ c.does \in Writers /\ c.s \in Sets /\ c.t \in Sets /\ c.els \subseteq Strings
        /\ pc[p] = "write" /\ Returns(p, "none") /\ UNCHANGED <<readers, fatal>>
        /\ data' = [data EXCEPT ![c.s] = Result(c)]
        /\ writer' = [writer EXCEPT ![c.s] = Free]
    BY <1>b, <1>4 DEF Write
  <2>2. Result(c) \subseteq Strings
    BY <1>a, <2>1 DEF Result, Writers
  <2>3. data' \in [Sets -> SUBSET Strings] /\ writer' \in [Sets -> Procs \cup {Free}]
    BY <1>a, <2>1, <2>2
  <2>4. seen' \in [Procs -> SUBSET SUBSET Strings] /\ touched' \in [Procs -> BOOLEAN]
    BY <1>a, <1>4, <2>2 DEF Write
  <2>5. writer[c.s] = p /\ \A q \in Procs \ {p} : pc[q] \in {"lock", "write"} => call[q].s # c.s
    BY <1>a, <2>1
  <2>6. LockInv'
    BY <1>a, <1>b, <2>1, <2>5, ReturnsOne
  <2>7. StringSetTypeOK'
    BY <1>a, <1>b, <2>1, <2>3, <2>4, ReturnsOne
  <2> QED
    BY <2>6, <2>7
<1>5. CASE Race(p)
  BY <1>a, <1>5 DEF Race
<1>c. ASSUME NEW ans \in {"none", "yes", "no", "panic"}, Returns(p, ans),
             UNCHANGED <<data, writer, fatal>>,
             pc[p] \in {"start", "own", "lookup"},
             readers' \in [Sets -> SUBSET Procs],
             \A q \in Procs \ {p} : \A s \in Sets : q \in readers'[s] <=> q \in readers[s],
             \A s \in Sets : readers'[s] \subseteq readers[s],
             UNCHANGED <<seen, touched>> \/ Forget(p)
      PROVE  StringSetTypeOK' /\ LockInv'
  <2>1. /\ pc' \in [Procs -> {"idle", "start", "lock", "write", "others", "own", "lookup"}]
        /\ pc'[p] = "idle" /\ DOMAIN call' = Procs
        /\ \A q \in Procs \ {p} : pc'[q] = pc[q] /\ call'[q] = call[q]
        /\ rest' \in [Procs -> SUBSET Strings] /\ acc' \in [Procs -> SUBSET Strings]
        /\ answer' \in [Procs -> {"none", "yes", "no", "panic"}]
    BY <1>c, ReturnsOne
  <2>2. seen' \in [Procs -> SUBSET SUBSET Strings] /\ touched' \in [Procs -> BOOLEAN]
    <3>1. CASE UNCHANGED <<seen, touched>>
      BY <1>a, <3>1
    <3>2. CASE Forget(p)
      BY <1>a, <3>2 DEF Forget
    <3> QED
      BY <1>c, <3>1, <3>2
  <2>3. \A q \in Procs : pc'[q] # "idle" => q # p /\ pc[q] = pc'[q] /\ call'[q] = call[q]
    BY <2>1
  <2>4. LockInv'
    BY <1>a, <1>b, <1>c, <2>1, <2>3
  <2>5. \A q \in Procs : pc'[q] # "idle" => call'[q] \in Calls
    BY <1>a, <2>3
  <2>6. \A q \in Procs : pc'[q] = "write" => writer'[call'[q].s] = q /\ readers'[call'[q].s] = {}
    BY <1>a, <1>b, <1>c, <2>3
  <2>7. StringSetTypeOK'
    BY <1>a, <1>c, <2>1, <2>2, <2>5, <2>6
  <2> QED
    BY <2>4, <2>7
<1>6. CASE Read(p)
  BY <1>a, <1>c, <1>6 DEF Read
<1>7. CASE CompareLengths(p)
  <2>1. CASE Returns(p, "no") /\ Forget(p)
    BY <1>a, <1>c, <1>7, <2>1 DEF CompareLengths
  <2>2. CASE Goes(p, "others") /\ UNCHANGED <<call, rest, acc, answer, seen, touched>>
    BY <1>a, <1>7, <2>2 DEF CompareLengths
  <2> QED
    BY <1>7, <2>1, <2>2 DEF CompareLengths
<1>8. CASE CopyOther(p)
  BY <1>a, <1>b, <1>8 DEF CopyOther
<1>9. CASE CompareSlices(p)
  <2>1. Compared(data[call[p].s], acc[p]) \in {"none", "yes", "no", "panic"}
    BY DEF Compared
  <2>2. PICK ans \in {"none", "yes", "no", "panic"} : Returns(p, ans)
    BY <1>9, <2>1 DEF CompareSlices
  <2>3. /\ pc[p] = "own" /\ Forget(p) /\ UNCHANGED <<data, writer, fatal>>
        /\ readers' = [readers EXCEPT ![call[p].s] = @ \ {p}]
    BY <1>9 DEF CompareSlices
  <2>4. /\ readers' \in [Sets -> SUBSET Procs]
        /\ \A q \in Procs \ {p} : \A s \in Sets : q \in readers'[s] <=> q \in readers[s]
        /\ \A s \in Sets : readers'[s] \subseteq readers[s]
    <3>1. readers \in [Sets -> SUBSET Procs] /\ call[p].s \in Sets
      BY <1>a, <1>b, <2>3
    <3>2. \A s \in Sets : readers'[s] = IF s = call[p].s THEN readers[s] \ {p} ELSE readers[s]
      BY <2>3, <3>1
    <3>3. readers' \in [Sets -> SUBSET Procs]
      BY <2>3, <3>1
    <3> QED
      BY <3>2, <3>3
  <2> QED
    BY <1>c, <2>2, <2>3, <2>4
<1>10. CASE DiffStart(p)
  BY <1>a, <1>b, <1>10, FreeAssumption DEF DiffStart
<1>11. CASE Lookup(p)
  BY <1>a, <1>b, <1>11 DEF Lookup
<1>12. CASE DiffReturn(p)
  BY <1>a, <1>b, <1>12, ReturnsOne DEF DiffReturn, Forget
<1> QED
  BY <1>1, <1>2, <1>3, <1>4, <1>5, <1>6, <1>7, <1>8, <1>9, <1>10, <1>11, <1>12 DEF Proceed
\* While a goroutine is in Diff, nobody writes to its receiver.
LEMMA ReceiverIsQuiet ==
  ASSUME SetInv, NEW p \in Procs, pc[p] = "lookup", NEW q \in Procs, Write(q)
  PROVE  call[q].s # call[p].s
<1>1. p \in readers[call[p].s] /\ readers[call[q].s] = {}
  BY DEF SetInv, StringSetTypeOK, LockInv, Write, At
<1> QED
  BY <1>1

\* Diff keeps the truth about what it has dealt with.
LEMMA DiffStep ==
  ASSUME SetInv, NEW p \in Procs, Call(p) \/ Proceed(p)
  PROVE  DiffInv'
<1> DEFINE Due(q) == /\ pc[q] \in {"idle", "start"} => acc[q] = {}
                     /\ pc[q] \in {"start", "lookup"} /\ call[q].does = "Diff" => data[call[q].t] \in seen[q]
                     /\ pc[q] = "lookup" =>
                          /\ rest[q] \subseteq data[call[q].s]
                          /\ acc[q] \subseteq data[call[q].s] \ rest[q]
                          /\ \A el \in data[call[q].s] \ rest[q] :
                               \E there \in seen[q] : (el \in acc[q]) <=> (el \notin there)
<1> USE DEF At, Goes
<1>a. /\ StringSetTypeOK /\ LockInv /\ \A q \in Procs : Due(q)
  BY DEF SetInv, DiffInv
<1>b. \A q \in Procs : pc[q] # "idle" =>
        call[q].does \in Methods /\ call[q].s \in Sets /\ call[q].t \in Sets /\ call[q].els \subseteq Strings
  BY <1>a, CallIsTyped DEF StringSetTypeOK
<1>c. /\ pc \in [Procs -> {"idle", "start", "lock", "write", "others", "own", "lookup"}]
      /\ rest \in [Procs -> SUBSET Strings] /\ acc \in [Procs -> SUBSET Strings]
      /\ seen \in [Procs -> SUBSET SUBSET Strings] /\ DOMAIN call = Procs
      /\ data \in [Sets -> SUBSET Strings]
  BY <1>a DEF StringSetTypeOK, LockInv
<1>d. ASSUME UNCHANGED data, Due(p)',
             \A q \in Procs \ {p} : /\ pc'[q] = pc[q] /\ call'[q] = call[q] /\ rest'[q] = rest[q]
                                    /\ acc'[q] = acc[q] /\ seen'[q] = seen[q]
      PROVE  DiffInv'
  <2>1. ASSUME NEW q \in Procs PROVE Due(q)'
    <3>1. CASE q = p
      BY <1>d, <3>1
    <3>2. CASE q # p
      BY <1>a, <1>d, <3>2
    <3> QED
      BY <3>1, <3>2
  <2> QED
    BY <2>1 DEF DiffInv
<1>e. ASSUME NEW ans \in {"none", "yes", "no", "panic"}, Returns(p, ans), UNCHANGED data,
             UNCHANGED seen \/ Forget(p)
      PROVE  DiffInv'
  <2>1. pc'[p] = "idle" /\ acc'[p] = {}
    BY <1>e, ReturnsOne
  <2>2. \A q \in Procs \ {p} : seen'[q] = seen[q]
    BY <1>c, <1>e DEF Forget
  <2> QED
    BY <1>d, <1>e, <2>1, <2>2, ReturnsOne
<1>1. CASE Call(p)
  <2>1. PICK c \in Calls : /\ call' = [call EXCEPT ![p] = c]
                           /\ seen' = [seen EXCEPT ![p] = IF c.does = "Diff" THEN {data[c.t]} ELSE {}]
    BY <1>1 DEF Call
  <2>2. /\ pc[p] = "idle" /\ pc' = [pc EXCEPT ![p] = "start"] /\ UNCHANGED <<data, rest, acc>>
    BY <1>1 DEF Call
  <2>3. Due(p)'
    BY <1>a, <1>c, <2>1, <2>2
  <2> QED
    BY <1>c, <1>d, <2>1, <2>2, <2>3
<1>2. CASE Announce(p) \/ Enter(p)
  <2>1. /\ pc' = [pc EXCEPT ![p] = IF pc[p] = "start" THEN "lock" ELSE "write"]
        /\ UNCHANGED <<data, call, rest, acc, seen>>
    BY <1>2 DEF Announce, Enter
  <2> QED
    BY <1>c, <1>d, <2>1
<1>3. CASE Write(p)
  <2> DEFINE c == call[p]
  <2>1. /\ Returns(p, "none") /\ pc[p] = "write" /\ c.s \in Sets
        /\ data' = [data EXCEPT ![c.s] = Result(c)]
        /\ seen' = [q \in Procs |->
             seen[q] \cup (IF call[q].does = "Diff" /\ c.s = call[q].t THEN {Result(c)} ELSE {})]
    BY <1>3, <1>b DEF Write
  <2>2. ASSUME NEW q \in Procs \ {p} PROVE Due(q)'
    <3>1. /\ pc'[q] = pc[q] /\ call'[q] = call[q] /\ rest'[q] = rest[q] /\ acc'[q] = acc[q]
      BY <2>1, ReturnsOne
    <3>2. seen[q] \subseteq seen'[q]
      BY <2>1
    <3>3. pc[q] \in {"start", "lookup"} /\ call[q].does = "Diff" => data'[call[q].t] \in seen'[q]
      BY <1>a, <1>b, <1>c, <2>1
    <3>4. pc[q] = "lookup" => data'[call[q].s] = data[call[q].s]
      BY <1>b, <1>c, <1>3, <2>1, ReceiverIsQuiet
    <3> QED
      BY <1>a, <3>1, <3>2, <3>3, <3>4
  <2>3. Due(p)'
    BY <2>1, ReturnsOne
  <2> QED
    BY <2>2, <2>3 DEF DiffInv
<1>4. CASE Race(p)
  BY <1>a, <1>d, <1>4 DEF Race
<1>5. CASE Read(p)
  BY <1>e, <1>5 DEF Read
<1>6. CASE CompareLengths(p)
  <2>1. CASE Returns(p, "no") /\ Forget(p)
    BY <1>e, <1>6, <2>1 DEF CompareLengths
  <2>2. CASE pc' = [pc EXCEPT ![p] = "others"] /\ UNCHANGED <<call, rest, acc, answer, seen, touched>>
    BY <1>c, <1>d, <1>6, <2>2 DEF CompareLengths
  <2> QED
    BY <1>6, <2>1, <2>2 DEF CompareLengths
<1>7. CASE CopyOther(p)
  <2>1. /\ pc' = [pc EXCEPT ![p] = "own"] /\ acc' = [acc EXCEPT ![p] = data[call[p].t]]
        /\ UNCHANGED <<data, call, rest, seen>>
    BY <1>7 DEF CopyOther
  <2> QED
    BY <1>c, <1>d, <2>1
<1>8. CASE CompareSlices(p)
  <2>1. Compared(data[call[p].s], acc[p]) \in {"none", "yes", "no", "panic"}
    BY DEF Compared
  <2> QED
    BY <1>e, <1>8, <2>1 DEF CompareSlices
<1>9. CASE DiffStart(p)
  <2>1. /\ pc[p] = "start" /\ pc' = [pc EXCEPT ![p] = "lookup"]
        /\ rest' = [rest EXCEPT ![p] = data[call[p].s]]
        /\ UNCHANGED <<data, call, acc, seen>>
    BY <1>9 DEF DiffStart
  <2>2. Due(p)'
    BY <1>a, <1>c, <2>1
  <2> QED
    BY <1>c, <1>d, <2>1, <2>2
<1>10. CASE Lookup(p)
  <2>1. PICK el \in rest[p] :
          /\ rest' = [rest EXCEPT ![p] = @ \ {el}]
          /\ acc' = [acc EXCEPT ![p] = @ \cup ({el} \ data[call[p].t])]
    BY <1>10 DEF Lookup
  <2>2. pc[p] = "lookup" /\ call[p].does = "Diff" /\ UNCHANGED <<data, pc, call, seen>>
    BY <1>10 DEF Lookup
  <2>3. ASSUME NEW x \in data[call[p].s] \ rest'[p]
        PROVE  \E there \in seen[p] : (x \in acc'[p]) <=> (x \notin there)
    <3>1. CASE x = el
      <4>1. x \in acc'[p] <=> x \in acc[p] \/ x \notin data[call[p].t]
        BY <1>c, <2>1, <3>1
      <4>2. data[call[p].t] \in seen[p]
        BY <1>a, <2>2
      <4>3. x \notin acc[p]
        BY <1>a, <2>1, <2>2, <3>1
      <4> QED
        BY <4>1, <4>2, <4>3
    <3>2. CASE x # el
      <4>1. x \in data[call[p].s] \ rest[p] /\ (x \in acc'[p] <=> x \in acc[p])
        BY <1>c, <2>1, <3>2
      <4> QED
        BY <1>a, <2>2, <4>1
    <3> QED
      BY <3>1, <3>2
  <2>4. rest'[p] \subseteq data[call[p].s] /\ acc'[p] \subseteq data[call[p].s] \ rest'[p]
    BY <1>a, <1>c, <2>1, <2>2
  <2>5. Due(p)'
    BY <1>a, <2>2, <2>3, <2>4
  <2> QED
    BY <1>c, <1>d, <2>1, <2>2, <2>5
<1>11. CASE DiffReturn(p)
  BY <1>e, <1>11 DEF DiffReturn
<1> QED
  BY <1>1, <1>2, <1>3, <1>4, <1>5, <1>6, <1>7, <1>8, <1>9, <1>10, <1>11 DEF Proceed

\* Every step keeps the invariant.
LEMMA SetStep == SetInv /\ [Next]_svars => SetInv'
<1>1. ASSUME SetInv, NEW p \in Procs, Call(p) \/ Proceed(p) PROVE SetInv'
  BY <1>1, TypeStep, DiffStep DEF SetInv
<1>2. ASSUME SetInv, UNCHANGED svars PROVE SetInv'
  BY <1>2 DEF svars, SetInv, StringSetTypeOK, LockInv, DiffInv
<1> QED
  BY <1>1, <1>2 DEF Next

\* The types of a set, and the exclusion its lock gives.
THEOREM LockExcludes == Spec => []StringSetTypeOK
<1>1. SetInv => StringSetTypeOK
  BY DEF SetInv
<1> QED
  BY <1>1, SetInit, SetStep, PTL DEF Spec

\* However many goroutines write meanwhile, Diff answers what was true of the other set
\* at some moment of the call.
THEOREM DiffIsTrue == Spec => []DiffTellsTruth
<1>1. SetInv => DiffTellsTruth
  BY DEF SetInv, DiffInv, DiffTellsTruth
<1> QED
  BY <1>1, SetInit, SetStep, PTL DEF Spec

-----------------------------------------------------------------------------
(* Equals *)

\* Of two strings of a set, the smaller has the lower rank.
LEMMA RankGrows ==
  ASSUME NEW S \in SUBSET Nat, IsFiniteSet(S), NEW x \in S, NEW y \in S, x < y
  PROVE  Rank(S, x) < Rank(S, y)
<1> DEFINE X == {e \in S : e < x}
           Y == {e \in S : e < y}
<1>1. X \in SUBSET Y /\ Y \in SUBSET S /\ x \in Y /\ x \notin X
  <2>1. x \in Nat /\ y \in Nat /\ ~(x < x)
    OBVIOUS
  <2>2. ASSUME NEW e \in X PROVE e \in Y
    BY <2>1
  <2> QED
    BY <2>1, <2>2
<1>2. IsFiniteSet(Y)
  BY <1>1, FS_Subset
<1>3. IsFiniteSet(X) /\ Cardinality(X) <= Cardinality(Y) /\ Cardinality(X) # Cardinality(Y)
  BY <1>1, <1>2, FS_Subset
<1>4. Cardinality(X) \in Nat /\ Cardinality(Y) \in Nat
  BY <1>2, <1>3, FS_CardinalityType
<1> QED
  BY <1>3, <1>4 DEF Rank

\* The ranks of a set's strings are the numbers below its size, each taken once.
LEMMA RankIsBijection ==
  ASSUME NEW S \in SUBSET Nat, IsFiniteSet(S)
  PROVE  /\ Cardinality(S) \in Nat
         /\ \A el \in S : Rank(S, el) \in 0..(Cardinality(S) - 1)
         /\ \A x, y \in S : Rank(S, x) = Rank(S, y) => x = y
         /\ \A i \in 1..Cardinality(S) : \E el \in S : Rank(S, el) = i - 1
<1> DEFINE n == Cardinality(S)
           T == 0..(n - 1)
           rank == [el \in S |-> Rank(S, el)]
<1>1. n \in Nat
  BY FS_CardinalityType
<1>2. ASSUME NEW el \in S PROVE Rank(S, el) \in T
  <2> DEFINE below == {x \in S : x < el}
  <2>1. below \in SUBSET S /\ el \notin below
    <3>1. el \in Nat /\ ~(el < el)
      OBVIOUS
    <3> QED
      BY <3>1
  <2>2. IsFiniteSet(below) /\ Cardinality(below) <= n /\ Cardinality(below) # n
    BY <2>1, FS_Subset
  <2>3. Cardinality(below) \in Nat
    BY <2>2, FS_CardinalityType
  <2> QED
    BY <1>1, <2>2, <2>3 DEF Rank
<1>3. ASSUME NEW x \in S, NEW y \in S, Rank(S, x) = Rank(S, y) PROVE x = y
  <2>1. Rank(S, x) \in Nat /\ Rank(S, y) \in Nat /\ x \in Nat /\ y \in Nat
    BY <1>1, <1>2
  <2>2. ~(x < y) /\ ~(y < x)
    BY <1>3, <2>1, RankGrows
  <2> QED
    BY <2>1, <2>2
<1>4. rank \in Injection(S, T)
  <2>1. rank \in [S -> T]
    BY <1>2
  <2>2. \A x, y \in S : rank[x] = rank[y] => x = y
    BY <1>3
  <2> HIDE DEF rank, T
  <2> QED
    BY <2>1, <2>2 DEF Injection, IsInjective
<1>5. IsFiniteSet(T) /\ Cardinality(T) = n
  <2>1. n - 1 \in Int /\ n - 1 - 0 + 1 = n /\ (0 > n - 1 <=> n = 0)
    BY <1>1
  <2>2. /\ IsFiniteSet(0..(n - 1))
        /\ Cardinality(0..(n - 1)) = IF 0 > n - 1 THEN 0 ELSE n - 1 - 0 + 1
    BY <2>1, FS_Interval
  <2> QED
    BY <2>1, <2>2
<1>6. rank \in Surjection(S, T)
  BY <1>4, <1>5, FS_Injection
<1>7. ASSUME NEW i \in 1..n PROVE \E el \in S : Rank(S, el) = i - 1
  <2>1. i - 1 \in T
    BY <1>1
  <2> QED
    BY <1>6, <2>1 DEF Surjection
<1> QED
  BY <1>1, <1>2, <1>3, <1>7

\* A sorted slice holds the strings of its set: at the position of its rank, each.
LEMMA SortedHolds ==
  ASSUME NEW S \in SUBSET Nat, IsFiniteSet(S)
  PROVE  /\ DOMAIN Sorted(S) = 1..Cardinality(S) /\ Len(Sorted(S)) = Cardinality(S)
         /\ \A i \in 1..Cardinality(S) : Sorted(S)[i] \in S
         /\ \A el \in S : /\ Rank(S, el) + 1 \in 1..Cardinality(S)
                          /\ Sorted(S)[Rank(S, el) + 1] = el
<1>1. Cardinality(S) \in Nat
  BY RankIsBijection
<1>2. DOMAIN Sorted(S) = 1..Cardinality(S)
  BY DEF Sorted
<1>3. ASSUME NEW i \in 1..Cardinality(S)
      PROVE  Sorted(S)[i] \in S /\ Rank(S, Sorted(S)[i]) = i - 1
  <2>1. \E el \in S : Rank(S, el) = i - 1
    BY RankIsBijection
  <2>2. Sorted(S)[i] = CHOOSE el \in S : Rank(S, el) = i - 1
    BY DEF Sorted
  <2> QED
    BY <2>1, <2>2
<1>4. Len(Sorted(S)) = Cardinality(S)
  <2>1. Sorted(S) \in [1..Cardinality(S) -> S]
    BY <1>3 DEF Sorted
  <2> QED
    BY <1>1, <2>1
<1>5. ASSUME NEW el \in S
      PROVE  Rank(S, el) + 1 \in 1..Cardinality(S) /\ Sorted(S)[Rank(S, el) + 1] = el
  <2>1. Rank(S, el) + 1 \in 1..Cardinality(S) /\ Rank(S, el) \in Int
    <3>1. Rank(S, el) \in 0..(Cardinality(S) - 1)
      BY RankIsBijection
    <3> QED
      BY <1>1, <3>1
  <2> DEFINE i == Rank(S, el) + 1
  <2>2. PICK there \in S : there = Sorted(S)[i] /\ Rank(S, there) = i - 1
    BY <1>3, <2>1
  <2>3. Rank(S, there) = Rank(S, el)
    BY <2>1, <2>2
  <2>4. Sorted(S)[i] = el
    BY <2>2, <2>3, RankIsBijection
  <2> QED
    BY <2>1, <2>4
<1> QED
  BY <1>2, <1>3, <1>4, <1>5

\* The comparison position by position decides whether two sets of one size are equal.
LEMMA ComparedIsExact ==
  ASSUME NEW A \in SUBSET Nat, IsFiniteSet(A), NEW B \in SUBSET Nat, IsFiniteSet(B),
         Cardinality(A) = Cardinality(B)
  PROVE  Compared(A, B) = IF A = B THEN "yes" ELSE "no"
<1> DEFINE a == Sorted(A)
           b == Sorted(B)
           Differ == \E i \in DOMAIN a \cap DOMAIN b : a[i] # b[i]
<1>1. DOMAIN a = DOMAIN b /\ ~(Len(a) > Len(b))
  <2>1. Cardinality(A) \in Nat
    BY FS_CardinalityType
  <2> QED
    BY <2>1, SortedHolds
<1>2. A = B => ~Differ
  OBVIOUS
<1>3. ASSUME ~Differ PROVE A = B
  <2>1. ASSUME NEW el \in A PROVE el \in B
    <3> DEFINE i == Rank(A, el) + 1
    <3>1. i \in DOMAIN a /\ a[i] = el
      BY SortedHolds
    <3>2. i \in 1..Cardinality(B) /\ b[i] = el
      BY <1>1, <1>3, <3>1, SortedHolds
    <3> QED
      BY <3>2, SortedHolds
  <2>2. A \in SUBSET B
    BY <2>1
  <2> QED
    BY <2>2, FS_Subset
<1> QED
  BY <1>1, <1>2, <1>3 DEF Compared

\* What Equals knows between its looks, as long as nobody wrote to its sets.
EqualsInv ==
  /\ \A s \in Sets : IsFiniteSet(data[s])
  /\ \A p \in Procs : ~touched[p] =>
       /\ pc[p] \in {"others", "own"} =>
            Cardinality(data[call[p].s]) = Cardinality(data[call[p].t])
       /\ pc[p] = "own" => acc[p] = data[call[p].t]
  /\ \A p \in Procs : pc[p] \in {"others", "own"} => call[p].does = "Equals"

LEMMA EqualsInit == Init => EqualsInv
  BY FS_EmptySet DEF Init, EqualsInv

\* Every step of Equals, and of those who write to its sets, keeps what it knows.
LEMMA EqualsStep ==
  ASSUME SetInv, EqualsInv, NEW p \in Procs, Call(p) \/ Proceed(p)
  PROVE  EqualsInv'
<1> DEFINE Knows(q) == /\ ~touched[q] =>
                            /\ pc[q] \in {"others", "own"} =>
                                 Cardinality(data[call[q].s]) = Cardinality(data[call[q].t])
                            /\ pc[q] = "own" => acc[q] = data[call[q].t]
                       /\ pc[q] \in {"others", "own"} => call[q].does = "Equals"
<1> USE DEF At, Goes
<1>a. /\ pc \in [Procs -> {"idle", "start", "lock", "write", "others", "own", "lookup"}]
      /\ acc \in [Procs -> SUBSET Strings] /\ DOMAIN call = Procs
      /\ data \in [Sets -> SUBSET Strings] /\ touched \in [Procs -> BOOLEAN]
      /\ \A q \in Procs : Knows(q)
      /\ \A s \in Sets : IsFiniteSet(data[s])
  BY DEF SetInv, StringSetTypeOK, LockInv, EqualsInv
<1>b. \A q \in Procs : pc[q] # "idle" =>
        /\ call[q].does \in Methods /\ call[q].s \in Sets /\ call[q].t \in Sets
        /\ IsFiniteSet(call[q].els)
  BY DEF SetInv, StringSetTypeOK, Calls
<1>c. ASSUME UNCHANGED data, Knows(p)',
             \A q \in Procs \ {p} : /\ pc'[q] = pc[q] /\ call'[q] = call[q]
                                    /\ acc'[q] = acc[q] /\ touched'[q] = touched[q]
      PROVE  EqualsInv'
  <2>1. ASSUME NEW q \in Procs PROVE Knows(q)'
    <3>1. CASE q = p
      BY <1>c, <3>1
    <3>2. CASE q # p
      BY <1>a, <1>c, <3>2
    <3> QED
      BY <3>1, <3>2
  <2> QED
    BY <1>a, <1>c, <2>1 DEF EqualsInv
<1>d. ASSUME NEW ans \in {"none", "yes", "no", "panic"}, Returns(p, ans), UNCHANGED data,
             UNCHANGED touched \/ Forget(p)
      PROVE  EqualsInv'
  <2>1. pc'[p] = "idle"
    BY <1>d, ReturnsOne
  <2>2. \A q \in Procs \ {p} : touched'[q] = touched[q]
    BY <1>a, <1>d DEF Forget
  <2> QED
    BY <1>c, <1>d, <2>1, <2>2, ReturnsOne
<1>e. ASSUME NEW place \in {"start", "lock", "write", "lookup"}, pc' = [pc EXCEPT ![p] = place],
             UNCHANGED <<data, touched>>,
             \A q \in Procs \ {p} : call'[q] = call[q] /\ acc'[q] = acc[q]
      PROVE  EqualsInv'
  <2>1. Knows(p)'
    BY <1>a, <1>e
  <2> QED
    BY <1>a, <1>c, <1>e, <2>1
<1>1. CASE Call(p)
  <2>1. PICK c \in Calls : call' = [call EXCEPT ![p] = c]
    BY <1>1 DEF Call
  <2> QED
    BY <1>a, <1>e, <1>1, <2>1 DEF Call
<1>2. CASE Announce(p) \/ Enter(p) \/ DiffStart(p)
  <2>1. PICK place \in {"start", "lock", "write", "lookup"} : pc' = [pc EXCEPT ![p] = place]
    BY <1>2 DEF Announce, Enter, DiffStart
  <2>2. UNCHANGED <<data, touched, call, acc>>
    BY <1>2 DEF Announce, Enter, DiffStart
  <2> QED
    BY <1>e, <2>1, <2>2
<1>3. CASE Write(p)
  <2> DEFINE c == call[p]
  <2>1. /\ Returns(p, "none") /\ pc[p] = "write" /\ c.does \in Writers
        /\ data' = [data EXCEPT ![c.s] = Result(c)]
        /\ touched' = [q \in Procs |->
             touched[q] \/ (call[q].does = "Equals" /\ c.s \in {call[q].s, call[q].t})]
    BY <1>3 DEF Write
  <2>2. c.s \in Sets /\ c.t \in Sets /\ IsFiniteSet(c.els)
    BY <1>b, <2>1
  <2>3. IsFiniteSet(Result(c))
    <3>1. IsFiniteSet(data[c.s]) /\ IsFiniteSet(data[c.t])
      BY <1>a, <2>2
    <3>2. /\ IsFiniteSet(data[c.s] \cup c.els) /\ IsFiniteSet(data[c.s] \cup data[c.t])
          /\ IsFiniteSet(data[c.s] \ c.els) /\ IsFiniteSet({})
      BY <2>2, <3>1, FS_Union, FS_Difference, FS_EmptySet
    <3> QED
      BY <2>1, <3>2 DEF Result, Writers
  <2>4. \A s \in Sets : IsFiniteSet(data'[s])
    BY <1>a, <2>1, <2>2, <2>3
  <2>5. ASSUME NEW q \in Procs \ {p} PROVE Knows(q)'
    <3>1. pc'[q] = pc[q] /\ call'[q] = call[q] /\ acc'[q] = acc[q]
      BY <2>1, ReturnsOne
    <3>2. ASSUME ~touched'[q], pc[q] \in {"others", "own"}
          PROVE  /\ ~touched[q] /\ data'[call[q].s] = data[call[q].s]
                 /\ data'[call[q].t] = data[call[q].t]
      BY <1>a, <1>b, <2>1, <3>2
    <3> QED
      BY <1>a, <3>1, <3>2
  <2>6. Knows(p)'
    BY <2>1, ReturnsOne
  <2> QED
    BY <2>4, <2>5, <2>6 DEF EqualsInv
<1>4. CASE Race(p)
  BY <1>a, <1>c, <1>4 DEF Race
<1>5. CASE Read(p)
  BY <1>d, <1>5 DEF Read
<1>6. CASE CompareLengths(p)
  <2>1. CASE Cardinality(data[call[p].s]) # Cardinality(data[call[p].t])
    BY <1>d, <1>6, <2>1 DEF CompareLengths
  <2>2. CASE Cardinality(data[call[p].s]) = Cardinality(data[call[p].t])
    <3>1. /\ pc' = [pc EXCEPT ![p] = "others"] /\ call[p].does = "Equals"
          /\ UNCHANGED <<data, call, acc, touched>>
      BY <1>6, <2>2 DEF CompareLengths
    <3>2. Knows(p)'
      BY <1>a, <2>2, <3>1
    <3> QED
      BY <1>a, <1>c, <3>1, <3>2
  <2> QED
    BY <2>1, <2>2
<1>7. CASE CopyOther(p)
  <2>1. /\ pc[p] = "others" /\ pc' = [pc EXCEPT ![p] = "own"]
        /\ acc' = [acc EXCEPT ![p] = data[call[p].t]]
        /\ UNCHANGED <<data, call, touched>>
    BY <1>7 DEF CopyOther
  <2>2. Knows(p)'
    BY <1>a, <2>1
  <2> QED
    BY <1>a, <1>c, <2>1, <2>2
<1>8. CASE CompareSlices(p)
  <2>1. Compared(data[call[p].s], acc[p]) \in {"none", "yes", "no", "panic"}
    BY DEF Compared
  <2> QED
    BY <1>d, <1>8, <2>1 DEF CompareSlices
<1>9. CASE Lookup(p)
  <2>1. /\ pc[p] = "lookup" /\ UNCHANGED <<data, pc, call, touched>>
        /\ \A q \in Procs \ {p} : acc'[q] = acc[q]
    BY <1>a, <1>9 DEF Lookup
  <2>2. Knows(p)'
    BY <2>1
  <2> QED
    BY <1>c, <2>1, <2>2
<1>10. CASE DiffReturn(p)
  BY <1>d, <1>10 DEF DiffReturn
<1> QED
  BY <1>1, <1>2, <1>3, <1>4, <1>5, <1>6, <1>7, <1>8, <1>9, <1>10 DEF Proceed

\* What p answers in a step, when its sets were left alone.
Exact(p) ==
  answer[p] = "none" /\ answer'[p] # "none" /\ ~touched[p] =>
    answer'[p] = IF data[call[p].s] = data[call[p].t] THEN "yes" ELSE "no"

\* Only the two returns of Equals give an answer, and both are right.
LEMMA AnswerIsExact ==
  ASSUME SetInv, EqualsInv, NEW p \in Procs, Call(p) \/ Proceed(p), NEW q \in Procs
  PROVE  Exact(q)
<1> USE DEF At, Goes
<1>a. answer \in [Procs -> {"none", "yes", "no", "panic"}]
  BY DEF SetInv, StringSetTypeOK
<1>b. pc[p] # "idle" => call[p].s \in Sets /\ call[p].t \in Sets
  BY DEF SetInv, StringSetTypeOK, Calls
<1>1. ASSUME answer'[q] = "none" \/ answer'[q] = answer[q] PROVE Exact(q)
  BY <1>1 DEF Exact
<1>2. CASE \/ Call(p) \/ Announce(p) \/ Enter(p) \/ Write(p) \/ Race(p) \/ Read(p)
           \/ CopyOther(p) \/ DiffStart(p) \/ Lookup(p) \/ DiffReturn(p)
  <2>1. UNCHANGED answer \/ answer' = [answer EXCEPT ![p] = "none"]
    BY <1>2 DEF Call, Announce, Enter, Write, Race, Read, CopyOther, DiffStart, Lookup,
                DiffReturn, Returns
  <2> QED
    BY <1>a, <1>1, <2>1
<1>3. CASE CompareLengths(p)
  <2>1. CASE Cardinality(data[call[p].s]) # Cardinality(data[call[p].t])
    <3>1. answer' = [answer EXCEPT ![p] = "no"] /\ data[call[p].s] # data[call[p].t]
      BY <1>3, <2>1 DEF CompareLengths, Returns
    <3> QED
      BY <1>a, <3>1 DEF Exact
  <2>2. CASE Cardinality(data[call[p].s]) = Cardinality(data[call[p].t])
    BY <1>1, <1>3, <2>2 DEF CompareLengths
  <2> QED
    BY <2>1, <2>2
<1>4. CASE CompareSlices(p)
  <2>1. /\ pc[p] = "own"
        /\ answer' = [answer EXCEPT ![p] = Compared(data[call[p].s], acc[p])]
    BY <1>4 DEF CompareSlices, Returns
  <2>2. ASSUME ~touched[p]
        PROVE  Compared(data[call[p].s], acc[p]) =
                 IF data[call[p].s] = data[call[p].t] THEN "yes" ELSE "no"
    <3>1. /\ acc[p] = data[call[p].t]
          /\ Cardinality(data[call[p].s]) = Cardinality(data[call[p].t])
      BY <2>1, <2>2 DEF EqualsInv
    <3>2. ASSUME NEW s \in Sets PROVE data[s] \in SUBSET Nat /\ IsFiniteSet(data[s])
      BY StringsAssumption DEF SetInv, StringSetTypeOK, EqualsInv
    <3>3. call[p].s \in Sets /\ call[p].t \in Sets
      BY <1>b, <2>1
    <3> QED
      BY <3>1, <3>2, <3>3, ComparedIsExact
  <2>3. CASE q = p
    BY <1>a, <2>1, <2>2, <2>3 DEF Exact
  <2>4. CASE q # p
    BY <1>a, <1>1, <2>1, <2>4
  <2> QED
    BY <2>3, <2>4
<1> QED
  BY <1>2, <1>3, <1>4 DEF Proceed

\* Equals of sets that nobody writes to meanwhile is exact and never runs past the end of
\* a slice, whatever their strings and whoever works on other sets.
THEOREM EqualsExact == Spec => EqualsIsExact
<1> DEFINE Inv == SetInv /\ EqualsInv
<1>1. Init => Inv
  BY SetInit, EqualsInit
<1>2. Inv /\ [Next]_svars => Inv'
  <2>1. EqualsInv /\ UNCHANGED svars => EqualsInv'
    BY DEF svars, EqualsInv
  <2> QED
    BY <2>1, SetStep, EqualsStep DEF Next
<1>3. Inv /\ [Next]_svars => [\A p \in Procs : Exact(p)]_svars
  BY AnswerIsExact DEF Next
<1>4. [][\A p \in Procs : Exact(p)]_svars => EqualsIsExact
  BY PTL DEF Exact, EqualsIsExact
<1> QED
  BY <1>1, <1>2, <1>3, <1>4, PTL DEF Spec
=============================================================================
