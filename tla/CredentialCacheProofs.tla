----------------------- MODULE CredentialCacheProofs ------------------------
(***************************************************************************)
(* For every number of invocations, request, lifetime and latency: a cache *)
(* hit is live when no answer takes longer than cacheEarlyTtlSec, and is   *)
(* for the role asked for when it is for the MFA device asked for.         *)
(***************************************************************************)
EXTENDS CredentialCache, SequenceTheorems, TLAPS

\* What a value promises once its Expires is known: it is not usable past its session.
Sound(v) == v.for \in Sts => v.expires <= v.ends

\* A value in a file or about to be written is sound; one whose answer is on its way ends
\* a session length after its issue or later; it was issued at most MaxLatency seconds ago.
LiveInv ==
  /\ \A f \in Names : file[f].val # NoValue => Sound(file[f].val)
  /\ \A p \in Procs :
       /\ pc[p] \in {"trunc", "write"} => Sound(val[p])
       /\ pc[p] = "answer" =>
            /\ now - issued[p] \in 0..MaxLatency
            /\ val[p].for \in Sts => val[p].ends >= issued[p] + val[p].expires

\* A value stays with the request it was issued for: in the hands of its invocation, and
\* in the file of that name.
OwnInv ==
  /\ \A f \in Names : file[f].val # NoValue => FileName(file[f].val.for) = f
  /\ \A p \in Procs :
       /\ pc[p] \in {"answer", "trunc", "write"} => val[p] \in Values /\ val[p].for = req[p]
       /\ pc[p] = "hit" => val[p] \in Values /\ FileName(val[p].for) = FileName(req[p])

BaseInv  == TypeOK /\ OwnInv
CacheInv == BaseInv /\ LiveInv

\* NoValue is no cache.Value: it has a single field.
LEMMA NoValueIsNone == NoValue \notin Values
  BY DEF NoValue, Values

\* The cache directory and the invocations start empty.
LEMMA CacheInit == Init => CacheInv
<1> SUFFICES ASSUME Init PROVE CacheInv
  OBVIOUS
<1>1. TypeOK
  BY TimesAssumption DEF Init, TypeOK, Files, Absent, Active, Ended
<1>2. LiveInv /\ OwnInv
  BY DEF Init, LiveInv, OwnInv, Absent
<1> QED
  BY <1>1, <1>2 DEF CacheInv, BaseInv

\* Every step keeps the types.
LEMMA CacheType ==
  ASSUME BaseInv, [Next]_cvars
  PROVE  TypeOK'
<1> USE DEF TypeOK, Active, Ended
<1>a. TypeOK
  BY DEF BaseInv
<1>1. ASSUME NEW p \in Procs, Begin(p) PROVE TypeOK'
  BY <1>a, <1>1, TimesAssumption DEF Begin
<1>2. ASSUME NEW p \in Procs, ReadFail(p) \/ ReadMiss(p) \/ ReadBroken(p) PROVE TypeOK'
  BY <1>a, <1>2 DEF ReadFail, ReadMiss, ReadBroken
<1>3. ASSUME NEW p \in Procs, ReadHit(p) PROVE TypeOK'
  <2>1. MyFile(p).val \in Values
    BY <1>a, <1>3 DEF ReadHit, MyFile, Names, Files
  <2> QED
    BY <1>a, <1>3, <2>1 DEF ReadHit
<1>4. ASSUME NEW p \in Procs, Issue(p) PROVE TypeOK'
  <2>1. PICK ttl \in Ttls, z \in Sizes : \E life \in IF req[p] \in Sts THEN {StsLife(ttl)} ELSE Lives :
          val' = [val EXCEPT ![p] =
                   [for |-> req[p], ends |-> now + life, expires |-> ttl, size |-> z]]
    BY <1>4 DEF Issue
  <2>2. PICK life \in IF req[p] \in Sts THEN {StsLife(ttl)} ELSE Lives :
          val' = [val EXCEPT ![p] =
                   [for |-> req[p], ends |-> now + life, expires |-> ttl, size |-> z]]
    BY <2>1
  <2>3. ttl \in Int /\ now + life \in Nat
    BY <1>a, TimesAssumption DEF StsLife
  <2>4. [for |-> req[p], ends |-> now + life, expires |-> ttl, size |-> z] \in Values
    BY <1>a, <2>3 DEF Values
  <2> QED
    BY <1>a, <1>4, <2>2, <2>4 DEF Issue
<1>5. ASSUME NEW p \in Procs, FetchFail(p) \/ WriteFail(p) \/ Crash(p) PROVE TypeOK'
  BY <1>a, <1>5 DEF FetchFail, WriteFail, Crash
<1>6. ASSUME NEW p \in Procs, Answer(p) PROVE TypeOK'
  <2>1. val[p] \in Values
    BY <1>6 DEF BaseInv, OwnInv, Answer
  <2>2. now + (val[p].expires - Early) \in Int
    BY <1>a, <2>1, TimesAssumption DEF Values
  <2>3. [val[p] EXCEPT !.expires = now + (@ - Early)] \in Values
    BY <2>1, <2>2 DEF Values
  <2> QED
    BY <1>a, <1>6, <2>3 DEF Answer
<1>7. ASSUME NEW p \in Procs, Truncate(p) PROVE TypeOK'
  BY <1>a, <1>7 DEF Truncate, Truncated, Files
<1>8. ASSUME NEW p \in Procs, WriteAll(p) PROVE TypeOK'
  <2>1. val[p] \in Values /\ MyFile(p) \in Files
    BY <1>a, <1>8 DEF BaseInv, OwnInv, WriteAll, MyFile, Names
  <2>2. Overlay(MyFile(p), val[p]) \in Files
    <3>1. CASE val[p].size >= MyFile(p).size
      BY <2>1, <3>1 DEF Overlay, Files, Values
    <3>2. CASE ~(val[p].size >= MyFile(p).size)
      BY <2>1, <3>2 DEF Overlay, Files
    <3> QED
      BY <3>1, <3>2
  <2> QED
    BY <1>a, <1>8, <2>2 DEF WriteAll, MyFile
<1>9. ASSUME Tick PROVE TypeOK'
  BY <1>a, <1>9, TimesAssumption DEF Tick
<1> QED
  BY <1>a, <1>1, <1>2, <1>3, <1>4, <1>5, <1>6, <1>7, <1>8, <1>9 DEF Next, Step, cvars

\* Every step keeps what is stored, or about to be stored, sound.
LEMMA LiveStep ==
  ASSUME CacheInv, MaxLatency <= Early, [Next]_cvars
  PROVE  LiveInv'
<1>a. TypeOK /\ LiveInv /\ OwnInv
  BY DEF CacheInv, BaseInv
<1>1. ASSUME NEW p \in Procs,
             Begin(p) \/ ReadFail(p) \/ ReadMiss(p) \/ ReadBroken(p) \/ ReadHit(p)
      PROVE  LiveInv'
  BY <1>a, <1>1 DEF Begin, ReadFail, ReadMiss, ReadBroken, ReadHit, LiveInv, TypeOK, Sound
<1>2. ASSUME NEW p \in Procs, Issue(p)
      PROVE  LiveInv'
  <2>1. PICK ttl \in Ttls, z \in Sizes : \E life \in IF req[p] \in Sts THEN {StsLife(ttl)} ELSE Lives :
          val' = [val EXCEPT ![p] =
                   [for |-> req[p], ends |-> now + life, expires |-> ttl, size |-> z]]
    BY <1>2 DEF Issue
  <2>2. PICK life \in IF req[p] \in Sts THEN {StsLife(ttl)} ELSE Lives :
          val' = [val EXCEPT ![p] =
                   [for |-> req[p], ends |-> now + life, expires |-> ttl, size |-> z]]
    BY <2>1
  <2> DEFINE v == [for |-> req[p], ends |-> now + life, expires |-> ttl, size |-> z]
  <2>3. /\ val'[p] = v /\ issued'[p] = now /\ pc'[p] = "answer"
        /\ \A q \in Procs : q # p => val'[q] = val[q] /\ issued'[q] = issued[q] /\ pc'[q] = pc[q]
        /\ UNCHANGED <<now, file>>
    BY <1>a, <1>2, <2>2 DEF Issue, TypeOK
  <2>4. ttl \in Int /\ life \in Nat /\ now \in Nat
    BY <1>a, TimesAssumption DEF TypeOK, StsLife
  <2>6. v.for \in Sts => v.ends >= now + v.expires
    BY <2>4, TimesAssumption DEF StsLife
  <2>7. now - now \in 0..MaxLatency
    BY <2>4, TimesAssumption
  <2> HIDE DEF v
  <2> QED
    BY <1>a, <2>3, <2>6, <2>7 DEF LiveInv, Sound
<1>3. ASSUME NEW p \in Procs, FetchFail(p) \/ WriteFail(p) \/ Crash(p)
      PROVE  LiveInv'
  BY <1>a, <1>3 DEF FetchFail, WriteFail, Crash, LiveInv, TypeOK, Sound
<1>4. ASSUME NEW p \in Procs, Answer(p)
      PROVE  LiveInv'
  <2>1. val[p] \in Values /\ pc[p] = "answer"
    BY <1>a, <1>4 DEF Answer, OwnInv
  <2>2. /\ val'[p] = [val[p] EXCEPT !.expires = now + (val[p].expires - Early)]
        /\ pc'[p] = "trunc"
        /\ \A q \in Procs : q # p => val'[q] = val[q] /\ pc'[q] = pc[q]
        /\ UNCHANGED <<now, file, issued>>
    BY <1>a, <1>4 DEF Answer, TypeOK
  <2>3. /\ val'[p].for = val[p].for /\ val'[p].ends = val[p].ends
        /\ val'[p].expires = now + (val[p].expires - Early)
    BY <2>1, <2>2 DEF Values
  <2>5. Sound(val[p])'
    <3>1. SUFFICES ASSUME val[p].for \in Sts
                   PROVE  now + (val[p].expires - Early) <= val[p].ends
      BY <2>3 DEF Sound
    <3>2. val[p].ends >= issued[p] + val[p].expires /\ now - issued[p] \in 0..MaxLatency
      BY <1>a, <2>1, <3>1 DEF LiveInv
    <3>3. now \in Int /\ issued[p] \in Int /\ val[p].expires \in Int /\ val[p].ends \in Int
      BY <1>a, <2>1 DEF TypeOK, Values
    <3> QED
      BY <3>2, <3>3, TimesAssumption
  <2> QED
    BY <1>a, <2>2, <2>5 DEF LiveInv, Sound
<1>5. ASSUME NEW p \in Procs, Truncate(p)
      PROVE  LiveInv'
  BY <1>a, <1>5 DEF Truncate, Truncated, LiveInv, TypeOK, Sound
<1>6. ASSUME NEW p \in Procs, WriteAll(p)
      PROVE  LiveInv'
  <2>1. pc[p] = "write" /\ Sound(val[p])
    BY <1>a, <1>6 DEF WriteAll, LiveInv
  <2>2. Overlay(MyFile(p), val[p]).val \in {val[p], NoValue}
    BY DEF Overlay
  <2>3. /\ \A f \in Names : file'[f].val \in {file[f].val, val[p], NoValue}
        /\ \A q \in Procs : pc'[q] \in {"answer", "trunc", "write"} => pc'[q] = pc[q]
        /\ UNCHANGED <<now, val, issued>>
    BY <1>a, <1>6, <2>2 DEF WriteAll, MyFile, TypeOK
  <2> QED
    BY <1>a, <2>1, <2>3 DEF LiveInv, Sound
<1>7. ASSUME Tick
      PROVE  LiveInv'
  <2>1. \A q \in Procs : pc[q] = "answer" => now' - issued[q] \in 0..MaxLatency
    BY <1>a, <1>7, TimesAssumption DEF Tick, LiveInv, TypeOK
  <2> QED
    BY <1>a, <1>7, <2>1 DEF Tick, LiveInv, Sound
<1>8. ASSUME UNCHANGED cvars
      PROVE  LiveInv'
  BY <1>a, <1>8 DEF cvars, LiveInv, Sound
<1> QED
  BY <1>1, <1>2, <1>3, <1>4, <1>5, <1>6, <1>7, <1>8 DEF Next, Step

\* Every step keeps a value with its request and a file with its name.
LEMMA OwnStep ==
  ASSUME BaseInv, [Next]_cvars
  PROVE  OwnInv'
<1>a. TypeOK /\ OwnInv
  BY DEF BaseInv
<1>1. ASSUME NEW p \in Procs,
             \/ Begin(p) \/ ReadFail(p) \/ ReadMiss(p) \/ ReadBroken(p)
             \/ FetchFail(p) \/ WriteFail(p) \/ Crash(p)
      PROVE  OwnInv'
  BY <1>a, <1>1
  DEF Begin, ReadFail, ReadMiss, ReadBroken, FetchFail, WriteFail, Crash, OwnInv, TypeOK
<1>2. ASSUME NEW p \in Procs, ReadHit(p)
      PROVE  OwnInv'
  <2>1. MyFile(p).val \in Values /\ FileName(MyFile(p).val.for) = FileName(req[p])
    BY <1>a, <1>2 DEF ReadHit, MyFile, OwnInv, TypeOK, Files, Names
  <2> QED
    BY <1>a, <1>2, <2>1 DEF ReadHit, OwnInv, TypeOK
<1>3. ASSUME NEW p \in Procs, Issue(p)
      PROVE  OwnInv'
  <2>1. val'[p].for = req[p] /\ val'[p] \in Values
    <3>1. PICK ttl \in Ttls, z \in Sizes :
            \E life \in IF req[p] \in Sts THEN {StsLife(ttl)} ELSE Lives :
              val' = [val EXCEPT ![p] =
                       [for |-> req[p], ends |-> now + life, expires |-> ttl, size |-> z]]
      BY <1>3 DEF Issue
    <3>2. PICK life \in IF req[p] \in Sts THEN {StsLife(ttl)} ELSE Lives :
            val' = [val EXCEPT ![p] =
                     [for |-> req[p], ends |-> now + life, expires |-> ttl, size |-> z]]
      BY <3>1
    <3>3. ttl \in Int /\ now + life \in Nat
      BY <1>a, TimesAssumption DEF TypeOK, StsLife
    <3> QED
      BY <1>a, <3>2, <3>3 DEF TypeOK, Values
  <2>2. \A q \in Procs : q # p => val'[q] = val[q] /\ pc'[q] = pc[q]
    BY <1>a, <1>3 DEF Issue, TypeOK
  <2>3. pc'[p] = "answer" /\ UNCHANGED <<file, req>>
    BY <1>a, <1>3 DEF Issue, TypeOK
  <2> QED
    BY <1>a, <2>1, <2>2, <2>3 DEF OwnInv
<1>4. ASSUME NEW p \in Procs, Answer(p)
      PROVE  OwnInv'
  <2>1. val[p] \in Values /\ pc[p] = "answer"
    BY <1>a, <1>4 DEF Answer, OwnInv
  <2>2. val'[p].for = val[p].for /\ val'[p] \in Values
    BY <1>a, <1>4, <2>1, TimesAssumption DEF Answer, TypeOK, Values
  <2> QED
    BY <1>a, <1>4, <2>1, <2>2 DEF Answer, OwnInv, TypeOK
<1>5. ASSUME NEW p \in Procs, Truncate(p)
      PROVE  OwnInv'
  BY <1>a, <1>5 DEF Truncate, Truncated, OwnInv, TypeOK
<1>6. ASSUME NEW p \in Procs, WriteAll(p)
      PROVE  OwnInv'
  <2>1. Overlay(MyFile(p), val[p]).val \in {val[p], NoValue} /\ val[p].for = req[p]
    BY <1>a, <1>6 DEF Overlay, WriteAll, OwnInv
  <2>2. \A f \in Names : f = FileName(req[p]) => file'[f].val \in {val[p], NoValue}
    BY <1>a, <1>6, <2>1 DEF WriteAll, MyFile, TypeOK
  <2>3. \A f \in Names : f # FileName(req[p]) => file'[f] = file[f]
    BY <1>a, <1>6 DEF WriteAll, TypeOK
  <2>4. pc' = [pc EXCEPT ![p] = "fresh"] /\ UNCHANGED <<req, val>>
    BY <1>6 DEF WriteAll
  <2> QED
    BY <1>a, <2>1, <2>2, <2>3, <2>4 DEF OwnInv, TypeOK
<1>7. ASSUME Tick \/ UNCHANGED cvars
      PROVE  OwnInv'
  BY <1>a, <1>7 DEF Tick, cvars, OwnInv
<1> QED
  BY <1>1, <1>2, <1>3, <1>4, <1>5, <1>6, <1>7 DEF Next, Step

\* The variables of the cache and its users keep their types, and a value its request.
THEOREM BaseInvariance == Spec => []BaseInv
<1>1. Init => BaseInv
  BY CacheInit DEF CacheInv
<1>2. BaseInv /\ [Next]_cvars => BaseInv'
  BY CacheType, OwnStep DEF BaseInv
<1> QED
  BY <1>1, <1>2, PTL DEF Spec

\* The types alone, whatever time an answer takes.
THEOREM CacheTypes == Spec => []TypeOK
<1>1. BaseInv => TypeOK
  BY DEF BaseInv
<1> QED
  BY <1>1, BaseInvariance, PTL

\* Stored values stay sound when no answer takes longer than cacheEarlyTtlSec.
THEOREM CacheInvariance ==
  ASSUME MaxLatency <= Early
  PROVE  Spec => []CacheInv
<1>1. CacheInv /\ [Next]_cvars => CacheInv'
  BY CacheType, LiveStep, OwnStep DEF CacheInv, BaseInv
<1> QED
  BY <1>1, CacheInit, PTL DEF Spec

\* When no answer takes longer than cacheEarlyTtlSec, a cache hit on an STS session hands
\* out credentials that AWS still honours at that moment.
THEOREM HitsAreLive ==
  ASSUME MaxLatency <= Early
  PROVE  Spec => HitIsLive
<1>1. ASSUME CacheInv, [Next]_cvars,
             NEW p \in Procs, pc'[p] = "hit", pc[p] # "hit", val'[p].for \in Sts
      PROVE  val'[p].ends > now
  <2>1. ReadHit(p)
    BY <1>1 DEF CacheInv, BaseInv, TypeOK, Next, Step, Begin, ReadFail, ReadMiss, ReadHit, ReadBroken,
                Issue, FetchFail, Answer, Truncate, WriteAll, WriteFail, Crash, Tick, cvars
  <2>2. val'[p] = MyFile(p).val /\ MyFile(p).val # NoValue /\ Usable(MyFile(p).val)
    BY <1>1, <2>1 DEF ReadHit, CacheInv, BaseInv, TypeOK
  <2>3. MyFile(p).val \in Values /\ Sound(MyFile(p).val)
    BY <1>1, <2>2 DEF CacheInv, BaseInv, LiveInv, TypeOK, MyFile, Names, Files
  <2> QED
    BY <1>1, <2>2, <2>3 DEF Sound, Usable, Values, CacheInv, BaseInv, TypeOK
<1>2. CacheInv /\ [Next]_cvars =>
        [\A p \in Procs :
           pc'[p] = "hit" /\ pc[p] # "hit" /\ val'[p].for \in Sts => val'[p].ends > now]_cvars
  BY <1>1
<1> QED
  BY <1>2, CacheInvariance, PTL DEF Spec, HitIsLive

\* A hit was stored under the file name of the request (cache.go 27-37).  One issued for the
\* request's MFA device, or for none where the request names none, is therefore for its role
\* or chain as well.  Of the identity pool, which is no part of the name, it tells nothing.
HitKeepsRole ==
  \A p \in Procs : pc[p] = "hit" =>
    /\ FileName(val[p].for) = FileName(req[p])
    /\ val[p].for.mfa = req[p].mfa => val[p].for.role = req[p].role

\* The role is what the name has after the device.
LEMMA RoleFromName ==
  ASSUME NEW q1 \in Requests, NEW q2 \in Requests,
         FileName(q1) = FileName(q2), q1.mfa = q2.mfa
  PROVE  q1.role = q2.role
<1> DEFINE m == q1.mfa  a == q1.role  b == q2.role
<1>1. m \in Seq(STRING) /\ a \in Seq(STRING) /\ b \in Seq(STRING) /\ m \o a = m \o b
  BY RequestsAssumption DEF FileName
<1> HIDE DEF m, a, b
<1>2. Len(a) = Len(b)
  BY <1>1
<1>3. ASSUME NEW i \in 1..Len(a) PROVE a[i] = b[i]
  <2>1. (m \o a)[Len(m) + i] = a[i] /\ (m \o b)[Len(m) + i] = b[i]
    BY <1>1, <1>2
  <2> QED
    BY <1>1, <2>1
<1>4. a = b
  BY <1>1, <1>2, <1>3, SeqEqual
<1> QED
  BY <1>4 DEF a, b

\* Whatever is asked for, by however many invocations: no hit is for another role or chain of
\* the same MFA device, and none comes from a file of another name.
THEOREM HitsKeepRole == Spec => []HitKeepsRole
<1>1. BaseInv => HitKeepsRole
  <2> SUFFICES ASSUME BaseInv, NEW p \in Procs, pc[p] = "hit"
               PROVE  /\ FileName(val[p].for) = FileName(req[p])
                      /\ val[p].for.mfa = req[p].mfa => val[p].for.role = req[p].role
    BY DEF HitKeepsRole
  <2>1. val[p].for \in Requests /\ req[p] \in Requests /\ FileName(val[p].for) = FileName(req[p])
    BY DEF BaseInv, OwnInv, TypeOK, Values
  <2> QED
    BY <2>1, RoleFromName
<1> QED
  BY <1>1, BaseInvariance, PTL

\* A file that does not decode, and that no invocation under way is about to write, stays
\* so until an invocation with --cache-skip writes it, whatever else is run in between.
THEOREM BrokenStaysUntilSkip == Spec => BrokenUntilSkip
<1>1. ASSUME BaseInv, [Next]_cvars, NEW f \in Names, Stuck(f),
             ~\E p \in Procs : FileName(req[p]) = f /\ pc[p] = "write" /\ skip[p]
      PROVE  Stuck(f)'
  <2>a. TypeOK
    BY <1>1 DEF BaseInv
  <2> USE <2>a DEF Stuck, Active, Ended, TypeOK
  <2>1. ASSUME NEW p \in Procs, Begin(p)
        PROVE  Stuck(f)'
    BY <1>1, <2>1 DEF Begin
  <2>2. ASSUME NEW p \in Procs, ReadMiss(p) \/ ReadHit(p)
        PROVE  Stuck(f)'
    BY <1>1, <2>2 DEF ReadMiss, ReadHit, MyFile
  <2>3. ASSUME NEW p \in Procs,
               ReadFail(p) \/ ReadBroken(p) \/ Issue(p) \/ FetchFail(p) \/ Answer(p) \/ WriteFail(p) \/ Crash(p)
        PROVE  Stuck(f)'
    BY <1>1, <2>3 DEF ReadFail, ReadBroken, Issue, FetchFail, Answer, WriteFail, Crash
  <2>4. ASSUME NEW p \in Procs, Truncate(p)
        PROVE  Stuck(f)'
    BY <1>1, <2>4 DEF Truncate, Truncated, Absent
  <2>5. ASSUME NEW p \in Procs, WriteAll(p)
        PROVE  Stuck(f)'
    <3>1. FileName(req[p]) # f
      BY <1>1, <2>5 DEF WriteAll
    <3> QED
      BY <1>1, <2>5, <3>1 DEF WriteAll
  <2>6. ASSUME Tick \/ UNCHANGED cvars
        PROVE  Stuck(f)'
    BY <1>1, <2>6 DEF Tick, cvars
  <2> QED
    BY <1>1, <2>1, <2>2, <2>3, <2>4, <2>5, <2>6 DEF Next, Step
<1>2. BaseInv /\ [Next]_cvars =>
        [\A f \in Names : Stuck(f) /\ ~Stuck(f)' =>
           \E p \in Procs : FileName(req[p]) = f /\ pc[p] = "write" /\ skip[p]]_cvars
  BY <1>1
<1> QED
  BY <1>2, BaseInvariance, PTL DEF Spec, BrokenUntilSkip
=============================================================================
