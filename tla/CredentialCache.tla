-------------------------- MODULE CredentialCache ---------------------------
(***************************************************************************)
(* Invocations of the program that share a cache directory: Credentials of *)
(* cli/handler/mixin/aws/auth/auth.go over Store.Read and Store.Write of   *)
(* aws/credentials/cache/cache.go.                                         *)
(*                                                                         *)
(* There is no lock and no rename.  ioutil.WriteFile truncates the file,   *)
(* then writes it, in two system calls; another invocation, a failure or a *)
(* kill may come between them.  Two writers that both truncated first lay  *)
(* one document over the other: the shorter leaves the longer's tail.      *)
(*                                                                         *)
(* Time is in seconds and advances at any moment.  AWS counts the lifetime *)
(* of a session from the moment it issues it; the program counts from the  *)
(* moment the answer is in its hands.                                      *)
(*                                                                         *)
(* Definitions whose comment starts with "Mutant" are wrong on purpose and *)
(* used by no action.                                                      *)
(***************************************************************************)
EXTENDS Integers, Sequences

CONSTANTS
  Procs,      \* invocations that may run at the same time
  Requests,   \* records [mfa, role, pool]: --mfa-serial, --chain or --role, and the identity pool
  Sts,        \* the requests answered by STS, whose sessions last --session-ttl
  Lives,      \* lifetimes of the credentials of the other requests
  Ttls,       \* values of --session-ttl; an environment value that is no number reads as 0
  DefaultLife, \* lifetime AWS gives a session when none is asked for
  Early,      \* cacheEarlyTtlSec
  MaxLatency, \* bound: seconds between an issue and its answer being in hand
  Sizes,      \* lengths of the marshalled credentials
  MaxTime,    \* bound: last second of the clock
  MaxRuns     \* bound: invocations started

ASSUME RequestsAssumption ==
  \A q \in Requests : q.mfa \in Seq(STRING) /\ q.role \in Seq(STRING)
ASSUME StsAssumption == Sts \subseteq Requests
ASSUME TimesAssumption ==
  /\ Ttls \subseteq Int /\ DefaultLife \in Nat /\ Early \in Nat /\ MaxLatency \in Nat /\ MaxTime \in Nat /\ MaxRuns \in Nat
  /\ Lives \subseteq Nat /\ Sizes \subseteq Nat \ {0}

VARIABLES
  now,    \* time.Now().Unix()
  file,   \* contents of the cache directory by file name
  pc,     \* where an invocation stands
  req,    \* its request
  skip,   \* --cache-skip
  val,    \* the cache.Value it holds
  issued, \* when AWS issued what it holds
  runs    \* invocations started

cvars == <<now, file, pc, req, skip, val, issued, runs>>

\* Mutant: the name forgets the MFA device.
RoleOnly(q) == q.role

\* Key.String: a hash of the two strings joined with nothing in between.  The hash is
\* taken to be injective; the identity pool of an idp request has no part in it.
FileName(q) == q.mfa \o q.role

Names == {FileName(q) : q \in Requests}

\* A cache.Value: whose credentials, when AWS ends them, and the Expires stored with them.
Values == [for : Requests, ends : Nat, expires : Int, size : Sizes]

NoValue == [for |-> "none"]

\* A file: its length, and the value it decodes to, if it does.
Absent    == [size |-> -1, val |-> NoValue]
Truncated == [size |-> 0, val |-> NoValue]

Files == [size : {-1, 0} \cup Sizes, val : Values \cup {NoValue}]

Active == {"read", "fetch", "answer", "trunc", "write"}
Ended  == {"idle", "hit", "fresh", "readErr", "fetchErr", "decodeErr", "writeErr"}

TypeOK ==
  /\ now \in 0..MaxTime
  /\ file \in [Names -> Files]
  /\ pc \in [Procs -> Active \cup Ended]
  /\ req \in [Procs -> Requests]
  /\ skip \in [Procs -> BOOLEAN]
  /\ val \in [Procs -> Values \cup {NoValue}]
  /\ issued \in [Procs -> 0..MaxTime]
  /\ runs \in 0..MaxRuns

Init ==
  /\ now = 0
  /\ file = [f \in Names |-> Absent]
  /\ pc = [p \in Procs |-> "idle"]
  /\ req \in [Procs -> Requests]
  /\ skip = [p \in Procs |-> FALSE]
  /\ val = [p \in Procs |-> NoValue]
  /\ issued = [p \in Procs |-> 0]
  /\ runs = 0

MyFile(p) == file[FileName(req[p])]

\* The document decodes to a value that is not stale.
Usable(v) == v.expires > now

-----------------------------------------------------------------------------

\* The program is started.
Begin(p) ==
  /\ pc[p] \in Ended
  /\ runs < MaxRuns
  /\ runs' = runs + 1
  /\ \E q \in Requests, s \in BOOLEAN :
       /\ req' = [req EXCEPT ![p] = q]
       /\ skip' = [skip EXCEPT ![p] = s]
       /\ pc' = [pc EXCEPT ![p] = IF s THEN "fetch" ELSE "read"]
  /\ val' = [val EXCEPT ![p] = NoValue]
  /\ UNCHANGED <<now, file, issued>>

\* The directory cannot be made, or the file not read: the invocation ends with the error.
ReadFail(p) ==
  /\ pc[p] = "read"
  /\ pc' = [pc EXCEPT ![p] = "readErr"]
  /\ UNCHANGED <<now, file, req, skip, val, issued, runs>>

\* Store.Read finds no file, or a stale value, which it leaves for the next write.
ReadMiss(p) ==
  /\ pc[p] = "read"
  /\ \/ MyFile(p) = Absent
     \/ MyFile(p).val # NoValue /\ ~Usable(MyFile(p).val)
  /\ pc' = [pc EXCEPT ![p] = "fetch"]
  /\ UNCHANGED <<now, file, req, skip, val, issued, runs>>

\* Store.Read finds a value that is still good: the invocation needs nothing else.
ReadHit(p) ==
  /\ pc[p] = "read"
  /\ MyFile(p).val # NoValue
  /\ Usable(MyFile(p).val)
  /\ val' = [val EXCEPT ![p] = MyFile(p).val]
  /\ pc' = [pc EXCEPT ![p] = "hit"]
  /\ UNCHANGED <<now, file, req, skip, issued, runs>>

\* Mutant: a file that does not decode is taken for a miss.
BrokenIsMiss(p) ==
  /\ pc[p] = "read"
  /\ MyFile(p) # Absent
  /\ MyFile(p).val = NoValue
  /\ pc' = [pc EXCEPT ![p] = "fetch"]
  /\ UNCHANGED <<now, file, req, skip, val, issued, runs>>

\* The file was read but does not decode: the invocation ends with the error.
ReadBroken(p) ==
  /\ pc[p] = "read"
  /\ MyFile(p) # Absent
  /\ MyFile(p).val = NoValue
  /\ pc' = [pc EXCEPT ![p] = "decodeErr"]
  /\ UNCHANGED <<now, file, req, skip, val, issued, runs>>

\* The lifetime AWS gives a session: no duration is sent unless it is positive.
StsLife(ttl) == IF ttl > 0 THEN ttl ELSE DefaultLife

\* provider.Get: AWS issues credentials.  Until the answer is in hand, expires holds the
\* --session-ttl of the invocation.
Issue(p) ==
  /\ pc[p] = "fetch"
  /\ \E ttl \in Ttls, z \in Sizes :
     \E life \in IF req[p] \in Sts THEN {StsLife(ttl)} ELSE Lives :
       val' = [val EXCEPT ![p] =
                 [for |-> req[p], ends |-> now + life, expires |-> ttl, size |-> z]]
  /\ issued' = [issued EXCEPT ![p] = now]
  /\ pc' = [pc EXCEPT ![p] = "answer"]
  /\ UNCHANGED <<now, file, req, skip, runs>>

\* provider.Get or creds.Get fails: nothing is cached.
FetchFail(p) ==
  /\ pc[p] \in {"fetch", "answer"}
  /\ pc' = [pc EXCEPT ![p] = "fetchErr"]
  /\ val' = [val EXCEPT ![p] = NoValue]
  /\ UNCHANGED <<now, file, req, skip, issued, runs>>

\* Mutant: Expires is the end of the session, with no margin for the way back.
AnswerNoMargin(p) ==
  /\ pc[p] = "answer"
  /\ val' = [val EXCEPT ![p].expires = now + @]
  /\ pc' = [pc EXCEPT ![p] = "trunc"]
  /\ UNCHANGED <<now, file, req, skip, issued, runs>>

\* The answer is in hand: Expires is reckoned from now, with a margin.
Answer(p) ==
  /\ pc[p] = "answer"
  /\ val' = [val EXCEPT ![p].expires = now + (@ - Early)]
  /\ pc' = [pc EXCEPT ![p] = "trunc"]
  /\ UNCHANGED <<now, file, req, skip, issued, runs>>

\* WriteFile, first half: the file is created or emptied.
Truncate(p) ==
  /\ pc[p] = "trunc"
  /\ file' = [file EXCEPT ![FileName(req[p])] = Truncated]
  /\ pc' = [pc EXCEPT ![p] = "write"]
  /\ UNCHANGED <<now, req, skip, val, issued, runs>>

\* Mutant: the file is opened for appending.
Appended(old, v) == [size |-> old.size + v.size, val |-> IF old.size = 0 THEN v ELSE NoValue]

\* The document of v, written from the start over what the file holds.
Overlay(old, v) ==
  IF v.size >= old.size THEN [size |-> v.size, val |-> v]
                        ELSE [size |-> old.size, val |-> NoValue]

\* WriteFile, second half; Credentials returns what it fetched.
WriteAll(p) ==
  /\ pc[p] = "write"
  /\ file' = [file EXCEPT ![FileName(req[p])] = Overlay(@, val[p])]
  /\ pc' = [pc EXCEPT ![p] = "fresh"]
  /\ UNCHANGED <<now, req, skip, val, issued, runs>>

\* The directory, the open or the write fails: the credentials in hand are dropped.
WriteFail(p) ==
  /\ pc[p] \in {"trunc", "write"}
  /\ pc' = [pc EXCEPT ![p] = "writeErr"]
  /\ val' = [val EXCEPT ![p] = NoValue]
  /\ UNCHANGED <<now, file, req, skip, issued, runs>>

\* The invocation is killed.
Crash(p) ==
  /\ pc[p] \in Active
  /\ pc' = [pc EXCEPT ![p] = "idle"]
  /\ val' = [val EXCEPT ![p] = NoValue]
  /\ UNCHANGED <<now, file, req, skip, issued, runs>>

\* A second passes.  An answer does not take longer than MaxLatency.
Tick ==
  /\ now < MaxTime
  /\ \A p \in Procs : pc[p] = "answer" => now - issued[p] < MaxLatency
  /\ now' = now + 1
  /\ UNCHANGED <<file, pc, req, skip, val, issued, runs>>

Step(p) ==
  \/ ReadFail(p) \/ ReadMiss(p) \/ ReadHit(p) \/ ReadBroken(p)
  \/ Issue(p) \/ FetchFail(p) \/ Answer(p) \/ Truncate(p) \/ WriteAll(p) \/ WriteFail(p)

Next == Tick \/ \E p \in Procs : Begin(p) \/ Step(p) \/ Crash(p)

Spec == Init /\ [][Next]_cvars

-----------------------------------------------------------------------------

\* A hit hands out credentials that AWS still honours: the margin of cacheEarlyTtlSec
\* covers the time the answer took, whoever wrote the file and when.
HitIsLive ==
  [][\A p \in Procs : pc'[p] = "hit" /\ pc[p] # "hit" /\ val'[p].for \in Sts => val'[p].ends > now]_cvars

\* A hit hands out credentials issued for the very request: no other MFA device, no other
\* chain and no other identity pool.  It holds of requests that their file names tell apart.
HitIsOwn == \A p \in Procs : pc[p] = "hit" => val[p].for = req[p]

\* The file holds no document that decodes, and no invocation under way will write it but
\* those that never read it.
Stuck(f) ==
  /\ file[f] # Absent /\ file[f].val = NoValue
  /\ \A p \in Procs :
       pc[p] \in Active /\ FileName(req[p]) = f => pc[p] = "read" \/ skip[p]

\* The cache never repairs itself: what a kill between truncation and write, or two
\* overlaid writes, left behind fails every invocation until one with --cache-skip has
\* written the whole file.  No expiry, retry or other request helps.
BrokenUntilSkip ==
  [][\A f \in Names : Stuck(f) /\ ~Stuck(f)' =>
       \E p \in Procs : FileName(req[p]) = f /\ pc[p] = "write" /\ skip[p]]_cvars
=============================================================================
