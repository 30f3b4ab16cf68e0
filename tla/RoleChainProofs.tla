--------------------------- MODULE RoleChainProofs ---------------------------
(***************************************************************************)
(* Proofs, for every chain over any set of roles, of the order in which a  *)
(* walk assumes them, of whose credentials sign its requests, and of which *)
(* requests carry the MFA code (module RoleChain).                         *)
(***************************************************************************)
EXTENDS RoleChain, FiniteSetTheorems, SequenceTheorems, TLAPS

Requests == [link : Links, by : Credentials, mfa : BOOLEAN]

Seed == IF keyPair THEN "static" ELSE named[1]

\* Before the walk nothing was asked, and what is walked is what was named.
ShapeInv ==
  /\ pc = "seed" => chain = named /\ named # <<>>
  /\ pc \in {"parse", "seed"} => calls = <<>> /\ prior = None /\ ~unnamed /\ mfa = asked

\* Credentials in hand were obtained in this walk.
OwnInv ==
  /\ \A k \in 1..Len(prior) :
       prior[k] = Seed \/ \E j \in 1..Len(calls) : prior[k] = calls[j].link
  /\ OnlyOwnCredentials

\* The MFA code is in hand only until a role has been assumed from the loop.
CodeInv ==
  /\ mfa => asked
  /\ pc = "walk" /\ mfa =>
       \/ Len(calls) = 0 /\ (keyPair => unnamed)
       \/ keyPair /\ Len(calls) = 1 /\ calls[1].link = chain[1]
  /\ pc = "walk" /\ asked /\ ~unnamed /\ Len(calls) = 0 => mfa
  /\ MfaOnlyFirst

LEMMA RequestAppended ==
  ASSUME NEW S, NEW q \in Seq(S), NEW e \in S
  PROVE  /\ Append(q, e) \in Seq(S) /\ Len(q) \in Nat /\ Len(Append(q, e)) = Len(q) + 1
         /\ \A i \in 1..Len(q) : Append(q, e)[i] = q[i]
         /\ Append(q, e)[Len(q) + 1] = e
  OBVIOUS

\* A step that asks AWS adds one request, signed with the credentials in hand.
Asks(by) == calls' = Append(calls, [link |-> chain[1], by |-> by, mfa |-> mfa])

\* Which steps ask, and what they leave alone.
LEMMA WalkSteps ==
  ASSUME [Next]_rvars
  PROVE  /\ UNCHANGED <<raw, asked, keyPair>>
         /\ UNCHANGED <<named, at>> \/ ParseLink
         /\ \/ UNCHANGED calls
            \/ SeedStatic
            \/ pc = "walk" /\ chain # <<>> /\ chain[1] \in Arns /\ Asks(prior)
               /\ (Assume \/ AssumeDenied)
<1>1. CASE ParseLink \/ Parse \/ SeedStatic \/ SeedUnnamed \/ SeedAlias \/ RejectAlias \/ SeedNothing
  BY <1>1 DEF ParseLink, Parse, SeedStatic, SeedUnnamed, SeedAlias, RejectAlias, SeedNothing
<1>2. CASE RejectNonArn \/ Assume \/ AssumeDenied \/ AssumeUnnamed \/ Finish
  BY <1>2 DEF RejectNonArn, Assume, AssumeDenied, AssumeUnnamed, Finish, Asks
<1>3. CASE UNCHANGED rvars
  BY <1>3 DEF rvars
<1> QED
  BY <1>1, <1>2, <1>3 DEF Next, Done

\* The shape is kept.
LEMMA ShapeStep ==
  ASSUME ShapeInv, [Next]_rvars
  PROVE  ShapeInv'
<1> USE DEF ShapeInv
<1>1. CASE ParseLink \/ Parse
  BY <1>1 DEF ParseLink, Parse
<1>2. CASE SeedStatic \/ SeedUnnamed \/ SeedAlias \/ RejectAlias \/ SeedNothing
  BY <1>2 DEF SeedStatic, SeedUnnamed, SeedAlias, RejectAlias, SeedNothing
<1>3. CASE RejectNonArn \/ Assume \/ AssumeDenied \/ AssumeUnnamed \/ Finish
  BY <1>3 DEF RejectNonArn, Assume, AssumeDenied, AssumeUnnamed, Finish
<1>4. CASE UNCHANGED rvars
  BY <1>4 DEF rvars
<1> QED
  BY <1>1, <1>2, <1>3, <1>4 DEF Next, Done

\* The first link left is a link, and what is left without it is a chain.
LEMMA LinkLeft ==
  ASSUME TypeOK, chain # <<>>
  PROVE  chain[1] \in Links /\ Tail(chain) \in Seq(Links) /\ Len(chain) \in Nat \ {0}
         /\ Len(Tail(chain)) = Len(chain) - 1
         /\ \A i \in 1..Len(Tail(chain)) : Tail(chain)[i] = chain[i+1]
  BY HeadTailProperties DEF TypeOK

\* A request is of its type whatever step asks.
LEMMA RequestsTyped ==
  ASSUME TypeOK, ShapeInv, [Next]_rvars
  PROVE  calls' \in Seq(Requests)
<1>1. calls \in Seq(Requests) /\ mfa \in BOOLEAN /\ prior \in Credentials
  BY DEF TypeOK, Requests
<1>2. CASE SeedStatic
  <2>1. chain # <<>> /\ <<"static">> \in Credentials
    BY <1>2 DEF SeedStatic, ShapeInv, Credentials
  <2>2. [link |-> chain[1], by |-> <<"static">>, mfa |-> mfa] \in Requests
    BY <1>1, <2>1, LinkLeft DEF Requests
  <2> QED
    BY <1>1, <1>2, <2>2 DEF SeedStatic
<1>3. CASE chain # <<>> /\ Asks(prior)
  <2>1. [link |-> chain[1], by |-> prior, mfa |-> mfa] \in Requests
    BY <1>1, <1>3, LinkLeft DEF Requests
  <2> QED
    BY <1>1, <1>3, <2>1 DEF Asks
<1> QED
  BY <1>1, <1>2, <1>3, WalkSteps

\* Every step keeps the types.
LEMMA TypeStep ==
  ASSUME TypeOK, ShapeInv, [Next]_rvars
  PROVE  TypeOK'
<1> DEFINE NewTypes ==
      /\ at' \in Nat \ {0} /\ named' \in Seq(Links) /\ chain' \in Seq(Links)
      /\ prior' \in Credentials
      /\ mfa' \in BOOLEAN /\ unnamed' \in BOOLEAN
      /\ pc' \in {"parse", "seed", "walk", "ok", "required", "alias", "source", "nonArn", "denied"}
<1>1. NewTypes
  <2> USE DEF TypeOK, ShapeInv
  <2>1. CASE ParseLink
    <3>1. raw[at] \in Links
      BY <2>1, ElementOfSeq DEF ParseLink
    <3>2. named' \in Seq(Links)
      BY <2>1, <3>1 DEF ParseLink
    <3> QED
      BY <2>1, <3>2 DEF ParseLink
  <2>2. CASE Parse
    BY <2>2 DEF Parse
  <2>3. CASE SeedStatic
    <3>1. <<"static", chain[1]>> \in Credentials /\ None \in Credentials
      BY <2>3, LinkLeft DEF SeedStatic, Credentials, None
    <3> QED
      BY <2>3, <3>1 DEF SeedStatic
  <2>4. CASE SeedUnnamed \/ SeedNothing \/ RejectAlias
    BY <2>4 DEF SeedUnnamed, SeedNothing, RejectAlias
  <2>5. CASE SeedAlias
    <3>1. <<chain[1]>> \in Credentials /\ Tail(chain) \in Seq(Links)
      BY <2>5, LinkLeft DEF SeedAlias, Credentials
    <3> QED
      BY <2>5, <3>1 DEF SeedAlias
  <2>6. CASE RejectNonArn \/ AssumeDenied \/ Finish
    BY <2>6 DEF RejectNonArn, AssumeDenied, Finish
  <2>7. CASE Assume
    <3>1. Append(prior, chain[1]) \in Credentials /\ Tail(chain) \in Seq(Links)
      BY <2>7, LinkLeft DEF Assume, Credentials
    <3> QED
      BY <2>7, <3>1 DEF Assume
  <2>8. CASE AssumeUnnamed
    <3>1. None \in Credentials /\ Tail(chain) \in Seq(Links)
      BY <2>8, LinkLeft DEF AssumeUnnamed, None, Credentials
    <3> QED
      BY <2>8, <3>1 DEF AssumeUnnamed
  <2>9. CASE UNCHANGED rvars
    BY <2>9 DEF rvars
  <2> QED
    BY <2>1, <2>2, <2>3, <2>4, <2>5, <2>6, <2>7, <2>8, <2>9 DEF Next, Done
<1> QED
  BY <1>1, WalkSteps, RequestsTyped DEF TypeOK, Requests

\* Everything in hand, and everything a request was signed with, was obtained before.
LEMMA OwnStep ==
  ASSUME TypeOK, ShapeInv, OwnInv, [Next]_rvars
  PROVE  OwnInv'
<1>a. CASE ParseLink
  <2>1. Len(calls') = 0 /\ Len(prior') = 0
    BY <1>a DEF ParseLink, ShapeInv, None
  <2> QED
    BY <2>1 DEF OwnInv, OnlyOwnCredentials
<1> SUFFICES ASSUME ~ParseLink PROVE OwnInv'
  BY <1>a
<1> DEFINE Had(x, len) == x = Seed \/ \E j \in 1..len : x = calls[j].link
<1>1. UNCHANGED <<raw, asked, keyPair, named>> /\ Seed' = Seed
  BY WalkSteps DEF Seed
<1>2. \A i \in 1..Len(calls) : \A k \in 1..Len(calls[i].by) : Had(calls[i].by[k], i - 1)
  BY DEF OwnInv, OnlyOwnCredentials, Seed
<1>3. \A k \in 1..Len(prior) : Had(prior[k], Len(calls))
  BY DEF OwnInv
<1>4. Len(calls) \in Nat /\ Len(prior) \in Nat
  BY DEF TypeOK, Credentials
<1>5. OnlyOwnCredentials'
  <2>1. CASE UNCHANGED calls
    BY <1>1, <2>1 DEF OwnInv, OnlyOwnCredentials
  <2>2. CASE SeedStatic
    <3>1. /\ keyPair /\ calls' = <<[link |-> chain[1], by |-> <<"static">>, mfa |-> mfa]>>
      BY <2>2 DEF SeedStatic, ShapeInv
    <3>2. Len(calls') = 1 /\ calls'[1].by = <<"static">>
      BY <3>1
    <3> QED
      BY <1>1, <3>1, <3>2 DEF OnlyOwnCredentials
  <2>3. CASE Asks(prior) /\ chain # <<>>
    <3> DEFINE e == [link |-> chain[1], by |-> prior, mfa |-> mfa]
    <3>1. e \in Requests /\ e.by = prior
      BY <2>3, LinkLeft DEF Requests, TypeOK
    <3>2. calls' = Append(calls, e) /\ calls \in Seq(Requests)
      BY <2>3 DEF Asks, TypeOK, Requests
    <3> HIDE DEF e
    <3>3. /\ Len(calls') = Len(calls) + 1 /\ calls'[Len(calls) + 1] = e
          /\ \A i \in 1..Len(calls) : calls'[i] = calls[i]
      BY <3>1, <3>2, RequestAppended
    <3>4. \A i \in 1..Len(calls) + 1 : \A k \in 1..Len(calls'[i].by) :
             calls'[i].by[k] = Seed \/ \E j \in 1..i - 1 : calls'[i].by[k] = calls'[j].link
      <4> SUFFICES ASSUME NEW i \in 1..Len(calls) + 1, NEW k \in 1..Len(calls'[i].by)
                   PROVE  calls'[i].by[k] = Seed \/ \E j \in 1..i - 1 : calls'[i].by[k] = calls'[j].link
        OBVIOUS
      <4>1. i \in Nat /\ \A j \in 1..i - 1 : j \in 1..Len(calls)
        BY <1>4
      <4>2. Had(calls'[i].by[k], i - 1)
        <5>1. CASE i = Len(calls) + 1
          BY <1>3, <1>4, <3>1, <3>3, <5>1
        <5>2. CASE i # Len(calls) + 1
          <6>1. i \in 1..Len(calls)
            BY <1>4, <5>2
          <6> QED
            BY <1>2, <3>3, <6>1
        <5> QED
          BY <5>1, <5>2
      <4> QED
        BY <3>3, <4>1, <4>2
    <3> QED
      BY <1>1, <3>3, <3>4 DEF OnlyOwnCredentials, Seed
  <2> QED
    BY <2>1, <2>2, <2>3, WalkSteps
<1>6. (\A k \in 1..Len(prior) :
         prior[k] = Seed \/ \E j \in 1..Len(calls) : prior[k] = calls[j].link)'
  <2>1. CASE UNCHANGED <<prior, calls>>
    BY <1>1, <1>3, <2>1
  <2>2. CASE SeedStatic
    <3>1. /\ keyPair /\ calls' = <<[link |-> chain[1], by |-> <<"static">>, mfa |-> mfa]>>
          /\ prior' = <<"static", chain[1]>> \/ prior' = <<>>
      BY <2>2 DEF SeedStatic, ShapeInv, None
    <3>2. Len(calls') = 1 /\ calls'[1].link = chain[1]
      BY <3>1
    <3>3. Seed' = "static"
      BY <1>1, <3>1 DEF Seed
    <3> QED
      BY <3>1, <3>2, <3>3
  <2>3. CASE SeedAlias
    <3>1. /\ ~keyPair /\ chain = named /\ UNCHANGED calls
          /\ prior' = <<chain[1]>> \/ UNCHANGED prior
      BY <2>3 DEF SeedAlias, ShapeInv
    <3>2. Seed' = chain[1]
      BY <1>1, <3>1 DEF Seed
    <3>3. CASE prior' = <<chain[1]>>
      BY <3>2, <3>3
    <3> QED
      BY <1>1, <1>3, <3>1, <3>3
  <2>4. CASE Assume
    <3> DEFINE e == [link |-> chain[1], by |-> prior, mfa |-> mfa]
    <3>1. e \in Requests /\ e.link = chain[1] /\ chain[1] \in Links \cup {"static"}
      BY <2>4, LinkLeft DEF Assume, Requests, TypeOK
    <3>2. /\ calls' = Append(calls, e) /\ calls \in Seq(Requests)
          /\ prior' = Append(prior, chain[1]) /\ prior \in Seq(Links \cup {"static"})
      BY <2>4 DEF Assume, TypeOK, Requests, Credentials
    <3> HIDE DEF e
    <3>3. /\ Len(calls') = Len(calls) + 1 /\ calls'[Len(calls) + 1].link = chain[1]
          /\ \A i \in 1..Len(calls) : calls'[i] = calls[i]
      BY <3>1, <3>2, RequestAppended
    <3>4. /\ Len(prior') = Len(prior) + 1 /\ prior'[Len(prior) + 1] = chain[1]
          /\ \A k \in 1..Len(prior) : prior'[k] = prior[k]
      BY <3>1, <3>2, RequestAppended
    <3> SUFFICES ASSUME NEW k \in 1..Len(prior')
                 PROVE  prior'[k] = Seed' \/ \E j \in 1..Len(calls') : prior'[k] = calls'[j].link
      OBVIOUS
    <3>5. CASE k = Len(prior) + 1
      BY <1>4, <3>3, <3>4, <3>5
    <3>6. CASE k # Len(prior) + 1
      <4>1. k \in 1..Len(prior) /\ Had(prior[k], Len(calls))
        BY <1>3, <1>4, <3>4, <3>6
      <4>2. \A j \in 1..Len(calls) : j \in 1..Len(calls')
        BY <1>4, <3>3
      <4> QED
        BY <1>1, <3>3, <3>4, <4>1, <4>2
    <3> QED
      BY <3>5, <3>6
  <2>5. CASE AssumeDenied
    <3> DEFINE e == [link |-> chain[1], by |-> prior, mfa |-> mfa]
    <3>1. e \in Requests /\ calls' = Append(calls, e) /\ calls \in Seq(Requests) /\ UNCHANGED prior
      BY <2>5, LinkLeft DEF AssumeDenied, Requests, TypeOK
    <3> HIDE DEF e
    <3>2. Len(calls') = Len(calls) + 1 /\ \A i \in 1..Len(calls) : calls'[i] = calls[i]
      BY <3>1, RequestAppended
    <3>3. \A j \in 1..Len(calls) : j \in 1..Len(calls')
      BY <1>4, <3>2
    <3> QED
      BY <1>1, <1>3, <3>1, <3>2, <3>3
  <2>6. CASE AssumeUnnamed
    <3>1. Len(prior') = 0
      BY <2>6 DEF AssumeUnnamed, None
    <3> QED
      BY <3>1
  <2>7. CASE Parse \/ SeedUnnamed \/ RejectAlias \/ SeedNothing \/ RejectNonArn \/ Finish
    BY <2>1, <2>7 DEF Parse, SeedUnnamed, RejectAlias, SeedNothing, RejectNonArn, Finish
  <2>8. CASE UNCHANGED rvars
    BY <2>1, <2>8 DEF rvars
  <2> QED
    BY <2>2, <2>3, <2>4, <2>5, <2>6, <2>7, <2>8 DEF Next, Done
<1> QED
  BY <1>5, <1>6 DEF OwnInv
\* What an added request may carry.
LEMMA CodeAdded ==
  ASSUME TypeOK, CodeInv, Asks(prior), chain # <<>>, pc = "walk",
         UNCHANGED <<asked, keyPair>>, unnamed => unnamed'
  PROVE  MfaOnlyFirst' /\ Len(calls') = Len(calls) + 1 /\ Len(calls) \in Nat
<1> DEFINE e == [link |-> chain[1], by |-> prior, mfa |-> mfa]
<1>1. /\ e \in Requests /\ e.mfa = mfa /\ e.link = chain[1]
      /\ calls' = Append(calls, e) /\ calls \in Seq(Requests)
  BY LinkLeft DEF Asks, Requests, TypeOK
<1> HIDE DEF e
<1>2. /\ Len(calls') = Len(calls) + 1 /\ calls'[Len(calls) + 1] = e /\ Len(calls) \in Nat
      /\ \A i \in 1..Len(calls) : calls'[i] = calls[i]
  BY <1>1, RequestAppended
<1>3. MfaOnlyFirst'
  <2> SUFFICES ASSUME NEW i \in 1..Len(calls')
               PROVE  /\ calls'[i].mfa => asked /\ i <= (IF keyPair THEN 2 ELSE 1)
                      /\ calls'[i].mfa /\ i = 2 => calls'[2].link = calls'[1].link
                      /\ asked /\ ~unnamed' /\ i = 1 => calls'[i].mfa
    BY DEF MfaOnlyFirst
  <2>1. CASE i # Len(calls) + 1
    <3>1. i \in 1..Len(calls) /\ (i = 2 => 1 \in 1..Len(calls))
      BY <1>2, <2>1
    <3> QED
      BY <1>2, <3>1 DEF CodeInv, MfaOnlyFirst
  <2>2. CASE i = Len(calls) + 1
    <3>1. calls'[i].mfa = mfa /\ calls'[i].link = chain[1]
      BY <1>1, <1>2, <2>2
    <3>2. CASE mfa
      <4>1. \/ Len(calls) = 0
            \/ keyPair /\ Len(calls) = 1 /\ calls[1].link = chain[1]
        BY <3>2 DEF CodeInv
      <4>2. CASE Len(calls) = 0
        BY <2>2, <3>1, <3>2, <4>2 DEF CodeInv
      <4>3. CASE keyPair /\ Len(calls) = 1 /\ calls[1].link = chain[1]
        BY <1>2, <2>2, <3>1, <3>2, <4>3 DEF CodeInv
      <4> QED
        BY <4>1, <4>2, <4>3
    <3>3. CASE ~mfa
      BY <1>2, <2>2, <3>1, <3>3 DEF CodeInv
    <3> QED
      BY <3>2, <3>3
  <2> QED
    BY <2>1, <2>2
<1> QED
  BY <1>2, <1>3

\* The code leaves the walk's hands with the first request of the loop.
LEMMA CodeStep ==
  ASSUME TypeOK, ShapeInv, CodeInv, [Next]_rvars
  PROVE  CodeInv'
<1> USE DEF CodeInv
<1>a. UNCHANGED <<raw, asked, keyPair>>
  BY WalkSteps
<1>1. ASSUME UNCHANGED calls, unnamed => unnamed' PROVE MfaOnlyFirst'
  BY <1>a, <1>1 DEF MfaOnlyFirst
<1>2. CASE ParseLink \/ Parse \/ RejectAlias \/ RejectNonArn \/ Finish
  BY <1>1, <1>2 DEF ParseLink, Parse, RejectAlias, RejectNonArn, Finish
<1>3. CASE SeedStatic
  <2>1. /\ keyPair /\ calls' = <<[link |-> chain[1], by |-> <<"static">>, mfa |-> mfa]>>
        /\ UNCHANGED <<chain, mfa, unnamed>> /\ mfa = asked
    BY <1>3 DEF SeedStatic, ShapeInv
  <2>2. Len(calls') = 1 /\ calls'[1].link = chain[1] /\ calls'[1].mfa = mfa
    BY <2>1
  <2>3. MfaOnlyFirst'
    BY <1>a, <2>1, <2>2 DEF MfaOnlyFirst
  <2> QED
    BY <1>a, <2>1, <2>2, <2>3
<1>4. CASE SeedUnnamed
  <2>1. calls = <<>> /\ UNCHANGED <<calls, mfa>> /\ unnamed' /\ Len(calls) = 0
    BY <1>4 DEF SeedUnnamed, ShapeInv
  <2> QED
    BY <1>1, <1>a, <2>1
<1>5. CASE SeedAlias \/ SeedNothing
  <2>1. calls = <<>> /\ UNCHANGED <<calls, mfa, unnamed>> /\ ~keyPair /\ mfa = asked /\ Len(calls) = 0
    BY <1>5 DEF SeedAlias, SeedNothing, ShapeInv
  <2> QED
    BY <1>1, <1>a, <2>1
<1>6. CASE Assume
  <2>1. Asks(prior) /\ chain # <<>> /\ pc = "walk" /\ ~mfa' /\ UNCHANGED unnamed
    BY <1>6 DEF Assume, Asks
  <2>2. MfaOnlyFirst' /\ Len(calls') = Len(calls) + 1 /\ Len(calls) \in Nat
    BY <1>a, <2>1, CodeAdded
  <2> QED
    BY <1>a, <2>1, <2>2
<1>7. CASE AssumeDenied
  <2>1. Asks(prior) /\ chain # <<>> /\ pc = "walk" /\ pc' = "denied" /\ UNCHANGED <<mfa, unnamed>>
    BY <1>7 DEF AssumeDenied, Asks
  <2>2. MfaOnlyFirst'
    BY <1>a, <2>1, CodeAdded
  <2> QED
    BY <1>a, <2>1, <2>2
<1>8. CASE AssumeUnnamed
  <2>1. UNCHANGED calls /\ unnamed' /\ ~mfa'
    BY <1>8 DEF AssumeUnnamed
  <2> QED
    BY <1>1, <1>a, <2>1
<1>9. CASE UNCHANGED rvars
  BY <1>1, <1>9 DEF rvars
<1> QED
  BY <1>2, <1>3, <1>4, <1>5, <1>6, <1>7, <1>8, <1>9 DEF Next, Done

-----------------------------------------------------------------------------
(* The order of the walk *)

\* The loop over --chain has taken over every link before its position.
ParseInv ==
  /\ at \in 1..Len(raw) + 1
  /\ Len(named) = Cardinality(Kept(at - 1))
  /\ \A k \in Kept(at - 1) : named[Cardinality(Kept(k))] = raw[k]
  /\ pc # "parse" => at = Len(raw) + 1

\* One more link, and one more that is kept unless it is empty.
LEMMA KeptGrows ==
  ASSUME NEW k \in Nat
  PROVE  /\ IsFiniteSet(Kept(k)) /\ Cardinality(Kept(k)) \in Nat
         /\ Kept(k + 1) = IF NonEmpty(raw[k+1]) THEN Kept(k) \cup {k + 1} ELSE Kept(k)
         /\ NonEmpty(raw[k+1]) => Cardinality(Kept(k + 1)) = Cardinality(Kept(k)) + 1
<1>1. IsFiniteSet(Kept(k))
  <2>1. IsFiniteSet(1..k)
    BY FS_Interval
  <2> QED
    BY <2>1, FS_Subset DEF Kept
<1>2. Kept(k + 1) = IF NonEmpty(raw[k+1]) THEN Kept(k) \cup {k + 1} ELSE Kept(k)
  <2>1. 1..k + 1 = (1..k) \cup {k + 1}
    OBVIOUS
  <2> QED
    BY <2>1 DEF Kept
<1>3. k + 1 \notin Kept(k)
  BY DEF Kept
<1> QED
  BY <1>1, <1>2, <1>3, FS_AddElement, FS_CardinalityType

\* The place of a kept link among those up to k.
LEMMA KeptRank ==
  ASSUME NEW k \in Nat, NEW j \in Kept(k)
  PROVE  Cardinality(Kept(j)) \in 1..Cardinality(Kept(k))
<1>1. j \in 1..k /\ j \in Nat /\ j \in Kept(j) /\ Kept(j) \subseteq Kept(k)
  BY DEF Kept
<1>2. IsFiniteSet(Kept(k)) /\ IsFiniteSet(Kept(j)) /\ Cardinality(Kept(j)) \in Nat
      /\ Cardinality(Kept(k)) \in Nat
  BY <1>1, KeptGrows
<1>3. Cardinality(Kept(j)) <= Cardinality(Kept(k))
  BY <1>1, <1>2, FS_Subset
<1>4. Cardinality(Kept(j)) # 0
  BY <1>1, <1>2, FS_EmptySet
<1> QED
  BY <1>2, <1>3, <1>4

LEMMA ParseStep ==
  ASSUME TypeOK, ParseInv, [Next]_rvars
  PROVE  ParseInv'
<1> USE DEF ParseInv
<1>1. UNCHANGED raw /\ \A k : Kept(k)' = Kept(k)
  BY WalkSteps DEF Kept
<1>2. CASE ParseLink
  <2> DEFINE Before == Kept(at - 1)
  <2>1. /\ Len(raw) \in Nat /\ at \in 1..Len(raw) /\ at - 1 \in Nat /\ (at - 1) + 1 = at
        /\ at' = at + 1 /\ at' - 1 = at /\ pc' = "parse"
    BY <1>2 DEF ParseLink, TypeOK
  <2>2. /\ Cardinality(Before) \in Nat
        /\ Kept(at) = IF NonEmpty(raw[at]) THEN Before \cup {at} ELSE Before
        /\ NonEmpty(raw[at]) => Cardinality(Kept(at)) = Cardinality(Before) + 1
        /\ \A k \in Before : Cardinality(Kept(k)) \in 1..Cardinality(Before)
    BY <2>1, KeptGrows, KeptRank
  <2>3. raw[at] \in Links /\ named \in Seq(Links)
    BY <2>1, ElementOfSeq DEF TypeOK
  <2> HIDE DEF Before
  <2>4. Len(named) = Cardinality(Before) /\ \A k \in Before : named[Cardinality(Kept(k))] = raw[k]
    BY DEF Before
  <2>5. CASE NonEmpty(raw[at])
    <3>1. named' = Append(named, raw[at])
      BY <1>2, <2>5 DEF ParseLink
    <3>2. /\ Len(named') = Len(named) + 1 /\ named'[Len(named) + 1] = raw[at]
          /\ \A k \in 1..Len(named) : named'[k] = named[k]
      BY <2>3, <3>1, RequestAppended
    <3>3. \A k \in Kept(at) : named'[Cardinality(Kept(k))] = raw[k]
      BY <2>2, <2>4, <2>5, <3>2
    <3>4. Kept(at - 1)' = Kept(at)
      BY <1>1, <2>1 DEF Kept
    <3>5. Len(named') = Cardinality(Kept(at))
      BY <2>2, <2>4, <2>5, <3>2
    <3> QED
      BY <1>1, <2>1, <3>3, <3>4, <3>5
  <2>6. CASE ~NonEmpty(raw[at])
    <3>1. named' = named
      BY <1>2, <2>6 DEF ParseLink
    <3> QED
      BY <1>1, <2>1, <2>2, <2>4, <2>6, <3>1
  <2> QED
    BY <2>5, <2>6
<1>3. CASE UNCHANGED <<named, at>> /\ (Parse \/ UNCHANGED pc)
  <2>1. Len(raw) \in Nat
    BY DEF TypeOK
  <2> QED
    BY <1>1, <1>3, <2>1 DEF Parse
<1>4. CASE UNCHANGED <<named, at>> /\ pc # "parse" /\ pc' # "parse"
  BY <1>1, <1>4
<1>5. CASE SeedStatic \/ SeedUnnamed \/ SeedAlias \/ RejectAlias \/ SeedNothing
  BY <1>4, <1>5 DEF SeedStatic, SeedUnnamed, SeedAlias, RejectAlias, SeedNothing
<1>6. CASE RejectNonArn \/ Assume \/ AssumeDenied \/ AssumeUnnamed \/ Finish
  BY <1>4, <1>6 DEF RejectNonArn, Assume, AssumeDenied, AssumeUnnamed, Finish
<1>7. CASE Parse
  BY <1>3, <1>7 DEF Parse
<1>8. CASE UNCHANGED rvars
  BY <1>3, <1>8 DEF rvars
<1> QED
  BY <1>2, <1>5, <1>6, <1>7, <1>8 DEF Next, Done

\* The requests so far: each for the next role named, signed with all that came before.
InOrder ==
  \A i \in 1..Len(calls) :
    /\ Source + i <= Len(named) /\ calls[i].link = named[Source + i]
    /\ calls[i].by = SubSeq(named, 1, Source + i - 1)

\* A walk without a key pair stands between what it has obtained and what is left.
OrderInv ==
  ~keyPair /\ ~unnamed =>
    /\ InOrder
    /\ pc \in {"walk", "ok"} =>
         /\ Len(prior) = Source + Len(calls)
         /\ Len(prior) + Len(chain) = Len(named)
         /\ \A j \in 1..Len(prior) : prior[j] = named[j]
         /\ \A j \in 1..Len(chain) : chain[j] = named[Len(prior) + j]
    /\ pc = "ok" => chain = <<>>

\* Credentials that agree with what was named so far are that part of it.
LEMMA PriorIsPrefix ==
  ASSUME TypeOK, Len(prior) <= Len(named), \A j \in 1..Len(prior) : prior[j] = named[j]
  PROVE  prior = SubSeq(named, 1, Len(prior))
<1> DEFINE S == Links \cup {"static"}
           m == Len(prior)
           sub == SubSeq(named, 1, m)
<1>1. prior \in Seq(S) /\ named \in Seq(S) /\ m \in Nat /\ Len(named) \in Nat
  BY SeqMonotonic DEF TypeOK, Credentials
<1>2. \A j \in 1..m : named[j] \in S
  BY <1>1, ElementOfSeq
<1> HIDE DEF S, m
<1>3. /\ sub \in Seq(S) /\ Len(sub) = IF 1 <= m THEN m - 1 + 1 ELSE 0
      /\ \A j \in 1..m - 1 + 1 : sub[j] = named[1 + j - 1]
  BY <1>1, <1>2, SubSeqProperties
<1> HIDE DEF sub
<1>4. Len(sub) = m /\ \A j \in 1..m : sub[j] = named[j]
  BY <1>1, <1>3
<1>5. prior = sub
  BY <1>1, <1>3, <1>4, SeqEqual DEF m
<1> QED
  BY <1>5 DEF sub, m

\* A request of the loop continues the order.
LEMMA OrderAdded ==
  ASSUME TypeOK, OrderInv, ~keyPair, ~unnamed, pc = "walk", chain # <<>>, Asks(prior),
         UNCHANGED named
  PROVE  InOrder' /\ Len(calls') = Len(calls) + 1 /\ Len(calls) \in Nat
<1> DEFINE e == [link |-> chain[1], by |-> prior, mfa |-> mfa]
<1>1. /\ e \in Requests /\ e.link = chain[1] /\ e.by = prior
      /\ calls' = Append(calls, e) /\ calls \in Seq(Requests)
  BY LinkLeft DEF Asks, Requests, TypeOK
<1> HIDE DEF e
<1>2. /\ Len(calls') = Len(calls) + 1 /\ calls'[Len(calls) + 1] = e /\ Len(calls) \in Nat
      /\ \A i \in 1..Len(calls) : calls'[i] = calls[i]
  BY <1>1, RequestAppended
<1>3. /\ Len(prior) = Source + Len(calls) /\ Len(prior) + Len(chain) = Len(named)
      /\ \A j \in 1..Len(prior) : prior[j] = named[j]
      /\ \A j \in 1..Len(chain) : chain[j] = named[Len(prior) + j]
      /\ InOrder
  BY DEF OrderInv
<1>4. Len(chain) \in Nat \ {0} /\ Len(named) \in Nat /\ Source \in 0..1 /\ Source' = Source
  BY LinkLeft DEF TypeOK, Source
<1>5. prior = SubSeq(named, 1, Source + Len(calls))
  <2>1. Len(prior) <= Len(named)
    BY <1>2, <1>3, <1>4
  <2> QED
    BY <1>3, <2>1, PriorIsPrefix
<1>6. chain[1] = named[Source + (Len(calls) + 1)]
  <2>1. 1 \in 1..Len(chain) /\ Len(prior) + 1 = Source + (Len(calls) + 1)
    BY <1>2, <1>3, <1>4
  <2> QED
    BY <1>3, <2>1
<1>7. Source + (Len(calls) + 1) <= Len(named)
      /\ Source + (Len(calls) + 1) - 1 = Source + Len(calls)
  BY <1>2, <1>3, <1>4
<1>8. InOrder'
  <2> SUFFICES ASSUME NEW i \in 1..Len(calls')
               PROVE  /\ Source + i <= Len(named) /\ calls'[i].link = named[Source + i]
                      /\ calls'[i].by = SubSeq(named, 1, Source + i - 1)
    BY <1>4 DEF InOrder
  <2>1. CASE i = Len(calls) + 1
    BY <1>1, <1>2, <1>5, <1>6, <1>7, <2>1
  <2>2. CASE i # Len(calls) + 1
    <3>1. i \in 1..Len(calls)
      BY <1>2, <2>2
    <3> QED
      BY <1>2, <1>3, <3>1 DEF InOrder
  <2> QED
    BY <2>1, <2>2
<1> QED
  BY <1>2, <1>8

LEMMA OrderStep ==
  ASSUME TypeOK, ShapeInv, OrderInv, [Next]_rvars
  PROVE  OrderInv'
<1> SUFFICES ASSUME ~keyPair, ~unnamed' PROVE OrderInv'
  BY WalkSteps DEF OrderInv
<1>a. ~unnamed
  <2>1. unnamed => unnamed'
    BY DEF Next, ParseLink, Parse, SeedStatic, SeedUnnamed, SeedAlias, RejectAlias, SeedNothing,
           RejectNonArn, Assume, AssumeDenied, AssumeUnnamed, Finish, Done, rvars
  <2> QED
    BY <2>1
<1>b. ASSUME UNCHANGED <<named, calls>> PROVE InOrder' /\ Source' = Source
  BY <1>a, <1>b DEF OrderInv, InOrder, Source
<1>c. Len(named) \in Nat /\ Len(prior) \in Nat /\ Len(chain) \in Nat /\ Len(calls) \in Nat
  BY DEF TypeOK, Credentials
<1>1. CASE ParseLink
  <2>1. Len(calls') = 0 /\ pc' = "parse"
    BY <1>1 DEF ParseLink, ShapeInv
  <2> QED
    BY <2>1 DEF OrderInv, InOrder
<1>2. CASE Parse \/ RejectAlias \/ RejectNonArn
  BY <1>b, <1>2 DEF Parse, RejectAlias, RejectNonArn, OrderInv
<1>3. CASE SeedAlias
  <2>1. InOrder' /\ Source' = Source
    BY <1>b, <1>3 DEF SeedAlias
  <2>2. CASE pc' = "walk"
    <3>1. /\ Source = 1 /\ Len(calls') = 0 /\ chain = named /\ chain # <<>>
          /\ prior' = <<named[1]>> /\ Len(prior') = 1 /\ chain' = Tail(named) /\ UNCHANGED named
      BY <1>3, <2>2 DEF SeedAlias, ShapeInv, Source
    <3>2. Len(chain') = Len(named) - 1 /\ \A j \in 1..Len(chain') : chain'[j] = named[1 + j]
      BY <3>1, <1>c, LinkLeft
    <3>3. prior'[1] = named[1] /\ \A j \in 1..Len(prior') : j = 1
      BY <3>1
    <3>4. Len(prior') + Len(chain') = Len(named) /\ Len(prior') = Source + Len(calls')
      BY <1>c, <3>1, <3>2
    <3> QED
      BY <2>1, <2>2, <3>1, <3>2, <3>3, <3>4 DEF OrderInv
  <2>3. CASE pc' # "walk"
    <3>1. pc' = "source"
      BY <1>3, <2>3 DEF SeedAlias
    <3> QED
      BY <2>1, <3>1 DEF OrderInv
  <2> QED
    BY <2>2, <2>3
<1>4. CASE SeedNothing
  <2>1. InOrder' /\ Source' = Source
    BY <1>b, <1>4 DEF SeedNothing
  <2>2. /\ Source = 0 /\ Len(calls') = 0 /\ Len(prior') = 0 /\ chain' = named
        /\ UNCHANGED named /\ pc' = "walk"
    BY <1>4, ArnsAssumption DEF SeedNothing, ShapeInv, Source, None
  <2> QED
    BY <1>c, <2>1, <2>2 DEF OrderInv
<1>5. CASE Assume
  <2> DEFINE m == Len(prior)
  <2>1. /\ Asks(prior) /\ chain # <<>> /\ pc = "walk" /\ pc' = "walk" /\ UNCHANGED named
        /\ prior' = Append(prior, chain[1]) /\ chain' = Tail(chain)
    BY <1>5 DEF Assume, Asks
  <2>2. InOrder' /\ Len(calls') = Len(calls) + 1 /\ Source' = Source /\ Source \in 0..1
    BY <1>a, <2>1, OrderAdded DEF Source
  <2>3. /\ m = Source + Len(calls) /\ m + Len(chain) = Len(named)
        /\ \A j \in 1..m : prior[j] = named[j]
        /\ \A j \in 1..Len(chain) : chain[j] = named[m + j]
    BY <1>a, <2>1 DEF OrderInv
  <2>4. /\ Len(prior') = m + 1 /\ prior'[m + 1] = chain[1]
        /\ \A j \in 1..m : prior'[j] = prior[j]
    <3>1. prior \in Seq(Links \cup {"static"}) /\ chain[1] \in Links \cup {"static"}
      BY <2>1, LinkLeft DEF TypeOK, Credentials
    <3> QED
      BY <2>1, <3>1, RequestAppended
  <2>5. /\ Len(chain) \in Nat \ {0} /\ Len(chain') = Len(chain) - 1
        /\ \A j \in 1..Len(chain') : chain'[j] = chain[j+1]
    BY <2>1, LinkLeft
  <2> HIDE DEF m
  <2>6. m \in Nat
    BY <1>c DEF m
  <2>7. \A j \in 1..Len(prior') : prior'[j] = named[j]
    <3>1. chain[1] = named[m + 1]
      BY <2>3, <2>5
    <3> QED
      BY <2>3, <2>4, <2>6, <3>1
  <2>8. \A j \in 1..Len(chain') : chain'[j] = named[Len(prior') + j]
    <3> SUFFICES ASSUME NEW j \in 1..Len(chain') PROVE chain'[j] = named[(m + 1) + j]
      BY <2>4
    <3>1. j + 1 \in 1..Len(chain) /\ m + (j + 1) = (m + 1) + j
      BY <2>5, <2>6
    <3> QED
      BY <2>3, <2>5, <3>1
  <2>9. Len(prior') = Source + Len(calls') /\ Len(prior') + Len(chain') = Len(named)
    <3>1. m = Source + Len(calls) /\ m + Len(chain) = Len(named)
      BY <2>3
    <3>2. /\ Len(prior') = m + 1 /\ Len(chain') = Len(chain) - 1
          /\ Len(calls') = Len(calls) + 1 /\ Len(chain) \in Nat
      BY <2>2, <2>4, <2>5
    <3>3. Source \in Nat
      BY <2>2
    <3> QED
      BY <1>c, <2>6, <3>1, <3>2, <3>3
  <2> QED
    BY <2>1, <2>2, <2>7, <2>8, <2>9 DEF OrderInv
<1>6. CASE AssumeDenied
  <2>1. Asks(prior) /\ chain # <<>> /\ pc = "walk" /\ pc' = "denied" /\ UNCHANGED named
    BY <1>6 DEF AssumeDenied, Asks
  <2> QED
    BY <1>a, <2>1, OrderAdded DEF OrderInv
<1>7. CASE Finish
  BY <1>a, <1>b, <1>7 DEF Finish, OrderInv
<1>8. CASE UNCHANGED rvars
  BY <1>a, <1>b, <1>8 DEF rvars, OrderInv
<1>9. ~SeedStatic /\ ~SeedUnnamed /\ ~AssumeUnnamed
  BY DEF SeedStatic, SeedUnnamed, AssumeUnnamed
<1> QED
  BY <1>1, <1>2, <1>3, <1>4, <1>5, <1>6, <1>7, <1>8, <1>9 DEF Next, Done

-----------------------------------------------------------------------------

WalkInv == TypeOK /\ ShapeInv /\ OwnInv /\ CodeInv /\ ParseInv /\ OrderInv

\* Before a walk.
LEMMA WalkInit == Init => WalkInv
<1> SUFFICES ASSUME Init PROVE WalkInv
  OBVIOUS
<1>1. /\ calls = <<>> /\ prior = <<>> /\ named = <<>>
      /\ Len(calls) = 0 /\ Len(prior) = 0 /\ Len(named) = 0
  BY DEF Init, None
<1>2. TypeOK
  <2>1. raw \in Seq(Links)
    <3>1. PICK len \in 1..MaxLinks : raw \in [1..len -> Links]
      BY DEF Init
    <3> QED
      BY <3>1, MaxLinksAssumption, SeqDef
  <2>2. <<>> \in Seq(Links) /\ <<>> \in Credentials /\ <<>> \in Seq(Requests)
    BY DEF Credentials
  <2>3. unnamed \in BOOLEAN /\ mfa \in BOOLEAN
    BY DEF Init
  <2> QED
    BY <1>1, <2>1, <2>2, <2>3 DEF Init, TypeOK, Requests
<1>3. ShapeInv
  BY <1>1 DEF Init, ShapeInv, None
<1>4. OwnInv
  BY <1>1 DEF OwnInv, OnlyOwnCredentials
<1>5. CodeInv
  BY <1>1 DEF Init, CodeInv, MfaOnlyFirst
<1>6. ParseInv
  <2>1. Kept(at - 1) = {} /\ Cardinality({}) = 0
    BY FS_EmptySet DEF Init, Kept
  <2>2. at = 1 /\ Len(raw) \in Nat /\ pc = "parse"
    BY <1>2 DEF Init, TypeOK
  <2>3. at \in 1..Len(raw) + 1
    BY <2>2
  <2>4. Len(named) = Cardinality(Kept(at - 1))
    BY <1>1, <2>1
  <2>5. \A k \in Kept(at - 1) : named[Cardinality(Kept(k))] = raw[k]
    BY <2>1
  <2> QED
    BY <2>2, <2>3, <2>4, <2>5 DEF ParseInv
<1>7. OrderInv
  BY <1>1 DEF Init, OrderInv, InOrder
<1> QED
  BY <1>2, <1>3, <1>4, <1>5, <1>6, <1>7 DEF WalkInv

LEMMA NextWalkInv == WalkInv /\ [Next]_rvars => WalkInv'
  BY TypeStep, ShapeStep, OwnStep, CodeStep, ParseStep, OrderStep DEF WalkInv

\* The invariant of a walk, for any chain over any roles.
THEOREM WalkInvariance == Spec => []WalkInv
<1> QED
  BY WalkInit, NextWalkInv, PTL DEF Spec

\* The variables of a walk keep their types; credentials are made of links.
THEOREM ChainTypes == Spec => []TypeOK
<1>1. WalkInv => TypeOK
  BY DEF WalkInv
<1> QED
  BY <1>1, WalkInvariance, PTL

LEMMA InvImpliesWalked == WalkInv => WalkedInOrder
<1> SUFFICES ASSUME WalkInv, pc # "parse" PROVE WalkedInOrder
  BY DEF WalkedInOrder
<1>1. NamedInOrder
  <2>1. Len(raw) \in Nat
    BY DEF WalkInv, TypeOK
  <2>2. at - 1 = Len(raw)
    BY <2>1 DEF WalkInv, ParseInv
  <2> QED
    BY <2>2 DEF WalkInv, ParseInv, NamedInOrder
<1>2. ASSUME ~keyPair, ~unnamed, pc = "ok"
      PROVE  Len(calls) = Len(named) - Source /\ prior = named
  <2>1. /\ Len(prior) = Source + Len(calls) /\ Len(prior) + Len(chain) = Len(named)
        /\ Len(chain) = 0 /\ \A j \in 1..Len(prior) : prior[j] = named[j]
    BY <1>2 DEF WalkInv, OrderInv
  <2>2. /\ Len(prior) \in Nat /\ Len(calls) \in Nat /\ Len(named) \in Nat /\ Source \in 0..1
        /\ named \in Seq(Links)
    BY DEF WalkInv, TypeOK, Credentials, Source
  <2>3. Len(prior) = Len(named)
    BY <2>1, <2>2
  <2>4. prior = SubSeq(named, 1, Len(named))
    BY <2>1, <2>2, <2>3, PriorIsPrefix DEF WalkInv
  <2> QED
    BY <2>1, <2>2, <2>3, <2>4, SubSeqFull
<1> QED
  BY <1>1, <1>2 DEF WalkInv, OrderInv, InOrder, WalkedInOrder

\* Whatever --chain holds, its roles are assumed in its order, each with exactly the
\* credentials of the step before, and success means all of them.
THEOREM WalkOrder == Spec => []WalkedInOrder
<1> QED
  BY InvImpliesWalked, WalkInvariance, PTL

\* Whatever the chain, the caller's inputs and the answers of AWS, every request is signed
\* with credentials of this walk.
THEOREM OwnCredentials == Spec => []OnlyOwnCredentials
<1>1. WalkInv => OnlyOwnCredentials
  BY DEF WalkInv, OwnInv
<1> QED
  BY <1>1, WalkInvariance, PTL

\* Whatever the chain, the MFA code goes with the requests for the first role only.
THEOREM CodeForFirst == Spec => []MfaOnlyFirst
<1>1. WalkInv => MfaOnlyFirst
  BY DEF WalkInv, CodeInv
<1> QED
  BY <1>1, WalkInvariance, PTL
=============================================================================
