----------------------------- MODULE RoleChain ------------------------------
(***************************************************************************)
(* Walking a role chain: Get of cli/handler/mixin/aws/auth/role/role.go    *)
(* and ResolveRoleChain of aws/v1/sts/sts.go.                              *)
(*                                                                         *)
(* Credentials are known by how they were obtained: a seed ("static",      *)
(* "env-triple", "instance"), then each role assumed from it, in order; the *)
(* empty sequence stands for none.  What is asked of AWS is kept in calls. *)
(* Definitions whose comment starts with "Mutant" are wrong on purpose.    *)
(***************************************************************************)
EXTENDS Naturals, Sequences, FiniteSets

CONSTANTS
  Arns,     \* role ARNs
  MaxLinks  \* bound: links between the commas of --chain

Aliases == {"env-triple", "instance"}
Links   == Arns \cup Aliases \cup {"unknown", ""}

ASSUME ArnsAssumption == Arns \cap (Aliases \cup {"unknown", ""}) = {}
ASSUME MaxLinksAssumption == MaxLinks \in Nat

VARIABLES
  raw,     \* --chain, split at its commas, with the spaces trimmed
  at,      \* position of the loop over them
  named,   \* parsedRoleChain, which becomes input.Chain
  chain,   \* the links left to walk
  mfa,     \* whether input carries the MFA serial and code
  asked,   \* whether the caller gave them
  keyPair, \* whether the caller passes a key pair (role.go never does)
  unnamed, \* whether a session name could not be made up
  prior,   \* the credentials of the latest step
  calls,   \* AssumeRole requests: [link, by, mfa]
  pc       \* "parse", "seed", "walk", "ok", or an error

rvars == <<raw, at, named, chain, mfa, asked, keyPair, unnamed, prior, calls, pc>>

None == <<>>
Credentials == Seq(Links \cup {"static"})

TypeOK ==
  /\ raw \in Seq(Links) /\ at \in Nat \ {0}
  /\ named \in Seq(Links) /\ chain \in Seq(Links)
  /\ mfa \in BOOLEAN /\ asked \in BOOLEAN /\ keyPair \in BOOLEAN /\ unnamed \in BOOLEAN
  /\ prior \in Credentials
  /\ calls \in Seq([link : Links, by : Credentials, mfa : BOOLEAN])
  /\ pc \in {"parse", "seed", "walk", "ok", "required", "alias", "source", "nonArn", "denied"}

Init ==
  /\ raw \in UNION {[1..n -> Links] : n \in 1..MaxLinks}
  /\ at = 1 /\ named = <<>> /\ chain = <<>>
  /\ asked \in BOOLEAN /\ keyPair \in BOOLEAN
  /\ mfa = asked
  /\ unnamed = FALSE
  /\ prior = None
  /\ calls = <<>>
  /\ pc = "parse"

NonEmpty(link) == link # ""

\* role.go: a link is taken over, unless it is empty.
ParseLink ==
  /\ pc = "parse" /\ at <= Len(raw)
  /\ named' = IF NonEmpty(raw[at]) THEN Append(named, raw[at]) ELSE named
  /\ at' = at + 1
  /\ UNCHANGED <<raw, chain, mfa, asked, keyPair, unnamed, prior, calls, pc>>

Parse ==
  /\ pc = "parse" /\ at > Len(raw)
  /\ chain' = named
  /\ pc' = IF named = <<>> THEN "required" ELSE "seed"
  /\ UNCHANGED <<raw, at, named, mfa, asked, keyPair, unnamed, prior, calls>>

\* The first link is assumed with the key pair.  The link stays in the chain.
SeedStatic ==
  /\ pc = "seed" /\ keyPair
  /\ calls' = Append(calls, [link |-> chain[1], by |-> <<"static">>, mfa |-> mfa])
  /\ \/ prior' = <<"static", chain[1]>> /\ pc' = "walk"
     \/ prior' = None /\ pc' = "denied"
  /\ UNCHANGED <<raw, at, named, chain, mfa, asked, keyPair, unnamed>>

\* The same without a session name: see AssumeUnnamed.
SeedUnnamed ==
  /\ pc = "seed" /\ keyPair
  /\ unnamed' = TRUE
  /\ pc' = "walk"
  /\ UNCHANGED <<raw, at, named, chain, mfa, asked, keyPair, prior, calls>>

\* Mutant: the credentials of the source are assigned to a shadowing variable.
SeedShadowed ==
  /\ pc = "seed" /\ ~keyPair
  /\ chain[1] \in Aliases
  /\ \/ chain' = Tail(chain) /\ pc' = "walk"
     \/ pc' = "source" /\ UNCHANGED chain
  /\ UNCHANGED <<raw, at, named, mfa, asked, keyPair, unnamed, prior, calls>>

\* An alias names a source that seeds the chain, and leaves it.
SeedAlias ==
  /\ pc = "seed" /\ ~keyPair
  /\ chain[1] \in Aliases
  /\ \/ prior' = <<chain[1]>> /\ chain' = Tail(chain) /\ pc' = "walk"
     \/ pc' = "source" /\ UNCHANGED <<prior, chain>>
  /\ UNCHANGED <<raw, at, named, mfa, asked, keyPair, unnamed, calls>>

RejectAlias ==
  /\ pc = "seed" /\ ~keyPair
  /\ chain[1] \notin Arns \cup Aliases
  /\ pc' = "alias"
  /\ UNCHANGED <<raw, at, named, chain, mfa, asked, keyPair, unnamed, prior, calls>>

\* A chain that starts with an ARN has no seed.
SeedNothing ==
  /\ pc = "seed" /\ ~keyPair
  /\ chain[1] \in Arns
  /\ pc' = "walk"
  /\ UNCHANGED <<raw, at, named, chain, mfa, asked, keyPair, unnamed, prior, calls>>

RejectNonArn ==
  /\ pc = "walk" /\ chain # <<>>
  /\ chain[1] \notin Arns
  /\ pc' = "nonArn"
  /\ UNCHANGED <<raw, at, named, chain, mfa, asked, keyPair, unnamed, prior, calls>>

\* Mutant: the session name is remembered in place of the role.
AssumeRemembersName ==
  /\ pc = "walk" /\ chain # <<>>
  /\ chain[1] \in Arns
  /\ calls' = Append(calls, [link |-> chain[1], by |-> prior, mfa |-> mfa])
  /\ prior' = Append(prior, "session name")
  /\ chain' = Tail(chain)
  /\ mfa' = FALSE
  /\ UNCHANGED <<raw, at, named, asked, keyPair, unnamed, pc>>

\* Mutant: the MFA code is sent with every request.
AssumeKeepsMfa ==
  /\ pc = "walk" /\ chain # <<>>
  /\ chain[1] \in Arns
  /\ calls' = Append(calls, [link |-> chain[1], by |-> prior, mfa |-> mfa])
  /\ prior' = Append(prior, chain[1])
  /\ chain' = Tail(chain)
  /\ UNCHANGED <<raw, at, named, mfa, asked, keyPair, unnamed, pc>>

\* Mutant: with no prior credentials the SDK's default provider, the instance, is used.
AssumeAmbient ==
  /\ pc = "walk" /\ chain # <<>>
  /\ chain[1] \in Arns
  /\ calls' = Append(calls, [link |-> chain[1], mfa |-> mfa,
                             by |-> IF prior = None THEN <<"instance">> ELSE prior])
  /\ prior' = Append(prior, chain[1])
  /\ chain' = Tail(chain)
  /\ mfa' = FALSE
  /\ UNCHANGED <<raw, at, named, asked, keyPair, unnamed, pc>>

\* The next role is assumed with the prior credentials, or with none at all; the MFA
\* code goes with the first request only.
Assume ==
  /\ pc = "walk" /\ chain # <<>>
  /\ chain[1] \in Arns
  /\ calls' = Append(calls, [link |-> chain[1], by |-> prior, mfa |-> mfa])
  /\ prior' = Append(prior, chain[1])
  /\ chain' = Tail(chain)
  /\ mfa' = FALSE
  /\ UNCHANGED <<raw, at, named, asked, keyPair, unnamed, pc>>

\* AWS or the session refuses.
AssumeDenied ==
  /\ pc = "walk" /\ chain # <<>>
  /\ chain[1] \in Arns
  /\ calls' = Append(calls, [link |-> chain[1], by |-> prior, mfa |-> mfa])
  /\ pc' = "denied"
  /\ UNCHANGED <<raw, at, named, chain, mfa, asked, keyPair, unnamed, prior>>

\* No random session name: the wrapped error is a nil one, so the walk goes on with
\* empty credentials and without a request.
AssumeUnnamed ==
  /\ pc = "walk" /\ chain # <<>>
  /\ chain[1] \in Arns
  /\ unnamed' = TRUE
  /\ prior' = None
  /\ chain' = Tail(chain)
  /\ mfa' = FALSE
  /\ UNCHANGED <<raw, at, named, asked, keyPair, calls, pc>>

Finish ==
  /\ pc = "walk" /\ chain = <<>>
  /\ pc' = "ok"
  /\ UNCHANGED <<raw, at, named, chain, mfa, asked, keyPair, unnamed, prior, calls>>

Done == pc \notin {"parse", "seed", "walk"} /\ UNCHANGED rvars

Next ==
  \/ ParseLink \/ Parse \/ SeedStatic \/ SeedUnnamed \/ SeedAlias \/ RejectAlias \/ SeedNothing
  \/ RejectNonArn \/ Assume \/ AssumeDenied \/ AssumeUnnamed \/ Finish
  \/ Done

Spec == Init /\ [][Next]_rvars
-----------------------------------------------------------------------------

\* A source that the chain names does not have to be assumed.
Source == IF named # <<>> /\ named[1] \in Aliases THEN 1 ELSE 0

\* The links of raw up to k that are not empty.
Kept(k) == {j \in 1..k : NonEmpty(raw[j])}

\* role.go 40-46: what --chain names is what is walked, each link in its place.
NamedInOrder ==
  /\ Len(named) = Cardinality(Kept(Len(raw)))
  /\ \A k \in Kept(Len(raw)) : named[Cardinality(Kept(k))] = raw[k]

\* sts.go 151-152: the walk of --chain assumes every role of it once, in its order, each
\* with exactly the credentials that the step before it gave, and ends with those of the
\* last: a walk that reports success has them to show.  A key pair has the first role
\* assumed twice (173, 233), and a role without a session name is passed over (126).
WalkedInOrder ==
  pc # "parse" =>
    /\ NamedInOrder
    /\ ~keyPair /\ ~unnamed =>
         /\ \A i \in 1..Len(calls) :
              /\ Source + i <= Len(named) /\ calls[i].link = named[Source + i]
              /\ calls[i].by = SubSeq(named, 1, Source + i - 1)
         /\ pc = "ok" => Len(calls) = Len(named) - Source /\ prior = named

\* sts.go 238: "Only support MFA for the first role assumption in the chain."  With a key
\* pair the first role is assumed twice, and the code goes with both requests.
MfaOnlyFirst ==
  \A i \in 1..Len(calls) :
    /\ calls[i].mfa => asked /\ i <= (IF keyPair THEN 2 ELSE 1)
    /\ calls[i].mfa /\ i = 2 => calls[2].link = calls[1].link
    /\ asked /\ ~unnamed /\ i = 1 => calls[i].mfa

\* Every request is signed with credentials of this very walk: the source that the chain
\* or the caller named, or a role that an earlier request asked for.  In particular the
\* instance's own role is used only by a chain that starts with it (sts.go 219-225).
OnlyOwnCredentials ==
  LET seed == IF keyPair THEN "static" ELSE named[1]
  IN \A i \in 1..Len(calls) : \A k \in 1..Len(calls[i].by) :
       calls[i].by[k] = seed \/ \E j \in 1..i - 1 : calls[i].by[k] = calls[j].link
=============================================================================
