-------------------------- MODULE InvocationProofs --------------------------
(***************************************************************************)
(* Proofs, for every command line and environment, of what a run of the    *)
(* program checks before it acts and of what its exit status tells (module *)
(* Invocation).                                                            *)
(***************************************************************************)
EXTENDS Invocation, TLAPS

\* The command line and the environment.
InputInv ==
  /\ sub \in {"role", "idp"}
  /\ pty \in BOOLEAN /\ args \in BOOLEAN

\* How far the run has come.
BeforeRun   == {"config", "preRun", "run"}
BeforeStart == BeforeRun \cup {"refresh", "identity", "login", "chain", "hit", "exec"}

\* A hook is called on what the hooks before it let through, and on flags merged once.
HookInv ==
  /\ pc # "config" => held = Merged
  /\ pc \in BeforeRun => ran = {}
  /\ pc \notin {"config", "ended"} \/ ran # {} => Missing = {}
  /\ pc \notin {"config", "preRun", "ended"} \/ ran # {} => (sub = "idp" => IdpInputOk)

\* Only the idp sub-command asks Cognito, and refreshes only without a token.
OriginInv ==
  /\ pc \in {"refresh", "identity", "login"} => sub = "idp"
  /\ pc = "refresh" => "token" \notin held
  /\ pc \in {"identity", "login"} =>
       IF "token" \in held THEN idToken = "given" ELSE idToken \in {"refreshed", "blank"}

\* A command exists from Start on, waited for or in a pseudo-terminal.
CommandInv ==
  /\ pc \in BeforeStart => command = "none"
  /\ pc = "wait" => ~pty /\ command \in {"limited", "running"}
  /\ pc = "pty" => pty /\ command = "running"
  /\ pc = "postRun" /\ ~pty => command = "ok"
  /\ StatusTellsOutcome

InvocationInv == TypeOK /\ InputInv /\ HookInv /\ OriginInv /\ CommandInv

\* What depends on the input only is decided once.
LEMMA InputFixed ==
  ASSUME UNCHANGED input
  PROVE  /\ Merged' = Merged /\ Missing' = Missing
         /\ held' = held => (IdpInputOk' <=> IdpInputOk)
<1>1. UNCHANGED <<sub, src, google, asked, pty, args>>
  BY DEF input
<1>2. Merged' = Merged
  BY <1>1 DEF Merged
<1>3. Missing' = Missing
  BY <1>1 DEF Missing, IsSetInCommand
<1> QED
  BY <1>1, <1>2, <1>3 DEF IdpInputOk

LEMMA InitInvocationInv == Init => InvocationInv
<1> SUFFICES ASSUME Init PROVE InvocationInv
  OBVIOUS
<1>1. TypeOK
  BY DEF Init, TypeOK, Running
<1>2. InputInv /\ HookInv /\ OriginInv /\ CommandInv
  BY DEF Init, InputInv, HookInv, BeforeRun, OriginInv, CommandInv, StatusTellsOutcome
<1> QED
  BY <1>1, <1>2 DEF InvocationInv

\* The hooks of cobra.go, up to Run.
LEMMA HookStep ==
  ASSUME InvocationInv, Configure \/ PreRun \/ Run \/ PostRun
  PROVE  InvocationInv'
<1> USE InputFixed
    DEF InvocationInv, TypeOK, InputInv, HookInv, OriginInv, CommandInv, BeforeRun, BeforeStart,
        StatusTellsOutcome, Exit, Running
<1>1. CASE Configure
  <2>1. held' \subseteq Flags[sub] /\ timeout' \in Nat /\ UNCHANGED input
    BY <1>1 DEF Configure, Merged, MergedTimeout
  <2>2. /\ pc = "config" /\ ran = {} /\ command = "none"
        /\ pc' \in {"preRun", "ended"} /\ (pc' = "preRun" => Missing = {})
        /\ exit' \in 0..256 /\ (pc' = "ended" => exit' = 1)
        /\ UNCHANGED <<idToken, command, ran>>
        /\ held' = Merged /\ Merged' = Merged /\ Missing' = Missing
    BY <1>1, <2>1 DEF Configure
  <2> QED
    BY <2>1, <2>2 DEF input
<1>2. CASE PreRun
  BY <1>2 DEF PreRun, input
<1>3. CASE Run
  BY <1>3 DEF Run, input
<1>4. CASE PostRun
  BY <1>4 DEF PostRun, input
<1> QED
  BY <1>1, <1>2, <1>3, <1>4

\* The providers of credentials.
LEMMA ProviderStep ==
  ASSUME InvocationInv, ProviderFails \/ Refresh \/ GetId \/ GetCredentials \/ WalkChain
  PROVE  InvocationInv'
<1> USE InputFixed
    DEF InvocationInv, TypeOK, InputInv, HookInv, OriginInv, CommandInv, BeforeRun, BeforeStart,
        StatusTellsOutcome, Exit, Running
<1>1. CASE ProviderFails
  BY <1>1 DEF ProviderFails, input
<1>2. CASE Refresh
  BY <1>2 DEF Refresh, input
<1>3. CASE GetId
  BY <1>3 DEF GetId, input
<1>4. CASE GetCredentials
  BY <1>4 DEF GetCredentials, input
<1>5. CASE WalkChain
  BY <1>5 DEF WalkChain, input
<1> QED
  BY <1>1, <1>2, <1>3, <1>4, <1>5

\* The execution of the command.
LEMMA CommandStep ==
  ASSUME InvocationInv,
         NoCommand \/ NoValue \/ Start \/ StartFails \/ CommandEnds \/ PtyRawFails \/ PtyEnds
  PROVE  InvocationInv'
<1> USE InputFixed
    DEF InvocationInv, TypeOK, InputInv, HookInv, OriginInv, CommandInv, BeforeRun, BeforeStart,
        StatusTellsOutcome, Exit, Running
<1>0. CASE NoCommand
  BY <1>0 DEF NoCommand, input
<1>1. CASE NoValue
  BY <1>1 DEF NoValue, input
<1>2. CASE Start
  BY <1>2 DEF Start, Limited, input
<1>3. CASE StartFails
  BY <1>3 DEF StartFails, input
<1>4. CASE CommandEnds
  <2>1. command' # "ok" => Code(command') \in 1..255
    BY DEF Code
  <2> QED
    BY <1>4, <2>1 DEF CommandEnds, input
<1>5. CASE PtyRawFails
  BY <1>5 DEF PtyRawFails, input
<1>6. CASE PtyEnds
  BY <1>6 DEF PtyEnds, input
<1> QED
  BY <1>0, <1>1, <1>2, <1>3, <1>4, <1>5, <1>6

\* Every step keeps what the run knows of its input and of its command.
LEMMA NextInvocationInv == InvocationInv /\ [Next]_ivars => InvocationInv'
<1>1. ASSUME InvocationInv, UNCHANGED ivars PROVE InvocationInv'
  BY <1>1, InputFixed
  DEF InvocationInv, TypeOK, InputInv, HookInv, OriginInv, CommandInv, StatusTellsOutcome,
      ivars, input
<1> QED
  BY <1>1, HookStep, ProviderStep, CommandStep DEF Next, Ended

\* The invariant of a run, whatever its input and whoever fails.
THEOREM InvocationInvariance == Spec => []InvocationInv
<1> QED
  BY InitInvocationInv, NextInvocationInv, PTL DEF Spec

\* The variables of a run keep their types; in particular its exit status is a byte.
THEOREM InvocationTypes == Spec => []TypeOK
<1>1. InvocationInv => TypeOK
  BY DEF InvocationInv
<1> QED
  BY <1>1, InvocationInvariance, PTL

\* A flag is held when it was given, and is given when the flag or its variable is set.
LEMMA HeldIsGiven ==
  ASSUME held = Merged, NEW f \in Flags[sub]
  PROVE  f \in held <=> Given(f)
  BY DEF Merged, Given

LEMMA InvImpliesValid == InvocationInv => RunOnlyOnValidInput
<1> SUFFICES ASSUME InvocationInv, "run" \in ran PROVE RunOnlyOnValidInput
  BY DEF RunOnlyOnValidInput
<1>1. Missing = {} /\ held = Merged /\ (sub = "idp" => IdpInputOk) /\ sub \in {"role", "idp"}
  BY DEF InvocationInv, HookInv, BeforeRun, InputInv
<1>2. \A f \in Flags[sub] \cap Required(sub) : f \in held \/ src[f] \in {"empty", "dashed"}
  BY <1>1 DEF Missing, IsSetInCommand, Merged
<1>3. Flags[sub] \cap {"chain", "role", "pool-id", "name"} \subseteq Required(sub)
  BY <1>1 DEF Flags, Required
<1>4. ASSUME sub = "idp"
      PROVE  /\ Given("token") # Given("refresh")
             /\ Given("refresh") => Given("client-id") /\ Given("client-secret") /\ google
  <2>1. {"token", "refresh", "client-id", "client-secret"} \subseteq Flags[sub]
    BY <1>4 DEF Flags
  <2>2. \A f \in {"token", "refresh", "client-id", "client-secret"} : f \in held <=> Given(f)
    BY <1>1, <2>1, HeldIsGiven
  <2> QED
    BY <1>1, <1>4, <2>2 DEF IdpInputOk, Given
<1> QED
  BY <1>2, <1>3, <1>4 DEF RunOnlyOnValidInput

\* The sub-command runs only on input that the hooks before it checked: with a value for every
\* required key, unless it was given as the empty string or under the name with dashes, and
\* with one token or the other.
THEOREM RunIsChecked == Spec => []RunOnlyOnValidInput
<1> QED
  BY InvImpliesValid, InvocationInvariance, PTL

\* Cognito is asked with the token the user gave, or else with a refreshed one.
THEOREM TokenOrigin == Spec => []TokenHasOneOrigin
<1>1. InvocationInv => TokenHasOneOrigin
  <2> SUFFICES ASSUME InvocationInv, pc \in {"identity", "login"} PROVE TokenHasOneOrigin
    BY DEF TokenHasOneOrigin
  <2>1. "token" \in Flags[sub] /\ held = Merged
    BY DEF InvocationInv, OriginInv, HookInv, Flags
  <2>2. "token" \in held <=> Given("token")
    BY <2>1, HeldIsGiven
  <2> QED
    BY <2>2 DEF InvocationInv, OriginInv, TokenHasOneOrigin
<1> QED
  BY <1>1, InvocationInvariance, PTL

\* Outside a pseudo-terminal the exit status is 0 when the command succeeded, and otherwise
\* only when a cached value without its secret kept the command from being made.
THEOREM StatusTells == Spec => []StatusTellsOutcome
<1>1. InvocationInv => StatusTellsOutcome
  BY DEF InvocationInv, CommandInv
<1> QED
  BY <1>1, InvocationInvariance, PTL
=============================================================================
