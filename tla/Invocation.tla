----------------------------- MODULE Invocation -----------------------------
(***************************************************************************)
(* One run of the program, from the command line to its exit status: the   *)
(* hooks that cage/cli/handler/cobra installs, the mixins of the role and  *)
(* idp sub-commands, and the execution of the command in or out of a       *)
(* pseudo-terminal.  Credential caching (module CredentialCache), the role *)
(* chain (RoleChain) and the command's pipeline (Pipeline) have modules of *)
(* their own; here each is one step that succeeds or fails.                *)
(*                                                                         *)
(* A string flag is known by where its value comes from:                   *)
(*   "none"   nowhere                                                      *)
(*   "flag"   the command line, which shadows the environment              *)
(*   "empty"  the command line, as the empty string                        *)
(*   "env"    AWS_EXEC_CMD_KEY_NAME, dashes of the key as underscores      *)
(*   "dashed" the same with the dashes of the key kept                     *)
(* Only required flags are told "empty": an optional one is then as if not *)
(* given.  --timeout is known by the numbers given in either place.  A     *)
(* command line that cobra itself refuses is left out.                     *)
(* Definitions whose comment starts with "Mutant" are wrong on purpose and *)
(* used by no action.                                                      *)
(***************************************************************************)
EXTENDS Integers

VARIABLES
  sub,     \* sub-command
  src,     \* where the value of each of its string flags comes from
  google,  \* --name is the provider that --refresh supports
  asked,   \* --timeout: in either place the number given, or none
  pty,     \* --pty
  args,    \* a command was given
  held,    \* string flags whose bound variable is not empty
  timeout, \* the bound variable of --timeout
  pc,      \* the next hook or call
  idToken, \* the token Cognito is asked with
  command, \* the command: "none", "startErr", "running", "limited", how it ended, or
           \* "keyless": not made, because its credentials have no secret
  ran,     \* hooks that were called
  exit     \* exit status, once the program ended

input == <<sub, src, google, asked, pty, args>>
ivars == <<input, held, timeout, pc, idToken, command, ran, exit>>

Flags ==
  [role |-> {"chain"},
   idp  |-> {"role", "pool-id", "name", "token", "refresh", "client-id", "client-secret"}]

\* Mutant: each mixin's list replaces the one before it.
LastMixinOnly(s) == IF s = "idp" THEN {"pool-id", "name"} ELSE {}

\* The keys that the mixins' BindCobraFlags return, appended.
Required(s) == IF s = "idp" THEN {"role", "pool-id", "name"} ELSE {"chain"}

Hyphenated == {"pool-id", "client-id", "client-secret"}

Sources(s, f) ==
  {"none", "flag", "env"} \cup (IF f \in Required(s) THEN {"empty"} ELSE {})
                          \cup (IF f \in Required(s) \cap Hyphenated THEN {"dashed"} ELSE {})

\* What may be given to --timeout: nothing or one number; 3 stands for any positive one, 0
\* for any other.  A variable that is no number is in the place of nothing.
Seconds == {{}, {0}, {3}}

\* The value of exit while the program runs.
Running == 256

Init ==
  /\ sub \in {"role", "idp"}
  /\ src \in [Flags[sub] -> {"none", "flag", "env", "empty", "dashed"}]
  /\ \A f \in Flags[sub] : src[f] \in Sources(sub, f)
  /\ asked \in [{"flag", "env"} -> Seconds]
  /\ sub = "idp" => asked["flag"] = {} /\ asked["env"] = {} \* bound: one mixin for both
  /\ google \in BOOLEAN /\ pty \in BOOLEAN /\ args \in BOOLEAN
  /\ held = {}
  /\ timeout = 0
  /\ pc = "config"
  /\ idToken = "none"
  /\ command = "none"
  /\ ran = {}
  /\ exit = Running

TypeOK ==
  /\ held \subseteq Flags[sub]
  /\ timeout \in Nat
  /\ pc \in {"config", "preRun", "run", "refresh", "identity", "login", "chain", "hit", "exec",
             "wait", "pty", "postRun", "ended"}
  /\ idToken \in {"none", "given", "refreshed", "blank"}
  /\ command \in {"none", "startErr", "running", "limited", "ok", "failed", "copyErr", "killed",
                   "keyless"}
  /\ ran \subseteq {"run", "postRun"}
  /\ exit \in 0..Running

Exit(code) == exit' = code /\ pc' = "ended"

-----------------------------------------------------------------------------
(* Hooks of cobra.go *)

\* IsSetInCommand: the flag was changed, or the variable named with the key's own dashes
\* is not empty.
IsSetInCommand(f) ==
  src[f] \in {"flag", "empty"} \cup (IF f \in Hyphenated THEN {"dashed"} ELSE {"env"})

Missing == {f \in Required(sub) : ~IsSetInCommand(f)}

\* Mutant: a flag is merged only from the command line.
MergeFlagsOnly == {f \in Flags[sub] : src[f] = "flag"}

\* MergeConfig: a flag that was not changed takes the variable's value.
Merged == {f \in Flags[sub] : src[f] \in {"flag", "env"}}

\* The int case: a number on the command line stays, whatever it is.  Otherwise GetInt reads
\* a variable that is not there, or is no number, as 0; what it reads is written back in
\* digits, so that Set cannot refuse it and lastErr stays nil for the flags there are.
MergedTimeout ==
  LET given == IF asked["flag"] # {} THEN asked["flag"] ELSE asked["env"]
  IN IF 3 \in given THEN 3 ELSE 0

\* Config.PreRun, before any mixin: usage and status 1 when a required key is missing.
Configure ==
  /\ pc = "config"
  /\ held' = Merged
  /\ timeout' = MergedTimeout
  /\ IF Missing = {} THEN pc' = "preRun" /\ UNCHANGED exit ELSE Exit(1)
  /\ UNCHANGED <<input, idToken, command, ran>>

\* PreRun of the idp mixin: one token or the other, and with --refresh what it takes.
IdpInputOk ==
  IF "token" \in held THEN "refresh" \notin held
  ELSE {"name", "refresh", "client-id", "client-secret"} \subseteq held /\ google

\* PreRun of every mixin that has one.  An error of it makes Execute fail: main panics.
PreRun ==
  /\ pc = "preRun"
  /\ IF sub = "idp" /\ ~IdpInputOk THEN Exit(2) ELSE pc' = "run" /\ UNCHANGED exit
  /\ UNCHANGED <<input, held, timeout, idToken, command, ran>>

\* Run of the sub-command, into Credentials: from the cache, from the provider, or not
\* at all (cache, home directory, MFA prompt).
Run ==
  /\ pc = "run"
  /\ ran' = ran \cup {"run"}
  /\ \/ pc' = "hit" /\ UNCHANGED exit
     \/ pc' = (IF sub = "role" THEN "chain"
               ELSE IF "token" \in held THEN "identity" ELSE "refresh") /\ UNCHANGED exit
     \/ Exit(1)
  /\ idToken' = IF pc' = "identity" THEN "given" ELSE idToken
  /\ UNCHANGED <<input, held, timeout, command>>

\* PostRun hooks, then Execute returns nil and main with it.
PostRun ==
  /\ pc = "postRun"
  /\ ran' = ran \cup {"postRun"}
  /\ Exit(0)
  /\ UNCHANGED <<input, held, timeout, idToken, command>>

-----------------------------------------------------------------------------
(* Providers *)

\* ExitOnErr: whatever the provider could not do ends the program.
ProviderFails ==
  /\ pc \in {"refresh", "identity", "login", "chain"}
  /\ Exit(1)
  /\ UNCHANGED <<input, held, timeout, idToken, command, ran>>

\* RequestRefresh: the status of the response is not looked at, so a document without an
\* id_token yields the empty one.
Refresh ==
  /\ pc = "refresh"
  /\ idToken' \in {"refreshed", "blank"}
  /\ pc' = "identity"
  /\ UNCHANGED <<input, held, timeout, command, ran, exit>>

\* SingleIdentityLogin: the user of the pool, then its credentials.
GetId ==
  /\ pc = "identity"
  /\ pc' = "login"
  /\ UNCHANGED <<input, held, timeout, idToken, command, ran, exit>>

GetCredentials ==
  /\ pc = "login"
  /\ pc' = "exec"
  /\ UNCHANGED <<input, held, timeout, idToken, command, ran, exit>>

\* ResolveRoleChain.  No link left between the commas is an error (ProviderFails).
WalkChain ==
  /\ pc = "chain"
  /\ "chain" \in held
  /\ pc' = "exec"
  /\ UNCHANGED <<input, held, timeout, idToken, command, ran, exit>>

-----------------------------------------------------------------------------
(* Exec.Do and ExecAs *)

\* The command line has no command: found out only once there are credentials.
NoCommand ==
  /\ pc \in {"hit", "exec"} /\ ~args
  /\ Exit(1)
  /\ UNCHANGED <<input, held, timeout, idToken, command, ran>>

\* A cached value without its secret: no command is made, the result map is empty, and so is
\* the status read from it.  Fresh credentials have proved complete in Credentials.
NoValue ==
  /\ pc = "hit" /\ args
  /\ command' = "keyless"
  /\ Exit(0)
  /\ UNCHANGED <<input, held, timeout, idToken, ran>>

\* Outside a pseudo-terminal, a positive --timeout limits the command's context.
Limited == ~pty /\ timeout > 0

Start ==
  /\ pc \in {"hit", "exec"} /\ args
  /\ command' = IF Limited THEN "limited" ELSE "running"
  /\ pc' = IF pty THEN "pty" ELSE "wait"
  /\ UNCHANGED <<input, held, timeout, idToken, ran, exit>>

\* Result.Code of a start error is -1; in a pseudo-terminal there is no result at all.
StartFails ==
  /\ pc \in {"hit", "exec"} /\ args
  /\ command' = "startErr"
  /\ Exit(IF pty THEN 0 ELSE 255)
  /\ UNCHANGED <<input, held, timeout, idToken, ran>>

\* Mutant: the -1 of a death by signal is not cut to a byte.
UncutCode(how) == CASE how = "failed" -> 3 [] how = "killed" -> 0 - 1 [] OTHER -> 1

\* Mutant: only an ExitError changes the code.
CodeOfExitOnly(how) == CASE how = "failed" -> 3 [] how = "killed" -> 255 [] OTHER -> 0

\* Result.Code as a status: 1, then the wait status if there is one; a death by signal
\* is -1.  3 stands for any status of a failed command.
Code(how) == CASE how = "failed" -> 3 [] how = "killed" -> 255 [] OTHER -> 1

\* Standard returns: the command ended, or was killed, by --timeout or by anybody else.
CommandEnds ==
  /\ pc = "wait"
  /\ command' \in {"ok", "failed", "copyErr", "killed"}
  /\ IF command' = "ok" THEN pc' = "postRun" /\ UNCHANGED exit ELSE Exit(Code(command'))
  /\ UNCHANGED <<input, held, timeout, idToken, ran>>

\* MakeRaw: stdin is not a terminal.  The command goes on without its master.
PtyRawFails ==
  /\ pc = "pty"
  /\ Exit(0)
  /\ UNCHANGED <<input, held, timeout, idToken, command, ran>>

\* The copy of the terminal's output ends, as a rule with the command, which is not
\* waited for.
PtyEnds ==
  /\ pc = "pty"
  /\ command' \in {"running", "ok", "failed", "killed"}
  /\ pc' = "postRun"
  /\ UNCHANGED <<input, held, timeout, idToken, ran, exit>>

Ended == pc = "ended" /\ UNCHANGED ivars

Next ==
  \/ Configure \/ PreRun \/ Run \/ PostRun
  \/ ProviderFails \/ Refresh \/ GetId \/ GetCredentials \/ WalkChain
  \/ NoCommand \/ NoValue \/ Start \/ StartFails \/ CommandEnds \/ PtyRawFails \/ PtyEnds
  \/ Ended

Spec == Init /\ [][Next]_ivars
-----------------------------------------------------------------------------

Given(f) == src[f] \in {"flag", "env"}

\* handler.go 51: the sub-command runs only on input that every hook before it let
\* through, wherever its values came from.  A required key has reached its bound variable,
\* with two exceptions: given as the empty string, and as a variable under the name that
\* is looked for but never read (viper.go 36).
RunOnlyOnValidInput ==
  "run" \in ran =>
    /\ \A f \in Flags[sub] \cap {"chain", "role", "pool-id", "name"} :
         f \in held \/ src[f] \in {"empty", "dashed"}
    /\ sub = "idp" =>
         /\ Given("token") # Given("refresh")
         /\ Given("refresh") => Given("client-id") /\ Given("client-secret") /\ google

\* Cognito is asked with the user's ID token wherever it came from, and with the answer
\* to a refresh, be it blank, only if there is none (idp.go 57-110).
TokenHasOneOrigin ==
  pc \in {"identity", "login"} =>
    IF Given("token") THEN idToken = "given" ELSE idToken \in {"refreshed", "blank"}

\* Outside a pseudo-terminal a status of 0 says that the command succeeded, whoever else
\* failed on the way to it (exec.go 311-324, mixin.go 77-80), with one exception: a cached
\* value without its secret, for which no command is made (aws.go 33-36).  And the command's
\* success is never told as a failure.
StatusTellsOutcome ==
  pc = "ended" /\ ~pty =>
    /\ exit = 0 => command \in {"ok", "keyless"}
    /\ command = "ok" => exit = 0

\* The program refused its input before Run.
Rejected == pc = "ended" /\ ran = {}

\* config/viper/viper.go 22 and cobra.go 164: a key is looked up as KEY_NAME, dashes
\* replaced; config.go 80: only what both flags and environment miss is an error.
EnvSatisfiesRequired ==
  Rejected /\ exit = 1 => \E f \in Required(sub) : ~Given(f)
=============================================================================
