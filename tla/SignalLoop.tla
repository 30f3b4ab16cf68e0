----------------------------- MODULE SignalLoop ------------------------------
(***************************************************************************)
(* DefaultSession.OnSignal (cage/cli/handler/handler.go): each call starts *)
(* a goroutine that selects between a signal, for which it runs the given  *)
(* function, and the end, which the returned cancel asks for.  Both        *)
(* channels hold one value.  Several handlers may be registered for the    *)
(* same signal; the function of a handler may call its own cancel.         *)
(*                                                                         *)
(* signal.Stop is never called: a handler that has ended keeps its channel *)
(* registered, so the signal never gets its default effect back.           *)
(*                                                                         *)
(* Definitions whose comment starts with "Mutant" are wrong on purpose and *)
(* used by no action.                                                      *)
(***************************************************************************)
EXTENDS Naturals

CONSTANTS
  Handlers,  \* calls of OnSignal
  MaxCancels \* bound: calls of one handler's cancel

ASSUME MaxCancelsAssumption == MaxCancels \in Nat

VARIABLES
  loop,    \* where a handler's goroutine stands; "cancels" is inside f, sending on doneCh
  sigCh,   \* values in sigCh
  doneCh,  \* values in doneCh
  outside, \* goroutines inside cancel, other than the handler's own
  cancels, \* calls of cancel so far
  owed     \* history: a signal came since f was last started

hvars == <<loop, sigCh, doneCh, outside, cancels, owed>>

SignalTypeOK ==
  /\ loop \in [Handlers -> {"none", "select", "f", "cancels", "ended"}]
  /\ sigCh \in [Handlers -> 0..1]
  /\ doneCh \in [Handlers -> 0..1]
  /\ outside \in [Handlers -> 0..MaxCancels]
  /\ cancels \in [Handlers -> 0..MaxCancels]
  /\ owed \in [Handlers -> BOOLEAN]

Init ==
  /\ loop = [h \in Handlers |-> "none"]
  /\ sigCh = [h \in Handlers |-> 0]
  /\ doneCh = [h \in Handlers |-> 0]
  /\ outside = [h \in Handlers |-> 0]
  /\ cancels = [h \in Handlers |-> 0]
  /\ owed = [h \in Handlers |-> FALSE]

OnSignal(h) ==
  /\ loop[h] = "none"
  /\ loop' = [loop EXCEPT ![h] = "select"]
  /\ UNCHANGED <<sigCh, doneCh, outside, cancels, owed>>

Registered == {h \in Handlers : loop[h] # "none"}

\* Mutant: sigCh has no place: a signal is lost unless the goroutine waits for it.
SignalIfWaiting ==
  /\ Registered # {}
  /\ sigCh' = [h \in Handlers |-> IF loop[h] = "select" THEN 1 ELSE sigCh[h]]
  /\ owed' = [h \in Handlers |-> owed[h] \/ h \in Registered]
  /\ UNCHANGED <<loop, doneCh, outside, cancels>>

\* A signal: package signal sends it to every channel registered, and drops it where the
\* channel is full.
Signal ==
  /\ Registered # {}
  /\ sigCh' = [h \in Handlers |-> IF h \in Registered THEN 1 ELSE sigCh[h]]
  /\ owed' = [h \in Handlers |-> owed[h] \/ h \in Registered]
  /\ UNCHANGED <<loop, doneCh, outside, cancels>>

TakeSignal(h) ==
  /\ loop[h] = "select"
  /\ sigCh[h] = 1
  /\ sigCh' = [sigCh EXCEPT ![h] = 0]
  /\ owed' = [owed EXCEPT ![h] = FALSE]
  /\ loop' = [loop EXCEPT ![h] = "f"]
  /\ UNCHANGED <<doneCh, outside, cancels>>

TakeDone(h) ==
  /\ loop[h] = "select"
  /\ doneCh[h] = 1
  /\ doneCh' = [doneCh EXCEPT ![h] = 0]
  /\ loop' = [loop EXCEPT ![h] = "ended"]
  /\ UNCHANGED <<sigCh, outside, cancels, owed>>

CallbackReturn(h) ==
  /\ loop[h] = "f"
  /\ loop' = [loop EXCEPT ![h] = "select"]
  /\ UNCHANGED <<sigCh, doneCh, outside, cancels, owed>>

\* f calls cancel.
CallbackCancels(h) ==
  /\ loop[h] = "f"
  /\ cancels[h] < MaxCancels
  /\ cancels' = [cancels EXCEPT ![h] = @ + 1]
  /\ loop' = [loop EXCEPT ![h] = "cancels"]
  /\ UNCHANGED <<sigCh, doneCh, outside, owed>>

\* Mutant: doneCh has no place, so cancel waits for the goroutine, which waits for f.
SentToLoop(h) ==
  /\ loop[h] = "cancels" /\ loop[h] = "select" \* the sender is the receiver
  /\ loop' = [loop EXCEPT ![h] = "ended"]
  /\ UNCHANGED <<sigCh, doneCh, outside, cancels, owed>>

\* The send of f's own cancel: only f's return could empty a full channel.
CallbackSent(h) ==
  /\ loop[h] = "cancels"
  /\ doneCh[h] = 0
  /\ doneCh' = [doneCh EXCEPT ![h] = 1]
  /\ loop' = [loop EXCEPT ![h] = "f"]
  /\ UNCHANGED <<sigCh, outside, cancels, owed>>

\* Another goroutine calls cancel.
Cancel(h) ==
  /\ h \in Registered
  /\ cancels[h] < MaxCancels
  /\ cancels' = [cancels EXCEPT ![h] = @ + 1]
  /\ outside' = [outside EXCEPT ![h] = @ + 1]
  /\ UNCHANGED <<loop, sigCh, doneCh, owed>>

\* Mutant: the send does not wait for a free place.
CancelOverflows(h) ==
  /\ outside[h] > 0
  /\ doneCh' = [doneCh EXCEPT ![h] = @ + 1]
  /\ outside' = [outside EXCEPT ![h] = @ - 1]
  /\ UNCHANGED <<loop, sigCh, cancels, owed>>

CancelSent(h) ==
  /\ outside[h] > 0
  /\ doneCh[h] = 0
  /\ doneCh' = [doneCh EXCEPT ![h] = 1]
  /\ outside' = [outside EXCEPT ![h] = @ - 1]
  /\ UNCHANGED <<loop, sigCh, cancels, owed>>

Next ==
  \/ Signal
  \/ \E h \in Handlers :
       \/ OnSignal(h)
       \/ TakeSignal(h) \/ TakeDone(h)
       \/ CallbackReturn(h) \/ CallbackCancels(h) \/ CallbackSent(h)
       \/ Cancel(h) \/ CancelSent(h)

Spec == Init /\ [][Next]_hvars

\* f returns unless it is stuck in cancel.  select chooses at random between what is
\* ready, so neither channel is passed over for ever.
FairSpec ==
  /\ Spec
  /\ \A h \in Handlers :
       /\ WF_hvars(CallbackReturn(h)) /\ WF_hvars(CallbackSent(h)) /\ WF_hvars(CancelSent(h))
       /\ SF_hvars(TakeSignal(h)) /\ SF_hvars(TakeDone(h))
-----------------------------------------------------------------------------

\* f sends on a doneCh that an earlier cancel has filled: the goroutine never ends.
StuckInCancel(h) == loop[h] = "cancels" /\ doneCh[h] = 1

\* After each signal f is started once more, unless the handler was cancelled.  That is less
\* than handler.go 73-74 promises, f "every time the signal is received": of the signals that
\* come while f runs, one waits in the channel and answers for all of them.
SignalIsAnswered ==
  \A h \in Handlers : owed[h] ~> ~owed[h] \/ loop[h] = "ended" \/ StuckInCancel(h)

\* A single cancel, wherever it is called from, returns and ends the goroutine: f itself
\* may cancel.  Two calls from outside return as well, because the channel holds what the
\* goroutine does not take; any further one may block for ever.
CancelReturns ==
  \A h \in Handlers :
    /\ [](cancels[h] <= 1) => (cancels[h] = 1 ~> loop[h] = "ended" /\ outside[h] = 0)
    /\ [](cancels[h] <= 2 /\ loop[h] # "cancels") => (outside[h] > 0 ~> outside[h] = 0)
=============================================================================
