--------------------------- MODULE SignalLoopProofs ---------------------------
(***************************************************************************)
(* Proofs, for any number of handlers and any number of calls of cancel:   *)
(* what module SignalLoop's liveness rests on.  A signal waits in the      *)
(* channel until its function is started, and every call of cancel is      *)
(* accounted for.                                                          *)
(***************************************************************************)
EXTENDS SignalLoop, TLAPS

\* A signal that f was not started for yet is in the channel.
SignalIsKept == \A h \in Handlers : owed[h] => sigCh[h] = 1

One(condition) == IF condition THEN 1 ELSE 0

\* A call of cancel is sending, is in the channel, or has ended the goroutine.
CancelsCounted ==
  \A h \in Handlers :
    /\ cancels[h] = outside[h] + One(loop[h] = "cancels") + doneCh[h] + One(loop[h] = "ended")
    /\ loop[h] = "none" => cancels[h] = 0 /\ sigCh[h] = 0

\* Only a second call of cancel can leave f stuck in its own, and no goroutine ends unasked.
OneCancelIsSafe ==
  \A h \in Handlers :
    /\ StuckInCancel(h) => cancels[h] >= 2
    /\ loop[h] = "ended" => cancels[h] >= 1

HandlerInv == SignalTypeOK /\ SignalIsKept /\ CancelsCounted

LEMMA HandlerInit == Init => HandlerInv
  BY MaxCancelsAssumption
  DEF Init, HandlerInv, SignalTypeOK, SignalIsKept, CancelsCounted, One

\* Whatever one handler does, its own state keeps the invariant and the others' is untouched.
LEMMA HandlerStep == HandlerInv /\ [Next]_hvars => HandlerInv'
<1> SUFFICES ASSUME HandlerInv, [Next]_hvars PROVE HandlerInv'
  OBVIOUS
<1> USE MaxCancelsAssumption
    DEF HandlerInv, SignalTypeOK, SignalIsKept, CancelsCounted, One, Registered
<1>1. CASE Signal
  BY <1>1 DEF Signal
<1>2. ASSUME NEW h \in Handlers, OnSignal(h) PROVE HandlerInv'
  BY <1>2 DEF OnSignal
<1>3. ASSUME NEW h \in Handlers, TakeSignal(h) PROVE HandlerInv'
  BY <1>3 DEF TakeSignal
<1>4. ASSUME NEW h \in Handlers, TakeDone(h) PROVE HandlerInv'
  BY <1>4 DEF TakeDone
<1>5. ASSUME NEW h \in Handlers, CallbackReturn(h) PROVE HandlerInv'
  BY <1>5 DEF CallbackReturn
<1>6. ASSUME NEW h \in Handlers, CallbackCancels(h) PROVE HandlerInv'
  BY <1>6 DEF CallbackCancels
<1>7. ASSUME NEW h \in Handlers, CallbackSent(h) PROVE HandlerInv'
  BY <1>7 DEF CallbackSent
<1>8. ASSUME NEW h \in Handlers, Cancel(h) PROVE HandlerInv'
  BY <1>8 DEF Cancel
<1>9. ASSUME NEW h \in Handlers, CancelSent(h) PROVE HandlerInv'
  BY <1>9 DEF CancelSent
<1>10. CASE UNCHANGED hvars
  BY <1>10 DEF hvars
<1> QED
  BY <1>1, <1>2, <1>3, <1>4, <1>5, <1>6, <1>7, <1>8, <1>9, <1>10 DEF Next

\* The accounts hold whatever signals and cancels come, in whatever order.
THEOREM HandlerInvariance == Spec => []HandlerInv
<1> QED
  BY HandlerInit, HandlerStep, PTL DEF Spec

\* The types: neither channel holds more than one value, however many signals and cancels.
THEOREM SignalTypes == Spec => []SignalTypeOK
<1>1. HandlerInv => SignalTypeOK
  BY DEF HandlerInv
<1> QED
  BY <1>1, HandlerInvariance, PTL

\* The channel's one place is enough: no signal is lost while f runs, and a single cancel,
\* from f or from outside, finds a place to send to.
THEOREM SignalsAndCancels == Spec => [](SignalIsKept /\ OneCancelIsSafe)
<1>1. HandlerInv => SignalIsKept /\ OneCancelIsSafe
  BY DEF HandlerInv, SignalTypeOK, CancelsCounted, OneCancelIsSafe, StuckInCancel, One
<1> QED
  BY <1>1, HandlerInvariance, PTL
=============================================================================
