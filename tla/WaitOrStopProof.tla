--------------------------- MODULE WaitOrStopProof ---------------------------
(***************************************************************************)
(* The safety properties of WaitOrStop, for every set of calls.            *)
(***************************************************************************)
EXTENDS WaitOrStop, TLAPS

\* Where the two goroutines stand relative to each other and to the child.
ControlInv ==
  /\ main = "returned" <=> helper = "done"
  /\ main # "wait" => child = "reaped"
  /\ child # "alive" => status \in {"ok", "fail"}
  /\ result = "none" <=> main # "returned"
  /\ helper \in {"signal", "grace", "send"} => ctx = "expired"

\* What the helper knows: err says whether the child was signalled.
CauseInv ==
  /\ sent # {} => helper \notin {"select", "signal"} /\ program.permitted
  /\ helper \in {"select", "signal"} => err = "nil"
  /\ helper = "grace" => err # "nil"
  /\ err = "ctx" => Interrupt \in sent
  /\ err = "other" => ~program.permitted
  /\ sent # {} /\ helper # "done" => err = "ctx"
  /\ killed => sent # {}

IInv == TypeOK /\ ControlInv /\ CauseInv /\ Attribution /\ HonestError

\* The invariant above holds in every initial state.
LEMMA InitIInv == Init => IInv
  BY CallsAssumption
  DEF Init, IInv, TypeOK, ControlInv, CauseInv, Attribution, HonestError, Programs, Errors, Interrupt

\* No step of the environment, of the caller or of the helper breaks it.
LEMMA NextIInv == IInv /\ [Next]_vars => IInv'
  <1> SUFFICES ASSUME IInv, [Next]_vars PROVE IInv'
    OBVIOUS
  <1> USE DEF IInv, TypeOK, ControlInv, CauseInv, Attribution, HonestError, Interrupt,
              Errors, given
  <1>1. CASE Expire
    BY <1>1 DEF Expire
  <1>2. CASE ExitByItself
    BY <1>2 DEF ExitByItself, Die
  <1>3. CASE ExitBySignal
    BY <1>3 DEF ExitBySignal, Die
  <1>4. CASE HeirExits
    BY <1>4 DEF HeirExits
  <1>5. CASE Reap
    BY <1>5 DEF Reap
  <1>6. CASE WaitReturns
    BY <1>6 DEF WaitReturns
  <1>7. CASE SelectNil
    BY <1>7 DEF SelectNil, Meet
  <1>8. CASE SelectDone
    BY <1>8 DEF SelectDone
  <1>9. CASE Signal
    BY <1>9 DEF Signal, SignalThen
  <1>10. CASE GraceMeet
    BY <1>10 DEF GraceMeet, Meet
  <1>11. CASE Kill
    BY <1>11 DEF Kill
  <1>12. CASE Send
    BY <1>12 DEF Send, Meet
  <1>13. CASE UNCHANGED vars
    BY <1>13 DEF vars
  <1> QED
    BY <1>1, <1>2, <1>3, <1>4, <1>5, <1>6, <1>7, <1>8, <1>9, <1>10, <1>11, <1>12, <1>13
    DEF Next, Caller, Helper, Environment, Returned

\* The inductive invariant of waitOrStop.
THEOREM Invariance == Spec => []IInv
  BY InitIInv, NextIInv, PTL DEF Spec

\* Every variable keeps its type.
THEOREM TypeCorrect == Spec => []TypeOK
  BY Invariance, PTL DEF IInv

\* A child ended by the deadline's signal is reported as timed out.
THEOREM AttributionHolds == Spec => []Attribution
  BY Invariance, PTL DEF IInv

\* A time-out is reported only of a child that was interrupted in time.
THEOREM HonestErrorHolds == Spec => []HonestError
  BY Invariance, PTL DEF IInv

\* The helper goroutine and the child are gone when waitOrStop returns.
THEOREM NoHelperLeakHolds == Spec => []NoHelperLeak
  <1>1. IInv => NoHelperLeak
    BY DEF IInv, TypeOK, ControlInv, NoHelperLeak
  <1> QED
    BY <1>1, Invariance, PTL
=============================================================================
