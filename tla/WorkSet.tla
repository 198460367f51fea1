------------------------------ MODULE WorkSet ------------------------------
(***************************************************************************)
(* What par.Work promises: every item added is processed exactly once, at  *)
(* most n at a time, items may be added before Do and while others are     *)
(* processed, and Do returns when all of them have been, never earlier.    *)
(***************************************************************************)
EXTENDS Naturals, FiniteSets

CONSTANTS
  Items,       \* what may be added
  MaxRunners   \* bound: the n of Do(n)

VARIABLES
  pending,     \* added and not started
  processing,  \* started and not finished
  processed,   \* finished
  phase,       \* "adding" until Do is called, "doing" until it returns, then "over"
  limit        \* the n of Do(n), 0 before

vars == <<pending, processing, processed, phase, limit>>

Init ==
  /\ pending = {} /\ processing = {} /\ processed = {}
  /\ phase = "adding" /\ limit = 0

Known == pending \cup processing \cup processed

Add(i) ==
  /\ phase = "adding" \/ processing # {}
  /\ i \notin Known
  /\ pending' = pending \cup {i}
  /\ UNCHANGED <<processing, processed, phase, limit>>

Do(n) ==
  /\ phase = "adding"
  /\ phase' = "doing" /\ limit' = n
  /\ UNCHANGED <<pending, processing, processed>>

Start(i) ==
  /\ phase = "doing" /\ i \in pending
  /\ Cardinality(processing) < limit
  /\ pending' = pending \ {i} /\ processing' = processing \cup {i}
  /\ UNCHANGED <<processed, phase, limit>>

Finish(i) ==
  /\ i \in processing
  /\ processing' = processing \ {i} /\ processed' = processed \cup {i}
  /\ UNCHANGED <<pending, phase, limit>>

Return ==
  /\ phase = "doing" /\ pending = {} /\ processing = {}
  /\ phase' = "over"
  /\ UNCHANGED <<pending, processing, processed, limit>>

Next ==
  \/ \E i \in Items : Add(i) \/ Start(i) \/ Finish(i)
  \/ \E n \in 1 .. MaxRunners : Do(n)
  \/ Return

Spec == Init /\ [][Next]_vars

\* Do returns, provided it was called.
Returns == phase = "doing" ~> phase = "over"
=============================================================================
