----------------------------- MODULE AtomicFile -----------------------------
(***************************************************************************)
(* What lockedfile promises: a file whose contents only change atomically. *)
(* Each call takes effect at one moment, or fails; a failed Write or the   *)
(* death of a process in the middle of an update is all that leaves other  *)
(* contents than a caller gave.                                            *)
(***************************************************************************)
EXTENDS Integers, Sequences

CONSTANTS
  Goroutines,
  Contents,
  Transforms    \* functions from contents to contents

VARIABLES
  value,
  state,     \* of each goroutine's call: "idle", "busy", "done" or "failed"
  op,        \* the function it calls
  arg,       \* the contents it is to write
  result,    \* what a Read returned
  spoiled    \* nothing is promised any more

atomicVars == <<value, state, op, arg, result, spoiled>>

AtomicInit ==
  /\ value \in Contents
  /\ state = [g \in Goroutines |-> "idle"]
  /\ spoiled = FALSE

Becomes(g, s) == state[g] = "busy" /\ state' = [state EXCEPT ![g] = s] /\ UNCHANGED <<op, arg>>

Start(g) ==
  /\ state[g] = "idle" /\ state' = [state EXCEPT ![g] = "busy"]
  /\ UNCHANGED <<value, spoiled>>

End(g) ==
  /\ state[g] \in {"done", "failed"} /\ state' = [state EXCEPT ![g] = "idle"]
  /\ UNCHANGED <<value, spoiled>>

Succeed(g) ==
  /\ Becomes(g, "done")
  /\ CASE op[g] = "read" -> result'[g] = value /\ UNCHANGED value
       [] op[g] = "write" -> value' = arg[g]
       [] op[g] = "transform" -> \E t \in Transforms : value' = t[value]
       [] op[g] = "mutex" -> UNCHANGED value
  /\ UNCHANGED spoiled

\* A Write that fails may leave the first part of its contents.
Fail(g) ==
  /\ Becomes(g, "failed")
  /\ \/ UNCHANGED value
     \/ op[g] = "write" /\ \E n \in 0 .. Len(arg[g]) : value' = SubSeq(arg[g], 1, n)
  /\ UNCHANGED spoiled

\* Some goroutines die together.
Die(dead) ==
  /\ state' = [g \in Goroutines |-> IF g \in dead THEN "idle" ELSE state[g]]
  /\ \/ UNCHANGED value
     \/ \E g \in dead : state[g] = "busy" /\ op[g] \in {"write", "transform"}
  /\ UNCHANGED spoiled

AtomicNext ==
  \/ \E g \in Goroutines : Start(g) \/ Succeed(g) \/ Fail(g) \/ End(g)
  \/ \E dead \in SUBSET Goroutines : Die(dead)
  \/ spoiled'

AtomicSpec == AtomicInit /\ [][AtomicNext]_atomicVars
=============================================================================
