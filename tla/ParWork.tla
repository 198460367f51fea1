------------------------------ MODULE ParWork ------------------------------
(***************************************************************************)
(* par.Work: n runners take items from a shared list under a mutex, sleep  *)
(* on a condition variable when it is empty, and all return once it is     *)
(* empty and all of them would sleep.  Add is called before Do, or by the  *)
(* function run on an item, as the comment on Do has it.  A critical       *)
(* section is one action: everything it touches is guarded by w.mu.        *)
(***************************************************************************)
EXTENDS Integers, Functions, FiniteSets, Sequences

CONSTANTS
  Items,       \* what may be added
  NoItem,      \* what a runner that is not in w.f has
  MaxRunners   \* bound: the n of Do(n)

ASSUME ParWorkAssumption == MaxRunners \in Nat \ {0} /\ NoItem \notin Items

Runners == 1 .. MaxRunners
Main == 1                  \* the runner that is the caller of Do

VARIABLES
  running,    \* w.running: 0 until Do is called
  added,      \* w.added
  todo,       \* w.todo
  waiting,    \* w.waiting
  pc,         \* of each runner: "none", "lock" (about to lock w.mu in the loop),
              \* "asleep" and "woken" (in w.wait.Wait), "run" (in w.f), "returned"
  item,       \* the item it runs w.f on
  remaining,  \* those w.f has yet to Add before it returns
  calls,      \* calls of w.f, by item
  done        \* items on which w.f has returned

vars == <<running, added, todo, waiting, pc, item, remaining, calls, done>>
adderVars == <<running, waiting, item, calls, done>>

\* What each variable holds (work.go:16-25, 76-103).
TypeOK ==
  /\ running \in 0 .. MaxRunners
  /\ added \subseteq Items
  /\ todo \in Seq(Items)
  /\ waiting \in 0 .. running
  /\ pc \in [Runners -> {"none", "lock", "asleep", "woken", "run", "returned"}]
  /\ item \in [Runners -> Items \cup {NoItem}]
  /\ remaining \in [Runners -> SUBSET Items]
  /\ calls \in [Items -> Nat]
  /\ done \subseteq Items

Init ==
  /\ running = 0 /\ waiting = 0
  /\ added = {} /\ todo = <<>>
  /\ pc = [r \in Runners |-> "none"]
  /\ item = [r \in Runners |-> NoItem]
  /\ remaining = [r \in Runners |-> {}]
  /\ calls = [i \in Items |-> 0]
  /\ done = {}

At(state) == {r \in Runners : pc[r] = state}

-----------------------------------------------------------------------------
(* Add: each caller's effect on w, and w.wait.Signal, which wakes one of   *)
(* those asleep, if there is one.                                          *)

Wake(states) ==
  \/ At("asleep") = {} /\ states = pc
  \/ \E r \in At("asleep") : states = [pc EXCEPT ![r] = "woken"]

\* A defect: no test of w.added.
AddAgain(i) ==
  /\ added' = added \cup {i} /\ todo' = Append(todo, i)
  /\ IF waiting > 0 THEN Wake(pc') ELSE UNCHANGED pc

\* A defect: only the first item of an empty list is signalled.
AddSignalsFirst(i) ==
  IF i \in added
    THEN UNCHANGED <<added, todo, pc>>
    ELSE /\ added' = added \cup {i} /\ todo' = Append(todo, i)
         /\ IF waiting > 0 /\ todo = <<>> THEN Wake(pc') ELSE UNCHANGED pc

Add(i) ==
  IF i \in added
    THEN UNCHANGED <<added, todo, pc>>
    ELSE /\ added' = added \cup {i} /\ todo' = Append(todo, i)
         /\ IF waiting > 0 THEN Wake(pc') ELSE UNCHANGED pc

AddBefore(i) ==
  /\ running = 0
  /\ Add(i)
  /\ UNCHANGED <<adderVars, remaining>>

\* w.f adds an item.
AddWithin(r, i) ==
  /\ pc[r] = "run" /\ i \in remaining[r]
  /\ Add(i)
  /\ remaining' = [remaining EXCEPT ![r] = @ \ {i}]
  /\ UNCHANGED adderVars

-----------------------------------------------------------------------------
(* Do and runner                                                           *)

Do(n) ==
  /\ running = 0
  /\ running' = n
  /\ pc' = [r \in Runners |-> IF r <= n THEN "lock" ELSE "none"]
  /\ UNCHANGED <<added, todo, waiting, item, remaining, calls, done>>

\* r holds w.mu and looks at w.todo: it comes from outside, or from w.wait.Wait.
Looks(r) == pc[r] \in {"lock", "woken"}

\* A defect: w.waiting-- is forgotten.
StillWaiting(r) == waiting

\* w.waiting once r is not counted in it.
OthersWaiting(r) == IF pc[r] = "woken" THEN waiting - 1 ELSE waiting

\* A defect: the last item is cut off, but not put in the hole first.
CutLast(s, k) == SubSeq(s, 1, Len(s) - 1)

\* The last element takes the place of the k-th.
SwapOut(s, k) == [j \in 1 .. Len(s) - 1 |-> IF j = k THEN s[Len(s)] ELSE s[j]]

\* r picks an item and runs w.f on it, which will add some items.
Pick(r, k, adds) ==
  /\ Looks(r) /\ k \in 1 .. Len(todo)
  /\ waiting' = OthersWaiting(r)
  /\ todo' = SwapOut(todo, k)
  /\ item' = [item EXCEPT ![r] = todo[k]]
  /\ calls' = [calls EXCEPT ![todo[k]] = @ + 1]
  /\ remaining' = [remaining EXCEPT ![r] = adds]
  /\ pc' = [pc EXCEPT ![r] = "run"]
  /\ UNCHANGED <<running, added, done>>

Sleep(r) ==
  /\ Looks(r) /\ todo = <<>> /\ OthersWaiting(r) + 1 # running
  /\ waiting' = OthersWaiting(r) + 1
  /\ pc' = [pc EXCEPT ![r] = "asleep"]
  /\ UNCHANGED <<running, added, todo, item, remaining, calls, done>>

\* A defect: no w.wait.Broadcast.
AllDoneUnsaid(r) ==
  /\ Looks(r) /\ todo = <<>> /\ OthersWaiting(r) + 1 = running
  /\ waiting' = running
  /\ pc' = [pc EXCEPT ![r] = "returned"]
  /\ UNCHANGED <<running, added, todo, item, remaining, calls, done>>

\* r is the last to find nothing: it returns, and wakes all others so that they do.
AllDone(r) ==
  /\ Looks(r) /\ todo = <<>> /\ OthersWaiting(r) + 1 = running
  /\ waiting' = running
  /\ pc' = [s \in Runners |-> IF s = r THEN "returned"
                              ELSE IF pc[s] = "asleep" THEN "woken" ELSE pc[s]]
  /\ UNCHANGED <<running, added, todo, item, remaining, calls, done>>

\* w.f returns.
Finish(r) ==
  /\ pc[r] = "run" /\ remaining[r] = {}
  /\ done' = done \cup {item[r]}
  /\ item' = [item EXCEPT ![r] = NoItem]
  /\ pc' = [pc EXCEPT ![r] = "lock"]
  /\ UNCHANGED <<running, added, todo, waiting, remaining, calls>>

-----------------------------------------------------------------------------
Runner(r) ==
  \/ \E k \in 1 .. Len(todo), adds \in SUBSET Items : Pick(r, k, adds)
  \/ Sleep(r) \/ AllDone(r)
  \/ \E i \in Items : AddWithin(r, i)
  \/ Finish(r)

Next ==
  \/ \E i \in Items : AddBefore(i)
  \/ \E n \in Runners : Do(n)
  \/ \E r \in Runners : Runner(r)

Spec == Init /\ [][Next]_vars

\* Goroutines are scheduled; w.f returns, having added a bounded number of items.
FairSpec == Spec /\ \A r \in Runners : WF_vars(Runner(r))

-----------------------------------------------------------------------------
(* Properties                                                              *)

Busy == At("run")

\* "at most once each" (work.go:15): f is never called twice with one item, and
\* never with one that was not added.
AtMostOnce ==
  /\ \A i \in Items : calls[i] <= 1 /\ (calls[i] = 1 => i \in added)
  /\ \A r, s \in Busy : item[r] = item[s] => r = s

\* No runner returns while an item is left or being processed, which could still
\* add others: the last to find nothing is the last of all (work.go:49, 73-75).
NoEarlyReturn ==
  At("returned") # {} => /\ todo = <<>> /\ Busy = {}
                         /\ done = added

\* No wakeup is lost: while a runner sleeps, each item of the list has a runner
\* on its way to it, so that n items really are processed in parallel; the test of
\* w.waiting in Add may count runners that were woken already (work.go:40-42).
NoLostWakeup ==
  At("asleep") # {} => Len(todo) <= Cardinality(At("lock") \cup At("woken"))

\* par.Work does what its comments promise: the list is what is pending, and what
\* runners run w.f on is being processed (work.go:13-14, 47-53).
Pending == Range(todo)
Processing == {item[r] : r \in Busy}
Phase == IF running = 0 THEN "adding" ELSE IF pc[Main] = "returned" THEN "over" ELSE "doing"

Abstract == INSTANCE WorkSet WITH
  pending <- Pending, processing <- Processing, processed <- done,
  phase <- Phase, limit <- running

Implements == Abstract!Spec

\* All runners return, not only the one whose return is that of Do: none is left
\* asleep (work.go:84-87).
AllReturn == running # 0 ~> Cardinality(At("returned")) = running
=============================================================================
