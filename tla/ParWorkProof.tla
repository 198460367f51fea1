---------------------------- MODULE ParWorkProof ----------------------------
(***************************************************************************)
(* Proofs about ParWork for any set of items and any number of runners:    *)
(* every item is processed once, no runner returns early, no wakeup is     *)
(* lost, and each step is a step of WorkSet.                               *)
(***************************************************************************)
EXTENDS ParWork, FiniteSetTheorems, TLAPS

-----------------------------------------------------------------------------
(* Where each item is.                                                     *)

\* Items of the list were added, are in it once, and were not processed.
Listed ==
  /\ \A j \in 1 .. Len(todo) : todo[j] \in added /\ calls[todo[j]] = 0
  /\ \A j, k \in 1 .. Len(todo) : todo[j] = todo[k] => j = k

\* An item being processed is so by one runner, whose call is its only one.
Processed ==
  /\ \A r \in Busy : /\ item[r] \in added /\ calls[item[r]] = 1
                     /\ item[r] \notin done
  /\ \A r, s \in Busy : item[r] = item[s] => r = s
  /\ \A i \in done : i \in added /\ calls[i] = 1
  /\ \A i \in Items : calls[i] # 0 => calls[i] = 1 /\ i \in added

\* An item that was added is somewhere.
Kept ==
  \A i \in added : \/ \E j \in 1 .. Len(todo) : todo[j] = i
                   \/ \E r \in Busy : item[r] = i
                   \/ i \in done

PlaceInv == Listed /\ Processed /\ Kept

\* SwapOut takes out one element and keeps the others.
LEMMA SwapOutElements ==
  ASSUME NEW S, NEW s \in Seq(S), NEW k \in 1 .. Len(s)
  PROVE  /\ SwapOut(s, k) \in Seq(S)
         /\ Len(SwapOut(s, k)) = Len(s) - 1
         /\ \A j \in 1 .. Len(s) - 1 :
              SwapOut(s, k)[j] = IF j = k THEN s[Len(s)] ELSE s[j]
  BY DEF SwapOut

\* The runners that some states describe are finitely many.
LEMMA AtFinite ==
  ASSUME NEW P \in SUBSET Runners
  PROVE  IsFiniteSet(P) /\ Cardinality(P) \in Nat
  <1>1. IsFiniteSet(Runners)
    BY ParWorkAssumption, FS_Interval DEF Runners
  <1> QED
    BY <1>1, FS_Subset, FS_CardinalityType

-----------------------------------------------------------------------------
(* Types, and how w.waiting counts.                                        *)

Counted == At("asleep") \cup At("woken") \cup At("returned")

CountInv ==
  /\ \A r \in Runners : pc[r] # "none" <=> r <= running
  /\ waiting = Cardinality(Counted)

\* w.waiting counts the runners that are not at work, when r is not counted; so
\* r is the last to look for work only if all others wait or have returned.
LEMMA OthersCount ==
  ASSUME TypeOK, CountInv, NEW r \in Runners, Looks(r)
  PROVE  /\ r \in 1 .. running /\ running \in Nat
         /\ OthersWaiting(r) = Cardinality(Counted \ {r})
         /\ OthersWaiting(r) \in 0 .. running - 1
         /\ OthersWaiting(r) + 1 = running => Counted \cup {r} = 1 .. running
  <1> DEFINE Others == Counted \ {r}
  <1>1. running \in Nat /\ r \in 1 .. running
    BY ParWorkAssumption DEF TypeOK, CountInv, Looks, Runners
  <1>2. Counted \subseteq 1 .. running
    BY <1>1 DEF Counted, At, CountInv, TypeOK, Runners
  <1>3. /\ IsFiniteSet(1 .. running) /\ Cardinality(1 .. running) = running
    BY <1>1, FS_Interval
  <1>4. IsFiniteSet(Others) /\ IsFiniteSet(Counted) /\ Cardinality(Counted) \in Nat
    BY <1>2, <1>3, FS_Subset, FS_CardinalityType
  <1>5. OthersWaiting(r) = Cardinality(Others)
    <2>1. CASE pc[r] = "woken"
      <3>1. r \in Counted
        BY <2>1 DEF Counted, At
      <3> QED
        BY <2>1, <3>1, <1>4, FS_RemoveElement DEF OthersWaiting, CountInv
    <2>2. CASE pc[r] = "lock"
      <3>1. Others = Counted
        BY <2>2 DEF Counted, At
      <3> QED
        BY <2>2, <3>1 DEF OthersWaiting, CountInv
    <2> QED
      BY <2>1, <2>2 DEF Looks
  <1>6. Cardinality(Others) \in Nat /\ Cardinality(Others \cup {r}) = Cardinality(Others) + 1
    BY <1>4, FS_AddElement, FS_CardinalityType
  <1>7. Others \cup {r} \subseteq 1 .. running
    BY <1>1, <1>2
  <1>8. /\ Cardinality(Others \cup {r}) <= running
        /\ Cardinality(Others \cup {r}) = running => Others \cup {r} = 1 .. running
    BY <1>3, <1>7, FS_Subset
  <1>9. Others \cup {r} = Counted \cup {r}
    OBVIOUS
  <1> QED
    BY <1>1, <1>5, <1>6, <1>8, <1>9

\* What Add does.
LEMMA AddEffect ==
  ASSUME TypeOK, NEW i \in Items, Add(i)
  PROVE  /\ added' \subseteq Items /\ todo' \in Seq(Items) /\ added' = added \cup {i}
         /\ IF i \in added THEN todo' = todo /\ pc' = pc
            ELSE /\ todo' = Append(todo, i)
                 /\ \/ pc' = pc /\ (waiting = 0 \/ At("asleep") = {})
                    \/ \E r \in At("asleep") : pc' = [pc EXCEPT ![r] = "woken"]
         /\ pc' \in [Runners -> {"none", "lock", "asleep", "woken", "run", "returned"}]
  <1>1. CASE i \in added
    BY <1>1 DEF Add, TypeOK
  <1>2. CASE i \notin added
    <2>1. added' = added \cup {i} /\ todo' = Append(todo, i)
      BY <1>2 DEF Add
    <2>2. \/ pc' = pc /\ (waiting = 0 \/ At("asleep") = {})
          \/ \E r \in At("asleep") : pc' = [pc EXCEPT ![r] = "woken"]
      BY <1>2 DEF Add, Wake, TypeOK
    <2>3. pc' \in [Runners -> {"none", "lock", "asleep", "woken", "run", "returned"}]
      BY <2>2 DEF At, TypeOK
    <2>4. todo' \in Seq(Items)
      BY <2>1 DEF TypeOK
    <2> QED
      BY <1>2, <2>1, <2>2, <2>3, <2>4 DEF TypeOK
  <1> QED
    BY <1>1, <1>2

\* Types are kept.
LEMMA TypeStep == TypeOK /\ CountInv /\ PlaceInv /\ [Next]_vars => TypeOK'
  <1> SUFFICES ASSUME TypeOK, CountInv, PlaceInv, [Next]_vars PROVE TypeOK'
    OBVIOUS
  <1>a. ASSUME NEW r \in Runners, Looks(r)
        PROVE  OthersWaiting(r) \in 0 .. running /\ OthersWaiting(r) + 1 \in 0 .. running
    <2>1. running \in Nat /\ OthersWaiting(r) \in 0 .. running - 1
      BY <1>a, OthersCount
    <2> QED
      BY <2>1
  <1> USE ParWorkAssumption DEF TypeOK, Runners
  <1>1. ASSUME NEW i \in Items, AddBefore(i) PROVE TypeOK'
    BY <1>1, AddEffect DEF AddBefore, adderVars
  <1>2. ASSUME NEW n \in Runners, Do(n) PROVE TypeOK'
    BY <1>2 DEF Do
  <1>3. ASSUME NEW r \in Runners, NEW k \in 1 .. Len(todo), NEW adds \in SUBSET Items,
               Pick(r, k, adds)
        PROVE  TypeOK'
    <2>1. todo' \in Seq(Items) /\ todo[k] \in Items
      BY <1>3, SwapOutElements DEF Pick
    <2>2. waiting' \in 0 .. running
      BY <1>3, <1>a DEF Pick
    <2> QED
      BY <1>3, <2>1, <2>2 DEF Pick
  <1>4. ASSUME NEW r \in Runners, Sleep(r) PROVE TypeOK'
    <2>1. waiting' \in 0 .. running
      BY <1>4, <1>a DEF Sleep
    <2> QED
      BY <1>4, <2>1 DEF Sleep
  <1>5. ASSUME NEW r \in Runners, AllDone(r) PROVE TypeOK'
    BY <1>5 DEF AllDone
  <1>6. ASSUME NEW r \in Runners, NEW i \in Items, AddWithin(r, i) PROVE TypeOK'
    <2>1. /\ added' \subseteq Items /\ todo' \in Seq(Items)
          /\ pc' \in [Runners -> {"none", "lock", "asleep", "woken", "run", "returned"}]
      BY <1>6, AddEffect DEF AddWithin
    <2> QED
      BY <1>6, <2>1 DEF AddWithin, adderVars
  <1>7. ASSUME NEW r \in Runners, Finish(r) PROVE TypeOK'
    <2>1. item[r] \in Items
      BY <1>7 DEF Finish, PlaceInv, Processed, Busy, At
    <2> QED
      BY <1>7, <2>1 DEF Finish
  <1>8. CASE UNCHANGED vars
    BY <1>8 DEF vars
  <1> QED
    BY <1>1, <1>2, <1>3, <1>4, <1>5, <1>6, <1>7, <1>8 DEF Next, Runner

\* w.waiting keeps counting.
LEMMA CountStep == TypeOK /\ CountInv /\ TypeOK' /\ [Next]_vars => CountInv'
  <1> SUFFICES ASSUME TypeOK, CountInv, TypeOK', [Next]_vars PROVE CountInv'
    OBVIOUS
  <1>a. pc \in [Runners -> {"none", "lock", "asleep", "woken", "run", "returned"}]
    BY DEF TypeOK
  <1>b. running \in Nat
    BY ParWorkAssumption DEF TypeOK
  <1> DEFINE Existing == \A r \in Runners : pc[r] # "none" <=> r <= running
  <1>c. Existing /\ waiting = Cardinality(Counted)
    BY DEF CountInv
  <1>d. ASSUME Existing', Counted' = Counted, waiting' = waiting PROVE CountInv'
    BY <1>c, <1>d DEF CountInv
  <1>1. ASSUME NEW i \in Items, AddBefore(i) PROVE CountInv'
    <2>1. pc' = pc
      BY <1>1, <1>c, AddEffect DEF AddBefore, At, Runners
    <2> QED
      BY <1>1, <1>c, <1>d, <2>1 DEF AddBefore, adderVars, Counted, At
  <1>2. ASSUME NEW n \in Runners, Do(n) PROVE CountInv'
    <2>1. Existing' /\ Counted' = {} /\ waiting' = waiting
      BY <1>2, <1>a DEF Do, Counted, At, Runners
    <2>2. Counted = {}
      BY <1>2, <1>c DEF Do, Counted, At, Runners
    <2> QED
      BY <1>d, <2>1, <2>2
  <1>3. ASSUME NEW r \in Runners, NEW k \in 1 .. Len(todo), NEW adds \in SUBSET Items,
               Pick(r, k, adds)
        PROVE  CountInv'
    <2>1. Existing'
      BY <1>3, <1>a, <1>c DEF Pick, Looks
    <2>2. Counted' = Counted \ {r}
      BY <1>3, <1>a DEF Pick, Counted, At
    <2>3. waiting' = Cardinality(Counted \ {r})
      BY <1>3, OthersCount DEF Pick
    <2> QED
      BY <2>1, <2>2, <2>3 DEF CountInv
  <1>4. ASSUME NEW r \in Runners, Sleep(r) PROVE CountInv'
    <2>1. Existing'
      BY <1>4, <1>a, <1>c DEF Sleep, Looks
    <2>2. Counted' = (Counted \ {r}) \cup {r}
      BY <1>4, <1>a DEF Sleep, Counted, At
    <2>3. IsFiniteSet(Counted \ {r})
      BY AtFinite DEF Counted, At
    <2>4. Cardinality((Counted \ {r}) \cup {r}) = Cardinality(Counted \ {r}) + 1
      BY <2>3, FS_AddElement
    <2>5. waiting' = Cardinality(Counted \ {r}) + 1
      BY <1>4, OthersCount DEF Sleep
    <2> QED
      BY <2>1, <2>2, <2>4, <2>5 DEF CountInv
  <1>5. ASSUME NEW r \in Runners, AllDone(r) PROVE CountInv'
    <2>1. Existing'
      BY <1>5, <1>a, <1>c DEF AllDone, Looks
    <2>2. Counted' = Counted \cup {r}
      BY <1>5, <1>a DEF AllDone, Counted, At
    <2>3. Counted' = 1 .. running /\ waiting' = running
      BY <1>5, <2>2, OthersCount DEF AllDone
    <2>4. Cardinality(1 .. running) = running
      BY <1>b, FS_Interval
    <2> QED
      BY <2>1, <2>3, <2>4 DEF CountInv
  <1>6. ASSUME NEW r \in Runners, NEW i \in Items, AddWithin(r, i) PROVE CountInv'
    <2>1. Existing' /\ Counted' = Counted
      <3>1. pc' = pc \/ \E s \in At("asleep") : pc' = [pc EXCEPT ![s] = "woken"]
        BY <1>6, AddEffect DEF AddWithin
      <3>2. running' = running
        BY <1>6 DEF AddWithin, adderVars
      <3> QED
        BY <1>a, <1>c, <3>1, <3>2 DEF Counted, At
    <2> QED
      BY <1>6, <1>d, <2>1 DEF AddWithin, adderVars
  <1>7. ASSUME NEW r \in Runners, Finish(r) PROVE CountInv'
    <2>1. Existing'
      BY <1>7, <1>a, <1>c DEF Finish
    <2>2. Counted' = Counted
      BY <1>7, <1>a DEF Finish, Counted, At
    <2> QED
      BY <1>7, <1>d, <2>1, <2>2 DEF Finish
  <1>8. CASE UNCHANGED vars
    BY <1>8, <1>c, <1>d DEF vars, Counted, At
  <1> QED
    BY <1>1, <1>2, <1>3, <1>4, <1>5, <1>6, <1>7, <1>8 DEF Next, Runner

-----------------------------------------------------------------------------
(* The end: once a runner returned, the others can only do the same.       *)

EndInv ==
  At("returned") # {} =>
    todo = <<>> /\ \A r \in Runners : pc[r] \in {"none", "woken", "returned"}

\* The last to find nothing is the last of all.
LEMMA EndStep == TypeOK /\ CountInv /\ EndInv /\ [Next]_vars => EndInv'
  <1> SUFFICES ASSUME TypeOK, CountInv, EndInv, [Next]_vars PROVE EndInv'
    OBVIOUS
  <1>a. pc \in [Runners -> {"none", "lock", "asleep", "woken", "run", "returned"}]
    BY DEF TypeOK
  <1>1. ASSUME NEW i \in Items, AddBefore(i) PROVE EndInv'
    <2>1. \A r \in Runners : pc[r] = "none"
      BY <1>1 DEF AddBefore, CountInv, Runners
    <2>2. pc' = pc
      BY <1>1, <2>1, AddEffect DEF AddBefore, At
    <2> QED
      BY <2>1, <2>2 DEF EndInv, At
  <1>2. ASSUME NEW n \in Runners, Do(n) PROVE EndInv'
    BY <1>2 DEF Do, EndInv, At
  <1>3. ASSUME NEW r \in Runners, NEW k \in 1 .. Len(todo), NEW adds \in SUBSET Items,
               Pick(r, k, adds)
        PROVE  EndInv'
    <2>1. At("returned") = {}
      BY DEF EndInv
    <2> QED
      BY <1>3, <1>a, <2>1 DEF Pick, EndInv, At
  <1>4. ASSUME NEW r \in Runners, Sleep(r) PROVE EndInv'
    <2>1. At("returned") = {}
      <3> SUFFICES ASSUME At("returned") # {} PROVE FALSE
        OBVIOUS
      <3>1. r \in 1 .. running /\ running \in Nat
        BY <1>4, OthersCount DEF Sleep
      <3>2. Counted = 1 .. running
        <4>1. \A s \in Runners : pc[s] \in {"woken", "returned"} <=> s <= running
          BY DEF EndInv, CountInv
        <4>2. Counted = {s \in Runners : s <= running}
          BY <4>1 DEF EndInv, Counted, At
        <4> QED
          BY <4>2, ParWorkAssumption DEF TypeOK, Runners
      <3>3. OthersWaiting(r) = Cardinality((1 .. running) \ {r})
        BY <1>4, <3>2, OthersCount DEF Sleep
      <3>4. Cardinality((1 .. running) \ {r}) = running - 1
        <4>1. IsFiniteSet(1 .. running) /\ Cardinality(1 .. running) = running
          BY <3>1, FS_Interval
        <4> QED
          BY <3>1, <4>1, FS_RemoveElement
      <3> QED
        BY <1>4, <3>1, <3>3, <3>4 DEF Sleep
    <2> QED
      BY <1>4, <1>a, <2>1 DEF Sleep, EndInv, At
  <1>5. ASSUME NEW r \in Runners, AllDone(r) PROVE EndInv'
    <2>1. Counted \cup {r} = 1 .. running
      BY <1>5, OthersCount DEF AllDone
    <2>2. \A s \in Runners : s = r \/ pc[s] \in {"none", "asleep", "woken", "returned"}
      BY <2>1, <1>a DEF Counted, At, CountInv, Runners
    <2> QED
      BY <1>5, <1>a, <2>2 DEF AllDone, EndInv, At
  <1>6. ASSUME NEW r \in Runners, NEW i \in Items, AddWithin(r, i) PROVE EndInv'
    <2>1. At("returned") = {}
      BY <1>6 DEF AddWithin, EndInv
    <2>2. pc' = pc \/ \E s \in At("asleep") : pc' = [pc EXCEPT ![s] = "woken"]
      BY <1>6, AddEffect DEF AddWithin
    <2> QED
      BY <1>a, <2>1, <2>2 DEF EndInv, At
  <1>7. ASSUME NEW r \in Runners, Finish(r) PROVE EndInv'
    <2>1. At("returned") = {}
      BY <1>7 DEF Finish, EndInv
    <2> QED
      BY <1>7, <1>a, <2>1 DEF Finish, EndInv, At
  <1>8. CASE UNCHANGED vars
    BY <1>8 DEF vars, EndInv, At
  <1> QED
    BY <1>1, <1>2, <1>3, <1>4, <1>5, <1>6, <1>7, <1>8 DEF Next, Runner

-----------------------------------------------------------------------------
(* The items.                                                              *)

\* Adding an item puts it in the list, unless it was added before.
LEMMA AddPlaces ==
  ASSUME TypeOK, PlaceInv, NEW i \in Items, Add(i), UNCHANGED <<item, calls, done>>
  PROVE  PlaceInv'
  <1>1. Busy' = Busy
    BY AddEffect DEF Busy, At, TypeOK
  <1>2. CASE i \in added
    <2>1. UNCHANGED <<added, todo>>
      BY <1>2 DEF Add
    <2>2. Listed'
      BY <2>1 DEF PlaceInv, Listed
    <2>3. Processed'
      BY <1>1, <2>1 DEF PlaceInv, Processed
    <2>4. Kept'
      BY <1>1, <2>1 DEF PlaceInv, Kept
    <2> QED
      BY <2>2, <2>3, <2>4 DEF PlaceInv
  <1>3. CASE i \notin added
    <2>1. added' = added \cup {i} /\ todo' = Append(todo, i)
      BY <1>3 DEF Add
    <2>2. /\ Len(todo) \in Nat /\ Len(todo') = Len(todo) + 1
          /\ \A j \in 1 .. Len(todo) : todo'[j] = todo[j]
          /\ todo'[Len(todo) + 1] = i
      BY <2>1 DEF TypeOK
    <2>3. calls[i] = 0
      BY <1>3 DEF PlaceInv, Processed
    <2>4. \A j \in 1 .. Len(todo') : j \in 1 .. Len(todo) \/ j = Len(todo) + 1
      BY <2>2
    <2>5. \A j \in 1 .. Len(todo) : todo[j] # i
      BY <1>3 DEF PlaceInv, Listed
    <2>6. Listed'
      <3>1. \A j \in 1 .. Len(todo') : todo'[j] \in added' /\ calls'[todo'[j]] = 0
        BY <2>1, <2>2, <2>3, <2>4 DEF PlaceInv, Listed
      <3>2. \A j, k \in 1 .. Len(todo') : todo'[j] = todo'[k] => j = k
        BY <2>2, <2>4, <2>5 DEF PlaceInv, Listed
      <3> QED
        BY <3>1, <3>2 DEF Listed
    <2>7. Processed'
      BY <1>1, <2>1 DEF PlaceInv, Processed
    <2>8. Kept'
      <3>1. \E j \in 1 .. Len(todo') : todo'[j] = i
        BY <2>2
      <3>2. \A x \in Items : (\E j \in 1 .. Len(todo) : todo[j] = x)
                             => \E j \in 1 .. Len(todo') : todo'[j] = x
        BY <2>2
      <3> QED
        BY <1>1, <2>1, <3>1, <3>2 DEF PlaceInv, Kept, TypeOK
    <2> QED
      BY <2>6, <2>7, <2>8 DEF PlaceInv
  <1> QED
    BY <1>2, <1>3

\* Picking an item moves it from the list to its runner.
LEMMA PickPlaces ==
  ASSUME TypeOK, PlaceInv, NEW r \in Runners, NEW k \in 1 .. Len(todo),
         NEW adds \in SUBSET Items, Pick(r, k, adds)
  PROVE  PlaceInv'
  <1> DEFINE x == todo[k]
  <1>1. /\ todo \in Seq(Items) /\ Len(todo) \in Nat /\ x \in Items
        /\ item \in [Runners -> Items \cup {NoItem}] /\ calls \in [Items -> Nat]
        /\ added \subseteq Items
    BY DEF TypeOK
  <1>2. /\ Len(todo') = Len(todo) - 1
        /\ \A j \in 1 .. Len(todo) - 1 :
             todo'[j] = IF j = k THEN todo[Len(todo)] ELSE todo[j]
    BY <1>1, SwapOutElements DEF Pick
  <1>3. Busy' = Busy \cup {r} /\ r \notin Busy
    BY DEF Pick, Busy, At, TypeOK, Looks
  <1>4. /\ item'[r] = x /\ \A s \in Runners : s # r => item'[s] = item[s]
        /\ calls'[x] = calls[x] + 1 /\ \A i \in Items : i # x => calls'[i] = calls[i]
        /\ added' = added /\ done' = done
    BY <1>1 DEF Pick
  <1>5. x \in added /\ calls[x] = 0
    BY DEF PlaceInv, Listed
  <1>6. \A j \in 1 .. Len(todo) : j # k => todo[j] # x
    BY DEF PlaceInv, Listed
  <1> HIDE DEF x
  <1>7. ASSUME NEW j \in 1 .. Len(todo')
        PROVE  \E m \in 1 .. Len(todo) :
                 todo'[j] = todo[m] /\ m # k /\ m = IF j = k THEN Len(todo) ELSE j
    <2>1. Len(todo) \in 1 .. Len(todo) /\ j \in 1 .. Len(todo) /\ j # Len(todo)
      BY <1>1, <1>2
    <2>2. CASE j = k
      BY <1>2, <2>1, <2>2
    <2>3. CASE j # k
      BY <1>2, <2>1, <2>3
    <2> QED
      BY <2>2, <2>3
  <1>8. Listed'
    <2>1. \A j \in 1 .. Len(todo') : todo'[j] \in added' /\ calls'[todo'[j]] = 0
      BY <1>1, <1>4, <1>6, <1>7 DEF PlaceInv, Listed
    <2>2. ASSUME NEW j \in 1 .. Len(todo'), NEW l \in 1 .. Len(todo'), todo'[j] = todo'[l]
          PROVE  j = l
      <3>1. PICK m \in 1 .. Len(todo) :
              todo'[j] = todo[m] /\ m # k /\ m = IF j = k THEN Len(todo) ELSE j
        BY <1>7
      <3>2. PICK n \in 1 .. Len(todo) :
              todo'[l] = todo[n] /\ n # k /\ n = IF l = k THEN Len(todo) ELSE l
        BY <1>7
      <3>3. m = n
        BY <2>2, <3>1, <3>2 DEF PlaceInv, Listed
      <3> QED
        BY <1>1, <1>2, <3>1, <3>2, <3>3
    <2> QED
      BY <2>1, <2>2 DEF Listed
  <1>9. Processed'
    <2>1. \A s \in Busy : item[s] # x
      BY <1>5 DEF PlaceInv, Processed
    <2>2. x \notin done
      BY <1>5 DEF PlaceInv, Processed
    <2>3. Busy \subseteq Runners
      BY DEF Busy, At
    <2>4. \A s \in Busy' : /\ item'[s] \in added' /\ calls'[item'[s]] = 1
                           /\ item'[s] \notin done'
      BY <1>1, <1>3, <1>4, <1>5, <2>1, <2>2, <2>3 DEF PlaceInv, Processed
    <2>5. \A s, t \in Busy' : item'[s] = item'[t] => s = t
      BY <1>3, <1>4, <2>1, <2>3 DEF PlaceInv, Processed
    <2>6. \A i \in done' : i \in added' /\ calls'[i] = 1
      BY <1>1, <1>4, <2>2 DEF PlaceInv, Processed
    <2>7. \A i \in Items : calls'[i] # 0 => calls'[i] = 1 /\ i \in added'
      BY <1>1, <1>4, <1>5 DEF PlaceInv, Processed
    <2> QED
      BY <2>4, <2>5, <2>6, <2>7 DEF Processed
  <1>10. Kept'
    <2> SUFFICES ASSUME NEW i \in added
                 PROVE  \/ \E j \in 1 .. Len(todo') : todo'[j] = i
                        \/ \E s \in Busy' : item'[s] = i
                        \/ i \in done'
      BY <1>4 DEF Kept
    <2>1. CASE i = x
      BY <1>3, <1>4, <2>1
    <2>2. CASE i # x /\ \E j \in 1 .. Len(todo) : todo[j] = i
      <3>1. PICK j \in 1 .. Len(todo) : todo[j] = i
        BY <2>2
      <3>2. j # k
        BY <2>2, <3>1 DEF x
      <3>3. CASE j = Len(todo)
        <4>1. k \in 1 .. Len(todo')
          BY <1>1, <1>2, <3>2, <3>3
        <4>2. todo'[k] = i
          BY <1>1, <1>2, <3>1, <3>3, <4>1
        <4> QED
          BY <4>1, <4>2
      <3>4. CASE j # Len(todo)
        <4>1. j \in 1 .. Len(todo')
          BY <1>1, <1>2, <3>4
        <4>2. todo'[j] = i
          BY <1>1, <1>2, <3>1, <3>2, <4>1
        <4> QED
          BY <4>1, <4>2
      <3> QED
        BY <3>3, <3>4
    <2>3. CASE \E s \in Busy : item[s] = i
      BY <1>3, <1>4, <2>3 DEF Busy, At
    <2>4. CASE i \in done
      BY <1>4, <2>4
    <2> QED
      BY <2>1, <2>2, <2>3, <2>4 DEF PlaceInv, Kept
  <1> QED
    BY <1>8, <1>9, <1>10 DEF PlaceInv

\* No item is lost, processed twice or invented.
LEMMA PlaceStep == TypeOK /\ CountInv /\ PlaceInv /\ [Next]_vars => PlaceInv'
  <1> SUFFICES ASSUME TypeOK, CountInv, PlaceInv, [Next]_vars PROVE PlaceInv'
    OBVIOUS
  <1>a. ASSUME Busy' = Busy, UNCHANGED <<added, todo, item, calls, done>> PROVE PlaceInv'
    BY <1>a DEF PlaceInv, Listed, Processed, Kept
  <1>1. ASSUME NEW i \in Items, AddBefore(i) PROVE PlaceInv'
    BY <1>1, AddPlaces DEF AddBefore, adderVars
  <1>2. ASSUME NEW n \in Runners, Do(n) PROVE PlaceInv'
    <2>1. \A r \in Runners : pc[r] = "none"
      BY <1>2 DEF Do, CountInv, Runners
    <2>2. Busy' = Busy
      BY <1>2, <2>1 DEF Do, Busy, At
    <2> QED
      BY <1>2, <1>a, <2>2 DEF Do
  <1>3. ASSUME NEW r \in Runners, NEW k \in 1 .. Len(todo), NEW adds \in SUBSET Items,
               Pick(r, k, adds)
        PROVE  PlaceInv'
    BY <1>3, PickPlaces
  <1>4. ASSUME NEW r \in Runners, Sleep(r) PROVE PlaceInv'
    <2>1. Busy' = Busy
      BY <1>4 DEF Sleep, Looks, Busy, At, TypeOK
    <2> QED
      BY <1>4, <1>a, <2>1 DEF Sleep
  <1>5. ASSUME NEW r \in Runners, AllDone(r) PROVE PlaceInv'
    <2>1. Busy' = Busy
      BY <1>5 DEF AllDone, Looks, Busy, At, TypeOK
    <2> QED
      BY <1>5, <1>a, <2>1 DEF AllDone
  <1>6. ASSUME NEW r \in Runners, NEW i \in Items, AddWithin(r, i) PROVE PlaceInv'
    BY <1>6, AddPlaces DEF AddWithin, adderVars
  <1>7. ASSUME NEW r \in Runners, Finish(r) PROVE PlaceInv'
    <2>1. /\ r \in Busy /\ Busy' = Busy \ {r}
          /\ done' = done \cup {item[r]}
          /\ \A s \in Busy' : item'[s] = item[s]
          /\ UNCHANGED <<added, todo, calls>>
      BY <1>7 DEF Finish, Busy, At, TypeOK
    <2>2. Listed'
      BY <2>1 DEF PlaceInv, Listed
    <2>3. Processed'
      BY <2>1 DEF PlaceInv, Processed
    <2>4. Kept'
      BY <2>1 DEF PlaceInv, Kept
    <2> QED
      BY <2>2, <2>3, <2>4 DEF PlaceInv
  <1>8. CASE UNCHANGED vars
    BY <1>8, <1>a DEF vars, Busy, At
  <1> QED
    BY <1>1, <1>2, <1>3, <1>4, <1>5, <1>6, <1>7, <1>8 DEF Next, Runner

-----------------------------------------------------------------------------
(* Wakeups: while a runner sleeps, the others that look for work suffice   *)
(* for the items of the list.                                              *)

Looking == At("lock") \cup At("woken")

\* A signal makes one more of them, a pick one less.
LEMMA WakeStep == TypeOK /\ CountInv /\ NoLostWakeup /\ [Next]_vars => NoLostWakeup'
  <1> SUFFICES ASSUME TypeOK, CountInv, NoLostWakeup, [Next]_vars PROVE NoLostWakeup'
    OBVIOUS
  <1>a. /\ pc \in [Runners -> {"none", "lock", "asleep", "woken", "run", "returned"}]
        /\ todo \in Seq(Items) /\ Len(todo) \in Nat
    BY DEF TypeOK
  <1>b. IsFiniteSet(Looking) /\ Cardinality(Looking) \in Nat
    BY AtFinite DEF Looking, At
  <1>c. At("asleep") # {} => Len(todo) <= Cardinality(Looking)
    BY DEF NoLostWakeup, Looking
  <1>d. ASSUME At("asleep")' # {} => Len(todo') <= Cardinality(Looking') PROVE NoLostWakeup'
    BY <1>d DEF NoLostWakeup, Looking
  <1>e. ASSUME NEW i \in Items, Add(i) PROVE NoLostWakeup'
    <2>1. CASE todo' = todo /\ pc' = pc
      BY <1>c, <1>d, <2>1 DEF At, Looking
    <2>2. CASE pc' = pc /\ (waiting = 0 \/ At("asleep") = {})
      <3>1. waiting = 0 => At("asleep") = {}
        <4>1. IsFiniteSet(Counted)
          BY AtFinite DEF Counted, At
        <4> QED
          BY <4>1, FS_EmptySet DEF CountInv, Counted
      <3> QED
        BY <1>d, <2>2, <3>1 DEF At
    <2>3. ASSUME NEW s \in At("asleep"), pc' = [pc EXCEPT ![s] = "woken"],
                 todo' = Append(todo, i)
          PROVE  NoLostWakeup'
      <3>1. Looking' = Looking \cup {s} /\ s \notin Looking
        BY <1>a, <2>3 DEF Looking, At
      <3>2. Cardinality(Looking') = Cardinality(Looking) + 1
        BY <1>b, <3>1, FS_AddElement
      <3>3. Len(todo') = Len(todo) + 1
        BY <1>a, <2>3
      <3> QED
        BY <1>a, <1>b, <1>c, <1>d, <2>3, <3>2, <3>3
    <2> QED
      BY <1>e, <2>1, <2>2, <2>3, AddEffect
  <1>1. ASSUME NEW i \in Items, AddBefore(i) PROVE NoLostWakeup'
    BY <1>1, <1>e DEF AddBefore
  <1>2. ASSUME NEW n \in Runners, Do(n) PROVE NoLostWakeup'
    BY <1>2, <1>a, <1>d DEF Do, At
  <1>3. ASSUME NEW r \in Runners, NEW k \in 1 .. Len(todo), NEW adds \in SUBSET Items,
               Pick(r, k, adds)
        PROVE  NoLostWakeup'
    <2>1. Looking' = Looking \ {r} /\ r \in Looking /\ At("asleep")' = At("asleep")
      BY <1>3, <1>a DEF Pick, Looks, Looking, At
    <2>2. Cardinality(Looking') = Cardinality(Looking) - 1
      BY <1>b, <2>1, FS_RemoveElement
    <2>3. Len(todo') = Len(todo) - 1
      BY <1>3, <1>a, SwapOutElements DEF Pick
    <2> QED
      BY <1>a, <1>b, <1>c, <1>d, <2>1, <2>2, <2>3
  <1>4. ASSUME NEW r \in Runners, Sleep(r) PROVE NoLostWakeup'
    <2>1. todo' = <<>>
      BY <1>4 DEF Sleep
    <2>2. IsFiniteSet(Looking') /\ Cardinality(Looking') \in Nat
      BY AtFinite DEF Looking, At
    <2> QED
      BY <1>d, <2>1, <2>2
  <1>5. ASSUME NEW r \in Runners, AllDone(r) PROVE NoLostWakeup'
    BY <1>5, <1>a, <1>d DEF AllDone, At
  <1>6. ASSUME NEW r \in Runners, NEW i \in Items, AddWithin(r, i) PROVE NoLostWakeup'
    BY <1>6, <1>e DEF AddWithin
  <1>7. ASSUME NEW r \in Runners, Finish(r) PROVE NoLostWakeup'
    <2>1. Looking' = Looking \cup {r} /\ r \notin Looking /\ At("asleep")' = At("asleep")
      BY <1>7, <1>a DEF Finish, Looking, At
    <2>2. Cardinality(Looking') = Cardinality(Looking) + 1
      BY <1>b, <2>1, FS_AddElement
    <2>3. todo' = todo
      BY <1>7 DEF Finish
    <2> QED
      BY <1>a, <1>b, <1>c, <1>d, <2>1, <2>2, <2>3
  <1>8. CASE UNCHANGED vars
    BY <1>8, <1>c, <1>d DEF vars, At, Looking
  <1> QED
    BY <1>1, <1>2, <1>3, <1>4, <1>5, <1>6, <1>7, <1>8 DEF Next, Runner

-----------------------------------------------------------------------------
(* The theorems.                                                           *)

Inv == TypeOK /\ CountInv /\ PlaceInv /\ EndInv /\ NoLostWakeup

\* The invariant holds before anything was added.
LEMMA Initial == Init => Inv
  <1> SUFFICES ASSUME Init PROVE Inv
    OBVIOUS
  <1>1. TypeOK
    BY ParWorkAssumption DEF Init, TypeOK, Runners
  <1>2. CountInv
    <2>1. Counted = {}
      BY DEF Init, Counted, At
    <2> QED
      BY <2>1, FS_EmptySet DEF Init, CountInv, Runners
  <1>3. PlaceInv
    BY DEF Init, PlaceInv, Listed, Processed, Kept, Busy, At
  <1>4. EndInv /\ NoLostWakeup
    BY DEF Init, EndInv, NoLostWakeup, At
  <1> QED
    BY <1>1, <1>2, <1>3, <1>4 DEF Inv

\* And in every state.
THEOREM Invariance == Spec => []Inv
  <1>1. Inv /\ [Next]_vars => Inv'
    BY TypeStep, CountStep, PlaceStep, EndStep, WakeStep DEF Inv
  <1> QED
    BY Initial, <1>1, PTL DEF Spec

\* The variables of w and of its runners keep their types; w.waiting never exceeds
\* w.running.
THEOREM TypeCorrect == Spec => []TypeOK
  <1>1. Inv => TypeOK
    BY DEF Inv
  <1> QED
    BY Invariance, <1>1, PTL

\* f is called at most once with each item, and only with items that were added.
THEOREM CalledOnce == Spec => []AtMostOnce
  <1>1. Inv => AtMostOnce
    BY DEF Inv, TypeOK, PlaceInv, Processed, AtMostOnce
  <1> QED
    BY Invariance, <1>1, PTL

\* When a runner returns, and so when Do does, every item added was processed.
THEOREM ReturnsLast == Spec => []NoEarlyReturn
  <1>1. ASSUME Inv, At("returned") # {} PROVE todo = <<>> /\ Busy = {} /\ done = added
    <2>1. todo = <<>> /\ Busy = {}
      BY <1>1 DEF Inv, EndInv, Busy, At
    <2>2. added \subseteq done
      BY <1>1, <2>1 DEF Inv, PlaceInv, Kept
    <2>3. done \subseteq added
      BY <1>1 DEF Inv, PlaceInv, Processed
    <2> QED
      BY <2>1, <2>2, <2>3
  <1>2. Inv => NoEarlyReturn
    BY <1>1 DEF NoEarlyReturn
  <1> QED
    BY Invariance, <1>2, PTL

\* No item waits in the list for want of a runner while one sleeps.
THEOREM WakeupsReach == Spec => []NoLostWakeup
  <1>1. Inv => NoLostWakeup
    BY DEF Inv
  <1> QED
    BY Invariance, <1>1, PTL

-----------------------------------------------------------------------------
(* The refinement.                                                         *)

\* The list's range, by position.
LEMMA PendingElements ==
  ASSUME NEW s \in Seq(Items), NEW x
  PROVE  x \in Range(s) <=> \E j \in 1 .. Len(s) : s[j] = x
  BY DEF Range

\* What is in none of the places was not added.
LEMMA KnownIsAdded == TypeOK /\ PlaceInv => Pending \cup Processing \cup done = added
  <1> SUFFICES ASSUME TypeOK, PlaceInv PROVE Pending \cup Processing \cup done = added
    OBVIOUS
  <1>1. \A x : x \in Pending <=> \E j \in 1 .. Len(todo) : todo[j] = x
    BY PendingElements DEF Pending, TypeOK
  <1> QED
    BY <1>1 DEF Processing, PlaceInv, Listed, Processed, Kept

\* An effective Add is one of the abstract specification, any other a stutter.
LEMMA AddRefines ==
  ASSUME Inv, NEW i \in Items, Add(i), running = 0 \/ Busy # {},
         UNCHANGED adderVars
  PROVE  [Abstract!Next]_(Abstract!vars)
  <1>1. TypeOK /\ PlaceInv /\ EndInv
    BY DEF Inv
  <1>2. Busy' = Busy
    BY <1>1, AddEffect DEF Busy, At, TypeOK
  <1>3. UNCHANGED <<Processing, done, running>>
    BY <1>2 DEF adderVars, Processing
  <1>4. At("returned") = {} \/ running = 0
    BY <1>1 DEF EndInv, Busy, At
  <1>5. Phase' = Phase
    <2>1. \A r \in Runners : pc'[r] = "returned" <=> pc[r] = "returned"
      BY <1>1, AddEffect DEF At, TypeOK
    <2> QED
      BY <2>1, <1>3, ParWorkAssumption DEF Phase, Main, Runners
  <1>6. CASE i \in added
    <2>1. Pending' = Pending
      BY <1>6 DEF Add, Pending
    <2> QED
      BY <1>3, <1>5, <2>1 DEF Abstract!vars
  <1>7. CASE i \notin added
    <2>1. Pending' = Pending \cup {i}
      <3>1. todo' = Append(todo, i) /\ todo \in Seq(Items)
        BY <1>1, <1>7 DEF Add, TypeOK
      <3>2. todo' \in Seq(Items) /\ Len(todo) \in Nat /\ Len(todo') = Len(todo) + 1
        BY <3>1
      <3>3. \A j \in 1 .. Len(todo') : todo'[j] = IF j = Len(todo) + 1 THEN i ELSE todo[j]
        BY <3>1
      <3>4. ASSUME NEW x
            PROVE  (\E j \in 1 .. Len(todo') : todo'[j] = x)
                     <=> x = i \/ \E j \in 1 .. Len(todo) : todo[j] = x
        <4>1. Len(todo) + 1 \in 1 .. Len(todo')
          BY <3>2
        <4>2. \A j : j \in 1 .. Len(todo') <=> j = Len(todo) + 1 \/ j \in 1 .. Len(todo)
          BY <3>2
        <4>3. \A j \in 1 .. Len(todo) : j # Len(todo) + 1
          BY <3>2
        <4> QED
          BY <3>3, <4>1, <4>2, <4>3
      <3> QED
        BY <3>1, <3>2, <3>4, PendingElements DEF Pending
    <2>2. i \notin Pending \cup Processing \cup done
      BY <1>1, <1>7, KnownIsAdded
    <2>3. Phase = "adding" \/ Processing # {}
      BY DEF Phase, Processing
    <2>4. Abstract!Add(i)
      BY <1>3, <1>5, <2>1, <2>2, <2>3
      DEF Abstract!Add, Abstract!Known
    <2> QED
      BY <2>4 DEF Abstract!Next
  <1> QED
    BY <1>6, <1>7

\* Picking an item starts it.
LEMMA PickRefines ==
  ASSUME Inv, NEW r \in Runners, NEW k \in 1 .. Len(todo), NEW adds \in SUBSET Items,
         Pick(r, k, adds)
  PROVE  [Abstract!Next]_(Abstract!vars)
  <1> DEFINE x == todo[k]
  <1>1. /\ TypeOK /\ CountInv /\ PlaceInv /\ EndInv
        /\ todo \in Seq(Items) /\ Len(todo) \in Nat /\ x \in Items
    BY DEF Inv, TypeOK
  <1>2. /\ Len(todo') = Len(todo) - 1 /\ todo' \in Seq(Items)
        /\ \A j \in 1 .. Len(todo) - 1 :
             todo'[j] = IF j = k THEN todo[Len(todo)] ELSE todo[j]
    BY <1>1, SwapOutElements DEF Pick
  <1>3. Busy' = Busy \cup {r} /\ r \notin Busy
    BY <1>1 DEF Pick, Busy, At, TypeOK, Looks
  <1>4. item'[r] = x /\ \A s \in Busy : item'[s] = item[s]
    BY <1>1, <1>3 DEF Pick, TypeOK, Busy, At
  <1>5. Processing' = Processing \cup {x}
    BY <1>3, <1>4 DEF Processing
  <1>6. \A j \in 1 .. Len(todo) : todo[j] = x => j = k
    BY <1>1 DEF PlaceInv, Listed
  <1> HIDE DEF x
  <1>7. Pending' = Pending \ {x}
    <2>1. ASSUME NEW y
          PROVE  (\E j \in 1 .. Len(todo') : todo'[j] = y)
                   <=> y # x /\ \E j \in 1 .. Len(todo) : todo[j] = y
      <3>1. ASSUME NEW j \in 1 .. Len(todo'), todo'[j] = y
            PROVE  y # x /\ \E m \in 1 .. Len(todo) : todo[m] = y
        <4>1. Len(todo) \in 1 .. Len(todo) /\ j \in 1 .. Len(todo) /\ j # Len(todo)
          BY <1>1, <1>2
        <4>2. CASE j = k
          BY <1>2, <1>6, <3>1, <4>1, <4>2
        <4>3. CASE j # k
          BY <1>2, <1>6, <3>1, <4>1, <4>3
        <4> QED
          BY <4>2, <4>3
      <3>2. ASSUME y # x, NEW j \in 1 .. Len(todo), todo[j] = y
            PROVE  \E m \in 1 .. Len(todo') : todo'[m] = y
        <4>1. j # k
          BY <3>2 DEF x
        <4>2. CASE j = Len(todo)
          <5>1. k \in 1 .. Len(todo')
            BY <1>1, <1>2, <4>1, <4>2
          <5>2. todo'[k] = y
            BY <1>2, <3>2, <4>2, <5>1
          <5> QED
            BY <5>1, <5>2
        <4>3. CASE j # Len(todo)
          <5>1. j \in 1 .. Len(todo')
            BY <1>1, <1>2, <4>3
          <5>2. todo'[j] = y
            BY <1>2, <3>2, <4>1, <5>1
          <5> QED
            BY <5>1, <5>2
        <4> QED
          BY <4>2, <4>3
      <3> QED
        BY <3>1, <3>2
    <2>2. \A y : y \in Pending <=> \E j \in 1 .. Len(todo) : todo[j] = y
      BY <1>1, PendingElements DEF Pending
    <2>3. \A y : y \in Pending' <=> \E j \in 1 .. Len(todo') : todo'[j] = y
      BY <1>2, PendingElements DEF Pending
    <2> QED
      BY <2>1, <2>2, <2>3
  <1>8. x \in Pending
    BY <1>1, PendingElements DEF Pending, x
  <1>9. Cardinality(Processing) < running
    <2>1. r \in 1 .. running /\ running \in Nat
      BY <1>1, OthersCount DEF Pick
    <2>2. Busy \subseteq (1 .. running) \ {r}
      BY <1>1, <1>3, <2>1, ParWorkAssumption DEF Busy, At, CountInv, Runners, TypeOK
    <2>3. IsFiniteSet(1 .. running) /\ Cardinality(1 .. running) = running
      BY <2>1, FS_Interval
    <2> DEFINE All == 1 .. running
               Others == All \ {r}
    <2>4. Busy \in SUBSET Others /\ IsFiniteSet(All) /\ Cardinality(All) = running /\ r \in All
      BY <2>1, <2>2, <2>3
    <2> HIDE DEF All
    <2>5. IsFiniteSet(Others) /\ Cardinality(Others) = Cardinality(All) - 1
      BY <2>4, FS_RemoveElement
    <2>6. Cardinality(Others) = running - 1
      BY <2>4, <2>5
    <2> HIDE DEF Others
    <2>7. IsFiniteSet(Busy) /\ Cardinality(Busy) <= running - 1 /\ Cardinality(Busy) \in Nat
      BY <2>1, <2>4, <2>5, <2>6, FS_Subset, FS_CardinalityType
    <2>8. Cardinality(Processing) <= Cardinality(Busy) /\ Cardinality(Processing) \in Nat
      <3> DEFINE f == [b \in Busy |-> item[b]]
      <3>1. f \in Surjection(Busy, Processing)
        BY DEF Surjection, Processing
      <3> QED
        BY <2>7, <3>1, FS_Surjection, FS_CardinalityType
    <2> QED
      BY <2>1, <2>7, <2>8
  <1>10. At("returned") = {}
    BY <1>1 DEF EndInv
  <1>11. Phase = "doing" /\ Phase' = "doing"
    <2>1. running # 0 /\ running' = running
      <3>1. r \in 1 .. running /\ running \in Nat
        BY <1>1, OthersCount DEF Pick
      <3> QED
        BY <3>1 DEF Pick
    <2>2. pc[Main] # "returned" /\ pc'[Main] # "returned"
      <3>1. Main \in Runners
        BY ParWorkAssumption DEF Main, Runners
      <3>2. \A s \in Runners : pc[s] # "returned"
        BY <1>10 DEF At
      <3> QED
        BY <1>1, <3>1, <3>2 DEF Pick, TypeOK
    <2> QED
      BY <2>1, <2>2 DEF Phase
  <1>12. done' = done /\ running' = running
    BY DEF Pick
  <1>13. Abstract!Start(x)
    <2>1. Abstract!Cardinality(Processing) = Cardinality(Processing)
      BY DEF Abstract!Cardinality, Cardinality
    <2> QED
      BY <1>5, <1>7, <1>8, <1>9, <1>11, <1>12, <2>1 DEF Abstract!Start
  <1>14. x \in Items
    BY <1>1
  <1> QED
    BY <1>13, <1>14 DEF Abstract!Next

\* Every step of the runners and of their callers is one that par.Work promises.
LEMMA StepRefines == Inv /\ [Next]_vars => [Abstract!Next]_(Abstract!vars)
  <1> SUFFICES ASSUME Inv, [Next]_vars PROVE [Abstract!Next]_(Abstract!vars)
    OBVIOUS
  <1>a. TypeOK /\ CountInv /\ PlaceInv /\ EndInv
    BY DEF Inv
  <1>b. pc \in [Runners -> {"none", "lock", "asleep", "woken", "run", "returned"}]
    BY <1>a DEF TypeOK
  <1>c. Main \in Runners
    BY ParWorkAssumption DEF Main, Runners
  <1>d. ASSUME UNCHANGED <<Pending, Processing, done, Phase, running>>
        PROVE  UNCHANGED Abstract!vars
    BY <1>d DEF Abstract!vars
  <1>1. ASSUME NEW i \in Items, AddBefore(i) PROVE [Abstract!Next]_(Abstract!vars)
    BY <1>1, AddRefines DEF AddBefore
  <1>2. ASSUME NEW n \in Runners, Do(n) PROVE [Abstract!Next]_(Abstract!vars)
    <2>1. Busy = {} /\ Busy' = {}
      BY <1>2, <1>a, <1>b DEF Do, CountInv, Busy, At, Runners
    <2>2. Phase = "adding" /\ Phase' = "doing"
      BY <1>2, <1>c DEF Do, Phase, Runners
    <2>3. UNCHANGED <<Pending, Processing, done>> /\ running' = n
      BY <1>2, <2>1 DEF Do, Pending, Processing
    <2>4. Abstract!Do(n)
      BY <2>2, <2>3 DEF Abstract!Do
    <2> QED
      BY <2>4 DEF Abstract!Next, Runners
  <1>3. ASSUME NEW r \in Runners, NEW k \in 1 .. Len(todo), NEW adds \in SUBSET Items,
               Pick(r, k, adds)
        PROVE  [Abstract!Next]_(Abstract!vars)
    BY <1>3, PickRefines
  <1>4. ASSUME NEW r \in Runners, Sleep(r) PROVE [Abstract!Next]_(Abstract!vars)
    <2>1. UNCHANGED <<Pending, done, running>>
      BY <1>4 DEF Sleep, Pending
    <2>2. Busy' = Busy /\ item' = item
      BY <1>4, <1>b DEF Sleep, Looks, Busy, At
    <2>3. pc'[Main] = "returned" <=> pc[Main] = "returned"
      BY <1>4, <1>b, <1>c DEF Sleep, Looks
    <2> QED
      BY <1>d, <2>1, <2>2, <2>3 DEF Processing, Phase
  <1>5. ASSUME NEW r \in Runners, AllDone(r) PROVE [Abstract!Next]_(Abstract!vars)
    <2>1. UNCHANGED <<Pending, done, running>> /\ todo = <<>>
      BY <1>5 DEF AllDone, Pending
    <2>2. Counted \cup {r} = 1 .. running /\ running # 0
      <3>1. /\ r \in 1 .. running /\ running \in Nat
            /\ OthersWaiting(r) + 1 = running => Counted \cup {r} = 1 .. running
        BY <1>5, <1>a, OthersCount DEF AllDone
      <3> QED
        BY <1>5, <3>1 DEF AllDone
    <2>3. Busy = {} /\ Busy' = {}
      <3>1. \A s \in Runners : s = r \/ pc[s] \in {"none", "asleep", "woken", "returned"}
        BY <1>a, <1>b, <2>2 DEF Counted, At, CountInv, Runners
      <3> QED
        BY <1>5, <1>b, <3>1 DEF AllDone, Looks, Busy, At
    <2>4. UNCHANGED Processing /\ Processing = {}
      BY <2>3 DEF Processing
    <2>5. Pending = {}
      <3>1. \A x : x \in Pending <=> \E j \in 1 .. Len(todo) : todo[j] = x
        BY <1>a, PendingElements DEF Pending, TypeOK
      <3> QED
        BY <2>1, <3>1
    <2>6. CASE r = Main
      <3>1. Phase = "doing" /\ Phase' = "over"
        BY <1>5, <1>b, <1>c, <2>1, <2>2, <2>6 DEF AllDone, Looks, Phase
      <3>2. Abstract!Return
        BY <2>1, <2>4, <2>5, <3>1 DEF Abstract!Return
      <3> QED
        BY <3>2 DEF Abstract!Next
    <2>7. CASE r # Main
      <3>1. pc'[Main] = "returned" <=> pc[Main] = "returned"
        BY <1>5, <1>b, <1>c, <2>7 DEF AllDone
      <3> QED
        BY <1>d, <2>1, <2>4, <3>1 DEF Phase
    <2> QED
      BY <2>6, <2>7
  <1>6. ASSUME NEW r \in Runners, NEW i \in Items, AddWithin(r, i)
        PROVE  [Abstract!Next]_(Abstract!vars)
    <2>1. Busy # {}
      BY <1>6 DEF AddWithin, Busy, At
    <2> QED
      BY <1>6, <2>1, AddRefines DEF AddWithin
  <1>7. ASSUME NEW r \in Runners, Finish(r) PROVE [Abstract!Next]_(Abstract!vars)
    <2>1. /\ r \in Busy /\ Busy' = Busy \ {r}
          /\ done' = done \cup {item[r]}
          /\ \A s \in Busy' : item'[s] = item[s]
          /\ UNCHANGED <<Pending, running>>
      BY <1>7, <1>a DEF Finish, Busy, At, Pending, TypeOK
    <2>2. Processing' = Processing \ {item[r]}
      BY <1>a, <2>1 DEF Processing, PlaceInv, Processed
    <2>3. item[r] \in Processing /\ item[r] \in Items
      BY <1>a, <2>1 DEF Processing, PlaceInv, Processed, TypeOK
    <2>4. pc'[Main] = "returned" <=> pc[Main] = "returned"
      BY <1>7, <1>b, <1>c DEF Finish
    <2>5. Phase' = Phase
      BY <2>1, <2>4 DEF Phase
    <2>6. Abstract!Finish(item[r])
      BY <2>1, <2>2, <2>3, <2>5 DEF Abstract!Finish
    <2> QED
      BY <2>3, <2>6 DEF Abstract!Next
  <1>8. CASE UNCHANGED vars
    BY <1>8, <1>d DEF vars, Pending, Processing, Phase, Busy, At
  <1> QED
    BY <1>1, <1>2, <1>3, <1>4, <1>5, <1>6, <1>7, <1>8 DEF Next, Runner

\* The runners, their list and their condition variable implement what the comments
\* of par.Work promise, for any n and any items.
THEOREM Refinement == Spec => Implements
  <1>1. Init => Abstract!Init
    <2> SUFFICES ASSUME Init PROVE Abstract!Init
      OBVIOUS
    <2>1. Pending = {} /\ Processing = {}
      BY DEF Init, Pending, Range, Processing, Busy, At
    <2>2. Phase = "adding"
      BY DEF Init, Phase
    <2> QED
      BY <2>1, <2>2 DEF Init, Abstract!Init
  <1> QED
    BY Invariance, <1>1, StepRefines, PTL DEF Spec, Implements, Abstract!Spec
=============================================================================
