------------------------------ MODULE SuiteProof ------------------------------
(***************************************************************************)
(* Proofs about Suite and its GoProxy, for any suites, runners, clients    *)
(* and versions.                                                           *)
(*                                                                         *)
(* SuiteInv: names are given once (there is always a free one among as     *)
(* many counters as there are names), the directories are those of the     *)
(* scripts that have one, and refCount is the number of scripts that have  *)
(* not decremented it, so that who finds it zero is alone.                 *)
(* ProxyInv: an archive has one reader and is read once, what was read is  *)
(* an edition of the time the server was up, and a handler that goes       *)
(* through the list knows the best version so far, by hashes that can no   *)
(* longer change.  What latestVersion computes is shown by induction on    *)
(* the list, as the absence of a least counterexample (Least).             *)
(***************************************************************************)
EXTENDS Suite, FiniteSetTheorems, TLAPS

-----------------------------------------------------------------------------
(* Names                                                                   *)

\* A set of natural numbers has a least element.
LEMMA Least ==
  ASSUME NEW T, T \subseteq Nat, T # {}
  PROVE  \E n \in T : \A m \in T : n <= m
  <1>1. PICK n \in T : \A m \in T : ~ (<<m, n>> \in OpToRel(<, Nat))
    BY NatLessThanWellFounded, WFMin
  <1>2. \A m \in T : ~(m < n)
    BY <1>1 DEF OpToRel
  <1> QED BY <1>2

\* The name RunT gives to a script is a name, and was not given to another.
LEMMA NameIsFree ==
  ASSUME names \in Seq(Seq(Nat)), NEW prefix \in Seq(Nat)
  PROVE  Name(prefix) \in Seq(Nat) /\ ~Taken(Name(prefix))
  <1> DEFINE n == Len(names)
             With(k) == IF k = 0 THEN prefix ELSE Append(prefix, k)
             free == {k \in 1 .. n : ~Taken(Append(prefix, k))}
  <1>1. n \in Nat /\ DOMAIN names = 1 .. n
    OBVIOUS
  <1>2. CASE ~Taken(prefix)
    BY <1>2 DEF Name
  <1>3. CASE Taken(prefix)
    <2>1. free # {}
      <3> SUFFICES ASSUME free = {} PROVE FALSE
        OBVIOUS
      <3>1. \A k \in 0 .. n : \E i \in 1 .. n : names[i] = With(k)
        <4> SUFFICES ASSUME NEW k \in 0 .. n PROVE \E i \in 1 .. n : names[i] = With(k)
          OBVIOUS
        <4>1. CASE k = 0
          BY <1>1, <1>3, <4>1 DEF Taken
        <4>2. CASE k # 0
          <5>1. k \in 1 .. n
            BY <1>1, <4>2
          <5>2. Taken(Append(prefix, k))
            BY <5>1
          <5> QED BY <1>1, <4>2, <5>2 DEF Taken
        <4> QED BY <4>1, <4>2
      <3>2. \A k, m \in 0 .. n : With(k) = With(m) => k = m
        <4> SUFFICES ASSUME NEW k \in 0 .. n, NEW m \in 0 .. n, With(k) = With(m) PROVE k = m
          OBVIOUS
        <4>1. \A j \in Nat : Len(Append(prefix, j)) = Len(prefix) + 1
          OBVIOUS
        <4>2. \A j \in Nat : Append(prefix, j)[Len(prefix) + 1] = j
          OBVIOUS
        <4>3. k \in Nat /\ m \in Nat /\ Len(prefix) \in Nat
          BY <1>1
        <4>4. CASE k = 0 /\ m # 0
          BY <4>1, <4>3, <4>4
        <4>5. CASE k # 0 /\ m = 0
          BY <4>1, <4>3, <4>5
        <4>6. CASE k # 0 /\ m # 0
          BY <4>2, <4>3, <4>6
        <4> QED BY <4>4, <4>5, <4>6
      <3> HIDE DEF With, n, free
      <3> DEFINE place == [k \in 0 .. n |-> CHOOSE i \in 1 .. n : names[i] = With(k)]
      <3>3. \A k \in 0 .. n : place[k] \in 1 .. n /\ names[place[k]] = With(k)
        BY <3>1
      <3>4. place \in [0 .. n -> 1 .. n]
        BY <3>3
      <3>5. IsFiniteSet(0 .. n) /\ Cardinality(0 .. n) = n + 1
        BY <1>1, FS_Interval
      <3>6. IsFiniteSet(1 .. n) /\ Cardinality(1 .. n) = n
        BY <1>1, FS_Interval
      <3> HIDE DEF place
      <3>7. Cardinality(1 .. n) < Cardinality(0 .. n)
        BY <1>1, <3>5, <3>6
      <3>8. PICK k, m \in 0 .. n : k # m /\ place[k] = place[m]
        BY <3>4, <3>5, <3>6, <3>7, FS_PigeonHole
      <3>9. With(k) = With(m)
        BY <3>3, <3>8
      <3> QED BY <3>2, <3>8, <3>9
    <2>2. free \subseteq Nat
      BY <1>1
    <2>3. \E k \in free : \A m \in free : k <= m
      BY <2>1, <2>2, Least
    <2> DEFINE number == CHOOSE k \in free : \A m \in free : k <= m
    <2>4. number \in free
      BY <2>3
    <2>5. Name(prefix) = Append(prefix, number)
      BY <1>3 DEF Name
    <2>6. ~Taken(Append(prefix, number)) /\ number \in Nat
      BY <1>1, <2>4
    <2> HIDE DEF number
    <2> QED BY <2>5, <2>6
  <1> QED BY <1>2, <1>3

-----------------------------------------------------------------------------
(* The invariant of RunT                                                   *)

\* Where scripts are.
Places == {"new", "filtered", "paused", "mkdir", "setup", "lines", "defer", "wait", "end",
           "count", "last", "done", "dead"}

\* Who has a directory, from its making to its removal.
Owning == {"setup", "lines", "defer", "wait", "end"}
Owners == {i \in Scripts : at[i] \in Owning \/ (plan.keep /\ at[i] = "done")}

\* Who has not decremented refCount.
Counted == {i \in Scripts : at[i] \notin {"last", "done"}}

\* The types of Suite's variables, but for dirs, which DirsInv defines.
SuiteType ==
  /\ plan \in Plans
  /\ names \in Seq(Seq(Nat)) /\ Len(names) <= Len(plan.files)
  /\ at \in [Scripts -> Places] /\ outcome \in [Scripts -> Outcomes]
  /\ refCount \in Int /\ tempDir \in BOOLEAN
  /\ context \in {"live", "expired", "cancelled"} /\ failed \in BOOLEAN

\* Scripts are named in order, each for itself.
NamesInv ==
  /\ \A i \in Scripts : at[i] = "new" <=> i > Len(names)
  /\ \A i, j \in 1 .. Len(names) : names[i] = names[j] => i = j

\* There are the directories of those who have one, and no others.
DirsInv == dirs = {names[i] : i \in Owners}

\* If nothing is kept, refCount counts, and who finds it zero is alone and cleans up.
CountInv ==
  /\ plan.keep => tempDir /\ context # "cancelled" /\ \A i \in Scripts : at[i] \notin {"end", "count", "last"}
  /\ ~plan.keep =>
       /\ refCount = Cardinality(Counted)
       /\ ~tempDir \/ context = "cancelled" \/ (\E i \in Scripts : at[i] = "last") => Counted = {}
       /\ plan.files # <<>> /\ (\A i \in Scripts : at[i] = "done")
            => ~tempDir /\ (plan.deadline => context = "cancelled")
  /\ ~plan.deadline => context = "live"

\* The process has died, with all scripts.
AllDead == Dead /\ \A i \in Scripts : at[i] = "dead"

\* The invariant of RunT.
SuiteInv == SuiteType /\ (AllDead \/ (~Dead /\ NamesInv /\ DirsInv /\ CountInv))

\* What is known of a plan.
LEMMA PlanIs ==
  ASSUME plan \in Plans
  PROVE  /\ plan.files \in Seq(Seq(Nat)) /\ Len(plan.files) \in Nat
         /\ Scripts = 1 .. Len(plan.files) /\ IsFiniteSet(Scripts)
         /\ Cardinality(Scripts) = Len(plan.files)
         /\ plan.keep \in BOOLEAN /\ plan.deadline \in BOOLEAN
         /\ plan.ends \subseteq Outcomes
         /\ plan.disk \in [Versions \cup {Unknown} -> {"absent", "broken", "first"}]
         /\ plan.disk[Unknown] = "absent"
         /\ plan.proxy # 0 => plan.proxy \in Scripts
         /\ plan.edits \subseteq Versions
         /\ plan.kinds \subseteq Kinds
  <1>1. plan.files \in Seq(Seq(Nat)) /\ Len(plan.files) \in Nat /\ Scripts = 1 .. Len(plan.files)
    BY SuiteAssumption DEF Scripts
  <1>2. IsFiniteSet(Scripts) /\ Cardinality(Scripts) = Len(plan.files)
    BY <1>1, FS_Interval
  <1>3. /\ plan.keep \in BOOLEAN /\ plan.deadline \in BOOLEAN
        /\ plan.ends \subseteq Outcomes
        /\ plan.disk \in [Versions \cup {Unknown} -> {"absent", "broken", "first"}]
        /\ plan.disk[Unknown] = "absent"
        /\ plan.edits \subseteq Versions
        /\ plan.kinds \subseteq Kinds
    BY SuiteAssumption
  <1>4. plan.proxy \in 0 .. Len(plan.files)
    BY SuiteAssumption
  <1> QED BY <1>1, <1>2, <1>3, <1>4

\* One script goes on.
LEMMA Goes ==
  ASSUME SuiteType, plan' = plan, NEW i \in Scripts, NEW spot \in Places, Go(i, spot)
  PROVE  /\ at' \in [Scripts -> Places] /\ Scripts' = Scripts
         /\ at'[i] = spot /\ \A j \in Scripts \ {i} : at'[j] = at[j]
         /\ ~Dead /\ spot # "dead" => ~Dead'
  <1>1. Scripts' = Scripts /\ at \in [Scripts -> Places]
    BY DEF Scripts, SuiteType
  <1>2. at' = [at EXCEPT ![i] = spot]
    BY DEF Go
  <1> QED BY <1>1, <1>2 DEF Dead

\* The counted scripts, but for the one that has gone on.
LEMMA CountedIs ==
  ASSUME SuiteType, plan' = plan, NEW i \in Scripts, NEW spot \in Places, Go(i, spot)
  PROVE  /\ IsFiniteSet(Counted) /\ Cardinality(Counted) \in Nat /\ (Cardinality(Counted) = 0 <=> Counted = {})
         /\ (at[i] \in {"last", "done"} <=> spot \in {"last", "done"}) => Counted' = Counted
         /\ at[i] \notin {"last", "done"} /\ spot \in {"last", "done"} =>
              Counted' = Counted \ {i} /\ Cardinality(Counted') = Cardinality(Counted) - 1
  <1>1. IsFiniteSet(Counted) /\ Cardinality(Counted) \in Nat /\ (Cardinality(Counted) = 0 <=> Counted = {})
    <2>1. Counted \in SUBSET Scripts
      BY DEF Counted
    <2>2. IsFiniteSet(Counted)
      BY <2>1, PlanIs, FS_Subset DEF SuiteType
    <2> QED BY <2>2, FS_CardinalityType, FS_EmptySet
  <1>2. /\ Scripts' = Scripts /\ at'[i] = spot /\ \A j \in Scripts \ {i} : at'[j] = at[j]
    BY Goes
  <1>3. (at[i] \in {"last", "done"} <=> spot \in {"last", "done"}) => Counted' = Counted
    BY <1>2 DEF Counted
  <1>4. ASSUME at[i] \notin {"last", "done"}, spot \in {"last", "done"}
        PROVE  Counted' = Counted \ {i} /\ Cardinality(Counted') = Cardinality(Counted) - 1
    <2>1. Counted' = Counted \ {i} /\ i \in Counted
      BY <1>2, <1>4 DEF Counted
    <2> QED BY <1>1, <2>1, FS_RemoveElement
  <1> QED BY <1>1, <1>3, <1>4

\* A script that has its name goes on, and keeps or loses its directory, or gets one.
LEMMA DirsGo ==
  ASSUME SuiteType, NamesInv, DirsInv, UNCHANGED <<plan, names>>, NEW i \in Scripts, NEW spot \in Places,
         Go(i, spot), at[i] # "new",
         spot \in Owning \/ (plan.keep /\ spot = "done") => dirs' = dirs \cup {names[i]},
         ~(spot \in Owning \/ (plan.keep /\ spot = "done")) => dirs' = dirs \ {names[i]}
  PROVE  DirsInv'
  <1>1. /\ Scripts' = Scripts /\ at'[i] = spot /\ \A j \in Scripts \ {i} : at'[j] = at[j]
    BY Goes
  <1>2. \A j \in Scripts : at[j] # "new" => j \in 1 .. Len(names)
    BY PlanIs DEF SuiteType, NamesInv
  <1>3. \A j \in Owners : at[j] # "new"
    BY DEF Owners, Owning
  <1>4. \A j \in Owners \ {i} : names[j] # names[i]
    BY <1>2, <1>3 DEF NamesInv, Owners
  <1>5. CASE spot \in Owning \/ (plan.keep /\ spot = "done")
    <2>1. Owners' = Owners \cup {i}
      BY <1>1, <1>5 DEF Owners
    <2> QED BY <1>5, <2>1 DEF DirsInv
  <1>6. CASE ~(spot \in Owning \/ (plan.keep /\ spot = "done"))
    <2>1. Owners' = Owners \ {i}
      BY <1>1, <1>6 DEF Owners
    <2> QED BY <1>4, <1>6, <2>1 DEF DirsInv
  <1> QED BY <1>5, <1>6

\* While one script lives all do.
LEMMA Awake ==
  ASSUME SuiteInv, NEW i \in Scripts, at[i] # "dead"
  PROVE  SuiteType /\ ~Dead /\ NamesInv /\ DirsInv /\ CountInv
  BY DEF SuiteInv, AllDead

\* The names stay in order.
LEMMA NamesGo ==
  ASSUME SuiteType, NamesInv, UNCHANGED <<plan, names>>, NEW i \in Scripts, NEW spot \in Places,
         Go(i, spot), at[i] # "new", spot # "new"
  PROVE  NamesInv'
  <1>1. /\ Scripts' = Scripts /\ at'[i] = spot /\ \A j \in Scripts \ {i} : at'[j] = at[j]
    BY Goes
  <1>2. \A j \in Scripts : at'[j] = "new" <=> at[j] = "new"
    BY <1>1
  <1> QED BY <1>1, <1>2 DEF NamesInv

\* A script that is counted goes on, and stays so.
LEMMA CountGo ==
  ASSUME SuiteType, CountInv, UNCHANGED <<plan, refCount, context>>, NEW i \in Scripts, NEW spot \in Places,
         Go(i, spot), at[i] \notin {"last", "done"}, spot \notin {"last", "done"},
         spot \in {"end", "count"} => ~plan.keep, tempDir' \in {tempDir, TRUE}
  PROVE  CountInv'
  <1>1. /\ Scripts' = Scripts /\ at'[i] = spot /\ \A j \in Scripts \ {i} : at'[j] = at[j]
    BY Goes
  <1>2. CASE plan.keep
    <2>1. \A j \in Scripts : at'[j] \notin {"end", "count", "last"}
      BY <1>1, <1>2 DEF CountInv
    <2>2. tempDir' /\ context' # "cancelled" /\ (~plan.deadline => context' = "live")
      BY <1>2 DEF CountInv
    <2> QED BY <1>1, <1>2, <2>1, <2>2 DEF CountInv
  <1>3. CASE ~plan.keep
    <2>1. Counted' = Counted /\ i \in Counted
      BY CountedIs DEF Counted
    <2>2. tempDir /\ context # "cancelled" /\ \A j \in Scripts : at[j] # "last"
      BY <1>3, <2>1 DEF CountInv, SuiteType
    <2>3. \A j \in Scripts : at'[j] # "last"
      BY <1>1, <2>2
    <2>4. tempDir' = TRUE
      BY <2>2 DEF SuiteType
    <2>5. ~(\A j \in Scripts : at'[j] = "done")
      BY <1>1
    <2>6. refCount' = Cardinality(Counted')
      BY <1>3, <2>1 DEF CountInv
    <2>7. ~plan.deadline => context' = "live"
      BY DEF CountInv
    <2> QED BY <1>1, <1>3, <2>2, <2>3, <2>4, <2>5, <2>6, <2>7 DEF CountInv
  <1> QED BY <1>2, <1>3

\* A script goes on from one place to another between its beginning and its end.
LEMMA GoesOn ==
  ASSUME SuiteInv, UNCHANGED <<plan, names, refCount, context>>, NEW i \in Scripts,
         NEW spot \in Places \ {"new", "last", "done", "dead"}, Go(i, spot),
         at[i] \notin {"new", "last", "done", "dead"},
         spot \in {"end", "count"} => ~plan.keep, tempDir' \in {tempDir, TRUE},
         outcome' \in [Scripts -> Outcomes], failed' \in BOOLEAN,
         spot \in Owning => dirs' = dirs \cup {names[i]},
         spot \notin Owning => dirs' = dirs \ {names[i]}
  PROVE  SuiteInv'
  <1>1. SuiteType /\ ~Dead /\ NamesInv /\ DirsInv /\ CountInv
    BY Awake
  <1>2. ~Dead' /\ at' \in [Scripts -> Places] /\ Scripts' = Scripts
    BY <1>1, Goes
  <1>3. SuiteType'
    BY <1>1, <1>2 DEF SuiteType
  <1>4. NamesInv'
    BY <1>1, NamesGo
  <1>5. CountInv'
    BY <1>1, CountGo
  <1>6. DirsInv'
    BY <1>1, DirsGo
  <1> QED BY <1>2, <1>3, <1>4, <1>5, <1>6 DEF SuiteInv

\* A script that has its directory, or none.
LEMMA OwnsOrNot ==
  ASSUME SuiteInv, NEW i \in Scripts, at[i] \notin {"new", "dead"}
  PROVE  /\ at[i] \in Owning => dirs = dirs \cup {names[i]}
         /\ at[i] \notin Owning \cup {"done"} => dirs = dirs \ {names[i]}
  <1>1. SuiteType /\ NamesInv /\ DirsInv
    BY Awake
  <1>2. at[i] \in Owning => names[i] \in dirs
    BY <1>1 DEF DirsInv, Owners
  <1>3. \A j \in Scripts : at[j] # "new" => j \in 1 .. Len(names)
    BY <1>1, PlanIs DEF SuiteType, NamesInv
  <1>4. \A j \in Owners : at[j] # "new" /\ j \in Scripts
    BY DEF Owners, Owning
  <1>5. ASSUME at[i] \notin Owning \cup {"done"} PROVE names[i] \notin dirs
    <2> SUFFICES ASSUME NEW j \in Owners, names[j] = names[i] PROVE FALSE
      BY <1>1 DEF DirsInv
    <2>1. j = i
      BY <1>1, <1>3, <1>4 DEF NamesInv
    <2> QED BY <1>5, <2>1 DEF Owners
  <1> QED BY <1>2, <1>5

-----------------------------------------------------------------------------
(* The steps of a script                                                   *)

\* It resumes.
LEMMA ResumeSuite == ASSUME SuiteInv, NEW i \in Scripts, Resume(i) PROVE SuiteInv'
  <1>1. /\ at[i] = "paused" /\ Go(i, "mkdir")
        /\ UNCHANGED <<plan, names, refCount, context, outcome, tempDir, failed, dirs>>
    BY DEF Resume
  <1>2. dirs' = dirs \ {names[i]}
    BY <1>1, OwnsOrNot DEF Owning
  <1>3. outcome' \in [Scripts -> Outcomes] /\ failed' \in BOOLEAN
    BY <1>1, Awake DEF SuiteType
  <1> QED BY <1>1, <1>2, <1>3, GoesOn DEF Places, Owning

\* The end of a script is recorded.
LEMMA EndsIs ==
  ASSUME SuiteInv, NEW i \in Scripts, NEW how \in Outcomes, Ends(i, how), at[i] # "dead"
  PROVE  outcome' \in [Scripts -> Outcomes] /\ Go(i, "defer")
  <1>1. outcome \in [Scripts -> Outcomes]
    BY Awake DEF SuiteType
  <1> QED BY <1>1 DEF Ends

\* It makes its directory.
LEMMA MakeDirSuite == ASSUME SuiteInv, NEW i \in Scripts, MakeDir(i) PROVE SuiteInv'
  <1>1. /\ at[i] = "mkdir" /\ UNCHANGED <<plan, names, refCount, context, failed>>
        /\ dirs' = dirs \cup {names[i]} /\ tempDir' = TRUE
    BY DEF MakeDir
  <1>2. failed' \in BOOLEAN /\ outcome \in [Scripts -> Outcomes]
    BY <1>1, Awake DEF SuiteType
  <1>3. CASE Go(i, "setup") /\ outcome' = outcome
    BY <1>1, <1>2, <1>3, GoesOn DEF Places, Owning
  <1>4. CASE Ends(i, "fail")
    <2>1. outcome' \in [Scripts -> Outcomes] /\ Go(i, "defer")
      BY <1>1, <1>4, EndsIs DEF Outcomes
    <2> QED BY <1>1, <1>2, <2>1, GoesOn DEF Places, Owning
  <1> QED BY <1>3, <1>4 DEF MakeDir

\* It is set up, ends its lines, or has run its deferred functions, in its directory.
LEMMA InsideSuite ==
  ASSUME SuiteInv, NEW i \in Scripts, Setup(i) \/ End(i) \/ Deferred(i) PROVE SuiteInv'
  <1>1. /\ at[i] \in {"setup", "lines", "defer"}
        /\ UNCHANGED <<plan, names, refCount, context, failed, dirs, tempDir>>
    BY DEF Setup, End, Deferred
  <1>2. failed' \in BOOLEAN /\ outcome \in [Scripts -> Outcomes]
    BY <1>1, Awake DEF SuiteType
  <1>3. dirs' = dirs \cup {names[i]}
    BY <1>1, OwnsOrNot DEF Owning
  <1>4. \/ outcome' = outcome /\ (Go(i, "lines") \/ Go(i, "wait"))
        \/ \E how \in Outcomes : Ends(i, how)
    <2>1. plan.ends \subseteq Outcomes
      BY <1>1, Awake, PlanIs DEF SuiteType
    <2>2. "fail" \in Outcomes
      BY DEF Outcomes
    <2> QED BY <2>1, <2>2 DEF Setup, End, Deferred
  <1>5. outcome' \in [Scripts -> Outcomes] /\ (Go(i, "lines") \/ Go(i, "wait") \/ Go(i, "defer"))
    BY <1>1, <1>2, <1>4, EndsIs
  <1>6. CASE Go(i, "lines")
    BY <1>1, <1>2, <1>3, <1>5, <1>6, GoesOn DEF Places, Owning
  <1>7. CASE Go(i, "wait")
    BY <1>1, <1>2, <1>3, <1>5, <1>7, GoesOn DEF Places, Owning
  <1>8. CASE Go(i, "defer")
    BY <1>1, <1>2, <1>3, <1>5, <1>8, GoesOn DEF Places, Owning
  <1> QED BY <1>5, <1>6, <1>7, <1>8

\* It removes its directory.
LEMMA RemoveDirSuite == ASSUME SuiteInv, NEW i \in Scripts, RemoveDir(i) PROVE SuiteInv'
  <1>1. /\ at[i] = "end" /\ UNCHANGED <<plan, names, refCount, context, failed, outcome, tempDir>>
        /\ dirs' = dirs \ {names[i]} /\ Go(i, "count")
    BY DEF RemoveDir
  <1>2. failed' \in BOOLEAN /\ outcome' \in [Scripts -> Outcomes]
    BY <1>1, Awake DEF SuiteType
  <1>3. ~plan.keep
    BY <1>1, Awake DEF CountInv
  <1> QED BY <1>1, <1>2, <1>3, GoesOn DEF Places, Owning

-----------------------------------------------------------------------------
(* How scripts end                                                         *)

\* A panic that goes on ends everything.
LEMMA AllDie ==
  ASSUME SuiteType, UNCHANGED <<plan, names, outcome>>, NEW i \in Scripts,
         at' = [j \in Scripts |-> "dead"],
         refCount' \in Int, tempDir' \in BOOLEAN, context' \in {"live", "expired", "cancelled"},
         failed' \in BOOLEAN
  PROVE  SuiteInv'
  <1>1. Scripts' = Scripts
    BY DEF Scripts
  <1>2. SuiteType'
    BY <1>1 DEF SuiteType, Places
  <1>3. AllDead'
    BY <1>1 DEF AllDead, Dead
  <1> QED BY <1>2, <1>3 DEF SuiteInv

\* What becomes of the verdict.
LEMMA OverIs ==
  ASSUME SuiteType, NEW i \in Scripts, Over(i)
  PROVE  failed' \in BOOLEAN /\ (Go(i, "done") \/ at' = [j \in Scripts |-> "dead"])
  BY DEF Over, SuiteType

\* Its background commands have ended, and it goes on to the function of RunT.
LEMMA CollectSuite == ASSUME SuiteInv, NEW i \in Scripts, Collect(i) PROVE SuiteInv'
  <1>1. at[i] = "wait" /\ UNCHANGED <<plan, names, outcome, refCount, dirs, tempDir, context>>
    BY DEF Collect
  <1>2. SuiteType /\ ~Dead /\ NamesInv /\ DirsInv /\ CountInv
    BY <1>1, Awake
  <1>3. dirs' = dirs \cup {names[i]}
    BY <1>1, OwnsOrNot DEF Owning
  <1>4. CASE ~plan.keep
    <2>1. Go(i, "end") /\ failed' = failed
      BY <1>4 DEF Collect
    <2>2. failed' \in BOOLEAN /\ outcome' \in [Scripts -> Outcomes]
      BY <1>1, <1>2, <2>1 DEF SuiteType
    <2> QED BY <1>1, <1>3, <1>4, <2>1, <2>2, GoesOn DEF Places, Owning
  <1>5. CASE plan.keep
    <2>1. Over(i)
      BY <1>5 DEF Collect
    <2>2. failed' \in BOOLEAN
      BY <1>2, <2>1, OverIs
    <2>3. CASE at' = [j \in Scripts |-> "dead"]
      BY <1>1, <1>2, <2>2, <2>3, AllDie DEF SuiteType
    <2>4. CASE Go(i, "done")
      <3>1. /\ Scripts' = Scripts /\ at'[i] = "done" /\ \A j \in Scripts \ {i} : at'[j] = at[j]
            /\ at' \in [Scripts -> Places] /\ ~Dead'
        BY <1>1, <1>2, <2>4, Goes DEF Places
      <3>2. SuiteType'
        BY <1>1, <1>2, <2>2, <3>1 DEF SuiteType
      <3>3. NamesInv'
        BY <1>1, <1>2, <2>4, NamesGo DEF Places
      <3>4. DirsInv'
        BY <1>1, <1>2, <1>3, <1>5, <2>4, DirsGo DEF Places
      <3>5. CountInv'
        <4>1. \A j \in Scripts : at'[j] \notin {"end", "count", "last"}
          BY <1>2, <1>5, <3>1 DEF CountInv
        <4>2. tempDir' /\ context' # "cancelled" /\ (~plan.deadline => context' = "live")
          BY <1>1, <1>2, <1>5 DEF CountInv
        <4> QED BY <1>1, <1>5, <3>1, <4>1, <4>2 DEF CountInv
      <3> QED BY <3>1, <3>2, <3>3, <3>4, <3>5 DEF SuiteInv
    <2> QED BY <1>2, <2>1, <2>3, <2>4, OverIs
  <1> QED BY <1>4, <1>5

\* It decrements the count.
LEMMA CountSuite == ASSUME SuiteInv, NEW i \in Scripts, Count(i) PROVE SuiteInv'
  <1>1. /\ at[i] = "count" /\ refCount' = refCount - 1
        /\ UNCHANGED <<plan, names, outcome, dirs, tempDir, context>>
    BY DEF Count
  <1>2. SuiteType /\ ~Dead /\ NamesInv /\ DirsInv /\ CountInv
    BY <1>1, Awake
  <1>3. ~plan.keep /\ refCount = Cardinality(Counted) /\ refCount' \in Int
    BY <1>1, <1>2 DEF CountInv, SuiteType
  <1>4. dirs' = dirs \ {names[i]}
    BY <1>1, OwnsOrNot DEF Owning
  <1>5. CASE at' = [j \in Scripts |-> "dead"] /\ failed' \in BOOLEAN
    BY <1>1, <1>2, <1>3, <1>5, AllDie DEF SuiteType
  <1>6. ASSUME NEW spot \in {"last", "done"}, Go(i, spot), failed' \in BOOLEAN, spot = "last" <=> refCount' = 0
        PROVE  SuiteInv'
    <2>1. spot \in Places /\ spot \notin Owning /\ spot # "dead" /\ spot # "new"
      BY DEF Places, Owning
    <2>2. /\ Scripts' = Scripts /\ at'[i] = spot /\ \A j \in Scripts \ {i} : at'[j] = at[j]
          /\ at' \in [Scripts -> Places] /\ ~Dead'
      BY <1>1, <1>2, <1>6, <2>1, Goes
    <2>3. SuiteType'
      BY <1>1, <1>2, <1>3, <1>6, <2>2 DEF SuiteType
    <2>4. NamesInv'
      BY <1>1, <1>2, <1>6, <2>1, NamesGo
    <2>5. DirsInv'
      BY <1>1, <1>2, <1>3, <1>4, <1>6, <2>1, DirsGo
    <2>6. /\ Counted' = Counted \ {i} /\ refCount' = Cardinality(Counted')
          /\ IsFiniteSet(Counted) /\ i \in Counted
      BY <1>1, <1>2, <1>3, <1>6, <2>1, CountedIs DEF Counted
    <2>7. tempDir /\ context # "cancelled" /\ \A j \in Scripts : at[j] # "last"
      BY <1>2, <1>3, <2>6 DEF CountInv, SuiteType
    <2>8. IsFiniteSet(Counted')
      BY <2>6, FS_RemoveElement
    <2>9. refCount' = 0 <=> Counted' = {}
      BY <2>6, <2>8, FS_EmptySet
    <2>10. (\E j \in Scripts : at'[j] = "last") => Counted' = {}
      BY <1>6, <2>2, <2>7, <2>9
    <2>11. ~(\A j \in Scripts : at'[j] = "done")
      <3>1. CASE spot = "last"
        BY <2>2, <3>1
      <3>2. CASE spot = "done"
        <4>1. PICK j \in Counted' : TRUE
          BY <1>6, <2>9, <3>2
        <4> QED BY <2>2, <4>1 DEF Counted
      <3> QED BY <3>1, <3>2
    <2>12. tempDir' /\ context' # "cancelled" /\ (~plan.deadline => context' = "live")
      BY <1>1, <1>2, <2>7 DEF CountInv
    <2>13. CountInv'
      BY <1>1, <1>3, <2>2, <2>6, <2>10, <2>11, <2>12 DEF CountInv
    <2> QED BY <2>2, <2>3, <2>4, <2>5, <2>13 DEF SuiteInv
  <1>7. CASE refCount' = 0
    <2>1. Go(i, "last") /\ failed' \in BOOLEAN
      BY <1>2, <1>7 DEF Count, SuiteType
    <2> QED BY <1>6, <1>7, <2>1
  <1>8. CASE refCount' # 0
    <2>1. Over(i)
      BY <1>8 DEF Count
    <2> QED BY <1>2, <1>5, <1>6, <1>8, <2>1, OverIs
  <1> QED BY <1>7, <1>8

\* The last one cleans up.
LEMMA CleanUpSuite == ASSUME SuiteInv, NEW i \in Scripts, CleanUp(i) PROVE SuiteInv'
  <1>1. /\ at[i] = "last" /\ tempDir' = (dirs # {}) /\ Over(i)
        /\ context' = IF plan.deadline THEN "cancelled" ELSE context
        /\ UNCHANGED <<plan, names, outcome, refCount, dirs>>
    BY DEF CleanUp
  <1>2. SuiteType /\ ~Dead /\ NamesInv /\ DirsInv /\ CountInv
    BY <1>1, Awake
  <1>3. ~plan.keep /\ Counted = {} /\ refCount = Cardinality(Counted)
    BY <1>1, <1>2 DEF CountInv
  <1>4. dirs = {}
    BY <1>2, <1>3 DEF DirsInv, Owners, Counted, Owning
  <1>5. /\ failed' \in BOOLEAN /\ tempDir' = FALSE
        /\ context' \in {"live", "expired", "cancelled"}
    BY <1>1, <1>2, <1>4, OverIs DEF SuiteType
  <1>6. CASE at' = [j \in Scripts |-> "dead"]
    BY <1>1, <1>2, <1>5, <1>6, AllDie DEF SuiteType
  <1>7. CASE Go(i, "done")
    <2>1. /\ Scripts' = Scripts /\ at'[i] = "done" /\ \A j \in Scripts \ {i} : at'[j] = at[j]
          /\ at' \in [Scripts -> Places] /\ ~Dead'
      BY <1>1, <1>2, <1>7, Goes DEF Places
    <2>2. SuiteType'
      BY <1>1, <1>2, <1>5, <2>1 DEF SuiteType
    <2>3. NamesInv'
      BY <1>1, <1>2, <1>7, NamesGo DEF Places
    <2>4. DirsInv'
      BY <1>1, <1>2, <1>3, <1>4, <1>7, DirsGo DEF Places, Owning
    <2>5. Counted' = Counted
      BY <1>1, <1>2, <1>7, CountedIs DEF Places
    <2>6. CountInv'
      BY <1>1, <1>2, <1>3, <1>5, <2>1, <2>5 DEF CountInv
    <2> QED BY <2>1, <2>2, <2>3, <2>4, <2>6 DEF SuiteInv
  <1> QED BY <1>1, <1>2, <1>6, <1>7, OverIs

-----------------------------------------------------------------------------
(* RunT itself                                                             *)

\* The next script gets a name of its own.
LEMMA RunNextSuite == ASSUME SuiteInv, RunNext PROVE SuiteInv'
  <1> DEFINE i == Len(names) + 1
             new == Name(plan.files[i])
             spot == IF plan.runner = "command" THEN "mkdir"
                     ELSE IF i \in plan.run THEN "paused" ELSE "filtered"
  <1>1. /\ i \in Scripts /\ at[i] = "new" /\ names' = Append(names, new) /\ Go(i, spot)
        /\ UNCHANGED <<plan, outcome, refCount, dirs, tempDir, context, failed>>
    BY DEF RunNext
  <1>2. spot \in {"mkdir", "paused", "filtered"}
    OBVIOUS
  <1> HIDE DEF spot
  <1>3. SuiteType /\ ~Dead /\ NamesInv /\ DirsInv /\ CountInv
    BY <1>1, Awake
  <1>4. names \in Seq(Seq(Nat)) /\ Scripts = 1 .. Len(plan.files) /\ plan.files \in Seq(Seq(Nat))
    BY <1>3, PlanIs DEF SuiteType
  <1>5. plan.files[i] \in Seq(Nat)
    BY <1>1, <1>4
  <1>6. new \in Seq(Nat) /\ ~Taken(new)
    BY <1>4, <1>5, NameIsFree
  <1> HIDE DEF new
  <1>7. /\ names' \in Seq(Seq(Nat)) /\ Len(names') = i /\ names'[i] = new
        /\ \A j \in 1 .. Len(names) : names'[j] = names[j]
    BY <1>1, <1>4, <1>6
  <1>8. /\ Scripts' = Scripts /\ at'[i] = spot /\ \A j \in Scripts \ {i} : at'[j] = at[j]
        /\ at' \in [Scripts -> Places] /\ ~Dead'
    BY <1>1, <1>2, <1>3, Goes DEF Places
  <1>9. SuiteType'
    BY <1>1, <1>3, <1>4, <1>7, <1>8 DEF SuiteType
  <1>10. NamesInv'
    <2>1. \A j \in Scripts : at'[j] = "new" <=> j > Len(names')
      <3> SUFFICES ASSUME NEW j \in Scripts PROVE at'[j] = "new" <=> j > Len(names')
        OBVIOUS
      <3>1. j \in Nat /\ Len(names) \in Nat
        BY <1>4
      <3>2. CASE j = i
        BY <1>2, <1>7, <1>8, <3>1, <3>2
      <3>3. CASE j # i
        <4>1. at[j] = "new" <=> j > Len(names)
          BY <1>3 DEF NamesInv
        <4> QED BY <1>7, <1>8, <3>1, <3>3, <4>1
      <3> QED BY <3>2, <3>3
    <2>2. \A j \in 1 .. Len(names) : names[j] # new
      BY <1>4, <1>6 DEF Taken
    <2>3. \A j, k \in 1 .. Len(names') : names'[j] = names'[k] => j = k
      <3> SUFFICES ASSUME NEW j \in 1 .. Len(names'), NEW k \in 1 .. Len(names'), names'[j] = names'[k]
                   PROVE  j = k
        OBVIOUS
      <3>1. Len(names) \in Nat /\ \A m \in 1 .. Len(names') : m = i \/ m \in 1 .. Len(names)
        BY <1>4, <1>7
      <3>2. CASE j \in 1 .. Len(names) /\ k \in 1 .. Len(names)
        BY <1>3, <1>7, <3>2 DEF NamesInv
      <3>3. CASE j = i \/ k = i
        BY <1>7, <2>2, <3>1, <3>3
      <3> QED BY <3>1, <3>2, <3>3
    <2> QED BY <1>8, <2>1, <2>3 DEF NamesInv
  <1>11. CountInv'
    BY <1>1, <1>2, <1>3, CountGo DEF Places
  <1>12. DirsInv'
    <2>1. Owners' = Owners
      BY <1>1, <1>2, <1>8 DEF Owners, Owning
    <2>2. \A j \in Owners : j \in 1 .. Len(names)
      <3>1. \A j \in Owners : at[j] # "new" /\ j \in Scripts
        BY DEF Owners, Owning
      <3>2. Len(names) \in Nat
        BY <1>4
      <3>3. \A j \in Scripts : at[j] # "new" => j \in Nat /\ ~(j > Len(names)) /\ j >= 1
        BY <1>3, <1>4 DEF NamesInv
      <3> QED BY <3>1, <3>2, <3>3
    <2>3. {names'[j] : j \in Owners} = {names[j] : j \in Owners}
      BY <1>7, <2>2
    <2> QED BY <1>1, <1>3, <2>1, <2>3 DEF DirsInv
  <1> QED BY <1>8, <1>9, <1>10, <1>11, <1>12 DEF SuiteInv

\* The context expires.
LEMMA ExpireSuite == ASSUME SuiteInv, Expire PROVE SuiteInv'
  <1>1. /\ ~Dead /\ plan.deadline /\ context = "live" /\ context' = "expired"
        /\ UNCHANGED <<plan, names, at, outcome, refCount, dirs, tempDir, failed>>
    BY DEF Expire
  <1>2. SuiteType /\ NamesInv /\ DirsInv /\ CountInv
    BY <1>1 DEF SuiteInv, AllDead
  <1>3. Scripts' = Scripts /\ ~Dead' /\ Owners' = Owners /\ Counted' = Counted
    BY <1>1 DEF Scripts, Dead, Owners, Counted
  <1>4. SuiteType'
    BY <1>1, <1>2, <1>3 DEF SuiteType
  <1>5. NamesInv' /\ DirsInv'
    BY <1>1, <1>2, <1>3 DEF NamesInv, DirsInv
  <1>6. CountInv'
    <2>1. plan.files # <<>> /\ (\A i \in Scripts : at[i] = "done") => plan.keep
      BY <1>1, <1>2 DEF CountInv
    <2> QED BY <1>1, <1>2, <1>3, <2>1 DEF CountInv
  <1> QED BY <1>3, <1>4, <1>5, <1>6 DEF SuiteInv

\* What the proxy and its clients do is nothing to the suite.
LEMMA OthersSuite ==
  ASSUME SuiteInv, UNCHANGED <<plan, names, at, outcome, refCount, dirs, tempDir, context, failed>>
  PROVE  SuiteInv'
  <1>1. Scripts' = Scripts /\ Dead' = Dead /\ Owners' = Owners /\ Counted' = Counted
    BY DEF Scripts, Dead, Owners, Counted
  <1>2. SuiteType' /\ NamesInv' = NamesInv /\ DirsInv' = DirsInv /\ CountInv' = CountInv /\ AllDead' = AllDead
    BY <1>1 DEF SuiteInv, SuiteType, NamesInv, DirsInv, CountInv, AllDead
  <1> QED BY <1>1, <1>2 DEF SuiteInv

\* Every step keeps the invariant.
LEMMA SuiteStep == SuiteInv /\ [Next]_vars => SuiteInv'
  <1> SUFFICES ASSUME SuiteInv, [Next]_vars PROVE SuiteInv'
    OBVIOUS
  <1>1. CASE RunNext
    BY <1>1, RunNextSuite
  <1>2. CASE Expire
    BY <1>2, ExpireSuite
  <1>3. ASSUME NEW i \in Scripts, Step(i) PROVE SuiteInv'
    BY <1>3, ResumeSuite, MakeDirSuite, InsideSuite, CollectSuite, RemoveDirSuite, CountSuite,
       CleanUpSuite DEF Step
  <1>4. ASSUME NEW c \in Clients, Serve(c) PROVE SuiteInv'
    BY <1>4, OthersSuite DEF Serve, suiteVars
  <1>5. ASSUME NEW c \in Clients, NEW kind, NEW v, NEW rev, Send(c, kind, v, rev) PROVE SuiteInv'
    BY <1>5, OthersSuite DEF Send
  <1>6. ASSUME NEW v \in Versions, Edit(v) PROVE SuiteInv'
    BY <1>6, OthersSuite DEF Edit, suiteVars
  <1>7. CASE UNCHANGED vars
    BY <1>7, OthersSuite DEF vars, suiteVars
  <1> QED BY <1>1, <1>2, <1>3, <1>4, <1>5, <1>6, <1>7 DEF Next

\* It holds at first.
LEMMA SuiteInit == Init => SuiteInv
  <1> SUFFICES ASSUME Init PROVE SuiteInv
    OBVIOUS
  <1>1. /\ plan \in Plans /\ names = <<>> /\ at = [i \in Scripts |-> "new"]
        /\ outcome = [i \in Scripts |-> "none"] /\ refCount = Len(plan.files)
        /\ dirs = {} /\ tempDir = TRUE /\ context = "live" /\ failed = FALSE
    BY DEF Init
  <1>2. /\ Len(plan.files) \in Nat /\ Scripts = 1 .. Len(plan.files)
        /\ Cardinality(Scripts) = Len(plan.files) /\ plan.files \in Seq(Seq(Nat))
    BY <1>1, PlanIs
  <1>3. SuiteType
    <2>1. at \in [Scripts -> Places] /\ outcome \in [Scripts -> Outcomes]
      BY <1>1 DEF Places, Outcomes
    <2>2. names \in Seq(Seq(Nat)) /\ Len(names) = 0
      BY <1>1
    <2>3. Len(names) <= Len(plan.files) /\ refCount \in Int
      BY <1>1, <1>2, <2>2
    <2>4. tempDir \in BOOLEAN /\ context \in {"live", "expired", "cancelled"} /\ failed \in BOOLEAN
      BY <1>1
    <2> QED BY <1>1, <2>1, <2>2, <2>3, <2>4 DEF SuiteType
  <1>4. ~Dead /\ NamesInv
    BY <1>1, <1>2 DEF Dead, NamesInv
  <1>5. DirsInv
    BY <1>1 DEF DirsInv, Owners, Owning
  <1>6. CountInv
    <2>1. Counted = Scripts
      BY <1>1 DEF Counted
    <2>2. plan.files # <<>> => 1 \in Scripts
      BY <1>2
    <2> QED BY <1>1, <1>2, <2>1, <2>2 DEF CountInv
  <1> QED BY <1>3, <1>4, <1>5, <1>6 DEF SuiteInv

\* The invariant holds.
LEMMA SuiteInvHolds == Spec => []SuiteInv
  BY SuiteInit, SuiteStep, PTL DEF Spec

\* While a script runs its directory is its own and there, as are the parent directory and
\* the context, however many scripts of whatever names end meanwhile (testscript.go:320-368).
THEOREM StillThereHolds == Spec => []StillThere
  <1>1. SuiteInv => StillThere
    <2> SUFFICES ASSUME SuiteInv, NEW i \in Scripts, at[i] \in {"setup", "lines", "defer", "wait"}
                 PROVE  /\ names[i] \in dirs /\ tempDir /\ context # "cancelled"
                        /\ \A j \in DOMAIN names : j # i => names[j] # names[i]
      BY DEF StillThere
    <2>1. SuiteType /\ NamesInv /\ DirsInv /\ CountInv
      BY Awake
    <2>2. i \in Owners /\ i \in Counted
      BY DEF Owners, Owning, Counted
    <2>3. names[i] \in dirs
      BY <2>1, <2>2 DEF DirsInv
    <2>4. tempDir /\ context # "cancelled"
      BY <2>1, <2>2 DEF CountInv, SuiteType
    <2>5. DOMAIN names = 1 .. Len(names) /\ i \in 1 .. Len(names)
      BY <2>1, PlanIs DEF SuiteType, NamesInv
    <2> QED BY <2>1, <2>3, <2>4, <2>5 DEF NamesInv
  <1> QED BY <1>1, SuiteInvHolds, PTL

\* The last script to end, and only that one, leaves nothing behind, however the scripts
\* interleave; nothing is removed that is to be kept (testscript.go:350-368).
THEOREM CleanedHolds == Spec => []Cleaned
  <1>1. SuiteInv => Cleaned
    <2> SUFFICES ASSUME SuiteInv, plan.files # <<>>, \A i \in Scripts : at[i] = "done"
                 PROVE  IF plan.keep THEN Cardinality(dirs) = Len(plan.files) /\ tempDir
                        ELSE dirs = {} /\ ~tempDir
                             /\ context \in {"cancelled", IF plan.deadline THEN "" ELSE "live"}
      BY DEF Cleaned
    <2>1. Scripts = 1 .. Len(plan.files) /\ plan.files \in Seq(Seq(Nat)) /\ IsFiniteSet(Scripts)
          /\ Cardinality(Scripts) = Len(plan.files)
      BY PlanIs DEF SuiteInv, SuiteType
    <2>2. SuiteType /\ NamesInv /\ DirsInv /\ CountInv
      BY <2>1, Awake
    <2>3. CASE ~plan.keep
      <3>1. dirs = {}
        BY <2>2, <2>3 DEF DirsInv, Owners, Owning
      <3> QED BY <2>2, <2>3, <3>1 DEF CountInv
    <2>4. CASE plan.keep
      <3>1. dirs = {names[i] : i \in Scripts}
        BY <2>2, <2>4 DEF DirsInv, Owners
      <3>2. \A i \in Scripts : i \in 1 .. Len(names)
        BY <2>1, <2>2 DEF NamesInv, SuiteType
      <3> DEFINE f == [i \in Scripts |-> names[i]]
      <3>3. f \in [Scripts -> dirs] /\ (\A i, j \in Scripts : f[i] = f[j] => i = j)
            /\ \A d \in dirs : \E i \in Scripts : f[i] = d
        BY <2>2, <3>1, <3>2 DEF NamesInv
      <3>4. ExistsBijection(Scripts, dirs)
        BY <3>3 DEF ExistsBijection, Bijection, Injection, Surjection, IsInjective
      <3>5. Cardinality(dirs) = Len(plan.files)
        BY <2>1, <3>4, FS_Bijection
      <3> QED BY <2>2, <2>4, <3>5 DEF CountInv
    <2> QED BY <2>3, <2>4
  <1> QED BY <1>1, SuiteInvHolds, PTL

-----------------------------------------------------------------------------
(* Versions                                                                *)

\* The greatest of some versions.
LEMMA MaxOfIs ==
  ASSUME NEW S, S \subseteq Nat \ {Unknown}, NEW m \in Nat, \A v \in S : v <= m, m # Unknown => m \in S
  PROVE  MaxOf(S) = m
  <1>1. CASE S = {}
    BY <1>1 DEF MaxOf
  <1>2. CASE S # {}
    <2>1. m \in S
      <3>1. PICK v \in S : TRUE
        BY <1>2
      <3>2. v \in Nat /\ v # 0 /\ v <= m
        BY <3>1 DEF Unknown
      <3>3. m # 0
        BY <3>2
      <3> QED BY <3>3 DEF Unknown
    <2>2. MaxOf(S) = CHOOSE v \in S : \A w \in S : v >= w
      BY <1>2 DEF MaxOf, X!Max
    <2>3. \A w \in S : m >= w
      OBVIOUS
    <2>4. \A v \in S : (\A w \in S : v >= w) => v = m
      BY <2>1
    <2> QED BY <2>1, <2>2, <2>3, <2>4
  <1> QED BY <1>1, <1>2

\* latestVersion finds the greatest release, or if there is none the greatest version.
LEMMA LatestIs ==
  ASSUME modList \in Seq(Versions)
  PROVE  /\ Latest = MaxOf(IF Known \cap Releases = {} THEN Known ELSE Known \cap Releases)
         /\ Latest \in Versions \cup {Unknown}
  <1> DEFINE len == Len(modList)
             Body(f, n) ==
               IF n = 0 THEN [release |-> Unknown, any |-> Unknown]
               ELSE LET b == f[n - 1]
                        v == modList[n]
                    IN  [release |-> IF v \in Releases /\ v > b.release THEN v ELSE b.release,
                         any |-> IF v > b.any THEN v ELSE b.any]
             upTo[n \in 0 .. len] ==
               IF n = 0 THEN [release |-> Unknown, any |-> Unknown]
               ELSE LET b == upTo[n - 1]
                        v == modList[n]
                    IN  [release |-> IF v \in Releases /\ v > b.release THEN v ELSE b.release,
                         any |-> IF v > b.any THEN v ELSE b.any]
             last == upTo[len]
  <1>1. Latest = IF last.release # Unknown THEN last.release ELSE last.any
    BY DEF Latest
  <1>2. len \in Nat
    OBVIOUS
  <1>3. \E f : f = [n \in 0 .. len |-> Body(f, n)]
    <2> DEFINE Lacking == {n \in 0 .. len : ~ \E f : f = [k \in 0 .. n |-> Body(f, k)]}
    <2>1. Lacking = {}
      <3> SUFFICES ASSUME Lacking # {} PROVE FALSE
        OBVIOUS
      <3>1. Lacking \subseteq Nat
        BY <1>2
      <3>2. PICK n \in Lacking : \A m \in Lacking : n <= m
        BY <3>1, Least
      <3> HIDE DEF Body
      <3>3. CASE n = 0
        <4> DEFINE f == [k \in 0 .. 0 |-> [release |-> Unknown, any |-> Unknown]]
        <4>1. \A k \in 0 .. 0 : Body(f, k) = f[k]
          BY DEF Body
        <4>2. f = [k \in 0 .. 0 |-> Body(f, k)]
          BY <4>1
        <4> HIDE DEF f
        <4> QED BY <3>3, <4>2
      <3>4. CASE n # 0
        <4>1. n - 1 \in 0 .. len /\ n \in 0 .. len /\ n - 1 \notin Lacking
          BY <1>2, <3>2, <3>4
        <4>2. PICK f : f = [k \in 0 .. n - 1 |-> Body(f, k)]
          BY <4>1
        <4> DEFINE g == [k \in 0 .. n |-> IF k = n THEN Body(f, n) ELSE f[k]]
        <4>3. \A k \in 0 .. n - 1 : g[k] = f[k]
          BY <1>2, <4>1
        <4> HIDE DEF g
        <4>4. ASSUME NEW k \in 0 .. n PROVE Body(g, k) = Body(f, k)
          <5>1. CASE k = 0
            BY <5>1 DEF Body
          <5>2. CASE k # 0
            <6>1. k - 1 \in 0 .. n - 1
              BY <1>2, <4>1, <5>2
            <6>2. PICK old : old = g[k - 1]
              OBVIOUS
            <6>3. f[k - 1] = old
              BY <4>3, <6>1, <6>2
            <6> QED BY <5>2, <6>2, <6>3 DEF Body
          <5> QED BY <5>1, <5>2
        <4>5. \A k \in 0 .. n : g[k] = Body(g, k)
          <5> SUFFICES ASSUME NEW k \in 0 .. n PROVE g[k] = Body(g, k)
            OBVIOUS
          <5>1. CASE k = n
            <6>1. g[n] = Body(f, n)
              BY <1>2, <4>1 DEF g
            <6> QED BY <4>4, <5>1, <6>1
          <5>2. CASE k # n
            <6>1. k \in 0 .. n - 1
              BY <1>2, <4>1, <5>2
            <6>2. f[k] = Body(f, k)
              BY <4>2, <6>1
            <6> QED BY <4>3, <4>4, <6>1, <6>2
          <5> QED BY <5>1, <5>2
        <4>6. g = [k \in 0 .. n |-> g[k]]
          BY DEF g
        <4>7. g = [k \in 0 .. n |-> Body(g, k)]
          BY <4>5, <4>6
        <4> QED BY <4>7
      <3> QED BY <3>3, <3>4
    <2> QED BY <1>2, <2>1
  <1>4. upTo = [n \in 0 .. len |-> Body(upTo, n)]
    BY <1>3
  <1> HIDE DEF upTo
  <1>5. \A n \in 0 .. len : upTo[n] = Body(upTo, n)
    BY <1>4
  <1> DEFINE Right(n) ==
        /\ upTo[n].any \in Nat /\ upTo[n].release \in Nat
        /\ \A i \in 1 .. n : modList[i] <= upTo[n].any
                             /\ (modList[i] \in Releases => modList[i] <= upTo[n].release)
        /\ upTo[n].any # Unknown => \E i \in 1 .. n : modList[i] = upTo[n].any
        /\ upTo[n].release # Unknown =>
             upTo[n].release \in Releases /\ \E i \in 1 .. n : modList[i] = upTo[n].release
  <1>6. Right(len)
    <2> DEFINE Wrong == {n \in 0 .. len : ~Right(n)}
    <2>1. Wrong = {}
      <3> SUFFICES ASSUME Wrong # {} PROVE FALSE
        OBVIOUS
      <3>1. Wrong \subseteq Nat
        BY <1>2
      <3>2. PICK n \in Wrong : \A m \in Wrong : n <= m
        BY <3>1, Least
      <3>3. CASE n = 0
        <4>1. upTo[0] = [release |-> Unknown, any |-> Unknown]
          <5>1. 0 \in 0 .. len
            BY <1>2
          <5>2. upTo[0] = Body(upTo, 0)
            BY <1>5, <5>1
          <5> QED BY <5>2
        <4> QED BY <3>2, <3>3, <4>1 DEF Unknown
      <3>4. CASE n # 0
        <4>1. n - 1 \in 0 .. len /\ n \in 0 .. len /\ n - 1 \notin Wrong
          BY <1>2, <3>2, <3>4
        <4>2. Right(n - 1)
          BY <4>1
        <4> DEFINE b == upTo[n - 1]
                   v == modList[n]
                   r == IF v \in Releases /\ v > b.release THEN v ELSE b.release
                   a == IF v > b.any THEN v ELSE b.any
        <4>3. upTo[n] = [release |-> r, any |-> a]
          BY <1>5, <3>4, <4>1
        <4>4. v \in Nat /\ v # Unknown
          <5>1. n \in 1 .. Len(modList)
            BY <1>2, <3>4, <4>1
          <5>2. v \in Versions
            BY <5>1
          <5> QED BY <5>2, GoProxyAssumption
        <4>5. \A i \in 1 .. n : i = n \/ i \in 1 .. n - 1
          BY <1>2, <4>1
        <4> HIDE DEF Right
        <4>6. upTo[n].any = a /\ upTo[n].release = r
          BY <4>3
        <4>7. a \in Nat /\ r \in Nat
          BY <4>2, <4>4 DEF Right
        <4>8. ASSUME NEW i \in 1 .. n
              PROVE  modList[i] <= a /\ (modList[i] \in Releases => modList[i] <= r)
          <5>1. CASE i = n
            BY <4>2, <4>4, <5>1 DEF Right
          <5>2. CASE i \in 1 .. n - 1
            <6>1. modList[i] \in Nat
              <7>1. i \in 1 .. Len(modList)
                BY <1>2, <4>1, <5>2
              <7>2. modList[i] \in Versions
                BY <7>1
              <7> QED BY <7>2, GoProxyAssumption
            <6> QED BY <4>2, <4>4, <5>2, <6>1 DEF Right
          <5> QED BY <4>5, <5>1, <5>2
        <4>9. 1 .. n - 1 \subseteq 1 .. n /\ n \in 1 .. n
          BY <1>2, <4>1, <3>4
        <4>10. a # Unknown => \E i \in 1 .. n : modList[i] = a
          BY <4>2, <4>9 DEF Right
        <4>11. r # Unknown => r \in Releases /\ \E i \in 1 .. n : modList[i] = r
          BY <4>2, <4>9 DEF Right
        <4> HIDE DEF a, r
        <4>12. Right(n)
          BY <4>6, <4>7, <4>8, <4>10, <4>11 DEF Right
        <4> QED BY <3>2, <4>12
      <3> QED BY <3>3, <3>4
    <2> QED BY <1>2, <2>1
  <1> HIDE DEF last
  <1>7. last = upTo[len] /\ DOMAIN modList = 1 .. len /\ Known = {modList[i] : i \in 1 .. len}
    BY DEF last, Known
  <1>8. Known \subseteq Versions /\ Versions \subseteq Nat \ {Unknown} /\ Releases \subseteq Versions
    BY <1>7, GoProxyAssumption
  <1>9. /\ last.any \in Nat /\ last.release \in Nat
        /\ \A v \in Known : v <= last.any
        /\ last.any # Unknown => last.any \in Known
        /\ \A v \in Known \cap Releases : v <= last.release
        /\ last.release # Unknown => last.release \in Known \cap Releases
    BY <1>6, <1>7
  <1>10. MaxOf(Known) = last.any /\ MaxOf(Known \cap Releases) = last.release
    BY <1>8, <1>9, MaxOfIs
  <1>11. last.release # Unknown <=> Known \cap Releases # {}
    <2>1. ASSUME NEW v \in Known \cap Releases PROVE last.release # 0
      <3>1. v \in Nat /\ v # 0 /\ v <= last.release
        BY <1>8, <1>9 DEF Unknown
      <3> QED BY <1>9, <3>1
    <2> QED BY <1>9, <2>1 DEF Unknown
  <1> QED BY <1>1, <1>8, <1>9, <1>10, <1>11
-----------------------------------------------------------------------------
(* The invariant of the proxy                                              *)

\* The archives there may be, and the one that is never there.
Slots == Versions \cup {Unknown}

\* What can be read of an archive.
Settled == {"absent", "first", "second"}

\* The handlers' states.
Requests ==
  [at : {"idle", "resolve", "archive", "read", "zip", "zipping", "answer"}, kind : Kinds \cup {"none"},
   rev : Seq(Nat), vers : Slots, best : Slots, rest : Seq(Versions), got : Settled, open : BOOLEAN]

\* What clients are given.
Replies == [kind : Kinds, rev : Seq(Nat), vers : Slots, got : Settled]

\* The types of GoProxy's variables.
ProxyType ==
  /\ server \in {"down", "up", "closed"} /\ modList \in Seq(Versions)
  /\ disk \in [Slots -> Settled \cup {"broken"}]
  /\ archives \in [Slots -> Settled \cup {"unread", "busy"}]
  /\ zips \in [Versions -> Settled \cup {"unread", "busy"}]
  /\ handler \in [Clients -> Requests]
  /\ answers \subseteq Replies
  /\ DOMAIN editions = Slots

\* The hash by which a version is judged, and whether that can still change.
Hash(v) == IF v \in Pseudo \/ archives[v] # "absent" THEN Short[v] ELSE <<>>
Fitting(v, rev) == Matches(Hash(v), rev)
Judged(v) == v \in Pseudo \/ archives[v] \in Settled

\* The best of the first n versions of the list.
Best(n, best, rev) ==
  /\ best # Unknown => Judged(best) /\ Fitting(best, rev) /\ \E j \in 1 .. n : modList[j] = best
  /\ \A j \in 1 .. n : modList[j] > best => Judged(modList[j]) /\ ~Fitting(modList[j], rev)

\* The place in the list a handler has come to.
Passed(r) == Len(modList) - Len(r.rest)

\* A handler that goes through the list has found the best so far; one that has found a
\* version has found the best.
Sought(r) ==
  /\ Len(r.rest) <= Len(modList)
  /\ \A j \in 1 .. Len(r.rest) : r.rest[j] = modList[Passed(r) + j]
  /\ r.at = "resolve" => Best(Passed(r), r.best, r.rev)
  /\ r.at # "resolve" /\ r.rest = <<>> => Best(Len(modList), r.vers, r.rev)
  /\ r.at # "resolve" /\ r.rest # <<>> =>
       /\ r.at \in {"archive", "read"} /\ r.vers = r.rest[1]
       /\ r.vers > r.best /\ r.vers \notin Pseudo
       /\ Best(Passed(r), r.best, r.rev)

\* What is given of a version was read.
Given(v, got) == IF v = Unknown THEN got = "absent" ELSE archives[v] \in Settled /\ got = archives[v]

\* What is known of a handler wherever others are.
HandlerInv(r) ==
  /\ r.at = "idle" => r = NoRequest
  /\ r.at # "idle" => r.kind \in Kinds
  /\ r.kind \in {"info", "zip"} => r.vers \in Versions
  /\ r.kind # "revision" => r.rest = <<>> /\ r.at # "resolve"
  /\ r.kind = "latest" => r.vers = Latest
  /\ r.kind = "revision" => Sought(r)
  /\ r.at \in {"zip", "zipping"} => r.kind = "zip" /\ archives[r.vers] \in Settled
  /\ r.at = "answer" => Given(r.vers, r.got)

\* One handler at a time reads an archive, and who is answered is so while the server is up.
ReadersInv ==
  /\ \A c \in Clients : handler[c].at = "read" => archives[handler[c].vers] = "busy"
  /\ \A c, d \in Clients :
       handler[c].at = "read" /\ handler[d].at = "read" /\ handler[c].vers = handler[d].vers => c = d
  /\ \A c \in Clients : handler[c].open => server = "up"

\* A zip is of the archive; the unknown version has none.
CacheInv ==
  /\ \A v \in Versions : zips[v] \in Settled => zips[v] = archives[v]
  /\ disk[Unknown] = "absent" /\ archives[Unknown] \in {"unread", "busy", "absent"}

\* Until the server is started nothing has happened.
DownInv ==
  server = "down" =>
    /\ modList = <<>> /\ answers = {}
    /\ \A v \in Slots : archives[v] = "unread"
    /\ \A v \in Versions : zips[v] = "unread"
    /\ \A c \in Clients : handler[c] = NoRequest

\* While it is up, what is on the disk and what was read are editions of its time.
UpInv ==
  server = "up" =>
    \A v \in Slots : disk[v] \in editions[v] /\ (archives[v] \in Settled => archives[v] \in editions[v])

\* Answers stay as right as they were when they were given.
AnswerInv(a) ==
  /\ Given(a.vers, a.got)
  /\ a.vers # Unknown => a.got \in editions[a.vers]
  /\ a.kind = "latest" => a.vers = Latest
  /\ a.kind = "revision" => Best(Len(modList), a.vers, a.rev)

\* The invariant of the proxy.
ProxyInv ==
  /\ ProxyType /\ ReadersInv /\ CacheInv /\ DownInv /\ UpInv
  /\ \A c \in Clients : HandlerInv(handler[c])
  /\ \A a \in answers : AnswerInv(a)

-----------------------------------------------------------------------------
(* What was read stays                                                     *)

\* Archives are read once, and the list stays.
Lasting ==
  /\ modList' = modList
  /\ \A v \in Slots : archives[v] \in Settled => archives'[v] = archives[v]

\* The versions of the list, and of pseudo-versions.
LEMMA VersionsAre ==
  /\ Versions \subseteq Nat \ {Unknown} /\ Unknown \in Slots /\ Slots \subseteq Nat /\ Versions \subseteq Slots
  /\ Pseudo \subseteq Versions
  BY GoProxyAssumption DEF Slots, Unknown

\* A version that is judged stays so, as does the outcome.
LEMMA JudgedLasts ==
  ASSUME Lasting, NEW v \in Slots, Judged(v), NEW rev
  PROVE  Judged(v)' /\ (Fitting(v, rev)' <=> Fitting(v, rev))
  <1>1. v \in Pseudo \/ archives'[v] = archives[v]
    BY DEF Lasting, Judged
  <1> QED BY <1>1 DEF Judged, Fitting, Hash

\* The best stays the best.
LEMMA BestLasts ==
  ASSUME ProxyType, Lasting, NEW n \in 0 .. Len(modList), NEW best \in Slots, NEW rev, Best(n, best, rev)
  PROVE  Best(n, best, rev)'
  <1>1. modList' = modList /\ modList \in Seq(Versions)
    BY DEF Lasting, ProxyType
  <1>2. \A j \in 1 .. n : modList[j] \in Slots
    <2>1. 1 .. n \subseteq 1 .. Len(modList)
      BY <1>1
    <2>2. \A j \in 1 .. Len(modList) : modList[j] \in Versions
      BY <1>1
    <2> QED BY <2>1, <2>2, VersionsAre
  <1>3. best # Unknown => Judged(best)' /\ Fitting(best, rev)' /\ \E j \in 1 .. n : modList'[j] = best
    BY <1>1, JudgedLasts DEF Best
  <1>4. ASSUME NEW j \in 1 .. n, modList[j] > best
        PROVE  Judged(modList[j])' /\ ~Fitting(modList[j], rev)'
    <2>1. PICK v \in Slots : v = modList[j]
      BY <1>2
    <2>2. Judged(v) /\ ~Fitting(v, rev)
      BY <1>4, <2>1 DEF Best
    <2>3. Judged(v)' /\ ~Fitting(v, rev)'
      BY <2>2, JudgedLasts
    <2> QED BY <1>1, <2>1, <2>3
  <1> QED BY <1>1, <1>3, <1>4 DEF Best

\* The best of one version more.
LEMMA BestNext ==
  ASSUME ProxyType, Lasting, NEW n \in 0 .. Len(modList) - 1, NEW best \in Slots, NEW rev, Best(n, best, rev),
         NEW v \in Slots, v = modList[n + 1]
  PROVE  /\ v <= best => Best(n + 1, best, rev)'
         /\ v > best /\ Judged(v)' /\ Fitting(v, rev)' => Best(n + 1, v, rev)'
         /\ v > best /\ Judged(v)' /\ ~Fitting(v, rev)' => Best(n + 1, best, rev)'
  <1>1. modList' = modList /\ modList \in Seq(Versions) /\ Len(modList) \in Nat
    BY DEF Lasting, ProxyType
  <1>2. Best(n, best, rev)' /\ n \in Nat
    BY <1>1, BestLasts
  <1>3. /\ \A j \in 1 .. n + 1 : j = n + 1 \/ j \in 1 .. n
        /\ 1 .. n \subseteq 1 .. n + 1 /\ n + 1 \in 1 .. n + 1
    BY <1>2
  <1>4. /\ \A j \in 1 .. n + 1 : modList[j] \in Nat
        /\ best \in Nat /\ v \in Nat
    <2>1. 1 .. n + 1 \subseteq 1 .. Len(modList)
      BY <1>1
    <2>2. \A j \in 1 .. Len(modList) : modList[j] \in Versions
      BY <1>1
    <2> QED BY <2>1, <2>2, VersionsAre
  <1>5. best # Unknown => Judged(best)' /\ Fitting(best, rev)' /\ \E j \in 1 .. n + 1 : modList'[j] = best
    BY <1>2, <1>3 DEF Best
  <1>6. \A j \in 1 .. n : modList'[j] > best => Judged(modList[j])' /\ ~Fitting(modList[j], rev)'
    BY <1>2 DEF Best
  <1>7. CASE v <= best
    BY <1>1, <1>3, <1>4, <1>5, <1>6, <1>7 DEF Best
  <1>8. CASE v > best /\ Judged(v)' /\ Fitting(v, rev)'
    <2>1. \A j \in 1 .. n + 1 : modList'[j] > v => modList'[j] > best /\ j \in 1 .. n
      BY <1>1, <1>3, <1>4, <1>8
    <2>2. Best(n + 1, v, rev)'
      BY <1>1, <1>3, <1>6, <1>8, <2>1 DEF Best
    <2> QED BY <1>4, <1>8, <2>2
  <1>9. CASE v > best /\ Judged(v)' /\ ~Fitting(v, rev)'
    <2>1. Judged(modList[n + 1])' /\ ~Fitting(modList[n + 1], rev)'
      BY <1>1, <1>9
    <2>2. Best(n + 1, best, rev)'
      BY <1>1, <1>3, <1>5, <1>6, <2>1 DEF Best
    <2> QED BY <1>4, <1>9, <2>2
  <1> QED BY <1>7, <1>8, <1>9

\* What was given of a version stays right.
LEMMA GivenLasts ==
  ASSUME Lasting, NEW v \in Slots, NEW got, Given(v, got)
  PROVE  Given(v, got)'
  BY DEF Given, Lasting

\* A list is gone through the same way.
LEMMA LatestLasts == ASSUME modList' = modList PROVE Latest' = Latest
  BY DEF Latest

\* What is known of a handler stays true while others go on.
LEMMA HandlerLasts ==
  ASSUME ProxyType, Lasting, NEW r \in Requests, HandlerInv(r)
  PROVE  HandlerInv(r)'
  <1>1. /\ r.vers \in Slots /\ r.best \in Slots /\ r.rest \in Seq(Versions)
        /\ modList' = modList /\ modList \in Seq(Versions)
    BY DEF Requests, Lasting, ProxyType
  <1>2. Latest' = Latest
    BY <1>1, LatestLasts
  <1>3. ASSUME r.kind = "revision" PROVE Sought(r)'
    <2>1. Sought(r)
      BY <1>3 DEF HandlerInv
    <2>2. Passed(r) \in 0 .. Len(modList) /\ Len(modList) \in 0 .. Len(modList)
      BY <1>1, <2>1 DEF Sought, Passed
    <2>3. Passed(r)' = Passed(r)
      BY <1>1 DEF Passed
    <2>4. Best(Passed(r), r.best, r.rev) => Best(Passed(r), r.best, r.rev)'
      <3>1. PICK n \in 0 .. Len(modList) : n = Passed(r)
        BY <2>2
      <3>2. Best(n, r.best, r.rev) => Best(n, r.best, r.rev)'
        BY <1>1, BestLasts
      <3> QED BY <2>3, <3>1, <3>2
    <2>5. Best(Len(modList), r.vers, r.rev) => Best(Len(modList), r.vers, r.rev)'
      <3>1. PICK n \in 0 .. Len(modList) : n = Len(modList)
        BY <2>2
      <3>2. Best(n, r.vers, r.rev) => Best(n, r.vers, r.rev)'
        BY <1>1, BestLasts
      <3> QED BY <1>1, <3>1, <3>2
    <2> QED BY <1>1, <2>1, <2>3, <2>4, <2>5 DEF Sought
  <1>4. r.at = "answer" => Given(r.vers, r.got)'
    BY <1>1, GivenLasts DEF HandlerInv
  <1>5. r.at \in {"zip", "zipping"} => archives'[r.vers] \in Settled
    BY <1>1 DEF HandlerInv, Lasting
  <1> QED BY <1>2, <1>3, <1>4, <1>5 DEF HandlerInv

\* An answer stays right.
LEMMA AnswerLasts ==
  ASSUME ProxyType, Lasting, NEW a \in Replies,
         AnswerInv(a), \A v \in Slots : editions[v] \subseteq editions'[v]
  PROVE  AnswerInv(a)'
  <1>1. /\ a.vers \in Slots /\ modList' = modList /\ modList \in Seq(Versions)
    BY DEF Lasting, ProxyType, Replies
  <1>2. Latest' = Latest
    BY <1>1, LatestLasts
  <1>3. Best(Len(modList), a.vers, a.rev) => Best(Len(modList), a.vers, a.rev)'
    <2>1. PICK n \in 0 .. Len(modList) : n = Len(modList)
      BY <1>1
    <2>2. Best(n, a.vers, a.rev) => Best(n, a.vers, a.rev)'
      BY <1>1, BestLasts
    <2> QED BY <1>1, <2>1, <2>2
  <1>4. Given(a.vers, a.got)'
    BY <1>1, GivenLasts DEF AnswerInv
  <1> QED BY <1>1, <1>2, <1>3, <1>4 DEF AnswerInv
-----------------------------------------------------------------------------
(* The steps of a handler                                                  *)

\* The types of the two caches.
CacheType(a, z) ==
  a \in [Slots -> Settled \cup {"unread", "busy"}] /\ z \in [Versions -> Settled \cup {"unread", "busy"}]

\* One handler goes on, and what was read stays.
LEMMA HandlerGoes ==
  ASSUME ProxyInv, NEW c \in Clients, NEW s \in Requests, Set(c, s),
         UNCHANGED <<server, modList, disk, editions>>, server # "down",
         CacheType(archives', zips'), Lasting, CacheInv', UpInv',
         answers' \subseteq Replies,
         \A a \in answers' \ answers : AnswerInv(a)',
         HandlerInv(s)', s.open => server = "up",
         s.at = "read" => /\ archives'[s.vers] = "busy"
                          /\ \A d \in Clients \ {c} : ~(handler[d].at = "read" /\ handler[d].vers = s.vers),
         \A d \in Clients \ {c} : handler[d].at = "read" => archives'[handler[d].vers] = "busy"
  PROVE  ProxyInv'
  <1>1. ProxyType /\ ReadersInv
    BY DEF ProxyInv
  <1>2. handler \in [Clients -> Requests] /\ handler' = [handler EXCEPT ![c] = s]
    BY <1>1 DEF ProxyType, Set
  <1>3. /\ handler' \in [Clients -> Requests] /\ handler'[c] = s
        /\ \A d \in Clients \ {c} : handler'[d] = handler[d]
    BY <1>2
  <1>4. ProxyType'
    BY <1>1, <1>3 DEF ProxyType, CacheType
  <1>5. ReadersInv'
    <2>1. \A d \in Clients : handler'[d].at = "read" => archives'[handler'[d].vers] = "busy"
      BY <1>3
    <2>2. \A d, e \in Clients :
            handler'[d].at = "read" /\ handler'[e].at = "read" /\ handler'[d].vers = handler'[e].vers => d = e
      BY <1>1, <1>3 DEF ReadersInv
    <2>3. \A d \in Clients : handler'[d].open => server' = "up"
      BY <1>1, <1>3 DEF ReadersInv
    <2> QED BY <2>1, <2>2, <2>3 DEF ReadersInv
  <1>6. DownInv'
    BY DEF DownInv
  <1>7. ASSUME NEW d \in Clients PROVE HandlerInv(handler[d])'
    <2>1. CASE d = c
      BY <1>3, <2>1
    <2>2. CASE d # c
      <3>1. PICK r \in Requests : r = handler[d]
        BY <1>2
      <3>2. HandlerInv(r)
        BY <3>1 DEF ProxyInv
      <3>3. HandlerInv(r)'
        BY <1>1, <3>2, HandlerLasts
      <3> QED BY <1>3, <2>2, <3>1, <3>3
    <2> QED BY <2>1, <2>2
  <1>8. ASSUME NEW a \in answers' PROVE AnswerInv(a)'
    <2>1. CASE a \in answers
      <3>1. a \in Replies /\ AnswerInv(a)
        BY <1>1, <2>1 DEF ProxyInv, ProxyType
      <3> QED BY <1>1, <3>1, AnswerLasts
    <2> QED BY <2>1
  <1> QED BY <1>4, <1>5, <1>6, <1>7, <1>8 DEF ProxyInv

\* One handler goes on, and nothing is read.
LEMMA HandlerGoesOn ==
  ASSUME ProxyInv, NEW c \in Clients, NEW s \in Requests, Set(c, s),
         UNCHANGED <<server, modList, disk, archives, answers, editions>>, server # "down",
         CacheType(archives, zips'), \A v \in Versions : zips'[v] \in Settled => zips'[v] = archives[v],
         HandlerInv(s)', s.open => server = "up", s.at # "read"
  PROVE  ProxyInv'
  <1>1. ProxyType /\ ReadersInv /\ CacheInv /\ UpInv
    BY DEF ProxyInv
  <1>2. Lasting
    BY DEF Lasting
  <1>3. CacheInv' /\ UpInv'
    BY <1>1 DEF CacheInv, UpInv
  <1>4. answers' \subseteq Replies /\ answers' \ answers = {}
    BY <1>1 DEF ProxyType
  <1>5. \A d \in Clients : handler[d].at = "read" => archives'[handler[d].vers] = "busy"
    BY <1>1 DEF ReadersInv
  <1>6. CacheType(archives', zips')
    OBVIOUS
  <1> QED BY <1>2, <1>3, <1>4, <1>5, <1>6, HandlerGoes

\* What is known of a handler at work.
LEMMA WorkingIs ==
  ASSUME ProxyInv, NEW c \in Clients, handler[c].at # "idle"
  PROVE  /\ handler[c] \in Requests /\ HandlerInv(handler[c]) /\ handler[c].kind \in Kinds
         /\ server # "down" /\ (handler[c].open => server = "up")
         /\ ProxyType /\ ReadersInv /\ CacheInv /\ UpInv /\ CacheType(archives, zips)
  BY DEF ProxyInv, ProxyType, HandlerInv, DownInv, ReadersInv, NoRequest, CacheType

\* A handler that has nothing to do any more.
LEMMA IdleIs == NoRequest \in Requests /\ HandlerInv(NoRequest)'
  BY VersionsAre DEF NoRequest, Requests, HandlerInv, Settled

\* A request comes in.
LEMMA RequestProxy ==
  ASSUME ProxyInv, NEW c \in Clients, NEW kind \in Kinds, NEW v \in Slots, NEW rev \in Seq(Nat),
         kind \in {"info", "zip"} => v \in Versions, Request(c, kind, v, rev)
  PROVE  ProxyInv'
  <1>1. /\ server = "up" /\ handler[c].at = "idle"
        /\ UNCHANGED <<server, modList, disk, archives, zips, answers, editions>>
    BY DEF Request
  <1>2. ProxyType /\ CacheInv /\ UpInv /\ modList \in Seq(Versions)
    BY DEF ProxyInv, ProxyType
  <1>3. CacheType(archives, zips') /\ \A w \in Versions : zips'[w] \in Settled => zips'[w] = archives[w]
    BY <1>1, <1>2 DEF ProxyType, CacheType, CacheInv
  <1>4. Latest' = Latest /\ Latest \in Slots
    BY <1>1, <1>2, LatestLasts, LatestIs DEF Slots
  <1> DEFINE r == [NoRequest EXCEPT !.kind = kind, !.open = TRUE]
  <1>5. /\ r \in Requests /\ r.kind = kind /\ r.rest = <<>> /\ r.got = "absent" /\ r.open
        /\ r.at = "idle" /\ r.best = Unknown /\ r.vers = Unknown /\ r.rev = <<>>
    BY IdleIs DEF Requests, NoRequest
  <1> HIDE DEF r
  <1>6. CASE kind = "latest"
    <2>1. PICK s : s = [r EXCEPT !.at = IF Latest = Unknown THEN "answer" ELSE "archive", !.vers = Latest]
      OBVIOUS
    <2>2. Set(c, s)
      BY <1>6, <2>1 DEF Request, r
    <2>3. s \in Requests /\ s.at \in {"answer", "archive"}
      BY <1>4, <1>5, <2>1 DEF Requests
    <2>4. /\ s.kind = "latest" /\ s.vers = Latest /\ s.rest = <<>> /\ s.got = "absent"
          /\ s.at = "answer" => s.vers = Unknown
      BY <1>5, <1>6, <2>1 DEF Requests
    <2>5. HandlerInv(s)'
      BY <1>4, <2>3, <2>4 DEF HandlerInv, Given, Kinds
    <2> QED BY <1>1, <1>3, <2>2, <2>3, <2>5, HandlerGoesOn
  <1>7. CASE kind = "revision"
    <2>1. PICK s : s = [r EXCEPT !.at = "resolve", !.rev = rev, !.rest = modList]
      OBVIOUS
    <2>2. Set(c, s)
      BY <1>7, <2>1 DEF Request, r
    <2>3. s \in Requests
      BY <1>2, <1>5, <2>1 DEF Requests
    <2>4. s.kind = "revision" /\ s.at = "resolve" /\ s.rest = modList /\ s.best = Unknown /\ s.rev = rev
      BY <1>5, <1>7, <2>1
    <2>5. Passed(s)' = 0 /\ Len(s.rest) = Len(modList) /\ Len(modList) \in Nat
      BY <1>1, <1>2, <2>4 DEF Passed
    <2>6. Best(0, Unknown, rev)'
      BY DEF Best
    <2>7. Sought(s)'
      BY <1>1, <2>4, <2>5, <2>6 DEF Sought
    <2>8. HandlerInv(s)'
      BY <2>4, <2>7 DEF HandlerInv, Kinds
    <2> QED BY <1>1, <1>3, <2>2, <2>3, <2>4, <2>8, HandlerGoesOn
  <1>8. CASE kind \notin {"latest", "revision"}
    <2>1. PICK s : s = [r EXCEPT !.at = "archive", !.vers = v]
      OBVIOUS
    <2>2. Set(c, s)
      BY <1>8, <2>1 DEF Request, r
    <2>3. s \in Requests
      BY <1>5, <2>1 DEF Requests
    <2>4. s.kind = kind /\ s.at = "archive" /\ s.rest = <<>> /\ s.vers = v
      BY <1>5, <2>1
    <2>5. HandlerInv(s)'
      BY <1>8, <2>4 DEF HandlerInv, Kinds
    <2> QED BY <1>1, <1>3, <2>2, <2>3, <2>4, <2>5, HandlerGoesOn
  <1> QED BY <1>6, <1>7, <1>8

\* A handler that goes through the list looks at the next version.
LEMMA SoughtNext ==
  ASSUME ProxyType, Lasting, NEW r \in Requests, Sought(r), r.rest # <<>>, NEW s \in Requests,
         s.rest = Tail(r.rest), s.at = "resolve", s.rev = r.rev, NEW v \in Slots, v = r.rest[1],
         Best(Passed(r), r.best, r.rev),
         \/ s.best = r.best /\ (v <= r.best \/ (Judged(v)' /\ ~Fitting(v, r.rev)'))
         \/ s.best = v /\ v > r.best /\ Judged(v)' /\ Fitting(v, r.rev)'
  PROVE  Sought(s)'
  <1>1. /\ r.best \in Slots /\ r.rest \in Seq(Versions)
        /\ modList' = modList /\ modList \in Seq(Versions) /\ Len(modList) \in Nat
    BY DEF Requests, Lasting, ProxyType
  <1>2. PICK n : n = Passed(r)
    OBVIOUS
  <1>3. Len(r.rest) \in Nat \ {0} /\ Len(s.rest) = Len(r.rest) - 1 /\ s.rest \in Seq(Versions)
    BY <1>1
  <1>4. n \in 0 .. Len(modList) - 1 /\ Passed(s)' = n + 1
    <2>1. Len(r.rest) <= Len(modList)
      BY DEF Sought
    <2>2. n = Len(modList) - Len(r.rest) /\ Passed(s)' = Len(modList) - Len(s.rest)
      BY <1>1, <1>2 DEF Passed
    <2> QED BY <1>1, <1>3, <2>1, <2>2
  <1>5. v = modList[n + 1]
    BY <1>1, <1>2, <1>3 DEF Sought
  <1>6. Best(n, r.best, r.rev)
    BY <1>2
  <1>7. r.best \in Nat /\ v \in Nat
    BY <1>1, VersionsAre
  <1>8. Best(n + 1, s.best, s.rev)'
    BY <1>1, <1>4, <1>5, <1>6, <1>7, BestNext
  <1>9. \A j \in 1 .. Len(s.rest) : s.rest[j] = modList[(n + 1) + j]
    <2> SUFFICES ASSUME NEW j \in 1 .. Len(s.rest) PROVE s.rest[j] = modList[(n + 1) + j]
      OBVIOUS
    <2>1. j + 1 \in 1 .. Len(r.rest) /\ s.rest[j] = r.rest[j + 1]
      BY <1>1, <1>3
    <2>2. r.rest[j + 1] = modList[n + (j + 1)]
      BY <1>2, <2>1 DEF Sought
    <2>3. n + (j + 1) = (n + 1) + j
      BY <1>4
    <2> QED BY <2>1, <2>2, <2>3
  <1>10. Len(s.rest) <= Len(modList)
    BY <1>1, <1>3 DEF Sought
  <1> QED BY <1>1, <1>4, <1>8, <1>9, <1>10 DEF Sought
\* A handler goes through the list.
LEMMA ResolveProxy == ASSUME ProxyInv, NEW c \in Clients, Resolve(c) PROVE ProxyInv'
  <1>1. /\ handler[c].at = "resolve"
        /\ UNCHANGED <<server, modList, disk, archives, zips, answers, editions>>
    BY DEF Resolve
  <1>2. PICK r \in Requests : r = handler[c]
    BY <1>1, WorkingIs
  <1>3. /\ HandlerInv(r) /\ r.kind \in Kinds /\ server # "down" /\ (r.open => server = "up")
        /\ ProxyType /\ CacheInv /\ CacheType(archives, zips) /\ r.at = "resolve"
    BY <1>1, <1>2, WorkingIs
  <1>4. r.kind = "revision" /\ Sought(r)
    BY <1>3 DEF HandlerInv
  <1>5. /\ Lasting /\ CacheType(archives, zips')
        /\ \A v \in Versions : zips'[v] \in Settled => zips'[v] = archives[v]
    BY <1>1, <1>3 DEF Lasting, CacheInv
  <1>6. r.best \in Slots /\ r.rest \in Seq(Versions) /\ r.vers \in Slots
    BY DEF Requests
  <1>7. modList \in Seq(Versions) /\ modList' = modList
    BY <1>1, <1>3 DEF ProxyType
  <1>8. CASE r.rest = <<>>
    <2>1. PICK s : s = [r EXCEPT !.at = "archive", !.vers = r.best]
      OBVIOUS
    <2>2. Set(c, s)
      BY <1>2, <1>8, <2>1 DEF Resolve
    <2>3. /\ s \in Requests /\ s.kind = "revision" /\ s.at = "archive" /\ s.rest = <<>> /\ s.vers = r.best
          /\ s.rev = r.rev /\ s.open = r.open
      BY <1>4, <1>6, <1>8, <2>1 DEF Requests
    <2>4. PICK n \in 0 .. Len(modList) : n = Len(modList)
      BY <1>7
    <2>5. Best(n, r.best, r.rev)
      <3>1. Passed(r) = n
        BY <1>7, <1>8, <2>4 DEF Passed
      <3> QED BY <1>3, <1>4, <3>1 DEF Sought
    <2>6. Best(n, s.vers, s.rev)'
      BY <1>3, <1>5, <1>6, <2>3, <2>5, BestLasts
    <2>7. Sought(s)'
      BY <1>7, <2>3, <2>4, <2>6 DEF Sought
    <2>8. HandlerInv(s)'
      BY <2>3, <2>7 DEF HandlerInv, Kinds
    <2> QED BY <1>1, <1>3, <1>5, <2>2, <2>3, <2>8, HandlerGoesOn
  <1>9. CASE r.rest # <<>>
    <2>1. PICK v \in Slots : v = r.rest[1]
      <3>1. 1 \in 1 .. Len(r.rest)
        BY <1>6, <1>9
      <3>2. r.rest[1] \in Versions
        BY <1>6, <3>1
      <3> QED BY <3>2, VersionsAre
    <2>2. v = Head(r.rest)
      BY <1>6, <1>9, <2>1
    <2>3. Best(Passed(r), r.best, r.rev)
      BY <1>3, <1>4 DEF Sought
    <2>4. PICK next : next = [r EXCEPT !.rest = Tail(@)]
      OBVIOUS
    <2>5. /\ next \in Requests /\ next.kind = "revision" /\ next.at = "resolve" /\ next.rest = Tail(r.rest)
          /\ next.rev = r.rev /\ next.open = r.open /\ next.best = r.best
      <3>1. Tail(r.rest) \in Seq(Versions)
        BY <1>6, <1>9
      <3>2. next = [r EXCEPT !.rest = Tail(r.rest)]
        BY <2>4
      <3> QED BY <1>3, <1>4, <3>1, <3>2 DEF Requests
    <2>6. PICK better : better = [next EXCEPT !.best = v]
      OBVIOUS
    <2>7. /\ better \in Requests /\ better.kind = "revision" /\ better.at = "resolve"
          /\ better.rest = Tail(r.rest) /\ better.rev = r.rev /\ better.open = r.open /\ better.best = v
      BY <2>5, <2>6 DEF Requests
    <2>8. PICK stop : stop = [r EXCEPT !.at = "archive", !.vers = v]
      OBVIOUS
    <2>9. /\ stop \in Requests /\ stop.kind = "revision" /\ stop.at = "archive" /\ stop.rest = r.rest
          /\ stop.rev = r.rev /\ stop.open = r.open /\ stop.best = r.best /\ stop.vers = v
      BY <1>4, <2>8 DEF Requests
    <2>10. \/ Set(c, next) /\ v <= r.best
           \/ Set(c, next) /\ v > r.best /\ v \in Pseudo /\ ~Matches(Short[v], r.rev)
           \/ Set(c, better) /\ v > r.best /\ v \in Pseudo /\ Matches(Short[v], r.rev)
           \/ Set(c, stop) /\ v > r.best /\ v \notin Pseudo
      <3>1. v \in Nat /\ r.best \in Nat
        BY <1>6, VersionsAre
      <3>2. CASE v <= r.best
        BY <1>2, <1>9, <2>2, <2>4, <3>1, <3>2 DEF Resolve
      <3>3. CASE v > r.best /\ v \in Pseudo /\ Matches(Short[v], r.rev)
        BY <1>2, <1>9, <2>2, <2>4, <2>6, <3>1, <3>3 DEF Resolve
      <3>4. CASE v > r.best /\ v \in Pseudo /\ ~Matches(Short[v], r.rev)
        BY <1>2, <1>9, <2>2, <2>4, <2>6, <3>1, <3>4 DEF Resolve
      <3>5. CASE v > r.best /\ v \notin Pseudo
        BY <1>2, <1>9, <2>2, <2>8, <3>1, <3>5 DEF Resolve
      <3> QED BY <3>1, <3>2, <3>3, <3>4, <3>5
    <2>11. v \in Pseudo => Judged(v)' /\ (Fitting(v, r.rev)' <=> Matches(Short[v], r.rev))
      BY DEF Judged, Fitting, Hash
    <2>12. ASSUME Set(c, next), v <= r.best \/ (v \in Pseudo /\ ~Matches(Short[v], r.rev)) PROVE ProxyInv'
      <3>1. Sought(next)'
        BY <1>3, <1>4, <1>5, <1>9, <2>1, <2>3, <2>5, <2>11, <2>12, SoughtNext
      <3>2. HandlerInv(next)'
        BY <2>5, <3>1 DEF HandlerInv, Kinds
      <3> QED BY <1>1, <1>3, <1>5, <2>5, <2>12, <3>2, HandlerGoesOn
    <2>13. ASSUME Set(c, better), v > r.best, v \in Pseudo, Matches(Short[v], r.rev) PROVE ProxyInv'
      <3>1. Sought(better)'
        BY <1>3, <1>4, <1>5, <1>9, <2>1, <2>3, <2>7, <2>11, <2>13, SoughtNext
      <3>2. HandlerInv(better)'
        BY <2>7, <3>1 DEF HandlerInv, Kinds
      <3> QED BY <1>1, <1>3, <1>5, <2>7, <2>13, <3>2, HandlerGoesOn
    <2>14. ASSUME Set(c, stop), v > r.best, v \notin Pseudo PROVE ProxyInv'
      <3>1. Sought(r)'
        <4>1. HandlerInv(r)'
          BY <1>3, <1>5, HandlerLasts
        <4> QED BY <1>4, <4>1 DEF HandlerInv
      <3>2. Passed(stop)' = Passed(r)'
        BY <2>9 DEF Passed
      <3>3. Sought(stop)'
        BY <1>3, <1>9, <2>1, <2>9, <2>14, <3>1, <3>2 DEF Sought
      <3>4. HandlerInv(stop)'
        BY <2>9, <3>3 DEF HandlerInv, Kinds
      <3> QED BY <1>1, <1>3, <1>5, <2>9, <2>14, <3>4, HandlerGoesOn
    <2> QED BY <2>10, <2>12, <2>13, <2>14
  <1> QED BY <1>8, <1>9

\* What a handler does with an archive it was given, after this step.
LEMMA WithArchiveIs ==
  ASSUME ProxyInv, NEW c \in Clients, NEW r \in Requests, r = handler[c], r.at \in {"archive", "read"},
         Lasting, NEW a \in Settled, a = archives'[r.vers], r.vers = Unknown => a = "absent",
         NEW s, s = WithArchive(c, a)
  PROVE  s \in Requests /\ HandlerInv(s)' /\ s.at # "read" /\ s.open = r.open
  <1>1. HandlerInv(r) /\ ProxyType /\ r.kind \in Kinds
    BY WorkingIs
  <1>2. HandlerInv(r)'
    BY <1>1, HandlerLasts
  <1>3. r.best \in Slots /\ r.rest \in Seq(Versions) /\ r.vers \in Slots
    BY DEF Requests
  <1>4. CASE r.kind = "revision" /\ r.rest # <<>>
    <2>1. /\ Sought(r) /\ r.vers = r.rest[1] /\ r.vers > r.best /\ r.vers \notin Pseudo
          /\ Best(Passed(r), r.best, r.rev)
      BY <1>1, <1>4 DEF HandlerInv, Sought
    <2>2. /\ Judged(r.vers)'
          /\ Fitting(r.vers, r.rev)' <=> Matches(IF a = "absent" THEN <<>> ELSE Short[r.vers], r.rev)
      BY <2>1 DEF Judged, Fitting, Hash
    <2>3. s = Hashed(c, a)
      BY <1>4 DEF WithArchive
    <2>4. s = [r EXCEPT !.at = "resolve", !.rest = Tail(@), !.vers = Unknown,
                        !.best = IF Fitting(r.vers, r.rev)' THEN r.vers ELSE @]
      BY <2>2, <2>3 DEF Hashed
    <2>5. /\ s \in Requests /\ s.kind = "revision" /\ s.at = "resolve" /\ s.rest = Tail(r.rest)
          /\ s.rev = r.rev /\ s.open = r.open
          /\ s.best = IF Fitting(r.vers, r.rev)' THEN r.vers ELSE r.best
      <3>1. Tail(r.rest) \in Seq(Versions)
        BY <1>3, <1>4
      <3>2. PICK b \in Slots : b = IF Fitting(r.vers, r.rev)' THEN r.vers ELSE r.best
        BY <1>3
      <3>3. s = [r EXCEPT !.at = "resolve", !.rest = Tail(r.rest), !.vers = Unknown, !.best = b]
        BY <2>4, <3>2
      <3> QED BY <1>4, <3>1, <3>2, <3>3, VersionsAre DEF Requests
    <2>6. PICK v \in Slots : v = r.vers
      BY <1>3
    <2>7. Sought(s)'
      BY <1>1, <1>4, <2>1, <2>2, <2>5, <2>6, SoughtNext
    <2>8. HandlerInv(s)'
      BY <2>5, <2>7 DEF HandlerInv, Kinds
    <2> QED BY <2>5, <2>8
  <1>5. CASE r.kind = "zip" /\ a # "absent"
    <2>1. s = [r EXCEPT !.at = "zip"]
      BY <1>5 DEF WithArchive
    <2>2. /\ s \in Requests /\ s.kind = "zip" /\ s.at = "zip" /\ s.rest = r.rest /\ s.vers = r.vers
          /\ s.open = r.open
      BY <1>5, <2>1 DEF Requests
    <2>3. HandlerInv(s)'
      BY <1>2, <1>5, <2>2 DEF HandlerInv
    <2> QED BY <2>2, <2>3
  <1>6. CASE ~(r.kind = "revision" /\ r.rest # <<>>) /\ ~(r.kind = "zip" /\ a # "absent")
    <2>1. s = [r EXCEPT !.at = "answer", !.got = a]
      BY <1>6 DEF WithArchive
    <2>2. /\ s \in Requests /\ s.kind = r.kind /\ s.at = "answer" /\ s.rest = r.rest /\ s.vers = r.vers
          /\ s.rev = r.rev /\ s.open = r.open /\ s.got = a
      BY <2>1 DEF Requests
    <2>3. Given(s.vers, s.got)'
      BY <2>2 DEF Given
    <2>4. r.kind = "revision" => Sought(s)'
      <3> SUFFICES ASSUME r.kind = "revision" PROVE Sought(s)'
        OBVIOUS
      <3>1. Sought(r)'
        BY <1>2 DEF HandlerInv
      <3>2. Passed(s)' = Passed(r)'
        BY <2>2 DEF Passed
      <3>3. r.rest = <<>>
        BY <1>6
      <3> QED BY <2>2, <3>1, <3>2, <3>3 DEF Sought
    <2>5. HandlerInv(s)'
      BY <1>1, <1>2, <2>2, <2>3, <2>4 DEF HandlerInv
    <2> QED BY <2>2, <2>5
  <1> QED BY <1>4, <1>5, <1>6
\* A handler asks for an archive, and reads it if nobody has or does.
LEMMA LookUpProxy == ASSUME ProxyInv, NEW c \in Clients, LookUp(c) PROVE ProxyInv'
  <1>1. /\ handler[c].at = "archive" /\ archives[handler[c].vers] # "busy"
        /\ UNCHANGED <<server, modList, disk, zips, answers, editions>>
    BY DEF LookUp
  <1>2. PICK r \in Requests : r = handler[c]
    BY <1>1, WorkingIs
  <1>3. /\ HandlerInv(r) /\ r.kind \in Kinds /\ server # "down" /\ (r.open => server = "up")
        /\ ProxyType /\ ReadersInv /\ CacheInv /\ UpInv /\ CacheType(archives, zips) /\ r.at = "archive"
    BY <1>1, <1>2, WorkingIs
  <1>4. r.vers \in Slots /\ archives \in [Slots -> Settled \cup {"unread", "busy"}]
    BY <1>3 DEF Requests, ProxyType
  <1>5. CASE archives[r.vers] = "unread"
    <2>1. PICK s : s = [r EXCEPT !.at = "read"]
      OBVIOUS
    <2>2. Set(c, s) /\ archives' = [archives EXCEPT ![r.vers] = "busy"]
      BY <1>2, <1>5, <2>1 DEF LookUp
    <2>3. archives'[r.vers] = "busy" /\ \A v \in Slots \ {r.vers} : archives'[v] = archives[v]
      BY <1>4, <2>2
    <2>4. Lasting
      BY <1>1, <1>5, <2>3 DEF Lasting, Settled
    <2>5. CacheType(archives', zips')
      BY <1>1, <1>3, <2>2 DEF CacheType
    <2>6. CacheInv'
      <3>1. \A v \in Versions : zips'[v] \in Settled => zips'[v] = archives'[v]
        <4> SUFFICES ASSUME NEW v \in Versions, zips[v] \in Settled PROVE zips[v] = archives'[v]
          BY <1>1
        <4>1. zips[v] = archives[v] /\ v \in Slots
          BY <1>3, VersionsAre DEF CacheInv
        <4>2. v # r.vers
          BY <1>5, <4>1 DEF Settled
        <4> QED BY <2>3, <4>1, <4>2
      <3>2. archives'[Unknown] \in {"unread", "busy", "absent"}
        BY <1>3, <2>3, VersionsAre DEF CacheInv
      <3> QED BY <1>1, <1>3, <3>1, <3>2 DEF CacheInv
    <2>7. UpInv'
      BY <1>1, <1>3, <2>3 DEF UpInv, Settled
    <2>8. /\ s \in Requests /\ s.kind = r.kind /\ s.at = "read" /\ s.rest = r.rest /\ s.vers = r.vers
          /\ s.rev = r.rev /\ s.open = r.open /\ s.best = r.best
      BY <2>1 DEF Requests
    <2>9. HandlerInv(s)'
      <3>1. HandlerInv(r)'
        BY <1>3, <2>4, HandlerLasts
      <3>2. Passed(s)' = Passed(r)'
        BY <2>8 DEF Passed
      <3>3. r.kind = "revision" => Sought(s)'
        BY <1>3, <2>8, <3>1, <3>2 DEF HandlerInv, Sought
      <3> QED BY <1>3, <2>8, <3>1, <3>3 DEF HandlerInv
    <2>10. \A d \in Clients : handler[d].at = "read" =>
             archives[handler[d].vers] = "busy" /\ handler[d].vers \in Slots
      BY <1>3 DEF ReadersInv, ProxyType, Requests
    <2>11. \A d \in Clients : handler[d].at = "read" =>
             archives'[handler[d].vers] = "busy" /\ handler[d].vers # r.vers
      BY <1>5, <2>3, <2>10
    <2>12. answers' \subseteq Replies /\ answers' \ answers = {}
      BY <1>1, <1>3 DEF ProxyType
    <2> QED BY <1>1, <1>3, <2>2, <2>3, <2>4, <2>5, <2>6, <2>7, <2>8, <2>9, <2>11, <2>12, HandlerGoes
  <1>6. CASE archives[r.vers] # "unread"
    <2>1. PICK a \in Settled : a = archives[r.vers]
      BY <1>1, <1>2, <1>4, <1>6
    <2>2. PICK s : s = WithArchive(c, a)
      OBVIOUS
    <2>3. Set(c, s) /\ archives' = archives
      BY <1>2, <1>6, <2>1, <2>2 DEF LookUp
    <2>4. Lasting
      BY <1>1, <2>3 DEF Lasting
    <2>5. r.vers = Unknown => a = "absent"
      BY <1>3, <2>1 DEF CacheInv, Settled
    <2>6. s \in Requests /\ HandlerInv(s)' /\ s.at # "read" /\ s.open = r.open
      BY <1>2, <1>3, <2>1, <2>2, <2>3, <2>4, <2>5, WithArchiveIs
    <2>7. CacheType(archives, zips') /\ \A v \in Versions : zips'[v] \in Settled => zips'[v] = archives[v]
      BY <1>1, <1>3 DEF CacheInv
    <2> QED BY <1>1, <1>3, <2>3, <2>6, <2>7, HandlerGoesOn
  <1> QED BY <1>5, <1>6

\* A handler has read an archive, or cannot.
LEMMA ReadProxy == ASSUME ProxyInv, NEW c \in Clients, Read(c) PROVE ProxyInv'
  <1>1. handler[c].at = "read" /\ UNCHANGED <<server, modList, disk, zips, answers, editions>>
    BY DEF Read
  <1>2. PICK r \in Requests : r = handler[c]
    BY <1>1, WorkingIs
  <1>3. /\ HandlerInv(r) /\ server # "down" /\ (r.open => server = "up") /\ archives[r.vers] = "busy"
        /\ ProxyType /\ ReadersInv /\ CacheInv /\ UpInv /\ CacheType(archives, zips) /\ r.at = "read"
    BY <1>1, <1>2, WorkingIs DEF ReadersInv
  <1>4. r.vers \in Slots /\ archives \in [Slots -> Settled \cup {"unread", "busy"}]
        /\ disk \in [Slots -> Settled \cup {"broken"}]
    BY <1>3 DEF Requests, ProxyType
  <1>5. CASE disk[r.vers] = "broken"
    <2>1. PICK s : s = NoRequest
      OBVIOUS
    <2>2. Set(c, s) /\ archives' = archives
      BY <1>2, <1>5, <2>1 DEF Read
    <2>3. s \in Requests /\ HandlerInv(s)' /\ ~s.open /\ s.at # "read"
      BY <2>1, IdleIs DEF NoRequest
    <2>4. CacheType(archives, zips') /\ \A v \in Versions : zips'[v] \in Settled => zips'[v] = archives[v]
      BY <1>1, <1>3 DEF CacheInv
    <2> QED BY <1>1, <1>3, <2>2, <2>3, <2>4, HandlerGoesOn
  <1>6. CASE disk[r.vers] # "broken"
    <2>1. PICK a \in Settled : a = disk[r.vers]
      BY <1>4, <1>6
    <2>2. PICK s : s = WithArchive(c, a)
      OBVIOUS
    <2>3. Set(c, s) /\ archives' = [archives EXCEPT ![r.vers] = a]
      BY <1>2, <1>6, <2>1, <2>2 DEF Read
    <2>4. archives'[r.vers] = a /\ \A v \in Slots \ {r.vers} : archives'[v] = archives[v]
      BY <1>4, <2>3
    <2>5. Lasting
      BY <1>1, <1>3, <2>4 DEF Lasting, Settled
    <2>6. CacheType(archives', zips')
      BY <1>1, <1>3, <2>3 DEF CacheType
    <2>7. r.vers = Unknown => a = "absent"
      BY <1>3, <2>1 DEF CacheInv
    <2>8. CacheInv'
      <3>1. \A v \in Versions : zips'[v] \in Settled => zips'[v] = archives'[v]
        <4> SUFFICES ASSUME NEW v \in Versions, zips[v] \in Settled PROVE zips[v] = archives'[v]
          BY <1>1
        <4>1. zips[v] = archives[v] /\ v \in Slots
          BY <1>3, VersionsAre DEF CacheInv
        <4>2. v # r.vers
          BY <1>3, <4>1 DEF Settled
        <4> QED BY <2>4, <4>1, <4>2
      <3>2. archives'[Unknown] \in {"unread", "busy", "absent"}
        BY <1>3, <2>4, <2>7, VersionsAre DEF CacheInv
      <3> QED BY <1>1, <1>3, <3>1, <3>2 DEF CacheInv
    <2>9. UpInv'
      BY <1>1, <1>3, <2>1, <2>4 DEF UpInv
    <2>10. s \in Requests /\ HandlerInv(s)' /\ s.at # "read" /\ s.open = r.open
      BY <1>2, <1>3, <2>1, <2>2, <2>4, <2>5, <2>7, WithArchiveIs
    <2>11. \A d \in Clients \ {c} : handler[d].at = "read" => archives'[handler[d].vers] = "busy"
      <3> SUFFICES ASSUME NEW d \in Clients \ {c}, handler[d].at = "read"
                   PROVE  archives'[handler[d].vers] = "busy"
        OBVIOUS
      <3>1. archives[handler[d].vers] = "busy" /\ handler[d].vers \in Slots
        BY <1>3 DEF ReadersInv, ProxyType, Requests
      <3>2. handler[d].vers # r.vers
        BY <1>2, <1>3 DEF ReadersInv
      <3> QED BY <2>4, <3>1, <3>2
    <2>12. answers' \subseteq Replies /\ answers' \ answers = {}
      BY <1>1, <1>3 DEF ProxyType
    <2> QED BY <1>1, <1>3, <2>3, <2>5, <2>6, <2>8, <2>9, <2>10, <2>11, <2>12, HandlerGoes
  <1> QED BY <1>5, <1>6

\* A handler asks for a zip, or makes it.
LEMMA ZipProxy == ASSUME ProxyInv, NEW c \in Clients, Zip(c) \/ MakeZip(c) PROVE ProxyInv'
  <1>1. /\ handler[c].at \in {"zip", "zipping"}
        /\ UNCHANGED <<server, modList, disk, archives, answers, editions>>
    BY DEF Zip, MakeZip
  <1>2. PICK r \in Requests : r = handler[c]
    BY <1>1, WorkingIs
  <1>3. /\ HandlerInv(r) /\ server # "down" /\ (r.open => server = "up")
        /\ ProxyType /\ CacheInv /\ CacheType(archives, zips) /\ r.at \in {"zip", "zipping"}
    BY <1>1, <1>2, WorkingIs
  <1>4. r.kind = "zip" /\ r.vers \in Versions /\ r.rest = <<>> /\ archives[r.vers] \in Settled
    BY <1>3 DEF HandlerInv
  <1>5. zips \in [Versions -> Settled \cup {"unread", "busy"}] /\ r.vers # Unknown
    BY <1>3, <1>4, VersionsAre DEF ProxyType
  <1>6. ASSUME NEW s, Set(c, s), s = [r EXCEPT !.at = "zipping"], zips' = [zips EXCEPT ![r.vers] = "busy"]
        PROVE  ProxyInv'
    <2>1. s \in Requests /\ s.kind = "zip" /\ s.at = "zipping" /\ s.rest = <<>>
          /\ s.vers = r.vers /\ s.open = r.open
      BY <1>4, <1>6 DEF Requests
    <2>2. HandlerInv(s)'
      BY <1>1, <1>4, <2>1 DEF HandlerInv, Kinds
    <2>3. CacheType(archives, zips') /\ \A v \in Versions : zips'[v] \in Settled => zips'[v] = archives[v]
      BY <1>3, <1>5, <1>6 DEF CacheType, CacheInv, Settled
    <2> QED BY <1>1, <1>3, <1>6, <2>1, <2>2, <2>3, HandlerGoesOn
  <1>7. ASSUME NEW s, Set(c, s), s = [r EXCEPT !.at = "answer", !.got = archives[r.vers]],
               zips' = zips \/ zips' = [zips EXCEPT ![r.vers] = archives[r.vers]]
        PROVE  ProxyInv'
    <2>1. /\ s \in Requests /\ s.kind = "zip" /\ s.at = "answer" /\ s.rest = <<>> /\ s.vers = r.vers
          /\ s.open = r.open /\ s.got = archives[r.vers]
      BY <1>4, <1>7 DEF Requests
    <2>2. HandlerInv(s)'
      BY <1>1, <1>4, <1>5, <2>1 DEF HandlerInv, Given, Kinds
    <2>3. CacheType(archives, zips') /\ \A v \in Versions : zips'[v] \in Settled => zips'[v] = archives[v]
      BY <1>3, <1>4, <1>5, <1>7 DEF CacheType, CacheInv
    <2> QED BY <1>1, <1>3, <1>7, <2>1, <2>2, <2>3, HandlerGoesOn
  <1>8. CASE Zip(c)
    <2>1. CASE zips[r.vers] = "unread"
      BY <1>2, <1>6, <1>8, <2>1 DEF Zip
    <2>2. CASE zips[r.vers] # "unread"
      <3>1. zips[r.vers] = archives[r.vers]
        BY <1>2, <1>3, <1>4, <1>5, <1>8, <2>2 DEF Zip, CacheInv
      <3> QED BY <1>2, <1>7, <1>8, <2>2, <3>1 DEF Zip
    <2> QED BY <2>1, <2>2
  <1>9. CASE MakeZip(c)
    BY <1>2, <1>7, <1>9 DEF MakeZip
  <1> QED BY <1>8, <1>9

\* A handler answers.
LEMMA AnswerProxy == ASSUME ProxyInv, NEW c \in Clients, Answer(c) PROVE ProxyInv'
  <1>1. handler[c].at = "answer" /\ UNCHANGED <<server, modList, disk, archives, zips, editions>>
    BY DEF Answer
  <1>2. PICK r \in Requests : r = handler[c]
    BY <1>1, WorkingIs
  <1>3. /\ HandlerInv(r) /\ server # "down" /\ (r.open => server = "up") /\ r.kind \in Kinds
        /\ ProxyType /\ ReadersInv /\ CacheInv /\ UpInv /\ CacheType(archives, zips) /\ r.at = "answer"
    BY <1>1, <1>2, WorkingIs
  <1>4. PICK a : a = [kind |-> r.kind, rev |-> r.rev, vers |-> r.vers, got |-> r.got]
    OBVIOUS
  <1>5. /\ a \in Replies
        /\ a.kind = r.kind /\ a.rev = r.rev /\ a.vers = r.vers /\ a.got = r.got
    BY <1>3, <1>4 DEF Requests, Replies
  <1>6. (answers' = answers \cup {a} /\ r.open) \/ answers' = answers
    BY <1>2, <1>4 DEF Answer
  <1>7. ASSUME r.open PROVE AnswerInv(a)'
    <2>1. Given(a.vers, a.got)
      BY <1>3, <1>5 DEF HandlerInv
    <2>2. a.vers # Unknown => a.got \in editions[a.vers]
      BY <1>3, <1>5, <1>7, <2>1 DEF UpInv, Given, Replies
    <2>3. a.kind = "latest" => a.vers = Latest
      BY <1>3, <1>5 DEF HandlerInv
    <2>4. a.kind = "revision" => Best(Len(modList), a.vers, a.rev)
      BY <1>3, <1>5 DEF HandlerInv, Sought
    <2>5. AnswerInv(a)
      BY <2>1, <2>2, <2>3, <2>4 DEF AnswerInv
    <2>6. Lasting /\ \A v \in Slots : editions[v] \subseteq editions'[v]
      BY <1>1 DEF Lasting
    <2> QED BY <1>3, <1>5, <2>5, <2>6, AnswerLasts
  <1>8. PICK s : s = NoRequest
    OBVIOUS
  <1>9. Set(c, s) /\ s \in Requests /\ HandlerInv(s)' /\ ~s.open /\ s.at # "read"
    BY <1>8, IdleIs DEF NoRequest, Answer
  <1>10. CacheType(archives', zips') /\ Lasting /\ CacheInv' /\ UpInv'
    BY <1>1, <1>3 DEF Lasting, CacheInv, UpInv
  <1>11. /\ answers' \subseteq Replies
         /\ \A b \in answers' \ answers : b = a /\ r.open
    BY <1>3, <1>5, <1>6 DEF ProxyType
  <1>12. \A b \in answers' \ answers : AnswerInv(b)'
    BY <1>7, <1>11
  <1>13. \A d \in Clients : handler[d].at = "read" => archives'[handler[d].vers] = "busy"
    BY <1>1, <1>3 DEF ReadersInv
  <1> QED BY <1>1, <1>3, <1>9, <1>10, <1>11, <1>12, <1>13, HandlerGoes
-----------------------------------------------------------------------------
(* The server, and the directory it reads                                  *)

\* The directory changes, or nothing does.
LEMMA OutsideProxy ==
  ASSUME ProxyInv, UNCHANGED <<server, modList, archives, zips, handler, answers>>,
         disk' \in [Slots -> Settled \cup {"broken"}], disk'[Unknown] = "absent", DOMAIN editions' = Slots,
         \A v \in Slots : editions[v] \subseteq editions'[v] /\ (server = "up" => disk'[v] \in editions'[v])
  PROVE  ProxyInv'
  <1>1. ProxyType /\ ReadersInv /\ CacheInv /\ DownInv /\ UpInv /\ Lasting
    BY DEF ProxyInv, Lasting
  <1>2. ProxyType'
    BY <1>1 DEF ProxyType
  <1>3. ReadersInv' /\ CacheInv' /\ DownInv'
    BY <1>1 DEF ReadersInv, CacheInv, DownInv
  <1>4. UpInv'
    BY <1>1 DEF UpInv
  <1>5. ASSUME NEW c \in Clients PROVE HandlerInv(handler[c])'
    <2>1. PICK r \in Requests : r = handler[c]
      BY <1>1 DEF ProxyType
    <2>2. HandlerInv(r)
      BY <2>1 DEF ProxyInv
    <2>3. HandlerInv(r)'
      BY <1>1, <2>2, HandlerLasts
    <2> QED BY <2>1, <2>3
  <1>6. ASSUME NEW a \in answers PROVE AnswerInv(a)'
    <2>1. a \in Replies /\ AnswerInv(a)
      BY <1>1 DEF ProxyInv, ProxyType
    <2> QED BY <1>1, <2>1, AnswerLasts
  <1> QED BY <1>2, <1>3, <1>4, <1>5, <1>6 DEF ProxyInv

\* Nothing changes.
LEMMA SameProxy == ASSUME ProxyInv, UNCHANGED proxyVars PROVE ProxyInv'
  <1>1. ProxyType /\ CacheInv /\ UpInv
    BY DEF ProxyInv
  <1>2. /\ UNCHANGED <<server, modList, archives, zips, handler, answers>>
        /\ disk' = disk /\ editions' = editions
    BY DEF proxyVars
  <1>3. /\ disk' \in [Slots -> Settled \cup {"broken"}] /\ disk'[Unknown] = "absent"
        /\ DOMAIN editions' = Slots
    BY <1>1, <1>2 DEF ProxyType, CacheInv
  <1>4. \A v \in Slots : editions[v] \subseteq editions'[v] /\ (server = "up" => disk'[v] \in editions'[v])
    BY <1>1, <1>2 DEF UpInv
  <1> QED BY <1>2, <1>3, <1>4, OutsideProxy

\* A script writes an archive.
LEMMA RewriteProxy == ASSUME ProxyInv, NEW v \in Versions, Rewrite(v) PROVE ProxyInv'
  <1>1. ProxyType /\ CacheInv /\ UpInv
    BY DEF ProxyInv
  <1>2. UNCHANGED <<server, modList, archives, zips, handler, answers>>
    BY DEF Rewrite
  <1>3. v \in Slots /\ v # Unknown /\ disk \in [Slots -> Settled \cup {"broken"}] /\ DOMAIN editions = Slots
    BY <1>1, VersionsAre DEF ProxyType
  <1>4. PICK new \in Settled : new = IF disk[v] = "first" THEN "second" ELSE "first"
    BY DEF Settled
  <1>5. disk' = [disk EXCEPT ![v] = new]
    BY <1>3, <1>4 DEF Rewrite
  <1>6. /\ disk' \in [Slots -> Settled \cup {"broken"}] /\ disk'[Unknown] = "absent"
        /\ disk'[v] = new /\ \A w \in Slots \ {v} : disk'[w] = disk[w]
    BY <1>1, <1>3, <1>5, VersionsAre DEF CacheInv
  <1>7. /\ DOMAIN editions' = Slots
        /\ editions'[v] = IF server = "up" THEN editions[v] \cup {disk'[v]} ELSE editions[v]
        /\ \A w \in Slots \ {v} : editions'[w] = editions[w]
    BY <1>3 DEF Rewrite
  <1>8. \A w \in Slots : editions[w] \subseteq editions'[w] /\ (server = "up" => disk'[w] \in editions'[w])
    BY <1>1, <1>6, <1>7 DEF UpInv
  <1> QED BY <1>2, <1>6, <1>7, <1>8, OutsideProxy

\* The directory is removed.
LEMMA DiskGoneProxy == ASSUME ProxyInv, DiskGone PROVE ProxyInv'
  <1>1. ProxyType
    BY DEF ProxyInv
  <1>2. UNCHANGED <<server, modList, archives, zips, handler, answers>>
    BY DEF DiskGone
  <1>3. disk' = [v \in Slots |-> "absent"]
    BY <1>1 DEF ProxyType, DiskGone
  <1>4. editions' = [v \in Slots |-> IF server = "up" THEN editions[v] \cup {"absent"} ELSE editions[v]]
    BY <1>1, <1>3 DEF ProxyType, DiskGone
  <1>5. disk' \in [Slots -> Settled \cup {"broken"}] /\ disk'[Unknown] = "absent"
    BY <1>3, VersionsAre DEF Settled
  <1>6. \A v \in Slots : editions[v] \subseteq editions'[v] /\ (server = "up" => disk'[v] \in editions'[v])
    BY <1>3, <1>4
  <1>7. DOMAIN editions' = Slots
    BY <1>4
  <1> QED BY <1>2, <1>5, <1>6, <1>7, OutsideProxy

\* The server starts.
LEMMA StartProxy == ASSUME ProxyInv, server = "down", StartServer PROVE ProxyInv'
  <1> DEFINE there == {v \in Versions : disk[v] # "absent"}
  <1>1. /\ server' = "up" /\ modList' \in Listings(there)
        /\ editions' = [v \in DOMAIN editions |-> {disk[v]}]
        /\ UNCHANGED <<disk, archives, zips, handler, answers>>
    BY DEF StartServer
  <1>2. ProxyType /\ CacheInv
    BY DEF ProxyInv
  <1>3. /\ answers = {}
        /\ \A v \in Slots : archives[v] = "unread"
        /\ \A v \in Versions : zips[v] = "unread"
        /\ \A c \in Clients : handler[c] = NoRequest
    BY DEF ProxyInv, DownInv
  <1>4. IsFiniteSet(there) /\ Cardinality(there) \in Nat
    <2>1. there \in SUBSET Versions
      OBVIOUS
    <2>2. IsFiniteSet(there)
      BY <2>1, FS_Subset, GoProxyAssumption
    <2> QED BY <2>2, FS_CardinalityType
  <1>5. modList' \in Seq(Versions)
    <2>1. modList' \in [1 .. Cardinality(there) -> there]
      BY <1>1 DEF Listings
    <2>2. PICK n \in Nat : n = Cardinality(there)
      BY <1>4
    <2>3. modList' \in [1 .. n -> Versions]
      BY <2>1, <2>2
    <2> QED BY <2>3
  <1>6. ProxyType'
    BY <1>1, <1>2, <1>5 DEF ProxyType
  <1>7. ReadersInv' /\ CacheInv' /\ DownInv'
    BY <1>1, <1>2, <1>3 DEF ReadersInv, CacheInv, DownInv, NoRequest, Settled
  <1>8. UpInv'
    BY <1>1, <1>2, <1>3 DEF UpInv, ProxyType, Settled
  <1>9. \A c \in Clients : HandlerInv(handler[c])'
    BY <1>1, <1>3, IdleIs
  <1> QED BY <1>1, <1>3, <1>6, <1>7, <1>8, <1>9 DEF ProxyInv

\* The server closes, if it runs.
LEMMA CloseProxy == ASSUME ProxyInv, CloseServer PROVE ProxyInv'
  <1>1. /\ server' = IF server = "up" THEN "closed" ELSE server
        /\ handler' = [c \in Clients |-> [handler[c] EXCEPT !.open = FALSE]]
        /\ UNCHANGED <<modList, disk, archives, zips, answers, editions>>
    BY DEF CloseServer
  <1>2. ProxyType /\ ReadersInv /\ CacheInv /\ DownInv /\ UpInv /\ Lasting
    BY <1>1 DEF ProxyInv, Lasting
  <1>3. ASSUME NEW c \in Clients
        PROVE  /\ handler'[c] \in Requests /\ HandlerInv(handler[c])'
               /\ handler'[c].at = handler[c].at /\ handler'[c].vers = handler[c].vers /\ ~handler'[c].open
               /\ handler[c] = NoRequest => handler'[c] = NoRequest
    <2>1. PICK r \in Requests : r = handler[c]
      BY <1>2 DEF ProxyType
    <2>2. PICK s : s = [r EXCEPT !.open = FALSE]
      OBVIOUS
    <2>3. s \in Requests /\ s.at = r.at /\ s.kind = r.kind /\ s.rev = r.rev /\ s.vers = r.vers
          /\ s.best = r.best /\ s.rest = r.rest /\ s.got = r.got /\ ~s.open
      BY <2>2 DEF Requests
    <2>4. handler'[c] = s
      BY <1>1, <2>1, <2>2
    <2>5. r = NoRequest => s = NoRequest
      <3> SUFFICES ASSUME r = NoRequest PROVE s = NoRequest
        OBVIOUS
      <3>1. s = [at |-> s.at, kind |-> s.kind, rev |-> s.rev, vers |-> s.vers, best |-> s.best,
                 rest |-> s.rest, got |-> s.got, open |-> s.open]
        BY <2>3 DEF Requests
      <3>2. s.open = FALSE
        BY <2>2
      <3>3. /\ s.at = "idle" /\ s.kind = "none" /\ s.rev = <<>> /\ s.vers = Unknown /\ s.best = Unknown
            /\ s.rest = <<>> /\ s.got = "absent"
        BY <2>3 DEF NoRequest
      <3> QED BY <3>1, <3>2, <3>3 DEF NoRequest
    <2>6. HandlerInv(r) /\ HandlerInv(r)'
      BY <1>2, <2>1, HandlerLasts DEF ProxyInv
    <2>7. Passed(s)' = Passed(r)'
      BY <2>3 DEF Passed
    <2>8. r.kind = "revision" => Sought(s)'
      BY <2>3, <2>6, <2>7 DEF HandlerInv, Sought
    <2>9. HandlerInv(s)'
      BY <2>3, <2>5, <2>6, <2>8 DEF HandlerInv
    <2> QED BY <2>1, <2>3, <2>4, <2>5, <2>9
  <1>4. handler' \in [Clients -> Requests]
    BY <1>1, <1>3
  <1>5. ProxyType'
    BY <1>1, <1>2, <1>4 DEF ProxyType
  <1>6. ReadersInv'
    <2>1. \A c \in Clients : handler'[c].at = "read" => archives'[handler'[c].vers] = "busy"
      BY <1>1, <1>2, <1>3 DEF ReadersInv
    <2>2. \A c, d \in Clients :
            handler'[c].at = "read" /\ handler'[d].at = "read" /\ handler'[c].vers = handler'[d].vers => c = d
      BY <1>2, <1>3 DEF ReadersInv
    <2>3. \A c \in Clients : ~handler'[c].open
      BY <1>3
    <2> QED BY <2>1, <2>2, <2>3 DEF ReadersInv
  <1>7. CacheInv' /\ UpInv'
    BY <1>1, <1>2 DEF CacheInv, UpInv
  <1>8. DownInv'
    BY <1>1, <1>2, <1>3 DEF DownInv
  <1>9. ASSUME NEW a \in answers PROVE AnswerInv(a)'
    <2>1. a \in Replies /\ AnswerInv(a)
      BY <1>2 DEF ProxyInv, ProxyType
    <2>2. \A v \in Slots : editions[v] \subseteq editions'[v]
      BY <1>1
    <2> QED BY <1>2, <2>1, <2>2, AnswerLasts
  <1> QED BY <1>1, <1>3, <1>5, <1>6, <1>7, <1>8, <1>9 DEF ProxyInv

\* Every step of a handler keeps the invariant, and leaves the server alone.
LEMMA HandleProxy == ASSUME ProxyInv, NEW c \in Clients, Handle(c) PROVE ProxyInv' /\ server' = server
  <1>1. ProxyInv'
    BY ResolveProxy, LookUpProxy, ReadProxy, ZipProxy, AnswerProxy DEF Handle
  <1>2. server' = server
    BY DEF Handle, Resolve, LookUp, Read, Zip, MakeZip, Answer
  <1> QED BY <1>1, <1>2

-----------------------------------------------------------------------------
(* The proxy in the suite                                                  *)

\* The server is not started before the script that has one is set up.
Before == {"new", "filtered", "paused", "mkdir", "setup"}
StartInv == plan.proxy # 0 /\ at[plan.proxy] \in Before => server = "down"

\* Both invariants.
ServedInv == SuiteInv /\ ProxyInv /\ StartInv

\* A script goes on, with the server as it is or with its own.
LEMMA StartGoes ==
  ASSUME SuiteType, StartInv, plan' = plan, NEW i \in Scripts, NEW spot \in Places, Go(i, spot),
         spot \in Before => at[i] \in Before, server' = server \/ (i = plan.proxy /\ spot \notin Before)
  PROVE  StartInv'
  <1>1. /\ at'[i] = spot /\ \A j \in Scripts \ {i} : at'[j] = at[j]
    BY Goes
  <1>2. plan.proxy # 0 => plan.proxy \in Scripts
    BY PlanIs DEF SuiteType
  <1> QED BY <1>1, <1>2 DEF StartInv

\* The process dies.
LEMMA StartDies ==
  ASSUME SuiteType, plan' = plan, at' = [j \in Scripts |-> "dead"]
  PROVE  StartInv'
  <1>1. plan.proxy # 0 => plan.proxy \in Scripts
    BY PlanIs DEF SuiteType
  <1> QED BY <1>1 DEF StartInv, Before

\* A script sets its server up.
LEMMA SetupServed == ASSUME ServedInv, NEW i \in Scripts, Setup(i) PROVE ProxyInv' /\ StartInv'
  <1>1. SuiteType /\ StartInv /\ ProxyInv /\ at[i] = "setup" /\ plan' = plan
    BY DEF ServedInv, SuiteInv, Setup
  <1>2. \E spot \in {"lines", "defer"} : Go(i, spot)
    BY DEF Setup, Ends
  <1>3. CASE UNCHANGED proxyVars
    <2>1. ProxyInv' /\ server' = server
      BY <1>1, <1>3, SameProxy DEF proxyVars
    <2> QED BY <1>1, <1>2, <2>1, StartGoes DEF Places, Before
  <1>4. CASE i = plan.proxy /\ StartServer
    <2>1. i # 0
      BY <1>1, PlanIs DEF SuiteType
    <2>2. server = "down"
      BY <1>1, <1>4, <2>1 DEF StartInv, Before
    <2>3. ProxyInv'
      BY <1>1, <1>4, <2>2, StartProxy
    <2> QED BY <1>1, <1>2, <1>4, <2>3, StartGoes DEF Places, Before
  <1> QED BY <1>3, <1>4 DEF Setup

\* A script goes on in another way.
LEMMA StepServed == ASSUME ServedInv, NEW i \in Scripts, Step(i) PROVE ProxyInv' /\ StartInv'
  <1>1. SuiteType /\ StartInv /\ ProxyInv
    BY DEF ServedInv, SuiteInv
  <1>2. CASE Setup(i)
    BY <1>2, SetupServed
  <1>3. ASSUME UNCHANGED proxyVars, Resume(i) \/ MakeDir(i) \/ End(i)
        PROVE  ProxyInv' /\ StartInv'
    <2>1. ProxyInv' /\ server' = server /\ plan' = plan
      BY <1>1, <1>3, SameProxy DEF proxyVars, Resume, MakeDir, End
    <2>2. \E spot \in {"mkdir", "setup", "defer"} : Go(i, spot) /\ (spot \in Before => at[i] \in Before)
      BY <1>3 DEF Resume, MakeDir, End, Ends, Before
    <2> QED BY <1>1, <2>1, <2>2, StartGoes DEF Places
  <1>4. ASSUME UNCHANGED proxyVars, Collect(i) \/ Count(i) \/ CleanUp(i)
        PROVE  ProxyInv' /\ StartInv'
    <2>1. ProxyInv' /\ server' = server /\ plan' = plan
      BY <1>1, <1>4, SameProxy DEF proxyVars, Collect, Count, CleanUp
    <2>2. at' = [j \in Scripts |-> "dead"] \/ \E spot \in {"end", "last", "done"} : Go(i, spot)
      BY <1>4 DEF Collect, Count, CleanUp, Over
    <2> QED BY <1>1, <2>1, <2>2, StartGoes, StartDies DEF Places, Before
  <1>5. CASE Deferred(i)
    <2>1. ProxyInv'
      BY <1>1, <1>5, CloseProxy, SameProxy DEF Deferred
    <2>2. Go(i, "wait") /\ plan' = plan /\ (server' = server \/ i = plan.proxy)
      BY <1>5 DEF Deferred, proxyVars
    <2> QED BY <1>1, <2>1, <2>2, StartGoes DEF Places, Before
  <1>6. CASE RemoveDir(i)
    <2>1. ProxyInv'
      BY <1>1, <1>6, DiskGoneProxy, SameProxy DEF RemoveDir
    <2>2. Go(i, "count") /\ plan' = plan /\ server' = server
      BY <1>6 DEF RemoveDir, proxyVars, DiskGone
    <2> QED BY <1>1, <2>1, <2>2, StartGoes DEF Places, Before
  <1> QED BY <1>2, <1>3, <1>4, <1>5, <1>6 DEF Step, Resume, MakeDir, End, Collect, Count, CleanUp

\* Every step keeps the invariant.
LEMMA ServedStep == ServedInv /\ [Next]_vars => ServedInv'
  <1> SUFFICES ASSUME ServedInv, [Next]_vars PROVE ServedInv'
    OBVIOUS
  <1>1. SuiteInv /\ SuiteType /\ StartInv /\ ProxyInv
    BY DEF ServedInv, SuiteInv
  <1>2. SuiteInv'
    BY <1>1, SuiteStep
  <1>3. ASSUME server' = server, plan' = plan, at' = at PROVE StartInv'
    BY <1>1, <1>3 DEF StartInv
  <1>4. CASE RunNext
    <2>1. ProxyInv' /\ server' = server /\ plan' = plan
      BY <1>1, <1>4, SameProxy DEF RunNext, proxyVars
    <2>2. PICK i \in Scripts : at[i] = "new" /\ \E spot \in {"mkdir", "paused", "filtered"} : Go(i, spot)
      BY <1>4 DEF RunNext
    <2>3. StartInv'
      BY <1>1, <2>1, <2>2, StartGoes DEF Places, Before
    <2> QED BY <1>2, <2>1, <2>3 DEF ServedInv
  <1>5. CASE Expire
    <2>1. ProxyInv' /\ server' = server /\ plan' = plan /\ at' = at
      BY <1>1, <1>5, SameProxy DEF Expire, proxyVars
    <2> QED BY <1>2, <1>3, <2>1 DEF ServedInv
  <1>6. ASSUME NEW i \in Scripts, Step(i) PROVE ServedInv'
    BY <1>2, <1>6, StepServed DEF ServedInv
  <1>7. ASSUME NEW c \in Clients, Serve(c) PROVE ServedInv'
    <2>1. ProxyInv' /\ server' = server
      BY <1>1, <1>7, HandleProxy DEF Serve
    <2>2. plan' = plan /\ at' = at
      BY <1>7 DEF Serve, suiteVars
    <2> QED BY <1>2, <1>3, <2>1, <2>2 DEF ServedInv
  <1>8. ASSUME NEW c \in Clients, NEW kind \in Kinds, NEW v \in Slots, NEW rev \in Seq(Nat),
               kind \in {"info", "zip"} => v \in Versions, Send(c, kind, v, rev)
        PROVE  ServedInv'
    <2>1. Request(c, kind, v, rev) /\ plan' = plan /\ at' = at
      BY <1>8 DEF Send
    <2>2. ProxyInv'
      BY <1>1, <1>8, <2>1, RequestProxy
    <2>3. server' = server
      BY <2>1 DEF Request
    <2> QED BY <1>2, <1>3, <2>1, <2>2, <2>3 DEF ServedInv
  <1>9. ASSUME NEW c \in Clients,
               \/ \E v \in Versions, kind \in {"info", "zip"} : Send(c, kind, v, <<>>)
               \/ Send(c, "latest", Unknown, <<>>)
               \/ \E rev \in Revisions : Send(c, "revision", Unknown, rev)
        PROVE  ServedInv'
    <2>1. /\ <<>> \in Seq(Nat) /\ Revisions \subseteq Seq(Nat) /\ Versions \subseteq Slots /\ Unknown \in Slots
          /\ Kinds = {"info", "zip", "latest", "revision"}
      BY GoProxyAssumption, VersionsAre DEF Kinds
    <2>2. CASE \E v \in Versions, kind \in {"info", "zip"} : Send(c, kind, v, <<>>)
      BY <1>8, <2>1, <2>2
    <2>3. CASE Send(c, "latest", Unknown, <<>>)
      BY <1>8, <2>1, <2>3
    <2>4. CASE \E rev \in Revisions : Send(c, "revision", Unknown, rev)
      BY <1>8, <2>1, <2>4
    <2> QED BY <1>9, <2>2, <2>3, <2>4
  <1>10. ASSUME NEW v \in Versions, Edit(v) PROVE ServedInv'
    <2>1. Rewrite(v) /\ plan' = plan /\ at' = at
      BY <1>10 DEF Edit, suiteVars
    <2>2. ProxyInv' /\ server' = server
      BY <1>1, <2>1, RewriteProxy DEF Rewrite
    <2> QED BY <1>2, <1>3, <2>1, <2>2 DEF ServedInv
  <1>11. CASE UNCHANGED vars
    <2>1. UNCHANGED proxyVars /\ plan' = plan /\ at' = at /\ server' = server
      BY <1>11 DEF vars, suiteVars, proxyVars
    <2> QED BY <1>1, <1>2, <1>3, <2>1, SameProxy DEF ServedInv
  <1> QED BY <1>4, <1>5, <1>6, <1>7, <1>9, <1>10, <1>11 DEF Next

\* It holds at first.
LEMMA ServedInit == Init => ServedInv
  <1> SUFFICES ASSUME Init PROVE ServedInv
    OBVIOUS
  <1>1. plan \in Plans /\ ProxyInit(plan.disk)
    BY DEF Init
  <1>2. plan.disk \in [Slots -> {"absent", "broken", "first"}] /\ plan.disk[Unknown] = "absent"
    BY <1>1, PlanIs DEF Slots
  <1>3. /\ server = "down" /\ modList = <<>> /\ disk = plan.disk
        /\ archives = [v \in Slots |-> "unread"] /\ zips = [v \in Versions |-> "unread"]
        /\ handler = [c \in Clients |-> NoRequest]
        /\ answers = {} /\ editions = [v \in Slots |-> {}]
    BY <1>1 DEF ProxyInit, Slots
  <1>4. NoRequest \in Requests /\ HandlerInv(NoRequest)
    BY VersionsAre DEF NoRequest, Requests, HandlerInv, Settled
  <1>5. ProxyType
    BY <1>2, <1>3, <1>4 DEF ProxyType, Settled
  <1>6. ReadersInv /\ CacheInv /\ DownInv /\ UpInv
    BY <1>2, <1>3, VersionsAre DEF ReadersInv, CacheInv, DownInv, UpInv, NoRequest, Settled
  <1>7. ProxyInv
    BY <1>3, <1>4, <1>5, <1>6 DEF ProxyInv
  <1> QED BY <1>3, <1>7, SuiteInit DEF ServedInv, StartInv

\* The invariant holds.
LEMMA ServedInvHolds == Spec => []ServedInv
  BY ServedInit, ServedStep, PTL DEF Spec

\* The best version of the whole list is the one that is right for the revision.
LEMMA BestIsResolved ==
  ASSUME ProxyType, NEW best \in Slots, NEW rev, Best(Len(modList), best, rev)
  PROVE  best = Resolved(rev)
  <1> DEFINE fit == {v \in Known :
                   Matches(IF v \in Pseudo \/ archives[v] # "absent" THEN Short[v] ELSE <<>>, rev)}
  <1>1. modList \in Seq(Versions) /\ Known = {modList[i] : i \in 1 .. Len(modList)}
    BY DEF ProxyType, Known
  <1>2. \A v \in Known : v \in Versions /\ \E j \in 1 .. Len(modList) : v = modList[j]
    BY <1>1
  <1>3. \A v \in Known : v \in fit <=> Fitting(v, rev)
    BY DEF Fitting, Hash
  <1>4. fit \subseteq Nat \ {Unknown} /\ best \in Nat
    BY <1>2, VersionsAre
  <1>5. \A v \in fit : v <= best
    <2> SUFFICES ASSUME NEW v \in fit, v > best PROVE FALSE
      BY <1>4
    <2>1. Fitting(v, rev)
      BY <1>3
    <2>2. PICK j \in 1 .. Len(modList) : v = modList[j]
      BY <1>2
    <2> QED BY <2>1, <2>2 DEF Best
  <1>6. best # Unknown => best \in fit
    BY <1>1, <1>3 DEF Best
  <1> HIDE DEF fit
  <1>7. MaxOf(fit) = best
    BY <1>4, <1>5, <1>6, MaxOfIs
  <1> QED BY <1>7 DEF Resolved, fit

\* All answers about a version are of one edition of its archive that was there while the
\* server ran, and the latest version and that of a revision are right, for any clients,
\* versions and order of the directory (goproxytest/proxy.go:148-315, 350, 424-441).
THEOREM ServedRightHolds == Spec => []ServedRight
  <1>1. ServedInv => ServedRight
    <2> SUFFICES ASSUME ProxyInv PROVE ServedRight
      BY DEF ServedInv
    <2>1. ProxyType /\ modList \in Seq(Versions)
      BY DEF ProxyInv, ProxyType
    <2>2. ASSUME NEW a \in answers
          PROVE  /\ AnswerInv(a) /\ Given(a.vers, a.got) /\ a.vers \in Slots
                 /\ a.vers # Unknown => a.got \in editions[a.vers]
                 /\ a.kind = "latest" =>
                      a.vers = MaxOf(IF Known \cap Releases = {} THEN Known ELSE Known \cap Releases)
                 /\ a.kind = "revision" => a.vers = Resolved(a.rev)
      <3>1. AnswerInv(a) /\ a.vers \in Slots
        BY <2>1 DEF ProxyInv, ProxyType, Replies
      <3>2. Latest = MaxOf(IF Known \cap Releases = {} THEN Known ELSE Known \cap Releases)
        BY <2>1, LatestIs
      <3>3. a.kind = "revision" => a.vers = Resolved(a.rev)
        BY <2>1, <3>1, BestIsResolved DEF AnswerInv
      <3> QED BY <3>1, <3>2, <3>3 DEF AnswerInv
    <2>3. \A a, b \in answers : a.vers = b.vers => a.got = b.got
      BY <2>2 DEF Given
    <2> QED BY <2>2, <2>3 DEF ServedRight
  <1> QED BY <1>1, ServedInvHolds, PTL
===============================================================================
