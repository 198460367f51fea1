--------------------------- MODULE ParCacheProof ---------------------------
(***************************************************************************)
(* par.Cache runs the function once per key, publishes its result without  *)
(* a race, and implements Memo, for any callers, keys and values.          *)
(***************************************************************************)
EXTENDS ParCache, TLAPS

\* The places between Lock and Unlock.
Critical == {"recheck", "call", "publish", "unlock"}

\* The map holds an entry of its own for each key, for good, and callers work on it.
MapInv ==
  /\ \A k \in Keys : m[k] # Nil => m[k][2] = k
  /\ \A c \in Callers : e[c] # Nil => e[c] = m[key[c]]
  /\ \A x \in done : m[x[2]] = x

\* A result is there before done says so, and done is set before the mutex is free.
ResultInv ==
  /\ \A x \in done : result[x] # Nil
  /\ \A c \in Callers : pc[c] = "publish" => result[e[c]] # Nil
  /\ \A c \in Callers : pc[c] = "unlock" => e[c] \in done

\* The function was called only where its result is there, it still runs, or it
\* panicked, and then the mutex stays locked by nobody who would unlock it.
RunInv ==
  /\ \A k \in Keys :
       runs[k] # 0 =>
         \/ m[k] \in done
         \/ \E c \in Callers : pc[c] \in {"call", "publish"} /\ key[c] = k
         \/ k \in panicked
  /\ \A k \in panicked :
       /\ m[k] # Nil /\ mu[m[k]] # Nil
       /\ \A c \in Callers : key[c] = k => pc[c] \notin Critical

\* Only Do goes beyond the first look at done.
DoOnly ==
  \A c \in Callers : pc[c] \in Critical \cup {"store", "lock"} => op[c] = "Do"

IInv == TypeOK /\ DoOnly /\ MapInv /\ ResultInv /\ NoRacyRead /\ RunInv /\ OneRun

-----------------------------------------------------------------------------
\* The key and the entry of a caller, by where it is.
LEMMA CallerTypes ==
  ASSUME TypeOK, NEW c \in Callers, pc[c] # "idle"
  PROVE  /\ key[c] \in Keys
         /\ op[c] \in {"Do", "Get"}
         /\ pc[c] \notin {"load", "store"} => e[c] \in Entries /\ e[c] # Nil
  BY DEF TypeOK

\* One caller at a time is between Lock and Unlock of an entry.
LEMMA Exclusion ==
  ASSUME TypeOK, NoRacyRead, MapInv, NEW c \in Callers, NEW d \in Callers,
         pc[c] \in Critical, pc[d] \in Critical, key[c] = key[d]
  PROVE  c = d
<1>1. e[c] # Nil /\ e[d] # Nil
  BY DEF TypeOK, Critical
<1>2. e[c] = e[d]
  BY <1>1 DEF MapInv
<1> QED
  BY <1>2 DEF NoRacyRead, Critical

-----------------------------------------------------------------------------
\* The initial states satisfy the invariant.
LEMMA InitHolds == Init => IInv
<1> SUFFICES ASSUME Init PROVE IInv
  OBVIOUS
<1>1. TypeOK
  BY ParCacheAssumption DEF Init, TypeOK
<1> QED
  BY <1>1 DEF Init, IInv, DoOnly, Critical, MapInv, ResultInv, NoRacyRead, RunInv, OneRun

\* Types are kept by every step.
LEMMA TypeStep == ASSUME TypeOK, [Next]_vars PROVE TypeOK'
<1>1. ASSUME NEW c \in Callers, NEW o \in {"Do", "Get"}, NEW k \in Keys, Invoke(c, o, k)
      PROVE  TypeOK'
  BY <1>1, ParCacheAssumption DEF TypeOK, Invoke, Go, entryVars, ghostVars
<1>2. ASSUME NEW c \in Callers, Load(c) PROVE TypeOK'
  <2>1. key[c] \in Keys
    BY <1>2, CallerTypes DEF Load
  <2> QED
    BY <1>2, <2>1, ParCacheAssumption DEF TypeOK, Load, Return, Go, entryVars, ghostVars
<1>3. ASSUME NEW c \in Callers, LoadOrStore(c) PROVE TypeOK'
  <2>1. key[c] \in Keys
    BY <1>3, CallerTypes DEF LoadOrStore
  <2>2. <<c, key[c]>> \in Entries /\ <<c, key[c]>> # Nil
    BY <2>1, ParCacheAssumption DEF Entries
  <2> QED
    BY <1>3, <2>1, <2>2 DEF TypeOK, LoadOrStore, Go, entryVars, ghostVars
<1>4. ASSUME NEW c \in Callers, Check(c) PROVE TypeOK'
  BY <1>4, ParCacheAssumption DEF TypeOK, Check, Return, Go, entryVars, ghostVars
<1>5. ASSUME NEW c \in Callers, Lock(c) PROVE TypeOK'
  BY <1>5 DEF TypeOK, Lock, Go, entryVars, ghostVars
<1>6. ASSUME NEW c \in Callers, Recheck(c) PROVE TypeOK'
  BY <1>6 DEF TypeOK, Recheck, Go, entryVars, ghostVars
<1>7. ASSUME NEW c \in Callers, FReturns(c) PROVE TypeOK'
  BY <1>7 DEF TypeOK, FReturns, Go, entryVars, ghostVars
<1>8. ASSUME NEW c \in Callers, FPanics(c) PROVE TypeOK'
  BY <1>8, ParCacheAssumption DEF TypeOK, FPanics, Return, Go, entryVars, ghostVars
<1>9. ASSUME NEW c \in Callers, Publish(c) PROVE TypeOK'
  <2>1. e[c] \in Entries
    BY <1>9, CallerTypes DEF Publish
  <2> QED
    BY <1>9, <2>1 DEF TypeOK, Publish, Go, entryVars, ghostVars
<1>10. ASSUME NEW c \in Callers, Unlock(c) PROVE TypeOK'
  BY <1>10 DEF TypeOK, Unlock, Go, entryVars, ghostVars
<1>11. ASSUME NEW c \in Callers, Read(c) PROVE TypeOK'
  <2>1. result[e[c]] \in Values \cup {Nil}
    BY <1>11, CallerTypes DEF Read, TypeOK
  <2> QED
    BY <1>11, <2>1, ParCacheAssumption DEF TypeOK, Read, Return, Go, entryVars, ghostVars
<1>12. CASE UNCHANGED vars
  BY <1>12 DEF TypeOK, vars, entryVars, ghostVars
<1> QED
  BY <1>1, <1>2, <1>3, <1>4, <1>5, <1>6, <1>7, <1>8, <1>9, <1>10, <1>11, <1>12 DEF Next, Step

\* Get never waits: only Do goes beyond the first look at done.
LEMMA DoOnlyStep == ASSUME TypeOK, DoOnly, [Next]_vars PROVE DoOnly'
<1>1. ASSUME NEW c \in Callers, NEW o \in {"Do", "Get"}, NEW k \in Keys, Invoke(c, o, k)
      PROVE  DoOnly'
  BY <1>1 DEF TypeOK, DoOnly, Critical, Invoke, Go
<1>2. ASSUME NEW c \in Callers, Load(c) PROVE DoOnly'
  BY <1>2 DEF TypeOK, DoOnly, Critical, Load, Return, Go
<1>3. ASSUME NEW c \in Callers, LoadOrStore(c) PROVE DoOnly'
  BY <1>3 DEF TypeOK, DoOnly, Critical, LoadOrStore, Go
<1>4. ASSUME NEW c \in Callers, Check(c) PROVE DoOnly'
  BY <1>4 DEF TypeOK, DoOnly, Critical, Check, Return, Go
<1>5. ASSUME NEW c \in Callers, Lock(c) PROVE DoOnly'
  BY <1>5 DEF TypeOK, DoOnly, Critical, Lock, Go
<1>6. ASSUME NEW c \in Callers, Recheck(c) PROVE DoOnly'
  BY <1>6 DEF TypeOK, DoOnly, Critical, Recheck, Go
<1>7. ASSUME NEW c \in Callers, FReturns(c) PROVE DoOnly'
  BY <1>7 DEF TypeOK, DoOnly, Critical, FReturns, Go
<1>8. ASSUME NEW c \in Callers, FPanics(c) PROVE DoOnly'
  BY <1>8 DEF TypeOK, DoOnly, Critical, FPanics, Return, Go
<1>9. ASSUME NEW c \in Callers, Publish(c) PROVE DoOnly'
  BY <1>9 DEF TypeOK, DoOnly, Critical, Publish, Go
<1>10. ASSUME NEW c \in Callers, Unlock(c) PROVE DoOnly'
  BY <1>10 DEF TypeOK, DoOnly, Critical, Unlock, Go
<1>11. ASSUME NEW c \in Callers, Read(c) PROVE DoOnly'
  BY <1>11 DEF TypeOK, DoOnly, Critical, Read, Return, Go
<1>12. CASE UNCHANGED vars
  BY <1>12 DEF DoOnly, Critical, vars
<1> QED
  BY <1>1, <1>2, <1>3, <1>4, <1>5, <1>6, <1>7, <1>8, <1>9, <1>10, <1>11, <1>12 DEF Next, Step

-----------------------------------------------------------------------------
\* A call begins: nothing of the cache changes.
LEMMA InvokeHolds ==
  ASSUME IInv, TypeOK', DoOnly', NEW c \in Callers, NEW o \in {"Do", "Get"}, NEW k \in Keys, Invoke(c, o, k)
  PROVE  IInv'
<1>1. e[c] = Nil /\ e'[c] = Nil /\ UNCHANGED <<m, done, mu, result, e, runs, panicked>>
  BY DEF IInv, TypeOK, Invoke, entryVars, ghostVars
<1>2. /\ pc' = [pc EXCEPT ![c] = "load"] /\ pc[c] = "idle"
      /\ key' = [key EXCEPT ![c] = k]
  BY DEF Invoke, Go
<1>3. MapInv' /\ ResultInv'
  BY <1>1, <1>2 DEF IInv, TypeOK, MapInv, ResultInv
<1>4. NoRacyRead'
  BY <1>1, <1>2 DEF IInv, TypeOK, NoRacyRead
<1>5. RunInv'
  BY <1>1, <1>2 DEF IInv, TypeOK, RunInv, Critical
<1>6. OneRun'
  BY <1>1, <1>2 DEF IInv, TypeOK, OneRun
<1> QED
  BY <1>3, <1>4, <1>5, <1>6 DEF IInv

\* A caller not between Lock and Unlock returns.
LEMMA ReturnHolds ==
  ASSUME IInv, TypeOK', DoOnly', NEW c \in Callers, NEW v, Return(c, v), pc[c] \notin Critical,
         UNCHANGED <<entryVars, ghostVars>>
  PROVE  IInv'
<1>1. /\ pc' = [pc EXCEPT ![c] = "idle"] /\ key' = [key EXCEPT ![c] = Nil]
      /\ e' = [e EXCEPT ![c] = Nil] /\ UNCHANGED <<m, done, mu, result, runs, panicked>>
  BY DEF Return, Go, entryVars, ghostVars
<1>2. MapInv' /\ ResultInv'
  BY <1>1 DEF IInv, TypeOK, MapInv, ResultInv
<1>3. NoRacyRead'
  BY <1>1 DEF IInv, TypeOK, NoRacyRead
<1>4. RunInv'
  BY <1>1, ParCacheAssumption DEF IInv, TypeOK, RunInv, Critical
<1>5. OneRun'
  BY <1>1 DEF IInv, TypeOK, OneRun
<1> QED
  BY <1>2, <1>3, <1>4, <1>5 DEF IInv

LEMMA LoadHolds == ASSUME IInv, TypeOK', DoOnly', NEW c \in Callers, Load(c) PROVE IInv'
<1>1. CASE Return(c, Nil)
  BY <1>1, ReturnHolds DEF Load, Critical
<1>2. CASE UNCHANGED <<op, key, ret>>
  <2>1. /\ pc[c] = "load" /\ \E place \in {"check", "store"} : pc' = [pc EXCEPT ![c] = place]
        /\ \/ e' = [e EXCEPT ![c] = m[key[c]]]
           \/ e' = e
        /\ UNCHANGED <<m, done, mu, result, key, runs, panicked>>
    BY <1>2 DEF Load, Return, Go, entryVars, ghostVars, IInv, TypeOK
  <2>2. MapInv' /\ ResultInv'
    BY <2>1 DEF IInv, TypeOK, MapInv, ResultInv
  <2>3. NoRacyRead'
    BY <2>1 DEF IInv, TypeOK, NoRacyRead
  <2>4. RunInv'
    BY <2>1 DEF IInv, TypeOK, RunInv, Critical
  <2>5. OneRun'
    BY <2>1 DEF IInv, TypeOK, OneRun
  <2> QED
    BY <2>2, <2>3, <2>4, <2>5 DEF IInv
<1> QED
  BY <1>1, <1>2 DEF Load

LEMMA LoadOrStoreHolds == ASSUME IInv, TypeOK', DoOnly', NEW c \in Callers, LoadOrStore(c) PROVE IInv'
<1> DEFINE mine == <<c, key[c]>>
<1>1. /\ pc[c] = "store" /\ pc' = [pc EXCEPT ![c] = "check"] /\ e[c] = Nil
      /\ key[c] \in Keys /\ UNCHANGED <<done, mu, result, key, runs, panicked>>
  BY DEF LoadOrStore, Go, ghostVars, IInv, TypeOK
<1>2. mine \in Entries /\ mine # Nil /\ mine[2] = key[c]
  BY <1>1, ParCacheAssumption DEF Entries
<1> HIDE DEF mine
<1>3. CASE m[key[c]] # Nil
  <2>1. m' = m /\ e' = [e EXCEPT ![c] = m[key[c]]]
    BY <1>1, <1>3 DEF LoadOrStore, IInv, TypeOK
  <2>2. MapInv' /\ ResultInv'
    BY <1>1, <2>1 DEF IInv, TypeOK, MapInv, ResultInv
  <2>3. NoRacyRead'
    BY <1>1, <2>1 DEF IInv, TypeOK, NoRacyRead
  <2>4. RunInv'
    BY <1>1, <2>1 DEF IInv, TypeOK, RunInv, Critical
  <2>5. OneRun'
    BY <1>1, <2>1 DEF IInv, TypeOK, OneRun
  <2> QED
    BY <2>2, <2>3, <2>4, <2>5 DEF IInv
<1>4. CASE m[key[c]] = Nil
  <2>1. m' = [m EXCEPT ![key[c]] = mine] /\ e' = [e EXCEPT ![c] = mine]
    BY <1>1, <1>4 DEF LoadOrStore, IInv, TypeOK, mine
  <2>2. \A d \in Callers : e[d] # Nil => key[d] # key[c]
    BY <1>4 DEF IInv, TypeOK, MapInv
  <2>3. MapInv'
    <3>1. \A k \in Keys : m'[k] # Nil => m'[k][2] = k
      BY <1>1, <1>2, <2>1 DEF IInv, TypeOK, MapInv
    <3>2. \A d \in Callers : e'[d] # Nil => e'[d] = m'[key'[d]]
      BY <1>1, <1>2, <2>1, <2>2 DEF IInv, TypeOK, MapInv
    <3>3. ASSUME NEW x \in done' PROVE m'[x[2]] = x
      <4>1. x \in Entries /\ m[x[2]] = x /\ x # Nil /\ x[2] \in Keys
        BY <1>1, <3>3, ParCacheAssumption DEF IInv, TypeOK, MapInv, Entries
      <4> QED
        BY <1>4, <2>1, <4>1 DEF IInv, TypeOK
    <3> QED
      BY <3>1, <3>2, <3>3 DEF MapInv
  <2>4. ResultInv' /\ NoRacyRead'
    BY <1>1, <2>1 DEF IInv, TypeOK, ResultInv, NoRacyRead
  <2>5. RunInv'
    <3>1. \A k \in Keys : k # key[c] => m'[k] = m[k]
      BY <1>1, <2>1 DEF IInv, TypeOK
    <3>2. Nil \notin done
      BY ParCacheAssumption DEF IInv, TypeOK, Entries
    <3>3. key[c] \notin panicked
      BY <1>4 DEF IInv, RunInv
    <3>4. \A d \in Callers : pc'[d] \in Critical \cup {"call", "publish"} <=> pc[d] \in Critical \cup {"call", "publish"}
      BY <1>1 DEF IInv, TypeOK, Critical
    <3> QED
      BY <1>1, <1>4, <3>1, <3>2, <3>3, <3>4 DEF IInv, TypeOK, RunInv, Critical
  <2>6. OneRun'
    BY <1>1, <2>1, <2>2 DEF IInv, TypeOK, OneRun
  <2> QED
    BY <2>3, <2>4, <2>5, <2>6 DEF IInv
<1> QED
  BY <1>3, <1>4

LEMMA CheckHolds == ASSUME IInv, TypeOK', DoOnly', NEW c \in Callers, Check(c) PROVE IInv'
<1>1. CASE Return(c, Nil)
  BY <1>1, ReturnHolds DEF Check, Critical
<1>2. CASE UNCHANGED <<op, key, e, ret>>
  <2>1. /\ pc[c] = "check"
        /\ \/ e[c] \in done /\ pc' = [pc EXCEPT ![c] = "read"]
           \/ pc' = [pc EXCEPT ![c] = "lock"]
        /\ UNCHANGED <<m, done, mu, result, key, e, runs, panicked>>
    BY <1>2, ParCacheAssumption DEF Check, Return, Go, entryVars, ghostVars, IInv, TypeOK
  <2>2. MapInv' /\ ResultInv'
    BY <2>1 DEF IInv, TypeOK, MapInv, ResultInv
  <2>3. NoRacyRead'
    BY <2>1 DEF IInv, TypeOK, NoRacyRead, ResultInv
  <2>4. RunInv'
    BY <2>1 DEF IInv, TypeOK, RunInv, Critical
  <2>5. OneRun'
    BY <2>1 DEF IInv, TypeOK, OneRun
  <2> QED
    BY <2>2, <2>3, <2>4, <2>5 DEF IInv
<1> QED
  BY <1>1, <1>2 DEF Check

LEMMA LockHolds == ASSUME IInv, TypeOK', DoOnly', NEW c \in Callers, Lock(c) PROVE IInv'
<1>1. /\ pc[c] = "lock" /\ pc' = [pc EXCEPT ![c] = "recheck"] /\ mu[e[c]] = Nil
      /\ mu' = [mu EXCEPT ![e[c]] = c] /\ e[c] \in Entries /\ e[c] # Nil
      /\ UNCHANGED <<m, done, result, key, e, runs, panicked>>
  BY CallerTypes DEF Lock, Go, ghostVars, IInv
<1>2. MapInv' /\ ResultInv'
  BY <1>1 DEF IInv, TypeOK, MapInv, ResultInv
<1>3. NoRacyRead'
  <2>1. \A d \in Callers : pc[d] \in Critical => e[d] # e[c]
    BY <1>1, ParCacheAssumption DEF IInv, NoRacyRead, Critical
  <2> QED
    BY <1>1, <2>1 DEF IInv, TypeOK, NoRacyRead, Critical
<1>4. RunInv'
  <2>1. key[c] \notin panicked
    BY <1>1 DEF IInv, MapInv, RunInv
  <2>2. \A k \in panicked : mu'[m[k]] # Nil
    BY <1>1, ParCacheAssumption DEF IInv, TypeOK, RunInv
  <2> QED
    BY <1>1, <2>1, <2>2 DEF IInv, TypeOK, RunInv, Critical
<1>5. OneRun'
  BY <1>1 DEF IInv, TypeOK, OneRun
<1> QED
  BY <1>2, <1>3, <1>4, <1>5 DEF IInv

LEMMA RecheckHolds == ASSUME IInv, TypeOK', DoOnly', NEW c \in Callers, Recheck(c) PROVE IInv'
<1>1. /\ pc[c] = "recheck" /\ key[c] \in Keys /\ e[c] \in Entries /\ e[c] = m[key[c]]
      /\ UNCHANGED <<m, done, mu, result, key, e, panicked>>
  BY CallerTypes DEF Recheck, entryVars, IInv, MapInv
<1>2. CASE e[c] \in done /\ pc' = [pc EXCEPT ![c] = "unlock"] /\ runs' = runs
  <2>1. MapInv' /\ ResultInv'
    BY <1>1, <1>2 DEF IInv, TypeOK, MapInv, ResultInv
  <2>2. NoRacyRead'
    BY <1>1, <1>2 DEF IInv, TypeOK, NoRacyRead
  <2>3. RunInv'
    BY <1>1, <1>2 DEF IInv, TypeOK, RunInv, Critical
  <2>4. OneRun'
    BY <1>1, <1>2 DEF IInv, TypeOK, OneRun
  <2> QED
    BY <2>1, <2>2, <2>3, <2>4 DEF IInv
<1>3. CASE e[c] \notin done /\ pc' = [pc EXCEPT ![c] = "call"] /\ runs' = [runs EXCEPT ![key[c]] = @ + 1]
  <2>1. runs[key[c]] = 0
    <3>1. key[c] \notin panicked
      BY <1>1 DEF IInv, RunInv, Critical
    <3>2. ASSUME NEW d \in Callers, pc[d] \in {"call", "publish"}, key[d] = key[c] PROVE FALSE
      BY <1>1, <3>2, Exclusion DEF IInv, Critical
    <3> QED
      BY <1>1, <1>3, <3>1, <3>2 DEF IInv, RunInv
  <2>2. MapInv' /\ ResultInv'
    BY <1>1, <1>3 DEF IInv, TypeOK, MapInv, ResultInv
  <2>3. NoRacyRead'
    BY <1>1, <1>3 DEF IInv, TypeOK, NoRacyRead
  <2>4. RunInv'
    <3>1. pc'[c] = "call" /\ \A d \in Callers \ {c} : pc'[d] = pc[d]
      BY <1>3 DEF IInv, TypeOK
    <3>2. \A k \in Keys : k # key[c] => runs'[k] = runs[k]
      BY <1>3 DEF IInv, TypeOK
    <3> QED
      BY <1>1, <3>1, <3>2 DEF IInv, RunInv, Critical
  <2>5. OneRun'
    BY <1>1, <1>3, <2>1 DEF IInv, TypeOK, OneRun
  <2> QED
    BY <2>2, <2>3, <2>4, <2>5 DEF IInv
<1> QED
  BY <1>2, <1>3 DEF Recheck, Go

LEMMA FReturnsHolds == ASSUME IInv, TypeOK', DoOnly', NEW c \in Callers, FReturns(c) PROVE IInv'
<1>1. PICK v \in Values : result' = [result EXCEPT ![e[c]] = v]
  BY DEF FReturns
<1>2. /\ pc[c] = "call" /\ pc' = [pc EXCEPT ![c] = "publish"] /\ e[c] \in Entries /\ v # Nil
      /\ UNCHANGED <<m, done, mu, key, e, runs, panicked>>
  BY CallerTypes, ParCacheAssumption DEF FReturns, Go, ghostVars, IInv
<1>3. e[c] \notin done /\ mu[e[c]] = c
  BY <1>2 DEF IInv, NoRacyRead
<1>4. MapInv'
  BY <1>2 DEF IInv, TypeOK, MapInv
<1>5. \A x \in Entries : result[x] # Nil => result'[x] # Nil
  BY <1>1, <1>2 DEF IInv, TypeOK
<1>6. result'[e[c]] # Nil
  BY <1>1, <1>2 DEF IInv, TypeOK
<1>7. \A d \in Callers : pc[d] \in {"publish", "read"} => e[d] \in Entries
  BY CallerTypes DEF IInv
<1>8. ResultInv'
  BY <1>2, <1>5, <1>6, <1>7 DEF IInv, TypeOK, ResultInv
<1>9. NoRacyRead'
  BY <1>2, <1>5, <1>7 DEF IInv, TypeOK, NoRacyRead
<1>10. RunInv'
  BY <1>2 DEF IInv, TypeOK, RunInv, Critical
<1>11. OneRun'
  BY <1>2 DEF IInv, TypeOK, OneRun
<1> QED
  BY <1>4, <1>8, <1>9, <1>10, <1>11 DEF IInv

LEMMA FPanicsHolds == ASSUME IInv, TypeOK', DoOnly', NEW c \in Callers, FPanics(c) PROVE IInv'
<1>1. /\ pc[c] = "call" /\ key[c] \in Keys /\ e[c] \in Entries /\ e[c] # Nil
      /\ pc' = [pc EXCEPT ![c] = "idle"] /\ e' = [e EXCEPT ![c] = Nil]
      /\ key' = [key EXCEPT ![c] = Nil]
      /\ panicked' = panicked \cup {key[c]}
      /\ UNCHANGED <<m, done, mu, result, runs>>
  BY CallerTypes DEF FPanics, Return, Go, entryVars, IInv
<1>2. mu[m[key[c]]] = c /\ m[key[c]] # Nil /\ c # Nil
  BY <1>1, ParCacheAssumption DEF IInv, MapInv, NoRacyRead
<1>3. \A d \in Callers : d # c /\ key[d] = key[c] => pc[d] \notin Critical
  BY <1>1, Exclusion DEF IInv, Critical
<1>4. MapInv' /\ ResultInv'
  BY <1>1 DEF IInv, TypeOK, MapInv, ResultInv
<1>5. NoRacyRead'
  BY <1>1 DEF IInv, TypeOK, NoRacyRead
<1>6. RunInv'
  <2>1. pc'[c] = "idle" /\ \A d \in Callers \ {c} : pc'[d] = pc[d] /\ key'[d] = key[d]
    BY <1>1 DEF IInv, TypeOK
  <2> QED
    BY <1>1, <1>2, <1>3, <2>1 DEF IInv, RunInv, Critical
<1>7. OneRun'
  BY <1>1 DEF IInv, TypeOK, OneRun
<1> QED
  BY <1>4, <1>5, <1>6, <1>7 DEF IInv

LEMMA PublishHolds == ASSUME IInv, TypeOK', DoOnly', NEW c \in Callers, Publish(c) PROVE IInv'
<1>1. /\ pc[c] = "publish" /\ key[c] \in Keys /\ e[c] \in Entries /\ e[c] # Nil
      /\ pc' = [pc EXCEPT ![c] = "unlock"] /\ done' = done \cup {e[c]}
      /\ UNCHANGED <<m, mu, result, key, e, runs, panicked>>
  BY CallerTypes DEF Publish, Go, ghostVars, IInv
<1>2. e[c] = m[key[c]] /\ m[key[c]][2] = key[c] /\ result[e[c]] # Nil
  BY <1>1 DEF IInv, MapInv, ResultInv
<1>3. MapInv'
  BY <1>1, <1>2 DEF IInv, TypeOK, MapInv
<1>4. ResultInv'
  BY <1>1, <1>2 DEF IInv, TypeOK, ResultInv
<1>5. NoRacyRead'
  <2>1. \A d \in Callers : d # c /\ pc[d] \in {"call", "publish"} => e[d] # e[c]
    BY <1>1 DEF IInv, NoRacyRead
  <2> QED
    BY <1>1, <2>1 DEF IInv, TypeOK, NoRacyRead
<1>6. RunInv'
  BY <1>1, <1>2 DEF IInv, TypeOK, RunInv, Critical
<1>7. OneRun'
  BY <1>1 DEF IInv, TypeOK, OneRun
<1> QED
  BY <1>3, <1>4, <1>5, <1>6, <1>7 DEF IInv

LEMMA UnlockHolds == ASSUME IInv, TypeOK', DoOnly', NEW c \in Callers, Unlock(c) PROVE IInv'
<1>1. /\ pc[c] = "unlock" /\ key[c] \in Keys /\ e[c] \in Entries /\ e[c] # Nil
      /\ pc' = [pc EXCEPT ![c] = "read"] /\ mu' = [mu EXCEPT ![e[c]] = Nil]
      /\ UNCHANGED <<m, done, result, key, e, runs, panicked>>
  BY CallerTypes DEF Unlock, Go, ghostVars, IInv
<1>2. e[c] \in done /\ result[e[c]] # Nil /\ e[c] = m[key[c]]
  BY <1>1 DEF IInv, ResultInv, MapInv
<1>3. MapInv' /\ ResultInv'
  BY <1>1 DEF IInv, TypeOK, MapInv, ResultInv
<1>4. NoRacyRead'
  <2>1. \A d \in Callers : d # c /\ pc[d] \in Critical => e[d] # e[c]
    BY <1>1 DEF IInv, NoRacyRead, Critical
  <2>2. \A d \in Callers : pc[d] \in Critical => e[d] \in Entries
    BY CallerTypes DEF IInv, Critical
  <2> QED
    BY <1>1, <1>2, <2>1, <2>2 DEF IInv, TypeOK, NoRacyRead, Critical
<1>5. RunInv'
  <2>1. ASSUME NEW k \in panicked PROVE mu'[m[k]] = mu[m[k]]
    <3>1. k \in Keys /\ k # key[c] /\ m[k] # Nil /\ m[k] \in Entries
      BY <1>1, <2>1 DEF IInv, TypeOK, RunInv, Critical
    <3>2. m[k] # e[c]
      BY <1>1, <1>2, <3>1 DEF IInv, MapInv
    <3> QED
      BY <1>1, <3>1, <3>2 DEF IInv, TypeOK
  <2> QED
    BY <1>1, <2>1 DEF IInv, TypeOK, RunInv, Critical
<1>6. OneRun'
  BY <1>1 DEF IInv, TypeOK, OneRun
<1> QED
  BY <1>3, <1>4, <1>5, <1>6 DEF IInv

\* The invariant is inductive.
LEMMA StepHolds == ASSUME IInv, [Next]_vars PROVE IInv'
<1>1. TypeOK' /\ DoOnly'
  BY TypeStep, DoOnlyStep DEF IInv
<1>2. ASSUME NEW c \in Callers, Step(c) PROVE IInv'
  <2>1. ASSUME Read(c) PROVE IInv'
    BY <1>1, <2>1, ReturnHolds DEF Read, Critical
  <2> QED
    BY <1>1, <1>2, <2>1, LoadHolds, LoadOrStoreHolds, CheckHolds, LockHolds, RecheckHolds,
       PublishHolds, UnlockHolds DEF Step
<1>3. CASE UNCHANGED vars
  BY <1>1, <1>3 DEF IInv, MapInv, ResultInv, NoRacyRead, RunInv, OneRun, vars, entryVars, ghostVars
<1> QED
  BY <1>1, <1>2, <1>3, InvokeHolds, FReturnsHolds, FPanicsHolds DEF Next

\* The invariant holds in every reachable state.
THEOREM Invariance == Spec => []IInv
  BY InitHolds, StepHolds, PTL DEF Spec

\* Every variable keeps its type (work.go:106-149).
THEOREM TypeCorrect == Spec => []TypeOK
<1>1. IInv => TypeOK
  BY DEF IInv
<1> QED
  BY <1>1, Invariance, PTL

\* The function runs once per key, on the one entry of the key (work.go:116-134).
THEOREM RunsOnce == Spec => []OneRun
<1>1. IInv => OneRun
  BY DEF IInv
<1> QED
  BY <1>1, Invariance, PTL

\* A result is read only after it was published (work.go:125-133, 148).
THEOREM PublishedBeforeRead == Spec => []NoRacyRead
<1>1. IInv => NoRacyRead
  BY DEF IInv
<1> QED
  BY <1>1, Invariance, PTL

-----------------------------------------------------------------------------
(* par.Cache implements Memo.                                              *)

\* What each step does to the state of Memo, said of the mapped variables.
memoVars == <<Table, Started, Running, Calls, ret>>

\* The results, by key, are those of other keys while an entry is not done.
LEMMA TableKept ==
  ASSUME IInv, UNCHANGED <<m, done>>, \A x \in done : result'[x] = result[x]
  PROVE  Table' = Table
  BY DEF Table

\* The initial states of the cache are initial states of Memo.
LEMMA InitRefines == Init => Abstract!Init
<1> SUFFICES ASSUME Init PROVE Abstract!Init
  OBVIOUS
<1>1. Table = [k \in Keys |-> Nil] /\ Started = {}
  BY DEF Init, Table, Started
<1>2. Running = [k \in Keys |-> {}] /\ Calls = [c \in Callers |-> <<>>]
  BY DEF Init, Running, Calls
<1> QED
  BY <1>1, <1>2 DEF Init, Abstract!Init

LEMMA InvokeRefines ==
  ASSUME IInv, NEW c \in Callers, NEW o \in {"Do", "Get"}, NEW k \in Keys, Invoke(c, o, k)
  PROVE  Abstract!Invoke(c, o, k)
<1>1. /\ pc[c] = "idle" /\ pc' = [pc EXCEPT ![c] = "load"] /\ op' = [op EXCEPT ![c] = o]
      /\ key' = [key EXCEPT ![c] = k] /\ ret' = [ret EXCEPT ![c] = Nil]
      /\ UNCHANGED <<m, done, result, runs>>
  BY DEF Invoke, Go, entryVars, ghostVars
<1>2. Table' = Table /\ Started' = Started
  BY <1>1 DEF Table, Started
<1>3. Running' = Running
  BY <1>1 DEF IInv, TypeOK, Running
<1>4. Calls' = [Calls EXCEPT ![c] = <<o, k>>] /\ Calls[c] = <<>>
  BY <1>1 DEF IInv, TypeOK, Calls
<1> QED
  BY <1>1, <1>2, <1>3, <1>4 DEF Abstract!Invoke

\* A call of caller c returns what the table says.
LEMMA ReturnRefines ==
  ASSUME IInv, NEW c \in Callers, NEW v, Return(c, v), UNCHANGED <<entryVars, ghostVars>>,
         pc[c] \notin {"idle", "call", "publish"},
         v = Table[key[c]], op[c] = "Do" => v # Nil
  PROVE  Abstract!Return(c, op[c], key[c])
<1>1. /\ pc' = [pc EXCEPT ![c] = "idle"] /\ key' = [key EXCEPT ![c] = Nil]
      /\ op' = [op EXCEPT ![c] = Nil] /\ ret' = [ret EXCEPT ![c] = v]
      /\ UNCHANGED <<m, done, result, runs>>
  BY DEF Return, Go, entryVars, ghostVars
<1>2. Table' = Table /\ Started' = Started
  BY <1>1 DEF Table, Started
<1>3. Running' = Running
  BY <1>1 DEF IInv, TypeOK, Running
<1>4. Calls' = [Calls EXCEPT ![c] = <<>>] /\ Calls[c] = <<op[c], key[c]>>
  BY <1>1 DEF IInv, TypeOK, Calls
<1> QED
  BY <1>1, <1>2, <1>3, <1>4 DEF Abstract!Return, Abstract!Respond

\* A step of caller c that moves it to a place where it does not run the function.
LEMMA MoveRefines ==
  ASSUME IInv, NEW c \in Callers, NEW place, pc[c] \notin {"idle", "call", "publish"},
         place \notin {"idle", "call", "publish"}, Go(c, place),
         Table' = Table, UNCHANGED <<op, key, ret, runs>>
  PROVE  UNCHANGED memoVars
<1>1. Started' = Started
  BY DEF Started
<1>2. Running' = Running
  BY DEF IInv, TypeOK, Running, Go
<1>3. Calls' = Calls
  BY DEF IInv, TypeOK, Calls, Go
<1> QED
  BY <1>1, <1>2, <1>3 DEF memoVars

LEMMA LoadRefines ==
  ASSUME IInv, NEW c \in Callers, Load(c)
  PROVE  Abstract!Return(c, op[c], key[c]) \/ UNCHANGED memoVars
<1>1. CASE m[key[c]] = Nil /\ op[c] = "Get" /\ Return(c, Nil)
  <2>1. key[c] \in Keys
    BY CallerTypes DEF Load, IInv
  <2>2. Table[key[c]] = Nil
    BY <1>1, <2>1 DEF Table
  <2> QED
    BY <1>1, <2>2, ReturnRefines DEF Load
<1>2. CASE UNCHANGED <<op, key, ret>>
  <2>1. Table' = Table
    BY DEF Load, entryVars, Table
  <2>2. \E place \in {"check", "store"} : Go(c, place)
    BY <1>2 DEF Load, Return, IInv, TypeOK, Go
  <2> QED
    BY <1>2, <2>1, <2>2, MoveRefines DEF Load, ghostVars
<1> QED
  BY <1>1, <1>2 DEF Load

LEMMA LoadOrStoreRefines ==
  ASSUME IInv, NEW c \in Callers, LoadOrStore(c)
  PROVE  UNCHANGED memoVars
<1>1. /\ pc[c] = "store" /\ key[c] \in Keys /\ Go(c, "check")
      /\ UNCHANGED <<done, result, op, key, ret, runs>>
  BY CallerTypes DEF LoadOrStore, ghostVars, IInv
<1>2. Table' = Table
  <2>1. CASE m[key[c]] # Nil
    <3>1. m' = m
      BY <2>1 DEF LoadOrStore, IInv, TypeOK
    <3> QED
      BY <1>1, <3>1 DEF Table
  <2>2. CASE m[key[c]] = Nil
    <3>1. m' = [m EXCEPT ![key[c]] = <<c, key[c]>>]
      BY <2>2 DEF LoadOrStore, IInv, TypeOK
    <3>2. <<c, key[c]>> \notin done
      BY <1>1, <2>2, ParCacheAssumption DEF IInv, MapInv, Entries
    <3> QED
      BY <1>1, <2>2, <3>1, <3>2 DEF Table, IInv, TypeOK
  <2> QED
    BY <2>1, <2>2
<1> QED
  BY <1>1, <1>2, MoveRefines

LEMMA CheckRefines ==
  ASSUME IInv, NEW c \in Callers, Check(c)
  PROVE  Abstract!Return(c, op[c], key[c]) \/ UNCHANGED memoVars
<1>1. pc[c] = "check" /\ key[c] \in Keys /\ e[c] = m[key[c]]
  BY CallerTypes DEF Check, IInv, MapInv
<1>2. CASE e[c] \notin done /\ op[c] = "Get" /\ Return(c, Nil)
  <2>1. Table[key[c]] = Nil
    BY <1>1, <1>2 DEF Table
  <2> QED
    BY <1>1, <1>2, <2>1, ReturnRefines DEF Check
<1>3. CASE UNCHANGED <<op, key, e, ret>> /\ \E place \in {"read", "lock"} : Go(c, place)
  <2>1. Table' = Table
    BY DEF Check, entryVars, Table
  <2> QED
    BY <1>1, <1>3, <2>1, MoveRefines DEF Check, ghostVars
<1> QED
  BY <1>2, <1>3 DEF Check

LEMMA LockRefines ==
  ASSUME IInv, NEW c \in Callers, Lock(c)
  PROVE  UNCHANGED memoVars
<1>1. Table' = Table
  BY DEF Lock, Table
<1> QED
  BY <1>1, MoveRefines DEF Lock, ghostVars

LEMMA RecheckRefines ==
  ASSUME IInv, NEW c \in Callers, Recheck(c)
  PROVE  Abstract!Start(c, key[c]) \/ UNCHANGED memoVars
<1>1. /\ pc[c] = "recheck" /\ key[c] \in Keys /\ e[c] = m[key[c]]
      /\ op[c] \in {"Do", "Get"} /\ UNCHANGED <<m, done, result, op, key, ret>>
  BY CallerTypes DEF Recheck, entryVars, IInv, MapInv
<1>2. Table' = Table
  BY <1>1 DEF Table
<1>3. CASE e[c] \in done /\ Go(c, "unlock") /\ UNCHANGED runs
  BY <1>1, <1>2, <1>3, MoveRefines
<1>4. CASE e[c] \notin done /\ Go(c, "call") /\ runs' = [runs EXCEPT ![key[c]] = @ + 1]
  <2>1. \A d \in Callers : key[d] = key[c] => pc[d] \notin {"call", "publish"}
    BY <1>1, Exclusion DEF IInv, Critical
  <2>2. runs[key[c]] = 0
    BY <1>1, <1>4, <2>1 DEF IInv, RunInv, Critical
  <2>3. key[c] \notin Started /\ Started' = Started \cup {key[c]}
    BY <1>1, <1>4, <2>2 DEF Started, IInv, TypeOK
  <2>4. Running' = [Running EXCEPT ![key[c]] = {c}]
    <3>1. pc'[c] = "call" /\ \A d \in Callers \ {c} : pc'[d] = pc[d]
      BY <1>4 DEF Go, IInv, TypeOK
    <3> QED
      BY <1>1, <2>1, <3>1 DEF Running
  <2>5. Calls' = Calls /\ Calls[c] = <<op[c], key[c]>>
    BY <1>1, <1>4 DEF Calls, Go, IInv, TypeOK
  <2>6. op[c] = "Do"
    BY <1>1 DEF IInv, DoOnly, Critical
  <2> QED
    BY <1>1, <1>2, <2>3, <2>4, <2>5, <2>6 DEF Abstract!Start
<1> QED
  BY <1>3, <1>4 DEF Recheck

LEMMA FReturnsRefines ==
  ASSUME IInv, NEW c \in Callers, FReturns(c)
  PROVE  UNCHANGED memoVars
<1>1. /\ pc[c] = "call" /\ pc' = [pc EXCEPT ![c] = "publish"] /\ e[c] \in Entries
      /\ \E v \in Values : result' = [result EXCEPT ![e[c]] = v]
      /\ UNCHANGED <<m, done, op, key, ret, runs>>
  BY CallerTypes DEF FReturns, Go, ghostVars, IInv
<1>2. Table' = Table
  BY <1>1, TableKept DEF IInv, TypeOK, NoRacyRead
<1>3. Started' = Started
  BY <1>1 DEF Started
<1>4. Running' = Running
  BY <1>1 DEF IInv, TypeOK, Running
<1>5. Calls' = Calls
  BY <1>1 DEF IInv, TypeOK, Calls
<1> QED
  BY <1>1, <1>2, <1>3, <1>4, <1>5 DEF memoVars

\* The set of callers that run the function for the key of caller c becomes empty.
LEMMA RunningEnds ==
  ASSUME IInv, NEW c \in Callers, pc[c] \in {"call", "publish"},
         NEW place, pc' = [pc EXCEPT ![c] = place], place \in {"idle", "unlock"},
         \A d \in Callers \ {c} : key'[d] = key[d]
  PROVE  /\ c \in Running[key[c]] /\ key[c] \in Keys
         /\ Running' = [Running EXCEPT ![key[c]] = {}]
<1>1. key[c] \in Keys
  BY CallerTypes DEF IInv
<1>2. \A d \in Callers \ {c} : key[d] = key[c] => pc[d] \notin {"call", "publish"}
  BY Exclusion DEF IInv, Critical
<1>3. pc'[c] = place /\ \A d \in Callers \ {c} : pc'[d] = pc[d]
  BY DEF IInv, TypeOK
<1> QED
  BY <1>1, <1>2, <1>3 DEF Running

LEMMA FPanicsRefines ==
  ASSUME IInv, NEW c \in Callers, FPanics(c)
  PROVE  Abstract!Panic(c, key[c]) /\ key[c] \in Keys
<1>1. /\ pc[c] = "call" /\ pc' = [pc EXCEPT ![c] = "idle"] /\ key' = [key EXCEPT ![c] = Nil]
      /\ op' = [op EXCEPT ![c] = Nil] /\ ret' = [ret EXCEPT ![c] = Nil]
      /\ UNCHANGED <<m, done, result, runs>>
  BY DEF FPanics, Return, Go, entryVars
<1>2. Table' = Table /\ Started' = Started
  BY <1>1 DEF Table, Started
<1>3. \A d \in Callers \ {c} : key'[d] = key[d]
  BY <1>1 DEF IInv, TypeOK
<1>4. /\ c \in Running[key[c]] /\ key[c] \in Keys
      /\ Running' = [Running EXCEPT ![key[c]] = {}]
  BY <1>1, <1>3, RunningEnds
<1>5. Calls' = [Calls EXCEPT ![c] = <<>>]
  BY <1>1 DEF IInv, TypeOK, Calls
<1> QED
  BY <1>1, <1>2, <1>4, <1>5 DEF Abstract!Panic, Abstract!Respond

LEMMA PublishRefines ==
  ASSUME IInv, NEW c \in Callers, Publish(c)
  PROVE  Abstract!Finish(c, key[c], result[e[c]]) /\ key[c] \in Keys /\ result[e[c]] \in Values
<1>1. /\ pc[c] = "publish" /\ pc' = [pc EXCEPT ![c] = "unlock"] /\ done' = done \cup {e[c]}
      /\ e[c] \in Entries /\ UNCHANGED <<m, result, op, key, ret, runs>>
  BY CallerTypes DEF Publish, Go, ghostVars, IInv
<1>2. /\ c \in Running[key[c]] /\ key[c] \in Keys
      /\ Running' = [Running EXCEPT ![key[c]] = {}]
  BY <1>1, RunningEnds
<1>3. e[c] = m[key[c]] /\ e[c] # Nil /\ e[c][2] = key[c]
  BY <1>1, <1>2 DEF IInv, TypeOK, MapInv
<1>4. \A k \in Keys : k # key[c] => m[k] # e[c]
  BY <1>3, ParCacheAssumption DEF IInv, MapInv
<1>5. Table' = [Table EXCEPT ![key[c]] = result[e[c]]]
  BY <1>1, <1>2, <1>3, <1>4 DEF Table
<1>6. result[e[c]] \in Values
  BY <1>1 DEF IInv, TypeOK, ResultInv
<1>7. Started' = Started
  BY <1>1 DEF Started
<1>8. Calls' = Calls
  BY <1>1 DEF IInv, TypeOK, Calls
<1> QED
  BY <1>1, <1>2, <1>5, <1>6, <1>7, <1>8 DEF Abstract!Finish

LEMMA UnlockRefines ==
  ASSUME IInv, NEW c \in Callers, Unlock(c)
  PROVE  UNCHANGED memoVars
<1>1. Table' = Table
  BY DEF Unlock, Table
<1> QED
  BY <1>1, MoveRefines DEF Unlock, ghostVars

LEMMA ReadRefines ==
  ASSUME IInv, NEW c \in Callers, Read(c)
  PROVE  Abstract!Return(c, op[c], key[c])
<1>1. pc[c] = "read" /\ key[c] \in Keys /\ e[c] # Nil
  BY CallerTypes DEF Read, IInv
<1>2. e[c] = m[key[c]] /\ e[c] \in done /\ result[e[c]] # Nil
  BY <1>1 DEF IInv, MapInv, NoRacyRead
<1>3. Table[key[c]] = result[e[c]]
  BY <1>1, <1>2 DEF Table
<1> QED
  BY <1>1, <1>2, <1>3, ReturnRefines DEF Read

\* Every step of the cache is a step of Memo or changes nothing of it.
LEMMA StepRefines == ASSUME IInv, [Next]_vars PROVE [Abstract!Next]_(Abstract!vars)
<1>1. Abstract!vars = memoVars /\ (Abstract!vars)' = memoVars'
  BY DEF Abstract!vars, memoVars
<1>2. ASSUME NEW c \in Callers, Step(c) PROVE Abstract!Next \/ UNCHANGED memoVars
  <2>1. key[c] \in Keys /\ op[c] \in {"Do", "Get"}
    BY <1>2, CallerTypes DEF Step, Load, LoadOrStore, Check, Lock, Recheck, Publish, Unlock, Read, IInv
  <2>2. Abstract!Return(c, op[c], key[c]) => Abstract!Next
    BY <2>1 DEF Abstract!Next
  <2>3. Abstract!Start(c, key[c]) => Abstract!Next
    BY <2>1 DEF Abstract!Next
  <2>4. ASSUME Publish(c) PROVE Abstract!Next
    BY <2>4, PublishRefines DEF Abstract!Next
  <2> QED
    BY <1>2, <2>2, <2>3, <2>4, LoadRefines, LoadOrStoreRefines, CheckRefines, LockRefines,
       RecheckRefines, UnlockRefines, ReadRefines DEF Step
<1>3. ASSUME NEW c \in Callers, NEW o \in {"Do", "Get"}, NEW k \in Keys, Invoke(c, o, k)
      PROVE  Abstract!Next
  BY <1>3, InvokeRefines DEF Abstract!Next
<1>4. ASSUME NEW c \in Callers, FReturns(c) PROVE UNCHANGED memoVars
  BY <1>4, FReturnsRefines
<1>5. ASSUME NEW c \in Callers, FPanics(c) PROVE Abstract!Next
  BY <1>5, FPanicsRefines DEF Abstract!Next
<1>6. ASSUME UNCHANGED vars PROVE UNCHANGED memoVars
  <2>1. UNCHANGED <<m, done, result, pc, op, key, ret, runs>>
    BY <1>6 DEF vars, entryVars, ghostVars
  <2>2. Table' = Table /\ Started' = Started
    BY <2>1 DEF Table, Started
  <2>3. Running' = Running /\ Calls' = Calls
    BY <2>1 DEF Running, Calls
  <2> QED
    BY <2>1, <2>2, <2>3 DEF memoVars
<1> QED
  BY <1>1, <1>2, <1>3, <1>4, <1>5, <1>6 DEF Next

\* The cache implements Memo: one run per key, no Do before it has returned, and the
\* value it gave for every call (work.go:116-118, 136-138).
THEOREM Refinement == Spec => Implements
<1>1. Spec => Abstract!Spec
  BY InitRefines, StepRefines, Invariance, PTL DEF Spec, Abstract!Spec
<1> QED
  BY <1>1 DEF Implements
=============================================================================
