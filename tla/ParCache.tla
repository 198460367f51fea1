----------------------------- MODULE ParCache -----------------------------
(***************************************************************************)
(* par.Cache: a sync.Map from keys to entries, each with a mutex, a result *)
(* and a done flag that is read and set atomically.  Any number of         *)
(* goroutines call Do and Get at once; each step below is one atomic       *)
(* operation of theirs on what they share.                                 *)
(***************************************************************************)
EXTENDS Naturals

CONSTANTS
  Callers,     \* goroutines
  Keys,
  Values,      \* what the function may return
  Nil,         \* the nil interface, no entry and no caller
  MayPanic     \* keys whose function may panic

ASSUME ParCacheAssumption ==
  /\ MayPanic \subseteq Keys
  /\ Nil \notin {"Do", "Get"} \cup Values \cup Keys \cup Callers \cup (Callers \X Keys)

Entries == Callers \X Keys   \* the cacheEntry a caller allocates for a key

VARIABLES
  m,         \* c.m
  done,      \* the entries whose done is 1
  mu,        \* the caller that holds the mutex of each entry
  result,    \* of each entry
  pc,        \* where each caller is
  op,        \* what it calls, "Do" or "Get", Nil between calls
  key,       \* the argument key
  e,         \* the local variable e
  ret,       \* what its last call returned, Nil during a call
  runs,      \* how often the function was called for each key
  panicked   \* keys for which it panicked

entryVars == <<m, done, mu, result>>
ghostVars == <<runs, panicked>>
vars == <<entryVars, pc, op, key, e, ret, ghostVars>>

\* What each variable holds, and which locals a caller has where (work.go:106-149).
TypeOK ==
  /\ m \in [Keys -> Entries \cup {Nil}]
  /\ done \subseteq Entries
  /\ mu \in [Entries -> Callers \cup {Nil}]
  /\ result \in [Entries -> Values \cup {Nil}]
  /\ pc \in [Callers -> {"idle", "load", "store", "check", "lock", "recheck", "call",
                         "publish", "unlock", "read"}]
  /\ op \in [Callers -> {"Do", "Get", Nil}]
  /\ key \in [Callers -> Keys \cup {Nil}]
  /\ e \in [Callers -> Entries \cup {Nil}]
  /\ ret \in [Callers -> Values \cup {Nil}]
  /\ runs \in [Keys -> Nat]
  /\ panicked \subseteq Keys
  /\ \A c \in Callers :
       /\ pc[c] = "idle" <=> op[c] = Nil
       /\ pc[c] = "idle" <=> key[c] = Nil
       /\ pc[c] \in {"idle", "load", "store"} <=> e[c] = Nil

Init ==
  /\ m = [k \in Keys |-> Nil]
  /\ done = {}
  /\ mu = [x \in Entries |-> Nil]
  /\ result = [x \in Entries |-> Nil]
  /\ pc = [c \in Callers |-> "idle"]
  /\ op = [c \in Callers |-> Nil]
  /\ key = [c \in Callers |-> Nil]
  /\ e = [c \in Callers |-> Nil]
  /\ ret = [c \in Callers |-> Nil]
  /\ runs = [k \in Keys |-> 0]
  /\ panicked = {}

-----------------------------------------------------------------------------
Go(c, place) == pc' = [pc EXCEPT ![c] = place]

Return(c, v) ==
  /\ Go(c, "idle")
  /\ ret' = [ret EXCEPT ![c] = v]
  /\ op' = [op EXCEPT ![c] = Nil] /\ key' = [key EXCEPT ![c] = Nil] /\ e' = [e EXCEPT ![c] = Nil]

Invoke(c, o, k) ==
  /\ pc[c] = "idle"
  /\ Go(c, "load")
  /\ op' = [op EXCEPT ![c] = o] /\ key' = [key EXCEPT ![c] = k] /\ ret' = [ret EXCEPT ![c] = Nil]
  /\ UNCHANGED <<entryVars, e, ghostVars>>

\* c.m.Load; Get of a key that is not there returns.
Load(c) ==
  /\ pc[c] = "load"
  /\ \/ /\ m[key[c]] # Nil
        /\ e' = [e EXCEPT ![c] = m[key[c]]]
        /\ Go(c, "check") /\ UNCHANGED <<op, key, ret>>
     \/ /\ m[key[c]] = Nil /\ op[c] = "Do"
        /\ Go(c, "store") /\ UNCHANGED <<op, key, e, ret>>
     \/ m[key[c]] = Nil /\ op[c] = "Get" /\ Return(c, Nil)
  /\ UNCHANGED <<entryVars, ghostVars>>

\* A defect: c.m.Store, whatever was stored since the Load.
StoreOverwrites(c) ==
  /\ pc[c] = "store"
  /\ m' = [m EXCEPT ![key[c]] = <<c, key[c]>>]
  /\ e' = [e EXCEPT ![c] = <<c, key[c]>>]
  /\ Go(c, "check")
  /\ UNCHANGED <<done, mu, result, op, key, ret, ghostVars>>

\* c.m.LoadOrStore of a new entry.
LoadOrStore(c) ==
  /\ pc[c] = "store"
  /\ LET stored == IF m[key[c]] = Nil THEN <<c, key[c]>> ELSE m[key[c]] IN
       /\ m' = [m EXCEPT ![key[c]] = stored]
       /\ e' = [e EXCEPT ![c] = stored]
  /\ Go(c, "check")
  /\ UNCHANGED <<done, mu, result, op, key, ret, ghostVars>>

\* The atomic load of e.done without the mutex; Get does not wait.
Check(c) ==
  /\ pc[c] = "check"
  /\ \/ e[c] \in done /\ Go(c, "read") /\ UNCHANGED <<op, key, e, ret>>
     \/ e[c] \notin done /\ op[c] = "Do" /\ Go(c, "lock") /\ UNCHANGED <<op, key, e, ret>>
     \/ e[c] \notin done /\ op[c] = "Get" /\ Return(c, Nil)
  /\ UNCHANGED <<entryVars, ghostVars>>

\* e.mu.Lock.
Lock(c) ==
  /\ pc[c] = "lock" /\ mu[e[c]] = Nil
  /\ mu' = [mu EXCEPT ![e[c]] = c]
  /\ Go(c, "recheck")
  /\ UNCHANGED <<m, done, result, op, key, e, ret, ghostVars>>

\* A defect: e.done is not looked at again under the mutex.
RecheckOmitted(c) ==
  /\ pc[c] = "recheck"
  /\ Go(c, "call") /\ runs' = [runs EXCEPT ![key[c]] = @ + 1]
  /\ UNCHANGED <<entryVars, op, key, e, ret, panicked>>

\* e.done is looked at again, and f called.
Recheck(c) ==
  /\ pc[c] = "recheck"
  /\ \/ e[c] \in done /\ Go(c, "unlock") /\ UNCHANGED runs
     \/ e[c] \notin done /\ Go(c, "call") /\ runs' = [runs EXCEPT ![key[c]] = @ + 1]
  /\ UNCHANGED <<entryVars, op, key, e, ret, panicked>>

\* f returns a value, which is assigned to e.result.
FReturns(c) ==
  /\ pc[c] = "call"
  /\ \E v \in Values : result' = [result EXCEPT ![e[c]] = v]
  /\ Go(c, "publish")
  /\ UNCHANGED <<m, done, mu, op, key, e, ret, ghostVars>>

\* f panics.  The goroutine may live on, as that of an HTTP handler does; nobody
\* unlocks the mutex.
FPanics(c) ==
  /\ pc[c] = "call" /\ key[c] \in MayPanic
  /\ panicked' = panicked \cup {key[c]}
  /\ Return(c, Nil)
  /\ UNCHANGED <<entryVars, runs>>

\* The atomic store of e.done.
Publish(c) ==
  /\ pc[c] = "publish"
  /\ done' = done \cup {e[c]}
  /\ Go(c, "unlock")
  /\ UNCHANGED <<m, mu, result, op, key, e, ret, ghostVars>>

\* A defect: e.mu stays locked when another caller computed the result.
UnlockIfRan(c) ==
  /\ pc[c] = "unlock"
  /\ mu' = [mu EXCEPT ![e[c]] = IF e[c][1] = c THEN Nil ELSE @]
  /\ Go(c, "read")
  /\ UNCHANGED <<m, done, result, op, key, e, ret, ghostVars>>

\* e.mu.Unlock.
Unlock(c) ==
  /\ pc[c] = "unlock"
  /\ mu' = [mu EXCEPT ![e[c]] = Nil]
  /\ Go(c, "read")
  /\ UNCHANGED <<m, done, result, op, key, e, ret, ghostVars>>

\* return e.result, read without the mutex.
Read(c) ==
  /\ pc[c] = "read"
  /\ Return(c, result[e[c]])
  /\ UNCHANGED <<entryVars, ghostVars>>

-----------------------------------------------------------------------------
\* What a call does once it is made, the function aside.
Step(c) ==
  Load(c) \/ LoadOrStore(c) \/ Check(c) \/ Lock(c) \/ Recheck(c) \/ Publish(c)
    \/ Unlock(c) \/ Read(c)

Next ==
  \E c \in Callers :
    \/ \E o \in {"Do", "Get"}, k \in Keys : Invoke(c, o, k)
    \/ Step(c) \/ FReturns(c) \/ FPanics(c)

Spec == Init /\ [][Next]_vars

\* Goroutines are scheduled, and the function returns unless it panics.
FairSpec ==
  Spec /\ \A c \in Callers : WF_vars(Step(c)) /\ WF_vars(FReturns(c) \/ FPanics(c))

-----------------------------------------------------------------------------
(* Properties                                                              *)

\* The function runs at most once for a key, even if it panics, whatever callers
\* miss the key at the same time, and only where the result will be looked for
\* (work.go:116, 120-129).
OneRun ==
  /\ \A k \in Keys : runs[k] <= 1
  /\ \A c \in Callers : e[c] # Nil => e[c] = m[key[c]]

\* e.result is written by one goroutine and read without a lock by others, yet never
\* at the same time: who writes it holds the mutex, and who reads it saw e.done
\* (work.go:125-126, 133, 148).
NoRacyRead ==
  \A c \in Callers :
    /\ pc[c] \in {"recheck", "call", "publish", "unlock"} => mu[e[c]] = c
    /\ pc[c] \in {"call", "publish"} => e[c] \notin done
    /\ pc[c] = "read" => e[c] \in done /\ result[e[c]] # Nil

\* par.Cache does what its comments promise, with e.done as the moment at which a
\* result is there (work.go:116-118, 136-138).
Table == [k \in Keys |-> IF m[k] # Nil /\ m[k] \in done THEN result[m[k]] ELSE Nil]
Started == {k \in Keys : runs[k] # 0}
Running == [k \in Keys |-> {c \in Callers : pc[c] \in {"call", "publish"} /\ key[c] = k}]
Calls == [c \in Callers |-> IF pc[c] = "idle" THEN <<>> ELSE <<op[c], key[c]>>]

Abstract == INSTANCE Memo WITH
  table <- Table, started <- Started, running <- Running, call <- Calls, answer <- ret

Implements == Abstract!Spec

\* Every call returns, unless the function panicked for its key: the mutex then
\* stays locked (work.go:123-131).
CallsReturn ==
  \A c \in Callers :
    pc[c] # "idle" ~> pc[c] = "idle" \/ (op[c] = "Do" /\ key[c] \in panicked)
=============================================================================
