----------------------------- MODULE LockedFile -----------------------------
(***************************************************************************)
(* lockedfile's Read, Write, Transform and Mutex on one file, composed     *)
(* with the locks of FileLock.  A file is a sequence of bytes that are     *)
(* read and written one at a time.  System calls may fail and processes    *)
(* die anywhere, as often as the budget chosen from Budgets allows.        *)
(***************************************************************************)
EXTENDS FileLock

CONSTANTS
  Byte, MaxLen,      \* the bytes, and how many a caller puts into a file
  Inputs,            \* what is in the file at first, and what the callers of Write write
  Transforms,        \* what the callers of Transform make of the contents
  Budgets            \* the functions, calls, faults and deaths considered

Contents == UNION {[1 .. n -> Byte] : n \in 0 .. MaxLen}

ASSUME LockedFileAssumption ==
  /\ 0 \in Byte /\ MaxLen \in Nat
  /\ Inputs \subseteq Contents /\ Transforms \subseteq [Contents -> Contents]
  /\ Budgets \subseteq [ops : SUBSET {"read", "write", "transform", "mutex"},
                        calls : [Goroutines -> Nat], faults : Nat, crashes : Nat]

VARIABLES
  file,        \* what is in the file
  mutex,       \* Mutex.mu in each process
  at,          \* where each goroutine is in its function
  call,        \* its function and the variables of that
  left,        \* what is left of the budget
  saved,       \* ghost: the file when the last writer was let in
  spoiled      \* ghost: two were let in that exclude each other, or a rollback failed

fileVars == <<file, mutex, at, call, left, saved, spoiled>>
vars == <<lockVars, fileVars>>

Spots == {"idle", "truncate", "copy", "read", "transform", "tail", "head", "shrink", "rollback",
          "cut", "mutex", "critical", "done"}

Calls == [op : {"none", "read", "write", "transform", "mutex"},
          buf : Seq(Byte),        \* what was read: the result of Read, old in Transform
          new : Contents,         \* what is to be written
          off : Nat,              \* how much of it was
          err : BOOLEAN]

NoCall == [op |-> "none", buf |-> <<>>, new |-> <<>>, off |-> 0, err |-> FALSE]

TypeOK ==
  /\ LockTypeOK
  /\ file \in Seq(Byte) /\ saved \in Seq(Byte)
  /\ mutex \in [Processes -> Goroutines \cup {None}]
  /\ at \in [Goroutines -> Spots]
  /\ call \in [Goroutines -> Calls]
  /\ \E b \in Budgets : /\ left.ops = b.ops /\ left.faults \in 0 .. b.faults /\ left.crashes \in 0 .. b.crashes
                        /\ \A g \in Goroutines : left.calls[g] \in 0 .. b.calls[g]
  /\ spoiled \in BOOLEAN
  /\ \A g \in Goroutines : at[g] = "idle" => pc[g] = "idle" /\ call[g] = NoCall

Init ==
  /\ LockInit
  /\ file \in Inputs /\ saved = file
  /\ mutex = [p \in Processes |-> None]
  /\ at = [g \in Goroutines |-> "idle"]
  /\ call = [g \in Goroutines |-> NoCall]
  /\ left \in Budgets
  /\ spoiled = FALSE

-----------------------------------------------------------------------------
(* Opening and closing                                                     *)

Go(g, spot) == at' = [at EXCEPT ![g] = spot]

Begin(g, c, m, spot) ==
  /\ Lock(g, m) /\ c.op \in left.ops /\ left.calls[g] > 0
  /\ left' = [left EXCEPT !.calls[g] = @ - 1]
  /\ call' = [call EXCEPT ![g] = c] /\ Go(g, spot)
  /\ UNCHANGED <<file, mutex, saved, spoiled>>

\* Open for reading, Create, which truncates under the lock, and Edit.
BeginRead(g) == Begin(g, [NoCall EXCEPT !.op = "read"], "read", "read")
BeginWrite(g, s) == Begin(g, [NoCall EXCEPT !.op = "write", !.new = s], "write", "truncate")
BeginTransform(g) == Begin(g, [NoCall EXCEPT !.op = "transform"], "write", "read")
BeginMutex(g) == Begin(g, [NoCall EXCEPT !.op = "mutex"], "write", "mutex")

\* A system call fails.
Fault == left.faults > 0 /\ left' = [left EXCEPT !.faults = @ - 1]

\* The lock is granted.
LetIn(g) ==
  /\ Setlk(g)
  /\ saved' = IF mode[g] = "write" THEN file ELSE saved
  /\ spoiled' = (spoiled \/ \E h \in Goroutines : Inside(h) /\ Conflict(mode[g], mode[h]))
  /\ UNCHANGED <<file, mutex, at, call, left>>

Locking(g) ==
  \/ LetIn(g)
  \/ (Ask(g) \/ Unlk(g) \/ Handover(g)) /\ UNCHANGED fileVars

\* openFile closes the file and returns the error.
LockFails(g) ==
  /\ StatFails(g) \/ SetlkFails(g)
  /\ Fault
  /\ call' = [call EXCEPT ![g].err = TRUE] /\ Go(g, "done")
  /\ UNCHANGED <<file, mutex, saved, spoiled>>

\* closeFile: the lock goes first, then the descriptor.
Leave(g) == Unlock(g) /\ Go(g, "done") /\ UNCHANGED <<mutex, saved>>

\* A defect: what the call read and wrote outlives it.
ReturnKeeping(g) ==
  /\ Close(g)
  /\ Go(g, "idle") /\ UNCHANGED <<file, mutex, left, saved, spoiled, call>>

Return(g) ==
  /\ Close(g)
  /\ Go(g, "idle") /\ call' = [call EXCEPT ![g] = NoCall]
  /\ UNCHANGED <<file, mutex, left, saved, spoiled>>

-----------------------------------------------------------------------------
(* What the functions do with the file.                                    *)

\* The goroutine has the lock and is at the spot.
In(g, spot) == Inside(g) /\ at[g] = spot

\* A step that keeps the lock.
Stay(g, spot) == Go(g, spot) /\ UNCHANGED <<lockVars, mutex, saved, spoiled>>

\* io.ReadAll, as far as there is something to read.
ReadByte(g) ==
  /\ In(g, "read") /\ Len(call[g].buf) < Len(file)
  /\ call' = [call EXCEPT ![g].buf = Append(@, file[Len(@) + 1])]
  /\ Stay(g, "read") /\ UNCHANGED <<file, left>>

ReadEnds(g) ==
  /\ In(g, "read") /\ Len(call[g].buf) >= Len(file)
  /\ IF call[g].op = "read" THEN Leave(g) /\ UNCHANGED spoiled ELSE Stay(g, "transform")
  /\ UNCHANGED <<file, call, left>>

\* A read fails, or the truncation, or t returns an error.
GiveUp(g) ==
  /\ \E spot \in {"read", "truncate", "transform"} : In(g, spot)
  /\ Fault
  /\ call' = [call EXCEPT ![g].err = TRUE] /\ Leave(g)
  /\ UNCHANGED <<file, spoiled>>

Truncate(g) ==
  /\ In(g, "truncate")
  /\ file' = <<>>
  /\ Stay(g, "copy") /\ UNCHANGED <<call, left>>

\* t gives the new contents, of which a tail beyond the old ones is written first.
Transform(g) ==
  LET old == call[g].buf IN
  /\ In(g, "transform")
  /\ \E t \in {t \in Transforms : old \in DOMAIN t} :
       LET grows == Len(t[old]) > Len(old) IN
       /\ call' = [call EXCEPT ![g].new = t[old], ![g].off = IF grows THEN Len(old) ELSE 0]
       /\ Stay(g, IF grows THEN "tail" ELSE "head")
  /\ UNCHANGED <<file, left>>

Least(m, n) == IF m < n THEN m ELSE n

\* What is being written, and up to where.
Source(g) == IF at[g] = "rollback" THEN call[g].buf ELSE call[g].new

Limit(g) ==
  CASE at[g] \in {"copy", "tail"} -> Len(call[g].new)
    [] at[g] = "head" -> Least(Len(call[g].buf), Len(call[g].new))
    [] at[g] = "rollback" -> Len(call[g].buf)

Writing(g) == \E spot \in {"copy", "tail", "head", "rollback"} : In(g, spot)

WriteByte(g) ==
  LET n == call[g].off + 1 IN
  /\ Writing(g) /\ n <= Limit(g)
  /\ file' = [i \in 1 .. (IF n > Len(file) THEN n ELSE Len(file)) |->
                IF i = n THEN Source(g)[n] ELSE IF i <= Len(file) THEN file[i] ELSE 0]
  /\ call' = [call EXCEPT ![g].off = n]
  /\ Stay(g, at[g]) /\ UNCHANGED left

\* A defect: contents that are shorter than the old ones leave the end of those.
WrittenLong(g) ==
  /\ Writing(g) /\ call[g].off = Limit(g)
  /\ CASE at[g] \in {"copy", "head"} -> Leave(g) /\ UNCHANGED <<call, spoiled>>
       [] at[g] = "tail" -> Stay(g, "head") /\ call' = [call EXCEPT ![g].off = 0]
       [] at[g] = "rollback" -> Stay(g, "cut") /\ UNCHANGED call
  /\ UNCHANGED <<file, left>>

\* All of it is written.
Written(g) ==
  /\ Writing(g) /\ call[g].off = Limit(g)
  /\ CASE at[g] = "tail" -> Stay(g, "head") /\ call' = [call EXCEPT ![g].off = 0]
       [] at[g] = "head" /\ Len(call[g].new) < Len(call[g].buf) -> Stay(g, "shrink") /\ UNCHANGED call
       [] at[g] = "rollback" -> Stay(g, "cut") /\ UNCHANGED call
       [] OTHER -> Leave(g) /\ UNCHANGED <<call, spoiled>>
  /\ UNCHANGED <<file, left>>

\* A write fails: Write leaves what there is, Transform takes back what it did.
WriteFails(g) ==
  /\ Writing(g) /\ call[g].off < Limit(g) /\ Fault
  /\ CASE at[g] = "copy" -> Leave(g) /\ UNCHANGED spoiled
       [] at[g] = "tail" -> Stay(g, "cut")
       [] at[g] = "head" -> Stay(g, "rollback")
       [] at[g] = "rollback" -> Leave(g) /\ spoiled' = TRUE
  /\ call' = [call EXCEPT ![g].err = TRUE, ![g].off = 0]
  /\ UNCHANGED file

Prefix(n) == SubSeq(file, 1, Least(n, Len(file)))

\* The file is cut down to its final size.
Shrink(g) ==
  /\ In(g, "shrink")
  /\ file' = Prefix(Len(call[g].new))
  /\ Leave(g) /\ UNCHANGED <<call, left, spoiled>>

ShrinkFails(g) ==
  /\ In(g, "shrink") /\ Fault
  /\ call' = [call EXCEPT ![g].err = TRUE, ![g].off = 0]
  /\ Stay(g, "rollback") /\ UNCHANGED file

\* The best effort of a Transform that failed.
Cut(g) ==
  /\ In(g, "cut")
  /\ file' = Prefix(Len(call[g].buf))
  /\ Leave(g) /\ UNCHANGED <<call, left, spoiled>>

CutFails(g) ==
  /\ In(g, "cut") /\ Fault
  /\ Leave(g) /\ spoiled' = TRUE
  /\ UNCHANGED <<file, call>>

-----------------------------------------------------------------------------
(* Mutex                                                                   *)

\* Mutex.Lock: the file is locked, and then the mutex.
MutexLock(g) ==
  /\ In(g, "mutex") /\ mutex[Home(g)] = None
  /\ mutex' = [mutex EXCEPT ![Home(g)] = g] /\ Go(g, "critical")
  /\ UNCHANGED <<lockVars, file, call, left, saved, spoiled>>

\* The function that Lock returned.
MutexUnlock(g) ==
  /\ In(g, "critical")
  /\ mutex' = [mutex EXCEPT ![Home(g)] = None]
  /\ Unlock(g) /\ Go(g, "done")
  /\ UNCHANGED <<file, call, left, saved, spoiled>>

\* A process dies in the middle of anything.
Die(p) ==
  LET mine == {g \in Goroutines : Home(g) = p} IN
  /\ left.crashes > 0 /\ left' = [left EXCEPT !.crashes = @ - 1]
  /\ \E g \in mine : at[g] # "idle"
  /\ Crash(p)
  /\ mutex' = [mutex EXCEPT ![p] = None]
  /\ at' = [g \in Goroutines |-> IF g \in mine THEN "idle" ELSE at[g]]
  /\ call' = [g \in Goroutines |-> IF g \in mine THEN NoCall ELSE call[g]]
  /\ UNCHANGED <<file, saved, spoiled>>

-----------------------------------------------------------------------------
Step(g) ==
  \/ Locking(g) \/ Return(g) \/ ReadByte(g) \/ ReadEnds(g) \/ Truncate(g) \/ Transform(g)
  \/ WriteByte(g) \/ Written(g) \/ Shrink(g) \/ Cut(g) \/ MutexLock(g) \/ MutexUnlock(g)

Fails(g) == LockFails(g) \/ GiveUp(g) \/ WriteFails(g) \/ ShrinkFails(g) \/ CutFails(g)

Next ==
  \/ \E g \in Goroutines :
       \/ BeginRead(g) \/ BeginTransform(g) \/ BeginMutex(g)
       \/ \E s \in Inputs : BeginWrite(g, s)
       \/ Step(g) \/ Fails(g)
  \/ \E p \in Processes : Die(p)

\* A goroutine that can go on does, and the kernel lets in who waits for a lock that stays free.
Fairness == \A g \in Goroutines : WF_vars(Step(g))

Spec == Init /\ [][Next]_vars /\ Fairness

-----------------------------------------------------------------------------
(* Properties                                                              *)

Updating(g) == Inside(g) /\ mode[g] = "write"

\* The contents of the file "should only change atomically" (lockedfile.go:5-6): what a writer
\* does is seen by others when it unlocks.
A == INSTANCE AtomicFile WITH
  value <- IF \E g \in Goroutines : Updating(g) THEN saved ELSE file,
  state <- [g \in Goroutines |->
              CASE at[g] = "idle" -> "idle"
                [] at[g] = "done" -> IF call[g].err THEN "failed" ELSE "done"
                [] OTHER -> "busy"],
  op <- [g \in Goroutines |-> call[g].op],
  arg <- [g \in Goroutines |-> IF call[g].op = "write" THEN call[g].new ELSE <<>>],
  result <- [g \in Goroutines |->
               IF call[g].op = "read" /\ at[g] = "done" THEN call[g].buf ELSE <<>>]

\* Reads, writes and transformations of one file, by goroutines of one process and of several,
\* take effect one at a time, also when system calls fail and processes die (lockedfile.go:98-187).
\* Under fcntl that ends when a lock was dropped by a Close of its own process.
Implements == A!AtomicSpec

\* Every call returns: no owner forgets who waits, and the two locks of a Mutex are never taken
\* in different orders (filelock_fcntl.go:163-195, mutex.go:46-67).
CallsEnd == \A g \in Goroutines : at[g] # "idle" ~> at[g] = "idle"
=============================================================================
