------------------------------ MODULE FileLock ------------------------------
(***************************************************************************)
(* filelock.Lock, RLock and Unlock of one file, which every goroutine has  *)
(* open through a descriptor of its own.  The kernel's lock belongs to the *)
(* descriptor (flock) or to the process (fcntl); for the latter the        *)
(* package keeps an owner and a queue of its own in each process.  Closing *)
(* the descriptor, which the callers do, is part of the model because it   *)
(* drops the lock.                                                         *)
(***************************************************************************)
EXTENDS Integers, Sequences

CONSTANTS
  Goroutines,
  Processes,
  None,        \* no goroutine
  Systems      \* the kinds of lock and the processes of the goroutines considered

ASSUME FileLockAssumption ==
  /\ None \notin Goroutines /\ Goroutines \cap Processes = {}
  /\ Systems \subseteq [kind : {"flock", "fcntl"}, process : [Goroutines -> Processes]]

VARIABLES
  system,    \* chosen once
  owner,     \* inodeLock.owner in each process
  queue,     \* inodeLock.queue, by the goroutines that send on the channels
  held,      \* the kernel's locks: by process, or by goroutine for its descriptor
  pc,        \* where each goroutine is in lock and unlock
  mode,      \* the lock it wants or has
  robbed     \* those inside whose lock a Close of their process dropped

lockVars == <<system, owner, queue, held, pc, mode, robbed>>

Places == {"idle", "ask", "send", "setlk", "locked", "unlk", "handover", "unlocked", "panic"}
Modes == {"none", "read", "write"}

Fcntl == system.kind = "fcntl"
Home(g) == system.process[g]

\* Whom the kernel takes for the holder.
Holder(g) == IF Fcntl THEN Home(g) ELSE g

LockTypeOK ==
  /\ system \in Systems
  /\ owner \in [Processes -> Goroutines \cup {None}]
  /\ queue \in [Processes -> Seq(Goroutines)]
  /\ held \in [Goroutines \cup Processes -> Modes]
  /\ pc \in [Goroutines -> Places]
  /\ mode \in [Goroutines -> Modes]
  /\ robbed \subseteq Goroutines

LockInit ==
  /\ system \in Systems
  /\ owner = [p \in Processes |-> None]
  /\ queue = [p \in Processes |-> <<>>]
  /\ held = [h \in Goroutines \cup Processes |-> "none"]
  /\ pc = [g \in Goroutines |-> "idle"]
  /\ mode = [g \in Goroutines |-> "none"]
  /\ robbed = {}

Move(g, place) == pc' = [pc EXCEPT ![g] = place]

-----------------------------------------------------------------------------
(* lock                                                                    *)

\* Lock and RLock.
Lock(g, m) ==
  /\ pc[g] = "idle"
  /\ Move(g, "ask") /\ mode' = [mode EXCEPT ![g] = m]
  /\ UNCHANGED <<system, owner, queue, held, robbed>>

\* A defect: the owner is not looked at.
AskAlone(g) ==
  /\ pc[g] = "ask"
  /\ owner' = [owner EXCEPT ![Home(g)] = g] /\ Move(g, "setlk")
  /\ UNCHANGED <<system, queue, held, mode, robbed>>

\* Under the package's mutex: the goroutine is the owner, or in the queue.
Ask(g) ==
  /\ pc[g] = "ask"
  /\ CASE ~Fcntl -> Move(g, "setlk") /\ UNCHANGED <<owner, queue>>
       [] Fcntl /\ owner[Home(g)] = None ->
            Move(g, "setlk") /\ owner' = [owner EXCEPT ![Home(g)] = g] /\ UNCHANGED queue
       [] OTHER ->
            Move(g, "send") /\ queue' = [queue EXCEPT ![Home(g)] = Append(@, g)] /\ UNCHANGED owner
  /\ UNCHANGED <<system, held, mode, robbed>>

Conflict(m, n) == m # "none" /\ n # "none" /\ "write" \in {m, n}

\* The system call waits for the locks of others; EINTR and EDEADLK only repeat it.
Setlk(g) ==
  /\ pc[g] = "setlk"
  /\ \A h \in DOMAIN held \ {Holder(g)} : ~Conflict(mode[g], held[h])
  /\ held' = [held EXCEPT ![Holder(g)] = mode[g]]
  /\ Move(g, "locked")
  /\ UNCHANGED <<system, owner, queue, mode, robbed>>

\* Under fcntl, the file's inode is asked for first, and that fails.
StatFails(g) ==
  /\ pc[g] = "ask" /\ Fcntl
  /\ Move(g, "unlocked")
  /\ UNCHANGED <<system, owner, queue, held, mode, robbed>>

\* Another error: what the package granted is given back.
SetlkFails(g) ==
  /\ pc[g] = "setlk"
  /\ Move(g, IF Fcntl THEN "unlk" ELSE "unlocked")
  /\ UNCHANGED <<system, owner, queue, held, mode, robbed>>

-----------------------------------------------------------------------------
(* unlock                                                                  *)

\* The goroutine has been granted the lock.
Inside(g) == pc[g] = "locked"

\* unlock panics when the file is not the owner.
Unlock(g) ==
  /\ Inside(g)
  /\ Move(g, IF Fcntl /\ owner[Home(g)] # g THEN "panic" ELSE "unlk")
  /\ robbed' = robbed \ {g}
  /\ UNCHANGED <<system, owner, queue, held, mode>>

Unlk(g) ==
  /\ pc[g] = "unlk"
  /\ held' = [held EXCEPT ![Holder(g)] = "none"]
  /\ Move(g, IF Fcntl THEN "handover" ELSE "unlocked")
  /\ UNCHANGED <<system, owner, queue, mode, robbed>>

\* A defect: the entry is deleted whoever waits.
HandoverForgetful(g) ==
  /\ pc[g] = "handover"
  /\ owner' = [owner EXCEPT ![Home(g)] = None]
  /\ queue' = [queue EXCEPT ![Home(g)] = <<>>]
  /\ Move(g, "unlocked")
  /\ UNCHANGED <<system, held, mode, robbed>>

\* Under the mutex, which is held until the first waiter has sent its file.
Handover(g) ==
  LET p == Home(g) IN
  /\ pc[g] = "handover"
  /\ IF queue[p] = <<>>
       THEN owner' = [owner EXCEPT ![p] = None] /\ UNCHANGED queue /\ Move(g, "unlocked")
       ELSE /\ pc[Head(queue[p])] = "send"
            /\ owner' = [owner EXCEPT ![p] = Head(queue[p])]
            /\ queue' = [queue EXCEPT ![p] = Tail(@)]
            /\ pc' = [pc EXCEPT ![g] = "unlocked", ![Head(queue[p])] = "setlk"]
  /\ UNCHANGED <<system, held, mode, robbed>>

\* f.Close by the caller drops what the holder has.  Under fcntl that may be the lock
\* of the goroutine to which this one handed over.
Close(g) ==
  /\ pc[g] = "unlocked"
  /\ held' = [held EXCEPT ![Holder(g)] = "none"]
  /\ robbed' = IF Fcntl THEN robbed \cup {h \in Goroutines : Home(h) = Home(g) /\ Inside(h)} ELSE robbed
  /\ Move(g, "idle") /\ mode' = [mode EXCEPT ![g] = "none"]
  /\ UNCHANGED <<system, owner, queue>>

\* A process dies, and the kernel drops its locks.
Crash(p) ==
  LET mine == {g \in Goroutines : Home(g) = p} IN
  /\ owner' = [owner EXCEPT ![p] = None]
  /\ queue' = [queue EXCEPT ![p] = <<>>]
  /\ held' = [h \in DOMAIN held |-> IF h \in mine \cup {p} THEN "none" ELSE held[h]]
  /\ pc' = [g \in Goroutines |-> IF g \in mine THEN "idle" ELSE pc[g]]
  /\ mode' = [g \in Goroutines |-> IF g \in mine THEN "none" ELSE mode[g]]
  /\ robbed' = robbed \ mine
  /\ UNCHANGED system

-----------------------------------------------------------------------------
LockStep(g) == Ask(g) \/ Setlk(g) \/ Unlk(g) \/ Handover(g)

LockNext ==
  \/ \E g \in Goroutines :
       \/ \E m \in {"read", "write"} : Lock(g, m)
       \/ LockStep(g) \/ StatFails(g) \/ SetlkFails(g) \/ Unlock(g) \/ Close(g)
  \/ \E p \in Processes : Crash(p)

LockSpec == LockInit /\ [][LockNext]_lockVars

\* "No other process will be able to place a read or write lock on the file until this
\* process ... calls Unlock" (filelock.go:30-50), and readers exclude writers.  Under fcntl the
\* goroutines of a process take turns, readers too (filelock_fcntl.go:7-10), and nothing is
\* promised between processes to one whose lock was dropped by a Close of its own process.
Exclusive ==
  \A g, h \in Goroutines :
    g # h /\ Inside(g) /\ Inside(h)
      => /\ ~(Fcntl /\ Home(g) = Home(h))
         /\ Conflict(mode[g], mode[h]) => {g, h} \cap robbed # {}
=============================================================================
