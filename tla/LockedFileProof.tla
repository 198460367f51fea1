-------------------------- MODULE LockedFileProof ---------------------------
(***************************************************************************)
(* Proofs about FileLock and LockedFile, for any goroutines and processes. *)
(***************************************************************************)
EXTENDS LockedFile, TLAPS

-----------------------------------------------------------------------------
(* Exclusion                                                               *)

\* From the queue to the handover.
Owning == {"setlk", "locked", "unlk", "handover"}

\* Under fcntl the goroutine that has gone beyond the queue owns the inode.
Owned == Fcntl => \A g \in Goroutines : pc[g] \in Owning => owner[Home(g)] = g

\* Who waits in the queue of a process is one of its goroutines.
QueuesAtHome ==
  \A p \in Processes : \A n \in 1 .. Len(queue[p]) : Home(queue[p][n]) = p

\* Who is inside has its lock in the kernel, unless it was robbed.
Holding == \A g \in Goroutines : Inside(g) /\ g \notin robbed => held[Holder(g)] = mode[g]

\* The kernel's locks do not conflict.
Apart ==
  \A a, b \in Goroutines \cup Processes : a # b => ~Conflict(held[a], held[b])

\* The inductive invariant.
LockInv == LockTypeOK /\ Owned /\ QueuesAtHome /\ Holding /\ Apart

USE FileLockAssumption

\* The process of a goroutine, and whom the kernel takes for the holder.
LEMMA HomeType ==
  ASSUME LockTypeOK, NEW g \in Goroutines
  PROVE  Home(g) \in Processes /\ Holder(g) \in Goroutines \cup Processes
  BY DEF LockTypeOK, Home, Holder

\* Nothing is owned or held at first.
LEMMA LockInitInv == LockInit => LockInv
  <1> SUFFICES ASSUME LockInit PROVE LockInv
    OBVIOUS
  <1>1. LockTypeOK
    BY DEF LockInit, LockTypeOK, Places, Modes
  <1>2. Owned /\ QueuesAtHome
    BY <1>1, HomeType DEF LockInit, Owned, Owning, QueuesAtHome
  <1>3. Holding /\ Apart
    BY DEF LockInit, Holding, Inside, Apart, Conflict
  <1> QED BY <1>1, <1>2, <1>3 DEF LockInv

\* One step of one goroutine or the death of a process keeps the types.
LEMMA LockTypes ==
  ASSUME LockTypeOK, QueuesAtHome, LockNext
  PROVE  LockTypeOK'
  <1>1. ASSUME NEW g \in Goroutines, NEW m \in {"read", "write"}, Lock(g, m)
        PROVE  LockTypeOK'
    BY <1>1 DEF LockTypeOK, Lock, Move, Places, Modes
  <1>2. ASSUME NEW g \in Goroutines, Ask(g)
        PROVE  LockTypeOK'
    <2>1. CASE ~Fcntl
      BY <1>2, <2>1 DEF LockTypeOK, Ask, Move, Places
    <2>2. CASE Fcntl /\ owner[Home(g)] = None
      BY <1>2, <2>2, ZenonT(30) DEF LockTypeOK, Ask, Move, Places
    <2>3. CASE Fcntl /\ owner[Home(g)] # None
      <3>1. Append(queue[Home(g)], g) \in Seq(Goroutines)
        BY HomeType DEF LockTypeOK
      <3>2. /\ queue' = [queue EXCEPT ![Home(g)] = Append(@, g)]
            /\ pc' = [pc EXCEPT ![g] = "send"]
            /\ UNCHANGED <<system, owner, held, mode, robbed>>
        BY <1>2, <2>3 DEF Ask, Move
      <3> QED BY <3>1, <3>2 DEF LockTypeOK, Places
    <2> QED BY <2>1, <2>2, <2>3
  <1>3. ASSUME NEW g \in Goroutines, Setlk(g)
        PROVE  LockTypeOK'
    BY <1>3, HomeType DEF LockTypeOK, Setlk, Move, Places
  <1>4. ASSUME NEW g \in Goroutines, StatFails(g) \/ SetlkFails(g)
        PROVE  LockTypeOK'
    BY <1>4 DEF LockTypeOK, StatFails, SetlkFails, Move, Places
  <1>5. ASSUME NEW g \in Goroutines, Unlock(g)
        PROVE  LockTypeOK'
    BY <1>5 DEF LockTypeOK, Unlock, Move, Places
  <1>6. ASSUME NEW g \in Goroutines, Unlk(g)
        PROVE  LockTypeOK'
    BY <1>6, HomeType DEF LockTypeOK, Unlk, Move, Places, Modes
  <1>7. ASSUME NEW g \in Goroutines, Handover(g)
        PROVE  LockTypeOK'
    <2> DEFINE p == Home(g)
    <2>1. p \in Processes /\ queue[p] \in Seq(Goroutines)
      BY HomeType DEF LockTypeOK
    <2>2. CASE queue[p] = <<>>
      BY <1>7, <2>1, <2>2 DEF LockTypeOK, Handover, Move, Places
    <2>3. CASE queue[p] # <<>>
      <3>1. Head(queue[p]) \in Goroutines /\ Tail(queue[p]) \in Seq(Goroutines)
        BY <2>1, <2>3
      <3>2. /\ owner' = [owner EXCEPT ![p] = Head(queue[p])]
            /\ queue' = [queue EXCEPT ![p] = Tail(@)]
            /\ pc' = [pc EXCEPT ![g] = "unlocked", ![Head(queue[p])] = "setlk"]
            /\ UNCHANGED <<system, held, mode, robbed>>
        BY <1>7, <2>3 DEF Handover
      <3> QED BY <2>1, <3>1, <3>2 DEF LockTypeOK, Places
    <2> QED BY <2>2, <2>3
  <1>8. ASSUME NEW g \in Goroutines, Close(g)
        PROVE  LockTypeOK'
    BY <1>8, HomeType DEF LockTypeOK, Close, Move, Places, Modes
  <1>9. ASSUME NEW p \in Processes, Crash(p)
        PROVE  LockTypeOK'
    BY <1>9 DEF LockTypeOK, Crash, Places, Modes
  <1> QED
    BY <1>1, <1>2, <1>3, <1>4, <1>5, <1>6, <1>7, <1>8, <1>9 DEF LockNext, LockStep

\* The owner of an inode, and with it who comes next.
LEMMA Owners ==
  ASSUME LockInv, LockNext
  PROVE  Owned' /\ QueuesAtHome'
  <1> USE DEF LockInv
  <1>1. ASSUME NEW g \in Goroutines, NEW m \in {"read", "write"}, Lock(g, m)
        PROVE  Owned' /\ QueuesAtHome'
    BY <1>1 DEF LockTypeOK, Lock, Move, Owned, Owning, QueuesAtHome, Home, Fcntl
  <1>2. ASSUME NEW g \in Goroutines, Ask(g)
        PROVE  Owned' /\ QueuesAtHome'
    <2>0. Home(g) \in Processes
      BY HomeType
    <2>1. CASE ~Fcntl
      BY <1>2, <2>1 DEF LockTypeOK, Ask, Move, Owned, QueuesAtHome, Home, Fcntl
    <2>2. CASE Fcntl /\ owner[Home(g)] = None
      BY <1>2, <2>0, <2>2 DEF LockTypeOK, Ask, Move, Owned, Owning, QueuesAtHome, Home, Fcntl
    <2>3. CASE Fcntl /\ owner[Home(g)] # None
      <3>1. Owned'
        BY <1>2, <2>3, SMTT(30) DEF LockTypeOK, Ask, Move, Owned, Owning, Home, Fcntl
      <3>2. queue' = [queue EXCEPT ![Home(g)] = Append(@, g)] /\ system' = system
        BY <1>2, <2>3 DEF Ask
      <3>3. ASSUME NEW p \in Processes, NEW n \in 1 .. Len(queue'[p])
            PROVE  Home(queue'[p][n]) = p
        <4>1. queue[p] \in Seq(Goroutines)
          BY DEF LockTypeOK
        <4>2. CASE p # Home(g)
          BY <3>2, <3>3, <4>2 DEF LockTypeOK, QueuesAtHome
        <4>3. CASE p = Home(g)
          <5>1. queue'[p] = Append(queue[p], g)
            BY <3>2, <4>3 DEF LockTypeOK
          <5> QED BY <3>3, <4>1, <4>3, <5>1 DEF QueuesAtHome
        <4> QED BY <4>2, <4>3
      <3> QED BY <3>1, <3>2, <3>3 DEF QueuesAtHome, Home
    <2> QED BY <2>1, <2>2, <2>3
  <1>3. ASSUME NEW g \in Goroutines, StatFails(g) \/ Setlk(g) \/ SetlkFails(g) \/ Unlk(g)
        PROVE  Owned' /\ QueuesAtHome'
    BY <1>3 DEF LockTypeOK, StatFails, Setlk, SetlkFails, Unlk, Move, Owned, Owning, QueuesAtHome,
                Home, Fcntl
  <1>4. ASSUME NEW g \in Goroutines, Unlock(g) \/ Close(g)
        PROVE  Owned' /\ QueuesAtHome'
    BY <1>4 DEF LockTypeOK, Unlock, Close, Inside, Move, Owned, Owning, QueuesAtHome, Home, Fcntl
  <1>5. ASSUME NEW g \in Goroutines, Handover(g)
        PROVE  Owned' /\ QueuesAtHome'
    <2> DEFINE p == Home(g)
    <2>1. p \in Processes /\ queue[p] \in Seq(Goroutines) /\ system' = system
      BY <1>5, HomeType DEF LockTypeOK, Handover
    <2>2. CASE queue[p] = <<>>
      <3>1. /\ owner' = [owner EXCEPT ![p] = None] /\ queue' = queue
            /\ pc' = [pc EXCEPT ![g] = "unlocked"] /\ pc[g] = "handover"
        BY <1>5, <2>2 DEF Handover, Move
      <3>2. Owned'
        BY <2>1, <3>1 DEF LockTypeOK, Owned, Owning, Home, Fcntl
      <3> QED BY <2>1, <3>1, <3>2 DEF QueuesAtHome, Home
    <2>3. CASE queue[p] # <<>>
      <3> DEFINE h == Head(queue[p])
      <3>1. h \in Goroutines /\ h = queue[p][1] /\ Len(queue[p]) >= 1
        BY <2>1, <2>3
      <3>2. Home(h) = p
        BY <2>1, <3>1 DEF QueuesAtHome
      <3>3. /\ pc[h] = "send" /\ pc[g] = "handover"
            /\ owner' = [owner EXCEPT ![p] = h]
            /\ queue' = [queue EXCEPT ![p] = Tail(@)]
            /\ pc' = [pc EXCEPT ![g] = "unlocked", ![h] = "setlk"]
        BY <1>5, <2>3 DEF Handover
      <3>4. Owned'
        BY <2>1, <3>1, <3>2, <3>3, ZenonT(30) DEF LockTypeOK, Owned, Owning, Home, Fcntl
      <3>5. ASSUME NEW q \in Processes, NEW n \in 1 .. Len(queue'[q])
            PROVE  Home(queue'[q][n]) = q
        <4>1. CASE q # p
          BY <3>3, <3>5, <4>1 DEF LockTypeOK, QueuesAtHome
        <4>2. CASE q = p
          <5>1. queue'[q] = Tail(queue[p])
            BY <2>1, <3>3, <4>2 DEF LockTypeOK
          <5>2. n + 1 \in 1 .. Len(queue[p]) /\ queue'[q][n] = queue[p][n + 1]
            BY <2>1, <2>3, <3>5, <5>1
          <5> QED BY <2>1, <4>2, <5>2 DEF QueuesAtHome
        <4> QED BY <4>1, <4>2
      <3> QED BY <2>1, <3>4, <3>5 DEF QueuesAtHome, Home
    <2> QED BY <2>2, <2>3
  <1>6. ASSUME NEW p \in Processes, Crash(p)
        PROVE  Owned' /\ QueuesAtHome'
    BY <1>6 DEF LockTypeOK, Crash, Owned, Owning, QueuesAtHome, Home, Fcntl
  <1> QED
    BY <1>1, <1>2, <1>3, <1>4, <1>5, <1>6 DEF LockNext, LockStep

\* Two goroutines that the kernel takes for one are not both beyond the queue.
LEMMA OneOwner ==
  ASSUME LockInv, NEW g \in Goroutines, NEW h \in Goroutines,
         pc[g] \in Owning, pc[h] \in Owning, Holder(g) = Holder(h)
  PROVE  g = h
  BY HomeType DEF LockInv, Owned, Holder

\* What the kernel holds.
LEMMA KernelLocks ==
  ASSUME LockInv, LockNext
  PROVE  Holding' /\ Apart'
  <1> USE DEF LockInv
  <1>1. ASSUME NEW g \in Goroutines, NEW m \in {"read", "write"}, Lock(g, m)
        PROVE  Holding' /\ Apart'
    BY <1>1 DEF LockTypeOK, Lock, Move, Holding, Inside, Apart, Holder, Home, Fcntl
  <1>2. ASSUME NEW g \in Goroutines, Ask(g) \/ StatFails(g) \/ SetlkFails(g)
                 \/ Unlock(g) \/ Handover(g)
        PROVE  Holding' /\ Apart'
    <2>1. held' = held /\ mode' = mode /\ system' = system /\ robbed \ {g} \subseteq robbed'
      BY <1>2 DEF Ask, StatFails, SetlkFails, Unlock, Handover
    <2>2. \A h \in Goroutines : pc'[h] = "locked" => pc[h] = "locked" /\ (h = g => ~Unlock(g))
      BY <1>2 DEF LockTypeOK, Ask, StatFails, SetlkFails, Unlock, Handover, Move, Inside
    <2>3. ~Unlock(g) => robbed' = robbed
      BY <1>2 DEF Ask, StatFails, SetlkFails, Handover
    <2> QED BY <2>1, <2>2, <2>3 DEF Holding, Inside, Apart, Holder, Home, Fcntl
  <1>3. ASSUME NEW g \in Goroutines, Setlk(g)
        PROVE  Holding' /\ Apart'
    <2>1. Holder(g) \in Goroutines \cup Processes /\ pc[g] = "setlk"
      BY <1>3, HomeType DEF Setlk
    <2>2. /\ held' = [held EXCEPT ![Holder(g)] = mode[g]]
          /\ mode' = mode /\ system' = system /\ robbed' = robbed
          /\ pc' = [pc EXCEPT ![g] = "locked"]
      BY <1>3 DEF Setlk, Move
    <2>3. ASSUME NEW h \in Goroutines, h # g, Inside(h)
          PROVE  Holder(h) # Holder(g)
      BY <2>1, <2>3, OneOwner DEF Inside, Owning
    <2>4. Holding'
      BY <2>1, <2>2, <2>3, HomeType DEF LockTypeOK, Holding, Inside, Holder, Home, Fcntl
    <2>5. \A a \in Goroutines \cup Processes : a # Holder(g) => ~Conflict(mode[g], held[a])
      BY <1>3 DEF Setlk, LockTypeOK
    <2>6. Apart'
      BY <2>1, <2>2, <2>5 DEF LockTypeOK, Apart, Conflict
    <2> QED BY <2>4, <2>6
  <1>4. ASSUME NEW g \in Goroutines, Unlk(g)
        PROVE  Holding' /\ Apart'
    <2>1. Holder(g) \in Goroutines \cup Processes /\ pc[g] = "unlk"
      BY <1>4, HomeType DEF Unlk
    <2>2. /\ held' = [held EXCEPT ![Holder(g)] = "none"]
          /\ mode' = mode /\ system' = system /\ robbed' = robbed
          /\ \A h \in Goroutines : pc'[h] = "locked" => pc[h] = "locked" /\ h # g
      BY <1>4 DEF Unlk, Move, LockTypeOK
    <2>3. ASSUME NEW h \in Goroutines, h # g, Inside(h)
          PROVE  Holder(h) # Holder(g)
      BY <2>1, <2>3, OneOwner DEF Inside, Owning
    <2>4. Holding'
      BY <2>1, <2>2, <2>3, HomeType DEF LockTypeOK, Holding, Inside, Holder, Home, Fcntl
    <2>5. Apart'
      BY <2>1, <2>2 DEF LockTypeOK, Apart, Conflict
    <2> QED BY <2>4, <2>5
  <1>5. ASSUME NEW g \in Goroutines, Close(g)
        PROVE  Holding' /\ Apart'
    <2>1. Holder(g) \in Goroutines \cup Processes /\ pc[g] = "unlocked"
      BY <1>5, HomeType DEF Close
    <2>2. /\ held' = [held EXCEPT ![Holder(g)] = "none"]
          /\ mode' = [mode EXCEPT ![g] = "none"] /\ system' = system
          /\ \A h \in Goroutines : pc'[h] = "locked" => pc[h] = "locked" /\ h # g
      BY <1>5 DEF Close, Move, LockTypeOK
    <2>3. ASSUME NEW h \in Goroutines, Inside(h), h \notin robbed'
          PROVE  h \notin robbed /\ (h # g => Holder(h) # Holder(g))
      BY <1>5, <2>3, HomeType DEF Close, Holder
    <2>4. Holding'
      BY <2>1, <2>2, <2>3, HomeType DEF LockTypeOK, Holding, Inside, Holder, Home, Fcntl
    <2>5. Apart'
      BY <2>1, <2>2 DEF LockTypeOK, Apart, Conflict
    <2> QED BY <2>4, <2>5
  <1>6. ASSUME NEW p \in Processes, Crash(p)
        PROVE  Holding' /\ Apart'
    <2>1. Holding'
      BY <1>6, HomeType DEF Crash, LockTypeOK, Holding, Inside, Holder, Home, Fcntl
    <2>2. Apart'
      BY <1>6 DEF Crash, LockTypeOK, Apart, Conflict
    <2> QED BY <2>1, <2>2
  <1> QED
    BY <1>1, <1>2, <1>3, <1>4, <1>5, <1>6 DEF LockNext, LockStep

\* Any step keeps the invariant.
LEMMA LockInvKept == LockInv /\ [LockNext]_lockVars => LockInv'
  <1>1. CASE LockNext
    BY <1>1, LockTypes, Owners, KernelLocks DEF LockInv
  <1>2. CASE UNCHANGED lockVars
    BY <1>2 DEF lockVars, LockInv, LockTypeOK, Owned, QueuesAtHome, Holding, Apart,
                Inside, Holder, Home, Fcntl
  <1> QED BY <1>1, <1>2

\* Whoever is inside excludes the others by owning the inode or by the kernel's lock.
LEMMA LockInvExcludes == LockInv => Exclusive
  <1> SUFFICES ASSUME LockInv, NEW g \in Goroutines, NEW h \in Goroutines,
                      g # h, Inside(g), Inside(h)
               PROVE  /\ ~(Fcntl /\ Home(g) = Home(h))
                      /\ Conflict(mode[g], mode[h]) => {g, h} \cap robbed # {}
    BY DEF Exclusive
  <1>1. Holder(g) # Holder(h)
    BY OneOwner DEF Inside, Owning
  <1>2. ~(Fcntl /\ Home(g) = Home(h))
    BY <1>1 DEF Holder
  <1>3. ASSUME g \notin robbed, h \notin robbed
        PROVE  ~Conflict(mode[g], mode[h])
    BY <1>1, <1>3, HomeType DEF LockInv, Holding, Apart
  <1> QED BY <1>2, <1>3

\* Lock, RLock and Unlock exclude as filelock.go:30-50 and filelock_fcntl.go:7-10 say, for any
\* goroutines and processes, and whoever dies (filelock_fcntl.go:63-210, filelock_unix.go:29-38).
THEOREM LocksExclude == LockSpec => []Exclusive
  BY LockInitInv, LockInvKept, LockInvExcludes, PTL DEF LockSpec

-----------------------------------------------------------------------------
(* The queue                                                               *)

\* Who is in a queue is blocked in its send, and is there once.
Waiters ==
  \A p \in Processes : \A n \in 1 .. Len(queue[p]) :
    /\ pc[queue[p][n]] = "send"
    /\ \A m \in 1 .. Len(queue[p]) : queue[p][m] = queue[p][n] => m = n

\* Who is blocked in its send is in the queue, behind an owner.
Queued ==
  \A g \in Goroutines : pc[g] = "send" =>
    /\ \E n \in 1 .. Len(queue[Home(g)]) : queue[Home(g)][n] = g
    /\ owner[Home(g)] # None

\* The owner is a goroutine of the process, which goes on to unlock.
OwnerWorks ==
  \A p \in Processes : owner[p] # None => Home(owner[p]) = p /\ pc[owner[p]] \in Owning

\* Under flock there are neither owners nor queues.
OnlyFcntl ==
  ~Fcntl => /\ \A p \in Processes : owner[p] = None
            /\ \A g \in Goroutines : pc[g] \notin {"send", "handover"}

NoPanic == \A g \in Goroutines : pc[g] # "panic"

\* What is said of the queues.
QueueInv == Waiters /\ Queued /\ OwnerWorks /\ OnlyFcntl /\ NoPanic

\* Nobody waits at first.
LEMMA QueueInit == LockInit => QueueInv
  <1> SUFFICES ASSUME LockInit PROVE QueueInv
    OBVIOUS
  <1>1. \A g \in Goroutines : pc[g] = "idle"
    BY DEF LockInit
  <1>2. \A p \in Processes : owner[p] = None /\ Len(queue[p]) = 0
    BY DEF LockInit
  <1> QED BY <1>1, <1>2 DEF QueueInv, Waiters, Queued, OwnerWorks, OnlyFcntl, NoPanic

\* A step that leaves the owners and queues alone moves who does not wait, and an owner
\* only to another place of an owner.
LEMMA QueueAlone ==
  ASSUME LockInv, QueueInv, NEW g \in Goroutines, NEW place \in Places \ {"send", "panic"},
         UNCHANGED <<system, owner, queue>>, Move(g, place), pc[g] # "send",
         pc[g] \in Owning => place \in Owning \/ ~Fcntl, place = "handover" => Fcntl
  PROVE  QueueInv'
  <1> USE DEF LockInv, QueueInv
  <1>1. pc' = [pc EXCEPT ![g] = place] /\ pc \in [Goroutines -> Places]
    BY DEF Move, LockTypeOK
  <1>2. Waiters'
    <2>1. \A p \in Processes : \A n \in 1 .. Len(queue[p]) : queue[p][n] \in Goroutines
      BY DEF LockTypeOK
    <2> QED BY <1>1, <2>1 DEF Waiters
  <1>3. Queued'
    BY <1>1 DEF Queued, Home
  <1>4. ASSUME NEW p \in Processes, owner[p] # None
        PROVE  Home(owner[p])' = p /\ pc'[owner[p]] \in Owning
    <2>1. owner[p] \in Goroutines /\ Home(owner[p])' = p /\ pc[owner[p]] \in Owning
      BY <1>4 DEF LockTypeOK, OwnerWorks, Home
    <2>2. CASE owner[p] # g
      BY <1>1, <2>1, <2>2
    <2>3. CASE owner[p] = g
      BY <1>1, <1>4, <2>1, <2>3 DEF OnlyFcntl
    <2> QED BY <2>1, <2>2, <2>3
  <1>5. OwnerWorks'
    BY <1>4 DEF OwnerWorks, Home
  <1>6. OnlyFcntl' /\ NoPanic'
    BY <1>1 DEF OnlyFcntl, NoPanic, Fcntl
  <1> QED BY <1>2, <1>3, <1>5, <1>6

\* A step of FileLock keeps what is said of the queues.
LEMMA QueueKept ==
  ASSUME LockInv, QueueInv, LockNext
  PROVE  QueueInv'
  <1> USE DEF LockInv, QueueInv
  <1>1. ASSUME NEW g \in Goroutines, NEW m \in {"read", "write"}, Lock(g, m)
        PROVE  QueueInv'
    BY <1>1, QueueAlone DEF Lock, Owning, Places
  <1>2. ASSUME NEW g \in Goroutines, Ask(g)
        PROVE  QueueInv'
    <2>1. Home(g) \in Processes /\ pc[g] = "ask" /\ UNCHANGED system
      BY <1>2, HomeType DEF Ask
    <2>2. CASE ~Fcntl
      BY <1>2, <2>2, QueueAlone DEF Ask, Owning, Places
    <2>3. CASE Fcntl /\ owner[Home(g)] = None
      <3>1. /\ owner' = [owner EXCEPT ![Home(g)] = g] /\ queue' = queue
            /\ pc' = [pc EXCEPT ![g] = "setlk"]
        BY <1>2, <2>3 DEF Ask, Move
      <3>2. Waiters'
        <4>1. \A p \in Processes : \A n \in 1 .. Len(queue[p]) : queue[p][n] \in Goroutines
          BY DEF LockTypeOK
        <4> QED BY <2>1, <3>1, <4>1 DEF Waiters, LockTypeOK
      <3>3. Queued' /\ OwnerWorks'
        BY <2>1, <3>1 DEF Queued, OwnerWorks, Owning, Home, LockTypeOK
      <3>4. OnlyFcntl' /\ NoPanic'
        BY <2>1, <2>3, <3>1 DEF OnlyFcntl, NoPanic, Fcntl, LockTypeOK
      <3> QED BY <3>2, <3>3, <3>4
    <2>4. CASE Fcntl /\ owner[Home(g)] # None
      <3>1. /\ owner' = owner /\ queue' = [queue EXCEPT ![Home(g)] = Append(@, g)]
            /\ pc' = [pc EXCEPT ![g] = "send"]
        BY <1>2, <2>4 DEF Ask, Move
      <3> DEFINE p == Home(g)
      <3>2. /\ queue[p] \in Seq(Goroutines)
            /\ queue'[p] = Append(queue[p], g)
            /\ \A q \in Processes : q # p => queue'[q] = queue[q]
            /\ \A q \in Processes : \A n \in 1 .. Len(queue[q]) :
                 queue[q][n] \in Goroutines /\ queue[q][n] # g
        BY <2>1, <3>1 DEF LockTypeOK, Waiters
      <3>3. Waiters'
        <4>1. ASSUME NEW q \in Processes, q # p
              PROVE  \A n \in 1 .. Len(queue'[q]) :
                       /\ pc'[queue'[q][n]] = "send"
                       /\ \A m \in 1 .. Len(queue'[q]) : queue'[q][m] = queue'[q][n] => m = n
          BY <3>1, <3>2, <4>1 DEF Waiters, LockTypeOK
        <4>2. ASSUME NEW n \in 1 .. Len(queue'[p])
              PROVE  /\ pc'[queue'[p][n]] = "send"
                     /\ \A m \in 1 .. Len(queue'[p]) : queue'[p][m] = queue'[p][n] => m = n
          BY <2>1, <3>1, <3>2, <4>2 DEF Waiters, LockTypeOK
        <4> QED BY <4>1, <4>2 DEF Waiters
      <3>4. ASSUME NEW h \in Goroutines, pc'[h] = "send"
            PROVE  /\ \E n \in 1 .. Len(queue'[Home(h)]) : queue'[Home(h)][n] = h
                   /\ owner'[Home(h)] # None
        <4>1. CASE h = g
          BY <2>1, <2>4, <3>1, <3>2, <4>1
        <4>2. CASE h # g
          <5>1. Home(h) \in Processes /\ pc[h] = "send"
            BY <3>1, <3>4, <4>2, HomeType DEF LockTypeOK
          <5>2. PICK n \in 1 .. Len(queue[Home(h)]) : queue[Home(h)][n] = h
            BY <5>1 DEF Queued
          <5>3. n \in 1 .. Len(queue'[Home(h)]) /\ queue'[Home(h)][n] = h
            BY <3>2, <5>1, <5>2
          <5> QED BY <3>1, <5>1, <5>3 DEF Queued
        <4> QED BY <4>1, <4>2
      <3>5. Queued'
        BY <2>1, <3>4 DEF Queued, Home
      <3>6. OwnerWorks'
        BY <2>1, <3>1 DEF OwnerWorks, Owning, Home, LockTypeOK
      <3>7. OnlyFcntl' /\ NoPanic'
        BY <2>1, <2>4, <3>1 DEF OnlyFcntl, NoPanic, Fcntl, LockTypeOK
      <3> QED BY <3>3, <3>5, <3>6, <3>7
    <2> QED BY <2>2, <2>3, <2>4
  <1>3. ASSUME NEW g \in Goroutines, StatFails(g) \/ Setlk(g) \/ SetlkFails(g)
        PROVE  QueueInv'
    BY <1>3, QueueAlone DEF StatFails, Setlk, SetlkFails, Owning, Places
  <1>4. ASSUME NEW g \in Goroutines, Unlock(g)
        PROVE  QueueInv'
    <2>1. Fcntl => owner[Home(g)] = g
      BY <1>4 DEF Unlock, Inside, Owned, Owning
    <2> QED BY <1>4, <2>1, QueueAlone DEF Unlock, Inside, Owning, Places
  <1>5. ASSUME NEW g \in Goroutines, Unlk(g) \/ Close(g)
        PROVE  QueueInv'
    BY <1>5, QueueAlone DEF Unlk, Close, Owning, Places
  <1>6. ASSUME NEW g \in Goroutines, Handover(g)
        PROVE  QueueInv'
    <2> DEFINE p == Home(g)
    <2>1. /\ p \in Processes /\ queue[p] \in Seq(Goroutines) /\ UNCHANGED system
          /\ pc[g] = "handover" /\ Fcntl
      BY <1>6, HomeType DEF Handover, LockTypeOK, OnlyFcntl
    <2>2. \A q \in Processes : \A n \in 1 .. Len(queue[q]) :
            queue[q][n] \in Goroutines /\ queue[q][n] # g
      BY <2>1 DEF LockTypeOK, Waiters
    <2>3. \A q \in Processes : q # p /\ owner[q] # None => owner[q] # g /\ owner[q] \in Goroutines
      BY DEF OwnerWorks, LockTypeOK
    <2>4. CASE queue[p] = <<>>
      <3>1. /\ owner' = [owner EXCEPT ![p] = None] /\ queue' = queue
            /\ pc' = [pc EXCEPT ![g] = "unlocked"]
        BY <1>6, <2>4 DEF Handover, Move
      <3>2. Waiters'
        BY <2>1, <2>2, <3>1 DEF Waiters, LockTypeOK
      <3>3. \A h \in Goroutines : pc'[h] = "send" => pc[h] = "send" /\ Home(h) # p
        BY <2>1, <2>4, <3>1 DEF Queued, LockTypeOK
      <3>4. Queued'
        BY <2>1, <3>1, <3>3, HomeType DEF Queued, Home, LockTypeOK
      <3>5. OwnerWorks'
        BY <2>1, <2>3, <3>1 DEF OwnerWorks, Home, LockTypeOK
      <3>6. OnlyFcntl' /\ NoPanic'
        BY <2>1, <3>1 DEF OnlyFcntl, NoPanic, Fcntl, LockTypeOK
      <3> QED BY <3>2, <3>4, <3>5, <3>6
    <2>5. CASE queue[p] # <<>>
      <3> DEFINE f == Head(queue[p])
      <3>1. /\ owner' = [owner EXCEPT ![p] = f] /\ queue' = [queue EXCEPT ![p] = Tail(@)]
            /\ pc' = [pc EXCEPT ![g] = "unlocked", ![f] = "setlk"]
        BY <1>6, <2>5 DEF Handover
      <3>2. f = queue[p][1] /\ 1 \in 1 .. Len(queue[p]) /\ f \in Goroutines /\ f # g
        BY <2>1, <2>2, <2>5
      <3>3. Home(f) = p /\ pc[f] = "send"
        BY <2>1, <3>2 DEF QueuesAtHome, Waiters
      <3>4. /\ queue'[p] = Tail(queue[p]) /\ owner'[p] = f
            /\ \A q \in Processes : q # p => queue'[q] = queue[q] /\ owner'[q] = owner[q]
            /\ pc'[f] = "setlk"
            /\ \A h \in Goroutines : h # f /\ h # g => pc'[h] = pc[h]
        BY <2>1, <3>1, <3>2 DEF LockTypeOK
      <3>5. Waiters'
        <4>1. ASSUME NEW q \in Processes, q # p
              PROVE  \A n \in 1 .. Len(queue'[q]) :
                       /\ pc'[queue'[q][n]] = "send"
                       /\ \A m \in 1 .. Len(queue'[q]) : queue'[q][m] = queue'[q][n] => m = n
          <5>1. \A n \in 1 .. Len(queue[q]) : queue[q][n] # f
            BY <3>3, <4>1 DEF QueuesAtHome
          <5> QED BY <2>2, <3>4, <4>1, <5>1 DEF Waiters
        <4>2. ASSUME NEW n \in 1 .. Len(queue'[p])
              PROVE  /\ pc'[queue'[p][n]] = "send"
                     /\ \A m \in 1 .. Len(queue'[p]) : queue'[p][m] = queue'[p][n] => m = n
          <5>1. \A m \in 1 .. Len(queue'[p]) :
                  m + 1 \in 1 .. Len(queue[p]) /\ queue'[p][m] = queue[p][m + 1] /\ m + 1 # 1
            BY <2>1, <2>5, <3>4
          <5>2. queue[p][n + 1] # f
            BY <2>1, <3>2, <4>2, <5>1 DEF Waiters
          <5> QED BY <2>1, <2>2, <3>4, <4>2, <5>1, <5>2 DEF Waiters
        <4> QED BY <4>1, <4>2 DEF Waiters
      <3>6. ASSUME NEW h \in Goroutines, pc'[h] = "send"
            PROVE  /\ \E n \in 1 .. Len(queue'[Home(h)]) : queue'[Home(h)][n] = h
                   /\ owner'[Home(h)] # None
        <4>1. h # f /\ h # g /\ pc[h] = "send" /\ Home(h) \in Processes
          BY <3>1, <3>2, <3>6, HomeType DEF LockTypeOK
        <4>2. PICK n \in 1 .. Len(queue[Home(h)]) : queue[Home(h)][n] = h
          BY <4>1 DEF Queued
        <4>3. CASE Home(h) # p
          BY <3>4, <4>1, <4>2, <4>3 DEF Queued
        <4>4. CASE Home(h) = p
          <5>1. n - 1 \in 1 .. Len(Tail(queue[p])) /\ Tail(queue[p])[n - 1] = h
            BY <2>1, <2>5, <3>2, <4>1, <4>2, <4>4
          <5> QED BY <3>2, <3>4, <4>4, <5>1, FileLockAssumption, ZenonT(30)
        <4> QED BY <4>3, <4>4
      <3>7. Queued'
        BY <2>1, <3>6 DEF Queued, Home
      <3>8. ASSUME NEW q \in Processes, owner'[q] # None
            PROVE  Home(owner'[q]) = q /\ pc'[owner'[q]] \in Owning
        <4>1. CASE q = p
          BY <3>3, <3>4, <4>1 DEF Owning
        <4>2. CASE q # p
          BY <2>3, <3>3, <3>4, <3>8, <4>2 DEF OwnerWorks
        <4> QED BY <4>1, <4>2
      <3>9. OwnerWorks'
        BY <2>1, <3>8 DEF OwnerWorks, Home
      <3>10. OnlyFcntl' /\ NoPanic'
        BY <2>1, <3>1 DEF OnlyFcntl, NoPanic, Fcntl, LockTypeOK
      <3> QED BY <3>5, <3>7, <3>9, <3>10
    <2> QED BY <2>4, <2>5
  <1>7. ASSUME NEW p \in Processes, Crash(p)
        PROVE  QueueInv'
    <2>1. /\ owner' = [owner EXCEPT ![p] = None] /\ queue' = [queue EXCEPT ![p] = <<>>]
          /\ UNCHANGED system
          /\ \A h \in Goroutines : pc'[h] = IF Home(h) = p THEN "idle" ELSE pc[h]
      BY <1>7 DEF Crash
    <2>2. Waiters'
      <3>1. \A q \in Processes : \A n \in 1 .. Len(queue[q]) :
              queue[q][n] \in Goroutines /\ Home(queue[q][n]) = q
        BY DEF LockTypeOK, QueuesAtHome
      <3>2. Len(queue'[p]) = 0 /\ \A q \in Processes : q # p => queue'[q] = queue[q]
        BY <2>1 DEF LockTypeOK
      <3> QED BY <2>1, <3>1, <3>2 DEF Waiters
    <2>3. Queued' /\ OwnerWorks'
      BY <2>1, HomeType DEF Queued, OwnerWorks, Home, LockTypeOK
    <2>4. OnlyFcntl' /\ NoPanic'
      BY <2>1 DEF OnlyFcntl, NoPanic, Fcntl, LockTypeOK
    <2> QED BY <2>2, <2>3, <2>4
  <1> QED
    BY <1>1, <1>2, <1>3, <1>4, <1>5, <1>6, <1>7 DEF LockNext, LockStep

\* Whatever happens between, too.
LEMMA QueueInvKept == LockInv /\ QueueInv /\ [LockNext]_lockVars => QueueInv'
  <1>1. CASE LockInv /\ QueueInv /\ LockNext
    BY <1>1, QueueKept
  <1>2. CASE QueueInv /\ UNCHANGED lockVars
    BY <1>2 DEF lockVars, QueueInv, Waiters, Queued, OwnerWorks, OnlyFcntl, NoPanic, Home, Fcntl
  <1> QED BY <1>1, <1>2

\* The first of a queue receives the lock at once: unlock, which waits for it with the package's
\* mutex in its hands, is not kept waiting, and never panics because it is not the owner
\* (filelock_fcntl.go:163-195).
HandsOver ==
  /\ NoPanic
  /\ \A p \in Processes : queue[p] # <<>> => pc[Head(queue[p])] = "send"

\* Who waits in its process is in the queue behind a goroutine that has the lock, asks for it or
\* gives it away, so that a handover finds it (filelock_fcntl.go:84-106, 163-195).
NobodyForgotten ==
  \A g \in Goroutines : pc[g] = "send" =>
    /\ \E n \in 1 .. Len(queue[Home(g)]) : queue[Home(g)][n] = g
    /\ \E o \in Goroutines : o = owner[Home(g)] /\ Home(o) = Home(g) /\ pc[o] \in Owning

\* The queues of the package lose nobody, for any goroutines and processes.
THEOREM QueuesServe == LockSpec => [](HandsOver /\ NobodyForgotten)
  <1>1. LockInv /\ QueueInv => HandsOver /\ NobodyForgotten
    <2> SUFFICES ASSUME LockInv, QueueInv PROVE HandsOver /\ NobodyForgotten
      OBVIOUS
    <2> USE DEF LockInv, QueueInv
    <2>1. ASSUME NEW p \in Processes, queue[p] # <<>>
          PROVE  pc[Head(queue[p])] = "send"
      <3>1. Head(queue[p]) = queue[p][1] /\ 1 \in 1 .. Len(queue[p])
        BY <2>1 DEF LockTypeOK
      <3> QED BY <3>1 DEF Waiters
    <2>2. ASSUME NEW g \in Goroutines, pc[g] = "send"
          PROVE  owner[Home(g)] \in Goroutines /\ Home(owner[Home(g)]) = Home(g) /\ pc[owner[Home(g)]] \in Owning
      BY <2>2, HomeType DEF Queued, OwnerWorks, LockTypeOK
    <2> QED BY <2>1, <2>2 DEF HandsOver, NobodyForgotten, Queued
  <1> QED BY <1>1, LockInitInv, LockInvKept, QueueInit, QueueInvKept, PTL DEF LockSpec

-----------------------------------------------------------------------------
(* LockedFile only takes steps of FileLock                                 *)

\* What a function of LockedFile does is a step of FileLock or leaves the locks alone.
LEMMA StepsAreLockSteps == [Next]_vars => [LockNext]_lockVars
  <1> SUFFICES ASSUME Next PROVE [LockNext]_lockVars
    BY DEF vars
  <1>1. ASSUME NEW g \in Goroutines, BeginRead(g) \/ BeginTransform(g) \/ BeginMutex(g)
        PROVE  LockNext
    BY <1>1 DEF BeginRead, BeginTransform, BeginMutex, Begin, LockNext
  <1>2. ASSUME NEW g \in Goroutines, NEW s \in Inputs, BeginWrite(g, s)
        PROVE  LockNext
    BY <1>2 DEF BeginWrite, Begin, LockNext
  <1>3. ASSUME NEW g \in Goroutines, Locking(g) \/ Return(g) \/ LockFails(g) \/ MutexUnlock(g)
        PROVE  LockNext
    BY <1>3 DEF Locking, LetIn, Return, LockFails, MutexUnlock, LockNext, LockStep
  <1>4. ASSUME NEW g \in Goroutines, ReadByte(g) \/ Truncate(g) \/ Transform(g)
                 \/ WriteByte(g) \/ MutexLock(g) \/ ShrinkFails(g)
        PROVE  UNCHANGED lockVars
    BY <1>4 DEF ReadByte, Truncate, Transform, WriteByte, MutexLock, ShrinkFails, Stay
  <1>5. ASSUME NEW g \in Goroutines, GiveUp(g) \/ Shrink(g) \/ Cut(g) \/ CutFails(g)
        PROVE  LockNext
    BY <1>5 DEF GiveUp, Shrink, Cut, CutFails, Leave, LockNext
  <1>6. ASSUME NEW g \in Goroutines, ReadEnds(g) \/ Written(g) \/ WriteFails(g)
        PROVE  LockNext \/ UNCHANGED lockVars
    <2>1. Leave(g) \/ \E spot \in Spots : Stay(g, spot)
      BY <1>6 DEF ReadEnds, Written, WriteFails, Writing, In, Spots
    <2> QED BY <2>1 DEF Leave, Stay, LockNext
  <1>7. ASSUME NEW p \in Processes, Die(p)
        PROVE  LockNext
    BY <1>7 DEF Die, LockNext
  <1> QED
    BY <1>1, <1>2, <1>3, <1>4, <1>5, <1>6, <1>7 DEF Next, Step, Fails

\* The functions of lockedfile use the lock as FileLock lets them.
THEOREM UsesLocks == Spec => LockSpec
  <1>1. Init => LockInit
    BY DEF Init
  <1> QED BY <1>1, StepsAreLockSteps, PTL DEF Spec, LockSpec

\* Reads, writes, transformations and critical sections of one file exclude each other as
\* filelock.go:30-50 and filelock_fcntl.go:7-10 say, whoever fails or dies
\* (lockedfile.go:24-187, mutex.go:46-67).
THEOREM ExclusiveHolds == Spec => []Exclusive
  BY UsesLocks, LocksExclude, PTL

HIDE FileLockAssumption

-----------------------------------------------------------------------------
(* The types of what the functions of LockedFile change                    *)

\* What is left of the budget that was chosen.
LeftType ==
  /\ left \in [ops : SUBSET {"read", "write", "transform", "mutex"}, calls : [Goroutines -> Nat],
               faults : Nat, crashes : Nat]
  /\ \E b \in Budgets :
       /\ left.ops = b.ops /\ left.faults \in 0 .. b.faults /\ left.crashes \in 0 .. b.crashes
       /\ \A g \in Goroutines : left.calls[g] \in 0 .. b.calls[g]

\* The variables of the functions.
DataType ==
  /\ file \in Seq(Byte) /\ saved \in Seq(Byte)
  /\ mutex \in [Processes -> Goroutines \cup {None}]
  /\ at \in [Goroutines -> Spots]
  /\ call \in [Goroutines -> Calls]
  /\ spoiled \in BOOLEAN

\* Whatever takes from the budget leaves a part of it.
LEMMA LeftKept ==
  ASSUME LeftType,
         \/ left' = left
         \/ Fault
         \/ \E g \in Goroutines : left.calls[g] > 0 /\ left' = [left EXCEPT !.calls[g] = @ - 1]
         \/ left.crashes > 0 /\ left' = [left EXCEPT !.crashes = @ - 1]
  PROVE  LeftType'
  <1> DEFINE Within(l, b) ==
               /\ l.ops = b.ops /\ l.faults \in 0 .. b.faults /\ l.crashes \in 0 .. b.crashes
               /\ \A g \in Goroutines : l.calls[g] \in 0 .. b.calls[g]
             Kind == [ops : SUBSET {"read", "write", "transform", "mutex"}, calls : [Goroutines -> Nat],
                      faults : Nat, crashes : Nat]
  <1>1. PICK b \in Budgets : Within(left, b)
    BY DEF LeftType
  <1>2. left \in Kind
    BY DEF LeftType
  <1>3. b \in Kind
    BY LockedFileAssumption
  <1>4. ASSUME left' \in Kind, Within(left', b) PROVE LeftType'
    BY <1>4 DEF LeftType
  <1>5. CASE left' = left
    BY <1>1, <1>2, <1>4, <1>5
  <1>6. CASE Fault
    <2>1. left.faults > 0 /\ left' = [left EXCEPT !.faults = @ - 1]
      BY <1>6 DEF Fault
    <2>2. left.faults - 1 \in Nat
      BY <1>2, <2>1
    <2>3. left' \in Kind
      BY <1>2, <2>1, <2>2
    <2>4. /\ left'.ops = left.ops /\ left'.calls = left.calls /\ left'.crashes = left.crashes
          /\ left'.faults = left.faults - 1
      BY <1>2, <2>1
    <2>5. left'.faults \in 0 .. b.faults
      BY <1>1, <1>2, <1>3, <2>1, <2>4
    <2>6. Within(left', b)
      BY <1>1, <2>4, <2>5
    <2> QED BY <1>4, <2>3, <2>6
  <1>7. ASSUME NEW g \in Goroutines, left.calls[g] > 0, left' = [left EXCEPT !.calls[g] = @ - 1]
        PROVE  LeftType'
    <2> DEFINE calls == [left.calls EXCEPT ![g] = @ - 1]
    <2>1. left' = [left EXCEPT !.calls = calls]
      BY <1>2, <1>7
    <2>2. calls \in [Goroutines -> Nat] /\ calls[g] = left.calls[g] - 1
          /\ \A h \in Goroutines \ {g} : calls[h] = left.calls[h]
      BY <1>2, <1>7
    <2>3. \A h \in Goroutines : left.calls[h] \in Nat /\ b.calls[h] \in Nat
      BY <1>2, <1>3
    <2>4. \A h \in Goroutines : calls[h] \in 0 .. b.calls[h]
      BY <1>1, <1>7, <2>2, <2>3
    <2> HIDE DEF calls
    <2>5. left' \in Kind
      BY <1>2, <2>1, <2>2
    <2>6. left'.ops = left.ops /\ left'.calls = calls /\ left'.faults = left.faults /\ left'.crashes = left.crashes
      BY <1>2, <2>1
    <2>7. Within(left', b)
      BY <1>1, <2>4, <2>6
    <2> QED BY <1>4, <2>5, <2>7
  <1>8. CASE left.crashes > 0 /\ left' = [left EXCEPT !.crashes = @ - 1]
    <2>2. left.crashes - 1 \in Nat
      BY <1>2, <1>8
    <2>3. left' \in Kind
      BY <1>2, <1>8, <2>2
    <2>4. /\ left'.ops = left.ops /\ left'.calls = left.calls /\ left'.faults = left.faults
          /\ left'.crashes = left.crashes - 1
      BY <1>2, <1>8
    <2>5. left'.crashes \in 0 .. b.crashes
      BY <1>1, <1>2, <1>3, <1>8, <2>4
    <2>6. Within(left', b)
      BY <1>1, <2>4, <2>5
    <2> QED BY <1>4, <2>3, <2>6
  <1> QED BY <1>5, <1>6, <1>7, <1>8

\* Contents are sequences of bytes, and so is what a transformation makes of them.
LEMMA ContentsAre ==
  /\ Contents \subseteq Seq(Byte) /\ <<>> \in Contents
  /\ \A t \in Transforms : DOMAIN t = Contents /\ \A s \in Contents : t[s] \in Contents
  <1>1. ASSUME NEW s \in Contents PROVE s \in Seq(Byte)
    <2>1. PICK n \in 0 .. MaxLen : s \in [1 .. n -> Byte]
      BY DEF Contents
    <2>2. n \in Nat
      BY LockedFileAssumption
    <2> QED BY <2>1, <2>2
  <1>2. <<>> \in Contents
    <2>1. <<>> \in [1 .. 0 -> Byte]
      OBVIOUS
    <2>2. 0 \in 0 .. MaxLen
      BY LockedFileAssumption
    <2> QED BY <2>1, <2>2 DEF Contents
  <1>3. ASSUME NEW t \in Transforms PROVE DOMAIN t = Contents /\ \A s \in Contents : t[s] \in Contents
    BY LockedFileAssumption
  <1> QED BY <1>1, <1>2, <1>3

\* What the byte written makes of the file.
WithByte(s, n, b) ==
  [i \in 1 .. (IF n > Len(s) THEN n ELSE Len(s)) |->
     IF i = n THEN b ELSE IF i <= Len(s) THEN s[i] ELSE 0]

\* The byte is there, the others stay, and the file grows if it must.
LEMMA ByteWritten ==
  ASSUME NEW s \in Seq(Byte), NEW n \in Nat \ {0}, NEW b \in Byte
  PROVE  /\ WithByte(s, n, b) \in Seq(Byte)
         /\ Len(WithByte(s, n, b)) = (IF n > Len(s) THEN n ELSE Len(s))
         /\ WithByte(s, n, b)[n] = b /\ \A i \in 1 .. Len(s) : i # n => WithByte(s, n, b)[i] = s[i]
  <1> DEFINE L == IF n > Len(s) THEN n ELSE Len(s)
             t == WithByte(s, n, b)
             F(i) == IF i = n THEN b ELSE IF i <= Len(s) THEN s[i] ELSE 0
  <1>1. L \in Nat /\ n \in 1 .. L /\ L >= Len(s) /\ Len(s) \in Nat
    OBVIOUS
  <1>2. \A i \in 1 .. L : F(i) \in Byte
    BY LockedFileAssumption
  <1>3. t = [i \in 1 .. L |-> F(i)]
    BY DEF WithByte
  <1>4. F(n) = b /\ \A i \in 1 .. Len(s) : i # n => F(i) = s[i]
    OBVIOUS
  <1> HIDE DEF L, F, t
  <1>5. t \in [1 .. L -> Byte]
    BY <1>2, <1>3
  <1>6. t \in Seq(Byte) /\ Len(t) = L
    BY <1>1, <1>5
  <1>7. t[n] = b /\ \A i \in 1 .. Len(s) : i # n => t[i] = s[i]
    BY <1>1, <1>3, <1>4
  <1> QED BY <1>6, <1>7 DEF L, t

\* A prefix.
LEMMA PrefixIs ==
  ASSUME file \in Seq(Byte), NEW n \in Nat, n <= Len(file)
  PROVE  /\ Prefix(n) \in Seq(Byte) /\ Len(Prefix(n)) = n
         /\ \A i \in 1 .. n : Prefix(n)[i] = file[i]
  <1>1. Least(n, Len(file)) = n
    BY DEF Least
  <1> QED BY <1>1 DEF Prefix

\* As much of a prefix as there is.
LEMMA PrefixType ==
  ASSUME file \in Seq(Byte), NEW n \in Nat
  PROVE  Prefix(n) \in Seq(Byte)
  <1>1. Least(n, Len(file)) \in 0 .. Len(file)
    BY DEF Least
  <1> QED BY <1>1 DEF Prefix

\* What the place of a goroutine in the lock, and in its function, say of its variables.
Fits(place, m, spot, c) ==
  /\ spot = "idle" <=> place = "idle"
  /\ spot = "done" <=> place \in {"unlk", "handover", "unlocked", "panic"}
  /\ spot = "idle" => c = NoCall
  /\ place \in {"ask", "send", "setlk"} =>
       spot \in {"read", "truncate", "mutex"} /\ c.buf = <<>> /\ c.off = 0
  /\ spot \notin {"idle", "done"} =>
       /\ m = IF c.op = "read" THEN "read" ELSE "write"
       /\ c.err <=> spot \in {"rollback", "cut"}
       /\ c.op \in CASE spot = "read" -> {"read", "transform"}
                     [] spot \in {"truncate", "copy"} -> {"write"}
                     [] spot \in {"mutex", "critical"} -> {"mutex"}
                     [] OTHER -> {"transform"}

\* The two machines of a goroutine, its lock and its function, are in step.
PhaseInv == \A g \in Goroutines : Fits(pc[g], mode[g], at[g], call[g])

\* The variables of a call.
LEMMA CallsAre ==
  ASSUME NEW c \in Calls
  PROVE  /\ c.buf \in Seq(Byte) /\ c.new \in Contents /\ c.new \in Seq(Byte) /\ c.off \in Nat
         /\ c.err \in BOOLEAN /\ Len(c.buf) \in Nat /\ Len(c.new) \in Nat
  <1>1. c.new \in Contents
    BY DEF Calls
  <1>2. c.new \in Seq(Byte)
    BY <1>1, ContentsAre
  <1> QED BY <1>1, <1>2 DEF Calls

\* What the steps make of a call is one.
LEMMA CallsChange ==
  ASSUME NEW c \in Calls
  PROVE  /\ \A b \in Seq(Byte) : [c EXCEPT !.buf = b] \in Calls
         /\ \A s \in Contents, n \in Nat : [c EXCEPT !.new = s, !.off = n] \in Calls
         /\ \A n \in Nat : [c EXCEPT !.off = n] \in Calls
         /\ \A e \in BOOLEAN : [c EXCEPT !.err = e] \in Calls
         /\ \A e \in BOOLEAN, n \in Nat : [c EXCEPT !.err = e, !.off = n] \in Calls
  <1>1. \A b \in Seq(Byte) : [c EXCEPT !.buf = b] \in Calls
    BY DEF Calls
  <1>2. \A s \in Contents, n \in Nat : [c EXCEPT !.new = s, !.off = n] \in Calls
    BY DEF Calls
  <1>3. \A n \in Nat : [c EXCEPT !.off = n] \in Calls
    BY DEF Calls
  <1>4. \A e \in BOOLEAN : [c EXCEPT !.err = e] \in Calls
    BY DEF Calls
  <1>5. \A e \in BOOLEAN, n \in Nat : [c EXCEPT !.err = e, !.off = n] \in Calls
    BY DEF Calls
  <1> QED BY <1>1, <1>2, <1>3, <1>4, <1>5

\* No call is one as well.
LEMMA NoCallType == NoCall \in Calls
  BY ContentsAre DEF NoCall, Calls

\* A step that changes a call at most.
LEMMA DataSame ==
  ASSUME DataType, UNCHANGED <<file, mutex>>, saved' \in {saved, file}, spoiled' \in BOOLEAN,
         NEW g \in Goroutines, NEW spot \in Spots, NEW c \in Calls,
         at' = at \/ at' = [at EXCEPT ![g] = spot], call' = call \/ call' = [call EXCEPT ![g] = c]
  PROVE  DataType'
  BY DEF DataType

\* Every step keeps the types.
LEMMA DataKept ==
  ASSUME DataType, LeftType, LockTypeOK, Next
  PROVE  DataType' /\ LeftType'
  <1>0. \A g \in Goroutines : call[g] \in Calls /\ at[g] \in Spots
    BY DEF DataType
  <1>F. ASSUME Fault PROVE LeftType'
    BY <1>F, LeftKept
  <1>U. ASSUME UNCHANGED left PROVE LeftType'
    BY <1>U, LeftKept
  <1>1. ASSUME NEW g \in Goroutines, NEW c \in Calls, NEW m, NEW spot \in Spots, Begin(g, c, m, spot)
        PROVE  DataType' /\ LeftType'
    <2>1. left.calls[g] > 0 /\ left' = [left EXCEPT !.calls[g] = @ - 1]
      BY <1>1 DEF Begin
    <2>2. LeftType'
      BY <2>1, LeftKept
    <2>3. DataType'
      <3>1. /\ UNCHANGED <<file, mutex, saved, spoiled>> /\ call' = [call EXCEPT ![g] = c]
            /\ at' = [at EXCEPT ![g] = spot]
        BY <1>1 DEF Begin, Go
      <3> QED BY <3>1 DEF DataType
    <2> QED BY <2>2, <2>3
  <1>2. ASSUME NEW g \in Goroutines, BeginRead(g) \/ BeginTransform(g) \/ BeginMutex(g)
                 \/ \E s \in Inputs : BeginWrite(g, s)
        PROVE  DataType' /\ LeftType'
    <2>1. ASSUME NEW s \in Inputs PROVE [NoCall EXCEPT !.op = "write", !.new = s] \in Calls
      <3>1. s \in Contents
        BY LockedFileAssumption
      <3> QED BY <3>1, NoCallType DEF Calls
    <2>2. /\ [NoCall EXCEPT !.op = "read"] \in Calls /\ [NoCall EXCEPT !.op = "transform"] \in Calls
          /\ [NoCall EXCEPT !.op = "mutex"] \in Calls
      BY NoCallType DEF Calls
    <2> QED BY <1>1, <1>2, <2>1, <2>2 DEF BeginRead, BeginTransform, BeginMutex, BeginWrite, Spots
  <1>3. ASSUME NEW g \in Goroutines, Locking(g) PROVE DataType' /\ LeftType'
    <2>1. UNCHANGED <<file, mutex, at, call, left>> /\ saved' \in {saved, file} /\ spoiled' \in BOOLEAN
      BY <1>3 DEF Locking, LetIn, fileVars, DataType
    <2> QED BY <1>0, <1>U, <2>1, DataSame
  <1>4. ASSUME NEW g \in Goroutines, NEW e \in BOOLEAN, NEW n \in Nat, NEW spot \in Spots,
               UNCHANGED <<file, mutex, saved>>, spoiled' \in BOOLEAN, Fault \/ left' = left,
               at' = [at EXCEPT ![g] = spot],
               \/ call' = call
               \/ call' = [call EXCEPT ![g] = [call[g] EXCEPT !.err = e]]
               \/ call' = [call EXCEPT ![g] = [call[g] EXCEPT !.err = e, !.off = n]]
               \/ call' = [call EXCEPT ![g] = [call[g] EXCEPT !.off = n]]
        PROVE  DataType' /\ LeftType'
    <2>1. \E c \in Calls : call' = call \/ call' = [call EXCEPT ![g] = c]
      BY <1>0, <1>4, CallsChange DEF DataType
    <2>2. DataType'
      BY <1>4, <2>1, DataSame DEF DataType
    <2> QED BY <1>4, <1>F, <1>U, <2>2
  <1>5. ASSUME NEW g \in Goroutines, LockFails(g) PROVE DataType' /\ LeftType'
    <2>1. call' = [call EXCEPT ![g] = [call[g] EXCEPT !.err = TRUE]]
      BY <1>5 DEF LockFails, DataType
    <2>2. UNCHANGED <<file, mutex, saved, spoiled>> /\ at' = [at EXCEPT ![g] = "done"] /\ Fault
      BY <1>5 DEF LockFails, Go
    <2> QED BY <1>4, <2>1, <2>2 DEF Spots, DataType
  <1>6. ASSUME NEW g \in Goroutines, Return(g) PROVE DataType' /\ LeftType'
    <2>1. UNCHANGED <<file, mutex, saved, spoiled, left>> /\ at' = [at EXCEPT ![g] = "idle"]
          /\ call' = [call EXCEPT ![g] = NoCall]
      BY <1>6 DEF Return, Go
    <2>2. DataType'
      BY <2>1, NoCallType DEF DataType, Spots
    <2> QED BY <1>U, <2>1, <2>2
  <1>7. ASSUME NEW g \in Goroutines, ReadByte(g) PROVE DataType' /\ LeftType'
    <2> DEFINE b == Append(call[g].buf, file[Len(call[g].buf) + 1])
               c == [call[g] EXCEPT !.buf = b]
    <2>1. Len(call[g].buf) < Len(file) /\ call[g].buf \in Seq(Byte) /\ file \in Seq(Byte)
      BY <1>0, <1>7, CallsAre DEF ReadByte, DataType
    <2>2. b \in Seq(Byte)
      BY <2>1
    <2>3. c \in Calls
      BY <1>0, <2>2, CallsChange
    <2>4. /\ UNCHANGED <<file, mutex, saved, spoiled, left>> /\ at' = [at EXCEPT ![g] = "read"]
          /\ call' = [call EXCEPT ![g] = c]
      BY <1>7 DEF ReadByte, Stay, Go, DataType
    <2> HIDE DEF c
    <2>5. DataType'
      BY <2>3, <2>4, DataSame DEF DataType, Spots
    <2> QED BY <1>U, <2>4, <2>5
  <1>8. ASSUME NEW g \in Goroutines, ReadEnds(g) PROVE DataType' /\ LeftType'
    <2>1. /\ UNCHANGED <<file, mutex, saved, spoiled, left, call>>
          /\ at' = [at EXCEPT ![g] = "done"] \/ at' = [at EXCEPT ![g] = "transform"]
      BY <1>8 DEF ReadEnds, Leave, Stay, Go
    <2> QED BY <1>4, <2>1 DEF Spots, DataType
  <1>9. ASSUME NEW g \in Goroutines, GiveUp(g) PROVE DataType' /\ LeftType'
    <2>1. /\ UNCHANGED <<file, mutex, saved, spoiled>> /\ Fault
          /\ at' = [at EXCEPT ![g] = "done"] /\ call' = [call EXCEPT ![g] = [call[g] EXCEPT !.err = TRUE]]
      BY <1>9 DEF GiveUp, Leave, Go, DataType
    <2> QED BY <1>4, <2>1 DEF Spots, DataType
  <1>10. ASSUME NEW g \in Goroutines, Truncate(g) PROVE DataType' /\ LeftType'
    <2>1. /\ file' = <<>> /\ UNCHANGED <<mutex, saved, spoiled, left, call>> /\ at' = [at EXCEPT ![g] = "copy"]
      BY <1>10 DEF Truncate, Stay, Go
    <2>2. DataType'
      BY <2>1, ContentsAre DEF DataType, Spots
    <2> QED BY <1>U, <2>1, <2>2
  <1>11. ASSUME NEW g \in Goroutines, Transform(g) PROVE DataType' /\ LeftType'
    <2> DEFINE old == call[g].buf
    <2>1. PICK t \in {t \in Transforms : old \in DOMAIN t} :
            LET grows == Len(t[old]) > Len(old) IN
            /\ call' = [call EXCEPT ![g].new = t[old], ![g].off = IF grows THEN Len(old) ELSE 0]
            /\ Stay(g, IF grows THEN "tail" ELSE "head")
      BY <1>11 DEF Transform
    <2> DEFINE n == IF Len(t[old]) > Len(old) THEN Len(old) ELSE 0
               spot == IF Len(t[old]) > Len(old) THEN "tail" ELSE "head"
               c == [call[g] EXCEPT !.new = t[old], !.off = n]
    <2>2. call' = [call EXCEPT ![g] = c] /\ UNCHANGED <<file, mutex, saved, spoiled, left>>
          /\ at' = [at EXCEPT ![g] = spot]
      BY <1>11, <2>1 DEF Transform, Stay, Go, DataType
    <2>3. t[old] \in Contents /\ Len(old) \in Nat
      BY <1>0, <2>1, ContentsAre, CallsAre
    <2>4. n \in Nat /\ spot \in Spots
      BY <2>3 DEF Spots
    <2>5. c \in Calls
      BY <1>0, <2>3, <2>4, CallsChange
    <2> HIDE DEF c, n, spot
    <2>6. DataType'
      BY <2>2, <2>4, <2>5, DataSame DEF DataType
    <2> QED BY <1>U, <2>2, <2>6
  <1>12. ASSUME NEW g \in Goroutines, WriteByte(g) PROVE DataType' /\ LeftType'
    <2> DEFINE n == call[g].off + 1
    <2>1. call[g].off \in Nat /\ call[g].new \in Seq(Byte) /\ call[g].buf \in Seq(Byte) /\ file \in Seq(Byte)
      BY <1>0, CallsAre DEF DataType
    <2>2. at[g] \in {"copy", "tail", "head", "rollback"} /\ n <= Limit(g)
      BY <1>12 DEF WriteByte, Writing, In
    <2>3. Source(g) \in Seq(Byte) /\ Limit(g) <= Len(Source(g))
      <3>1. CASE at[g] = "rollback"
        BY <2>1, <3>1 DEF Source, Limit
      <3>2. CASE at[g] = "head"
        BY <2>1, <3>2 DEF Source, Limit, Least
      <3>3. CASE at[g] \in {"copy", "tail"}
        BY <2>1, <3>3 DEF Source, Limit
      <3> QED BY <2>2, <3>1, <3>2, <3>3
    <2>3a. Limit(g) \in Nat
      BY <2>1, <2>2 DEF Limit, Least
    <2>4. Source(g)[n] \in Byte /\ n \in Nat \ {0}
      BY <2>1, <2>2, <2>3, <2>3a
    <2>5. file' = [i \in 1 .. (IF n > Len(file) THEN n ELSE Len(file)) |->
                IF i = n THEN Source(g)[n] ELSE IF i <= Len(file) THEN file[i] ELSE 0]
      BY <1>12 DEF WriteByte
    <2> PICK b \in Byte : b = Source(g)[n]
      BY <2>4
    <2>6. file' \in Seq(Byte)
      <3>1. file' = WithByte(file, n, b)
        BY <2>5 DEF WithByte
      <3>2. n \in Nat \ {0}
        BY <2>4
      <3> HIDE DEF n
      <3> QED BY <2>1, <3>1, <3>2, ByteWritten
    <2>7. /\ call' = [call EXCEPT ![g] = [call[g] EXCEPT !.off = n]]
          /\ UNCHANGED <<mutex, saved, spoiled, left>> /\ at' = [at EXCEPT ![g] = at[g]]
      BY <1>12 DEF WriteByte, Stay, Go, DataType
    <2>8. [call[g] EXCEPT !.off = n] \in Calls
      BY <1>0, <2>4, CallsChange
    <2> HIDE DEF n
    <2>9. DataType'
      BY <2>6, <2>7, <2>8 DEF DataType
    <2> QED BY <1>U, <2>7, <2>9
  <1>13. ASSUME NEW g \in Goroutines, Written(g) PROVE DataType' /\ LeftType'
    <2>1. /\ UNCHANGED <<file, mutex, saved, spoiled, left>>
          /\ \E spot \in {"head", "shrink", "cut", "done"} : at' = [at EXCEPT ![g] = spot]
          /\ call' = call \/ call' = [call EXCEPT ![g] = [call[g] EXCEPT !.off = 0]]
      BY <1>13 DEF Written, Leave, Stay, Go, DataType
    <2> QED BY <1>4, <2>1 DEF Spots, DataType
  <1>14. ASSUME NEW g \in Goroutines, WriteFails(g) PROVE DataType' /\ LeftType'
    <2>1. /\ UNCHANGED <<file, mutex, saved>> /\ Fault
          /\ \E spot \in {"rollback", "cut", "done"} : at' = [at EXCEPT ![g] = spot]
          /\ spoiled' = spoiled \/ spoiled' = TRUE
      BY <1>14 DEF WriteFails, Writing, In, Leave, Stay, Go
    <2>2. call' = [call EXCEPT ![g] = [call[g] EXCEPT !.err = TRUE, !.off = 0]]
      BY <1>14 DEF WriteFails, DataType
    <2> QED BY <1>4, <2>1, <2>2 DEF Spots, DataType
  <1>15. ASSUME NEW g \in Goroutines, Shrink(g) \/ Cut(g) PROVE DataType' /\ LeftType'
    <2>1. file' = Prefix(Len(call[g].new)) \/ file' = Prefix(Len(call[g].buf))
      BY <1>15 DEF Shrink, Cut
    <2>2. UNCHANGED <<mutex, saved, spoiled, left, call>> /\ at' = [at EXCEPT ![g] = "done"]
      BY <1>15 DEF Shrink, Cut, Leave, Go
    <2>3. file' \in Seq(Byte)
      BY <1>0, <2>1, CallsAre, PrefixType DEF DataType
    <2>4. DataType'
      BY <2>2, <2>3 DEF DataType, Spots
    <2> QED BY <1>U, <2>2, <2>4
  <1>16. ASSUME NEW g \in Goroutines, ShrinkFails(g) PROVE DataType' /\ LeftType'
    <2>1. UNCHANGED <<file, mutex, saved, spoiled>> /\ Fault /\ at' = [at EXCEPT ![g] = "rollback"]
      BY <1>16 DEF ShrinkFails, Stay, Go
    <2>2. call' = [call EXCEPT ![g] = [call[g] EXCEPT !.err = TRUE, !.off = 0]]
      BY <1>16 DEF ShrinkFails, DataType
    <2> QED BY <1>4, <2>1, <2>2 DEF Spots, DataType
  <1>17. ASSUME NEW g \in Goroutines, CutFails(g) PROVE DataType' /\ LeftType'
    <2>1. UNCHANGED <<file, mutex, saved, call>> /\ Fault /\ at' = [at EXCEPT ![g] = "done"] /\ spoiled' = TRUE
      BY <1>17 DEF CutFails, Leave, Go
    <2> QED BY <1>4, <2>1 DEF Spots
  <1>18. ASSUME NEW g \in Goroutines, MutexLock(g) \/ MutexUnlock(g) PROVE DataType' /\ LeftType'
    <2>1. /\ UNCHANGED <<file, saved, spoiled, left, call>>
          /\ at' = [at EXCEPT ![g] = "critical"] \/ at' = [at EXCEPT ![g] = "done"]
          /\ mutex' = [mutex EXCEPT ![Home(g)] = g] \/ mutex' = [mutex EXCEPT ![Home(g)] = None]
      BY <1>18 DEF MutexLock, MutexUnlock, Go
    <2>2. DataType'
      BY <2>1 DEF DataType, Spots
    <2> QED BY <1>U, <2>1, <2>2
  <1>19. ASSUME NEW p \in Processes, Die(p) PROVE DataType' /\ LeftType'
    <2> DEFINE mine == {g \in Goroutines : Home(g) = p}
    <2>1. /\ UNCHANGED <<file, saved, spoiled>> /\ mutex' = [mutex EXCEPT ![p] = None]
          /\ at' = [g \in Goroutines |-> IF g \in mine THEN "idle" ELSE at[g]]
          /\ call' = [g \in Goroutines |-> IF g \in mine THEN NoCall ELSE call[g]]
          /\ left.crashes > 0 /\ left' = [left EXCEPT !.crashes = @ - 1]
      BY <1>19 DEF Die
    <2>2. LeftType'
      BY <2>1, LeftKept
    <2> HIDE DEF mine
    <2>3. DataType'
      BY <2>1, NoCallType DEF DataType, Spots
    <2> QED BY <2>2, <2>3
  <1> QED BY <1>2, <1>3, <1>5, <1>6, <1>7, <1>8, <1>9, <1>10, <1>11, <1>12, <1>13, <1>14, <1>15, <1>16,
             <1>17, <1>18, <1>19 DEF Next, Step, Fails

-----------------------------------------------------------------------------
(* The lock and the function of a goroutine are in step                    *)

\* A step of g leaves the others alone, but for the first in the queue.
Apartly(g) ==
  \A h \in Goroutines \ {g} :
    /\ at'[h] = at[h] /\ call'[h] = call[h] /\ mode'[h] = mode[h]
    /\ pc'[h] = pc[h] \/ (pc[h] = "send" /\ pc'[h] = "setlk")

\* Only g has to be looked at.
LEMMA PhaseStep ==
  ASSUME PhaseInv, NEW g \in Goroutines, Apartly(g), Fits(pc[g], mode[g], at[g], call[g])'
  PROVE  PhaseInv'
  <1>1. ASSUME NEW h \in Goroutines \ {g} PROVE Fits(pc[h], mode[h], at[h], call[h])'
    <2>1. /\ Fits(pc[h], mode[h], at[h], call[h])
          /\ at'[h] = at[h] /\ call'[h] = call[h] /\ mode'[h] = mode[h]
          /\ pc'[h] = pc[h] \/ (pc[h] = "send" /\ pc'[h] = "setlk")
      BY DEF PhaseInv, Apartly
    <2>2. CASE pc'[h] = pc[h]
      BY <2>1, <2>2 DEF Fits
    <2>3. CASE pc[h] = "send" /\ pc'[h] = "setlk"
      BY <2>1, <2>3 DEF Fits
    <2> QED BY <2>1, <2>2, <2>3
  <1> QED BY <1>1 DEF PhaseInv

\* All variables but the budget.
Typed == LockTypeOK /\ DataType

\* What opening a file does, from the point of view of the goroutines.
LEMMA BeginDoes ==
  ASSUME Typed, NEW g \in Goroutines, NEW c \in Calls, NEW m \in Modes, NEW spot \in Spots, Begin(g, c, m, spot)
  PROVE  /\ pc[g] = "idle" /\ Apartly(g)
         /\ pc'[g] = "ask" /\ mode'[g] = m /\ at'[g] = spot /\ call'[g] = c
         /\ UNCHANGED <<file, saved, spoiled>>
  BY DEF Typed, Begin, Lock, Move, Go, Apartly, LockTypeOK, DataType

\* What unlocking does.
LEMMA LeaveDoes ==
  ASSUME Typed, NEW g \in Goroutines, NEW c \in Calls,
         Unlock(g), Go(g, "done"),
         (call' = call /\ c = call[g]) \/ call' = [call EXCEPT ![g] = c]
  PROVE  /\ pc[g] = "locked" /\ Apartly(g)
         /\ pc'[g] \in {"unlk", "panic"} /\ mode'[g] = mode[g] /\ at'[g] = "done" /\ call'[g] = c
  BY DEF Typed, Unlock, Inside, Move, Go, Apartly, LockTypeOK, DataType

\* What a step that keeps the lock does.
LEMMA StayDoes ==
  ASSUME Typed, NEW g \in Goroutines, NEW c \in Calls, NEW spot \in Spots,
         UNCHANGED <<pc, mode>>, Go(g, spot),
         (call' = call /\ c = call[g]) \/ call' = [call EXCEPT ![g] = c]
  PROVE  /\ Apartly(g)
         /\ pc'[g] = pc[g] /\ mode'[g] = mode[g] /\ at'[g] = spot /\ call'[g] = c
  BY DEF Typed, Go, Apartly, LockTypeOK, DataType

\* What a step of the lock alone does.
LEMMA LockingDoes ==
  ASSUME Typed, QueuesAtHome, NEW g \in Goroutines, Locking(g)
  PROVE  /\ Apartly(g) /\ mode'[g] = mode[g] /\ at'[g] = at[g] /\ call'[g] = call[g]
         /\ \/ LetIn(g) /\ pc[g] = "setlk" /\ pc'[g] = "locked"
            \/ /\ UNCHANGED fileVars
               /\ \/ pc[g] = "ask" /\ pc'[g] \in {"setlk", "send"}
                  \/ pc[g] \in {"unlk", "handover"} /\ pc'[g] \in {"handover", "unlocked"}
  <1>1. CASE LetIn(g)
    BY <1>1 DEF Typed, LetIn, Setlk, Move, Apartly, LockTypeOK, DataType
  <1>2. CASE Ask(g) /\ UNCHANGED fileVars
    <2>1. /\ pc[g] = "ask" /\ UNCHANGED <<mode, at, call>>
          /\ pc' = [pc EXCEPT ![g] = "setlk"] \/ pc' = [pc EXCEPT ![g] = "send"]
      BY <1>2 DEF Ask, Move, fileVars
    <2> QED BY <1>2, <2>1 DEF Typed, Apartly, LockTypeOK, DataType
  <1>3. CASE Unlk(g) /\ UNCHANGED fileVars
    <2>1. /\ pc[g] = "unlk" /\ UNCHANGED <<mode, at, call>>
          /\ pc' = [pc EXCEPT ![g] = "handover"] \/ pc' = [pc EXCEPT ![g] = "unlocked"]
      BY <1>3 DEF Unlk, Move, fileVars
    <2> QED BY <1>3, <2>1 DEF Typed, Apartly, LockTypeOK, DataType
  <1>4. CASE Handover(g) /\ UNCHANGED fileVars
    <2>1. UNCHANGED <<mode, at, call>> /\ pc[g] = "handover" /\ pc \in [Goroutines -> Places]
      BY <1>4 DEF Handover, fileVars, Typed, LockTypeOK
    <2>2. CASE pc' = [pc EXCEPT ![g] = "unlocked"]
      BY <1>4, <2>1, <2>2 DEF Apartly
    <2>3. ASSUME NEW h \in Goroutines, pc[h] = "send", pc' = [pc EXCEPT ![g] = "unlocked", ![h] = "setlk"]
          PROVE  Apartly(g) /\ pc'[g] = "unlocked"
      BY <2>1, <2>3 DEF Apartly
    <2>4. \/ pc' = [pc EXCEPT ![g] = "unlocked"]
          \/ \E h \in Goroutines : pc[h] = "send" /\ pc' = [pc EXCEPT ![g] = "unlocked", ![h] = "setlk"]
      <3>1. Home(g) \in Processes /\ queue[Home(g)] \in Seq(Goroutines)
        BY HomeType DEF Typed, LockTypeOK
      <3>2. CASE queue[Home(g)] = <<>>
        BY <1>4, <3>2 DEF Handover, Move
      <3>3. CASE queue[Home(g)] # <<>>
        <4>1. Head(queue[Home(g)]) \in Goroutines
          BY <3>1, <3>3
        <4> QED BY <1>4, <3>3, <4>1 DEF Handover
      <3> QED BY <3>2, <3>3
    <2> QED BY <1>4, <2>1, <2>2, <2>3, <2>4
  <1> QED BY <1>1, <1>2, <1>3, <1>4 DEF Locking

\* The records of a call as its steps change them.
LEMMA CallFields ==
  ASSUME NEW c \in Calls
  PROVE  /\ \A b : LET d == [c EXCEPT !.buf = b] IN
              d.op = c.op /\ d.buf = b /\ d.new = c.new /\ d.off = c.off /\ d.err = c.err
         /\ \A s, n : LET d == [c EXCEPT !.new = s, !.off = n] IN
              d.op = c.op /\ d.buf = c.buf /\ d.new = s /\ d.off = n /\ d.err = c.err
         /\ \A n : LET d == [c EXCEPT !.off = n] IN
              d.op = c.op /\ d.buf = c.buf /\ d.new = c.new /\ d.off = n /\ d.err = c.err
         /\ \A e : LET d == [c EXCEPT !.err = e] IN
              d.op = c.op /\ d.buf = c.buf /\ d.new = c.new /\ d.off = c.off /\ d.err = e
         /\ \A e, n : LET d == [c EXCEPT !.err = e, !.off = n] IN
              d.op = c.op /\ d.buf = c.buf /\ d.new = c.new /\ d.off = n /\ d.err = e
  BY DEF Calls

\* Every step keeps the lock and the function of a goroutine in step.
LEMMA PhaseKept ==
  ASSUME Typed, DataType', QueuesAtHome, PhaseInv, Next
  PROVE  PhaseInv'
  <1>0. \A g \in Goroutines : call[g] \in Calls /\ Fits(pc[g], mode[g], at[g], call[g])
    BY DEF Typed, DataType, PhaseInv
  <1>00. call \in [Goroutines -> Calls]
    BY DEF Typed, DataType
  <1>L. ASSUME NEW g \in Goroutines, NEW c \in Calls,
               Unlock(g), Go(g, "done"),
         (call' = call /\ c = call[g]) \/ call' = [call EXCEPT ![g] = c]
        PROVE  PhaseInv'
    <2>1. /\ Apartly(g) /\ pc'[g] \in {"unlk", "panic"} /\ at'[g] = "done"
      BY <1>L, LeaveDoes
    <2>2. Fits(pc[g], mode[g], at[g], call[g])'
      BY <2>1 DEF Fits
    <2> QED BY <2>1, <2>2, PhaseStep
  <1>S. ASSUME NEW g \in Goroutines, NEW c \in Calls, NEW spot \in Spots,
               UNCHANGED <<pc, mode>>, Go(g, spot),
         (call' = call /\ c = call[g]) \/ call' = [call EXCEPT ![g] = c],
               Fits(pc[g], mode[g], spot, c)
        PROVE  PhaseInv'
    <2>1. /\ Apartly(g) /\ pc'[g] = pc[g] /\ mode'[g] = mode[g] /\ at'[g] = spot /\ call'[g] = c
      BY <1>S, StayDoes
    <2>2. Fits(pc[g], mode[g], at[g], call[g])'
      BY <2>1, <1>S DEF Fits
    <2> QED BY <2>1, <2>2, PhaseStep
  <1>1. ASSUME NEW g \in Goroutines, NEW c \in Calls, NEW m \in Modes, NEW spot \in {"read", "truncate", "mutex"},
               Begin(g, c, m, spot), c.buf = <<>>, c.off = 0, c.err = FALSE,
               m = IF c.op = "read" THEN "read" ELSE "write",
               \/ spot = "read" /\ c.op \in {"read", "transform"}
               \/ spot = "truncate" /\ c.op = "write"
               \/ spot = "mutex" /\ c.op = "mutex"
        PROVE  PhaseInv'
    <2>1. Apartly(g) /\ pc'[g] = "ask" /\ mode'[g] = m /\ at'[g] = spot /\ call'[g] = c
      BY <1>1, BeginDoes DEF Spots
    <2>2. Fits(pc[g], mode[g], at[g], call[g])'
      BY <2>1, <1>1 DEF Fits
    <2> QED BY <2>1, <2>2, PhaseStep
  <1>2. ASSUME NEW g \in Goroutines, BeginRead(g) \/ BeginTransform(g) \/ BeginMutex(g)
        PROVE  PhaseInv'
    <2>1. ASSUME NEW o \in {"read", "transform", "mutex"}
          PROVE  LET c == [NoCall EXCEPT !.op = o] IN
                   c \in Calls /\ c.op = o /\ c.buf = <<>> /\ c.off = 0 /\ c.err = FALSE
      BY <2>1, NoCallType DEF NoCall, Calls
    <2>2. CASE BeginRead(g)
      BY <1>1, <2>1, <2>2 DEF BeginRead, Modes
    <2>3. CASE BeginTransform(g)
      BY <1>1, <2>1, <2>3 DEF BeginTransform, Modes
    <2>4. CASE BeginMutex(g)
      BY <1>1, <2>1, <2>4 DEF BeginMutex, Modes
    <2> QED BY <1>2, <2>2, <2>3, <2>4
  <1>3. ASSUME NEW g \in Goroutines, NEW s \in Inputs, BeginWrite(g, s)
        PROVE  PhaseInv'
    <2> DEFINE c == [NoCall EXCEPT !.op = "write", !.new = s]
    <2>1. s \in Contents
      BY LockedFileAssumption
    <2>2. c \in Calls /\ c.op = "write" /\ c.buf = <<>> /\ c.off = 0 /\ c.err = FALSE
      BY <2>1, NoCallType DEF NoCall, Calls
    <2> QED BY <1>1, <1>3, <2>2 DEF BeginWrite, Modes
  <1>4. ASSUME NEW g \in Goroutines, Locking(g) PROVE PhaseInv'
    <2>1. /\ Apartly(g) /\ mode'[g] = mode[g] /\ at'[g] = at[g] /\ call'[g] = call[g]
          /\ \/ pc[g] = "setlk" /\ pc'[g] = "locked"
             \/ pc[g] = "ask" /\ pc'[g] \in {"setlk", "send"}
             \/ pc[g] \in {"unlk", "handover"} /\ pc'[g] \in {"handover", "unlocked"}
      BY <1>4, LockingDoes
    <2>2. Fits(pc[g], mode[g], at[g], call[g])'
      BY <2>1, <1>0 DEF Fits
    <2> QED BY <2>1, <2>2, PhaseStep
  <1>5. ASSUME NEW g \in Goroutines, LockFails(g) PROVE PhaseInv'
    <2>1. Apartly(g) /\ pc'[g] \in {"unlk", "unlocked"} /\ at'[g] = "done"
      BY <1>5, <1>00 DEF LockFails, StatFails, SetlkFails, Move, Go, Apartly, Typed, LockTypeOK, DataType
    <2>2. Fits(pc[g], mode[g], at[g], call[g])'
      BY <2>1 DEF Fits
    <2> QED BY <2>1, <2>2, PhaseStep
  <1>6. ASSUME NEW g \in Goroutines, Return(g) PROVE PhaseInv'
    <2>1. Apartly(g) /\ pc'[g] = "idle" /\ at'[g] = "idle" /\ call'[g] = NoCall
      BY <1>6, <1>00 DEF Return, Close, Move, Go, Apartly, Typed, LockTypeOK, DataType
    <2>2. Fits(pc[g], mode[g], at[g], call[g])'
      BY <2>1 DEF Fits
    <2> QED BY <2>1, <2>2, PhaseStep
  <1>I. ASSUME NEW g \in Goroutines, Inside(g)
        PROVE  pc[g] = "locked" /\ Fits("locked", mode[g], at[g], call[g]) /\ at[g] \notin {"idle", "done"}
    BY <1>0, <1>I DEF Inside, Fits
  <1>7. ASSUME NEW g \in Goroutines, ReadByte(g) PROVE PhaseInv'
    <2> DEFINE b == Append(call[g].buf, file[Len(call[g].buf) + 1])
               c == [call[g] EXCEPT !.buf = b]
    <2>1. Inside(g) /\ at[g] = "read" /\ UNCHANGED <<pc, mode>> /\ Go(g, "read") /\ call' = [call EXCEPT ![g] = c]
      BY <1>7, <1>00 DEF ReadByte, Stay, lockVars, In
    <2>2. call'[g] = c /\ c \in Calls
      BY <2>1, <1>00 DEF DataType
    <2>3. c.op = call[g].op /\ c.err = call[g].err
      BY <1>0, CallFields
    <2> HIDE DEF c
    <2>4. Fits("locked", mode[g], "read", c)
      BY <2>1, <2>3, <1>I DEF Fits
    <2> QED BY <2>1, <2>2, <2>4, <1>I, <1>S DEF Spots
  <1>8. ASSUME NEW g \in Goroutines, ReadEnds(g) PROVE PhaseInv'
    <2>1. Inside(g) /\ at[g] = "read" /\ call' = call
      BY <1>8 DEF ReadEnds, In
    <2>2. CASE call[g].op = "read"
      BY <1>0, <1>8, <2>1, <2>2, <1>L DEF ReadEnds, Leave
    <2>3. CASE call[g].op # "read"
      <3>1. UNCHANGED <<pc, mode>> /\ Go(g, "transform")
        BY <1>8, <2>3 DEF ReadEnds, Stay, lockVars
      <3>2. Fits("locked", mode[g], "transform", call[g])
        BY <2>1, <2>3, <1>I DEF Fits
      <3> QED BY <1>0, <2>1, <3>1, <3>2, <1>I, <1>S DEF Spots
    <2> QED BY <2>2, <2>3
  <1>9. ASSUME NEW g \in Goroutines, GiveUp(g) PROVE PhaseInv'
    <2> DEFINE c == [call[g] EXCEPT !.err = TRUE]
    <2>1. c \in Calls
      BY <1>0, CallsChange
    <2>2. Unlock(g) /\ Go(g, "done") /\ call' = [call EXCEPT ![g] = c]
      BY <1>9, <1>00 DEF GiveUp, Leave
    <2> QED BY <2>1, <2>2, <1>L
  <1>10. ASSUME NEW g \in Goroutines, Truncate(g) PROVE PhaseInv'
    <2>1. Inside(g) /\ at[g] = "truncate" /\ UNCHANGED <<pc, mode, call>> /\ Go(g, "copy")
      BY <1>10 DEF Truncate, Stay, lockVars, In
    <2>2. Fits("locked", mode[g], "copy", call[g])
      BY <2>1, <1>I DEF Fits
    <2> QED BY <1>0, <2>1, <2>2, <1>I, <1>S DEF Spots
  <1>11. ASSUME NEW g \in Goroutines, Transform(g) PROVE PhaseInv'
    <2>1. PICK spot \in {"tail", "head"}, s \in Contents, n \in Nat :
            call' = [call EXCEPT ![g].new = s, ![g].off = n] /\ Stay(g, spot)
      <3>1. PICK t \in {t \in Transforms : call[g].buf \in DOMAIN t} :
              LET grows == Len(t[call[g].buf]) > Len(call[g].buf) IN
              /\ call' = [call EXCEPT ![g].new = t[call[g].buf],
                                      ![g].off = IF grows THEN Len(call[g].buf) ELSE 0]
              /\ Stay(g, IF grows THEN "tail" ELSE "head")
        BY <1>11 DEF Transform
      <3>2. t[call[g].buf] \in Contents /\ Len(call[g].buf) \in Nat
        BY <1>0, <3>1, ContentsAre, CallsAre
      <3>3. CASE Len(t[call[g].buf]) > Len(call[g].buf)
        BY <3>1, <3>2, <3>3
      <3>4. CASE ~(Len(t[call[g].buf]) > Len(call[g].buf))
        BY <3>1, <3>2, <3>4
      <3> QED BY <3>3, <3>4
    <2> DEFINE c == [call[g] EXCEPT !.new = s, !.off = n]
    <2>2. /\ Inside(g) /\ at[g] = "transform" /\ UNCHANGED <<pc, mode>> /\ Go(g, spot)
          /\ call' = [call EXCEPT ![g] = c]
      BY <1>11, <2>1, <1>00 DEF Transform, Stay, lockVars, In
    <2>3. c \in Calls /\ c.op = call[g].op /\ c.err = call[g].err
      <3>1. c \in Calls
        BY <1>0, CallsChange
      <3>2. c.op = call[g].op /\ c.err = call[g].err
        BY <1>0, CallFields
      <3> QED BY <3>1, <3>2
    <2> HIDE DEF c
    <2>4. Fits("locked", mode[g], spot, c)
      BY <2>2, <2>3, <1>I DEF Fits
    <2> QED BY <2>2, <2>3, <2>4, <1>I, <1>S DEF Spots
  <1>12. ASSUME NEW g \in Goroutines, WriteByte(g) PROVE PhaseInv'
    <2> DEFINE c == [call[g] EXCEPT !.off = call[g].off + 1]
    <2>1. /\ Inside(g) /\ at[g] \in {"copy", "tail", "head", "rollback"} /\ UNCHANGED <<pc, mode>>
          /\ Go(g, at[g]) /\ call' = [call EXCEPT ![g] = c]
      BY <1>12, <1>00 DEF WriteByte, Writing, Stay, lockVars, In
    <2>2. c \in Calls /\ c.op = call[g].op /\ c.err = call[g].err
      <3>1. call[g].off + 1 \in Nat
        BY <1>0, CallsAre
      <3>2. c \in Calls
        BY <1>0, <3>1, CallsChange
      <3>3. c.op = call[g].op /\ c.err = call[g].err
        BY <1>0, CallFields
      <3> QED BY <3>2, <3>3
    <2> HIDE DEF c
    <2>3. Fits("locked", mode[g], at[g], c)
      BY <2>1, <2>2, <1>I DEF Fits
    <2> QED BY <2>1, <2>2, <2>3, <1>I, <1>S DEF Spots
  <1>13. ASSUME NEW g \in Goroutines, Written(g) PROVE PhaseInv'
    <2>1. Inside(g) /\ at[g] \in {"copy", "tail", "head", "rollback"}
      BY <1>13 DEF Written, Writing, In
    <2>2. CASE at[g] = "tail"
      <3> DEFINE c == [call[g] EXCEPT !.off = 0]
      <3>1. UNCHANGED <<pc, mode>> /\ Go(g, "head") /\ call' = [call EXCEPT ![g] = c]
        BY <1>13, <2>2, <1>00 DEF Written, Stay, lockVars
      <3>2. c \in Calls /\ c.op = call[g].op /\ c.err = call[g].err
        <4>1. c \in Calls
          BY <1>0, CallsChange
        <4>2. c.op = call[g].op /\ c.err = call[g].err
          BY <1>0, CallFields
        <4> QED BY <4>1, <4>2
      <3> HIDE DEF c
      <3>3. Fits("locked", mode[g], "head", c)
        BY <2>1, <2>2, <3>2, <1>I DEF Fits
      <3> QED BY <2>1, <3>1, <3>2, <3>3, <1>I, <1>S DEF Spots
    <2>3. ASSUME NEW spot \in {"shrink", "cut"}, Stay(g, spot), call' = call,
                 spot = "shrink" => at[g] = "head", spot = "cut" => at[g] = "rollback"
          PROVE  PhaseInv'
      <3>1. UNCHANGED <<pc, mode>> /\ Go(g, spot)
        BY <2>3 DEF Stay, lockVars
      <3>2. Fits("locked", mode[g], spot, call[g])
        BY <2>1, <2>3, <1>I DEF Fits
      <3> QED BY <1>0, <2>1, <2>3, <3>1, <3>2, <1>I, <1>S DEF Spots
    <2>4. CASE Leave(g) /\ UNCHANGED call
      BY <1>0, <2>4, <1>L DEF Leave
    <2>5. \/ at[g] = "tail" \/ (Leave(g) /\ UNCHANGED call)
          \/ (at[g] = "head" /\ Stay(g, "shrink") /\ UNCHANGED call)
          \/ (at[g] = "rollback" /\ Stay(g, "cut") /\ UNCHANGED call)
      BY <1>13 DEF Written
    <2> QED BY <2>2, <2>3, <2>4, <2>5
  <1>14. ASSUME NEW g \in Goroutines, WriteFails(g) \/ ShrinkFails(g) PROVE PhaseInv'
    <2> DEFINE c == [call[g] EXCEPT !.err = TRUE, !.off = 0]
    <2>1. Inside(g) /\ at[g] \in {"copy", "tail", "head", "rollback", "shrink"}
      BY <1>14 DEF WriteFails, ShrinkFails, Writing, In
    <2>2. call' = [call EXCEPT ![g] = c]
      BY <1>14, <1>00 DEF WriteFails, ShrinkFails
    <2>3. c \in Calls /\ c.op = call[g].op /\ c.err = TRUE
      <3>1. c \in Calls
        BY <1>0, CallsChange
      <3>2. c.op = call[g].op /\ c.err = TRUE
        BY <1>0, CallFields
      <3> QED BY <3>1, <3>2
    <2>4. \/ Leave(g) \/ (at[g] = "tail" /\ Stay(g, "cut")) \/ (at[g] \in {"head", "shrink"} /\ Stay(g, "rollback"))
      BY <1>14 DEF WriteFails, ShrinkFails, Writing, In
    <2> HIDE DEF c
    <2>5. CASE Leave(g)
      BY <2>2, <2>3, <2>5, <1>L DEF Leave
    <2>6. ASSUME NEW spot \in {"cut", "rollback"}, Stay(g, spot), at[g] \in {"tail", "head", "shrink"}
          PROVE  PhaseInv'
      <3>1. UNCHANGED <<pc, mode>> /\ Go(g, spot)
        BY <2>6 DEF Stay, lockVars
      <3>2. Fits("locked", mode[g], spot, c)
        BY <2>1, <2>3, <2>6, <1>I DEF Fits
      <3> QED BY <2>1, <2>2, <2>3, <3>1, <3>2, <1>I, <1>S DEF Spots
    <2> QED BY <2>4, <2>5, <2>6
  <1>15. ASSUME NEW g \in Goroutines, Shrink(g) \/ Cut(g) \/ CutFails(g) \/ MutexUnlock(g) PROVE PhaseInv'
    <2>1. Unlock(g) /\ Go(g, "done") /\ call' = call
      BY <1>15 DEF Shrink, Cut, CutFails, MutexUnlock, Leave
    <2> QED BY <1>0, <2>1, <1>L
  <1>16. ASSUME NEW g \in Goroutines, MutexLock(g) PROVE PhaseInv'
    <2>1. Inside(g) /\ at[g] = "mutex" /\ UNCHANGED <<pc, mode, call>> /\ Go(g, "critical")
      BY <1>16 DEF MutexLock, lockVars, In
    <2>2. Fits("locked", mode[g], "critical", call[g])
      BY <2>1, <1>I DEF Fits
    <2> QED BY <1>0, <2>1, <2>2, <1>I, <1>S DEF Spots
  <1>17. ASSUME NEW p \in Processes, Die(p) PROVE PhaseInv'
    <2> DEFINE mine == {g \in Goroutines : Home(g) = p}
    <2>1. /\ at' = [g \in Goroutines |-> IF g \in mine THEN "idle" ELSE at[g]]
          /\ call' = [g \in Goroutines |-> IF g \in mine THEN NoCall ELSE call[g]]
          /\ pc' = [g \in Goroutines |-> IF g \in mine THEN "idle" ELSE pc[g]]
          /\ mode' = [g \in Goroutines |-> IF g \in mine THEN "none" ELSE mode[g]]
      BY <1>17 DEF Die, Crash
    <2> HIDE DEF mine
    <2>2. ASSUME NEW g \in Goroutines PROVE Fits(pc[g], mode[g], at[g], call[g])'
      <3>1. CASE g \in mine
        BY <2>1, <3>1 DEF Fits
      <3>2. CASE g \notin mine
        BY <2>1, <3>2, <1>0 DEF Fits
      <3> QED BY <3>1, <3>2
    <2> QED BY <2>2 DEF PhaseInv
  <1> QED BY <1>2, <1>3, <1>4, <1>5, <1>6, <1>7, <1>8, <1>9, <1>10, <1>11, <1>12, <1>13, <1>14, <1>15, <1>16,
             <1>17 DEF Next, Step, Fails

-----------------------------------------------------------------------------
(* What is in the file                                                     *)

\* The first n bytes of two sequences are the same.
Agree(s, t, n) == \A i \in 1 .. n : s[i] = t[i]

\* What a writer has done to the file since it was let in.
Edited(spot, c) ==
  CASE spot = "truncate" -> file = saved /\ c.off = 0
    [] spot \in {"mutex", "critical"} -> file = saved
    [] spot = "copy" -> c.off <= Len(c.new) /\ Len(file) = c.off /\ Agree(file, c.new, c.off)
    [] spot = "read" -> file = saved
    [] spot = "transform" -> file = saved /\ c.buf = saved
    [] spot = "tail" ->
         /\ c.off \in Len(c.buf) .. Len(c.new) /\ Len(file) = c.off
         /\ Agree(file, c.buf, Len(c.buf))
         /\ \A i \in Len(c.buf) + 1 .. c.off : file[i] = c.new[i]
    [] spot = "head" ->
         /\ c.off <= Len(c.buf) /\ c.off <= Len(c.new)
         /\ Len(file) >= Len(c.buf) /\ Len(file) >= Len(c.new)
         /\ Len(file) = Len(c.buf) \/ Len(file) = Len(c.new)
         /\ Agree(file, c.new, c.off)
         /\ \A i \in Len(c.buf) + 1 .. Len(c.new) : file[i] = c.new[i]
    [] spot = "shrink" ->
         Len(c.new) < Len(c.buf) /\ Len(file) = Len(c.buf) /\ Agree(file, c.new, Len(c.new))
    [] spot = "rollback" ->
         c.off <= Len(c.buf) /\ Len(file) >= Len(c.buf) /\ Agree(file, c.buf, c.off)
    [] spot = "cut" -> Len(file) >= Len(c.buf) /\ Agree(file, c.buf, Len(c.buf))
    [] OTHER -> FALSE

\* A Transform has read all of the file, and goes by what it read.
Planned(spot, c) ==
  /\ spot \in {"transform", "tail", "head", "shrink", "rollback", "cut"} => c.buf = saved
  /\ spot \in {"tail", "head", "shrink"} => \E t \in Transforms : c.new = t[saved]

\* Until something was spoiled, who is inside with a writer is that writer, and those
\* who read have read what is there.
ContentInv ==
  ~spoiled =>
    /\ \A g, h \in Goroutines : g # h /\ Inside(g) /\ Inside(h) => ~Conflict(mode[g], mode[h])
    /\ \A g \in Goroutines : Updating(g) => Edited(at[g], call[g]) /\ Planned(at[g], call[g])
    /\ \A g \in Goroutines : In(g, "read") =>
         Len(call[g].buf) <= Len(file) /\ Agree(call[g].buf, file, Len(call[g].buf))

\* Until something was spoiled, a writer inside is alone.
LEMMA SoleWriter ==
  ASSUME PhaseInv, ContentInv, ~spoiled, NEW g \in Goroutines, Updating(g)
  PROVE  \A h \in Goroutines \ {g} : ~Inside(h)
  <1> SUFFICES ASSUME NEW h \in Goroutines \ {g}, Inside(h) PROVE FALSE
    OBVIOUS
  <1>1. Fits(pc[h], mode[h], at[h], call[h])
    BY DEF PhaseInv
  <1>2. mode[h] \in {"read", "write"}
    BY <1>1 DEF Fits, Inside
  <1>3. Conflict(mode[g], mode[h])
    BY <1>2 DEF Conflict, Updating
  <1> QED BY <1>3 DEF ContentInv, Updating

\* What a step of g must keep, when it lets nobody in.
LEMMA ContentStep ==
  ASSUME PhaseInv, ContentInv, ~spoiled, NEW g \in Goroutines, Apartly(g),
         pc'[g] = "locked" => pc[g] = "locked" /\ mode'[g] = mode[g],
         Updating(g) \/ file' = file,
         saved' = saved,
         pc'[g] = "locked" /\ mode'[g] = "write" => (Edited(at[g], call[g]) /\ Planned(at[g], call[g]))',
         pc'[g] = "locked" /\ at'[g] = "read" =>
           Len(call'[g].buf) <= Len(file') /\ Agree(call'[g].buf, file', Len(call'[g].buf))
  PROVE  ContentInv'
  <1>1. ASSUME NEW h \in Goroutines, Inside(h)' PROVE Inside(h) /\ mode'[h] = mode[h]
    BY <1>1 DEF Inside, Apartly
  <1>2. ASSUME NEW h \in Goroutines \ {g}, Inside(h)'
        PROVE  /\ Inside(h) /\ mode'[h] = mode[h] /\ at'[h] = at[h] /\ call'[h] = call[h]
               /\ file' = file
    BY <1>1, <1>2, SoleWriter DEF Apartly
  <1>3. \A h, k \in Goroutines : h # k /\ Inside(h)' /\ Inside(k)' => ~Conflict(mode'[h], mode'[k])
    BY <1>1 DEF ContentInv
  <1>4. ASSUME NEW h \in Goroutines, Updating(h)' PROVE (Edited(at[h], call[h]) /\ Planned(at[h], call[h]))'
    <2>1. CASE h = g
      BY <1>4, <2>1 DEF Updating, Inside
    <2>2. CASE h # g
      <3>1. /\ Updating(h) /\ file' = file /\ saved' = saved /\ at'[h] = at[h] /\ call'[h] = call[h]
        BY <1>2, <1>4, <2>2 DEF Updating
      <3>2. Edited(at[h], call[h]) /\ Planned(at[h], call[h])
        BY <3>1 DEF ContentInv
      <3> QED BY <3>1, <3>2 DEF Edited, Planned, Agree
    <2> QED BY <2>1, <2>2
  <1>5. ASSUME NEW h \in Goroutines, In(h, "read")'
        PROVE  Len(call'[h].buf) <= Len(file') /\ Agree(call'[h].buf, file', Len(call'[h].buf))
    <2>1. CASE h = g
      BY <1>5, <2>1 DEF In, Inside
    <2>2. CASE h # g
      <3>1. In(h, "read") /\ file' = file /\ call'[h] = call[h]
        BY <1>2, <1>5, <2>2 DEF In
      <3> QED BY <3>1 DEF ContentInv
    <2> QED BY <2>1, <2>2
  <1> QED BY <1>3, <1>4, <1>5 DEF ContentInv, Agree

\* A goroutine is let in.
LEMMA ContentLetIn ==
  ASSUME Typed, PhaseInv, ContentInv, ~spoiled', NEW g \in Goroutines, LetIn(g), Apartly(g)
  PROVE  ContentInv' /\ \A h \in Goroutines : ~Updating(h)
  <1>1. ~spoiled /\ \A h \in Goroutines : Inside(h) => ~Conflict(mode[g], mode[h])
    BY DEF LetIn
  <1>2. pc[g] = "setlk" /\ pc'[g] = "locked" /\ UNCHANGED <<file, mode, at, call>>
    BY DEF LetIn, Setlk, Move, Typed, LockTypeOK
  <1>3. Fits("setlk", mode[g], at[g], call[g])
    BY <1>2 DEF PhaseInv
  <1>4. mode[g] \in {"read", "write"} /\ at[g] \in {"read", "truncate", "mutex"}
        /\ call[g].buf = <<>> /\ call[g].off = 0
    BY <1>3 DEF Fits
  <1>5. ASSUME NEW h \in Goroutines, Inside(h) PROVE h # g /\ mode[h] = "read" /\ mode[g] = "read"
    <2>1. Fits(pc[h], mode[h], at[h], call[h])
      BY DEF PhaseInv
    <2>2. mode[h] \in {"read", "write"}
      BY <1>5, <2>1 DEF Fits, Inside
    <2> QED BY <1>1, <1>2, <1>4, <1>5, <2>2 DEF Conflict, Inside
  <1>6. \A h \in Goroutines \ {g} : Inside(h)' => Inside(h)
    BY DEF Apartly, Inside
  <1>7. \A h, k \in Goroutines : h # k /\ Inside(h)' /\ Inside(k)' => ~Conflict(mode'[h], mode'[k])
    <2> SUFFICES ASSUME NEW h \in Goroutines, NEW k \in Goroutines, h # k, Inside(h)', Inside(k)'
                 PROVE  ~Conflict(mode[h], mode[k])
      BY <1>2
    <2>1. mode[h] = "read" /\ mode[k] = "read"
      BY <1>5, <1>6
    <2> QED BY <2>1 DEF Conflict
  <1>8. ASSUME NEW h \in Goroutines, Updating(h)' PROVE (Edited(at[h], call[h]) /\ Planned(at[h], call[h]))'
    <2>1. h = g /\ mode[g] = "write"
      BY <1>2, <1>5, <1>6, <1>8 DEF Updating
    <2>2. saved' = file'
      BY <1>2, <2>1 DEF LetIn
    <2> QED BY <1>2, <1>4, <2>1, <2>2 DEF Edited, Planned
  <1>9. ASSUME NEW h \in Goroutines, In(h, "read")'
        PROVE  Len(call'[h].buf) <= Len(file') /\ Agree(call'[h].buf, file', Len(call'[h].buf))
    <2>1. CASE h = g
      BY <1>2, <1>4, <2>1 DEF Agree, Typed, DataType
    <2>2. CASE h # g
      BY <1>1, <1>2, <1>6, <1>9, <2>2 DEF In, ContentInv
    <2> QED BY <2>1, <2>2
  <1>10. \A h \in Goroutines : ~Updating(h)
    BY <1>5 DEF Updating
  <1> QED BY <1>7, <1>8, <1>9, <1>10 DEF ContentInv, Agree

\* Two contents that agree are the same.
LEMMA SameContents ==
  ASSUME NEW s \in Seq(Byte), NEW t \in Seq(Byte), Len(s) = Len(t), Agree(s, t, Len(s))
  PROVE  s = t
  BY DEF Agree

\* A step of one inside with the lock that keeps it.
LEMMA ContentStay ==
  ASSUME Typed, PhaseInv, ContentInv, ~spoiled, NEW g \in Goroutines, NEW c \in Calls, NEW spot \in Spots,
         Inside(g), UNCHANGED <<pc, mode, saved>>, Go(g, spot),
         (call' = call /\ c = call[g]) \/ call' = [call EXCEPT ![g] = c],
         Updating(g) \/ file' = file,
         mode[g] = "write" => Edited(spot, c)' /\ Planned(spot, c),
         spot = "read" => Len(c.buf) <= Len(file') /\ Agree(c.buf, file', Len(c.buf))
  PROVE  ContentInv'
  <1>1. /\ Apartly(g) /\ pc'[g] = pc[g] /\ mode'[g] = mode[g] /\ at'[g] = spot /\ call'[g] = c
    BY StayDoes
  <1>2. mode'[g] = "write" => (Edited(at[g], call[g]) /\ Planned(at[g], call[g]))'
    <2>1. ASSUME mode'[g] = "write" PROVE (Edited(at[g], call[g]) /\ Planned(at[g], call[g]))'
      <3>1. Edited(spot, c)' /\ Planned(spot, c)
        BY <1>1, <2>1
      <3> QED BY <1>1, <3>1 DEF Edited, Planned, Agree
    <2> QED BY <2>1
  <1>3. at'[g] = "read" => Len(call'[g].buf) <= Len(file') /\ Agree(call'[g].buf, file', Len(call'[g].buf))
    BY <1>1
  <1> QED BY <1>1, <1>2, <1>3, ContentStep DEF Inside

\* A step of one that is not inside after it.
LEMMA ContentOut ==
  ASSUME PhaseInv, ContentInv, ~spoiled, NEW g \in Goroutines, Apartly(g),
         pc'[g] # "locked", Updating(g) \/ file' = file, saved' = saved
  PROVE  ContentInv'
  BY ContentStep

\* What is said of the byte written, of the file.
LEMMA ByteAdded ==
  ASSUME file \in Seq(Byte), NEW n \in Nat \ {0}, NEW b \in Byte, file' = WithByte(file, n, b)
  PROVE  /\ Len(file') = IF n > Len(file) THEN n ELSE Len(file)
         /\ file'[n] = b /\ \A i \in 1 .. Len(file) : i # n => file'[i] = file[i]
  BY ByteWritten, ZenonT(30)

\* A byte written brings the file nearer to what it is to become.
LEMMA EditedByte ==
  ASSUME file \in Seq(Byte), NEW c \in Calls, NEW d \in Calls, NEW b \in Byte,
         NEW n \in Nat, n = c.off + 1, d.buf = c.buf, d.new = c.new, d.off = n,
         file' = WithByte(file, n, b),
         NEW spot \in {"copy", "tail", "head", "rollback"}, Edited(spot, c),
         spot \in {"copy", "tail"} => n <= Len(c.new),
         spot = "head" => n <= Len(c.new) /\ n <= Len(c.buf),
         spot = "rollback" => n <= Len(c.buf),
         b = IF spot = "rollback" THEN c.buf[n] ELSE c.new[n]
  PROVE  Edited(spot, d)'
  <1>1. /\ c.off \in Nat /\ Len(c.buf) \in Nat /\ Len(c.new) \in Nat /\ n \in Nat \ {0} /\ Len(file) \in Nat
    BY CallsAre
  <1>2. /\ Len(file') = IF n > Len(file) THEN n ELSE Len(file)
        /\ file'[n] = b /\ \A i \in 1 .. Len(file) : i # n => file'[i] = file[i]
    BY <1>1, ByteAdded
  <1>3. CASE spot = "copy"
    <2>1. Len(file) = c.off /\ Agree(file, c.new, c.off)
      BY <1>3 DEF Edited
    <2>2. Len(file') = n
      BY <1>1, <1>2, <2>1
    <2>3. ASSUME NEW i \in 1 .. n PROVE file'[i] = c.new[i]
      <3>1. CASE i = n
        BY <1>2, <1>3, <3>1
      <3>2. CASE i # n
        <4>1. i \in 1 .. Len(file) /\ i \in 1 .. c.off
          BY <1>1, <2>1, <3>2
        <4> QED BY <1>2, <2>1, <3>2, <4>1 DEF Agree
      <3> QED BY <3>1, <3>2
    <2> QED BY <1>3, <2>2, <2>3 DEF Edited, Agree
  <1>4. CASE spot = "tail"
    <2>1. /\ c.off \in Len(c.buf) .. Len(c.new) /\ Len(file) = c.off
          /\ Agree(file, c.buf, Len(c.buf))
          /\ \A i \in Len(c.buf) + 1 .. c.off : file[i] = c.new[i]
      BY <1>4 DEF Edited
    <2>2. Len(file') = n /\ n \in Len(c.buf) .. Len(c.new) /\ Agree(file', c.buf, Len(c.buf))
      BY <1>1, <1>2, <1>4, <2>1 DEF Agree
    <2>3. ASSUME NEW i \in Len(c.buf) + 1 .. n PROVE file'[i] = c.new[i]
      <3>1. CASE i = n
        BY <1>2, <1>4, <3>1
      <3>2. CASE i # n
        <4>1. i \in 1 .. Len(file) /\ i \in Len(c.buf) + 1 .. c.off
          BY <1>1, <2>1, <3>2
        <4> QED BY <1>2, <2>1, <3>2, <4>1
      <3> QED BY <3>1, <3>2
    <2> QED BY <1>4, <2>2, <2>3 DEF Edited, Agree
  <1>5. CASE spot = "head"
    <2>1. /\ Len(file) >= Len(c.buf) /\ Len(file) >= Len(c.new)
          /\ Len(file) = Len(c.buf) \/ Len(file) = Len(c.new)
          /\ Agree(file, c.new, c.off)
          /\ \A i \in Len(c.buf) + 1 .. Len(c.new) : file[i] = c.new[i]
      BY <1>5 DEF Edited
    <2>2. Len(file') = Len(file) /\ n <= Len(c.buf) /\ n <= Len(c.new)
      BY <1>1, <1>2, <1>5, <2>1
    <2>3. ASSUME NEW i \in 1 .. n PROVE file'[i] = c.new[i]
      <3>1. CASE i = n
        BY <1>2, <1>5, <3>1
      <3>2. CASE i # n
        <4>1. i \in 1 .. Len(file) /\ i \in 1 .. c.off
          BY <1>1, <2>1, <2>2, <3>2
        <4> QED BY <1>2, <2>1, <3>2, <4>1 DEF Agree
      <3> QED BY <3>1, <3>2
    <2>4. \A i \in Len(c.buf) + 1 .. Len(c.new) : file'[i] = c.new[i]
      BY <1>1, <1>2, <2>1, <2>2
    <2> QED BY <1>5, <2>1, <2>2, <2>3, <2>4 DEF Edited, Agree
  <1>6. CASE spot = "rollback"
    <2>1. Len(file) >= Len(c.buf) /\ Agree(file, c.buf, c.off)
      BY <1>6 DEF Edited
    <2>2. Len(file') = Len(file) /\ n <= Len(c.buf)
      BY <1>1, <1>2, <1>6, <2>1
    <2>3. ASSUME NEW i \in 1 .. n PROVE file'[i] = c.buf[i]
      <3>1. CASE i = n
        BY <1>2, <1>6, <3>1
      <3>2. CASE i # n
        <4>1. i \in 1 .. Len(file) /\ i \in 1 .. c.off
          BY <1>1, <2>1, <2>2, <3>2
        <4> QED BY <1>2, <2>1, <3>2, <4>1 DEF Agree
      <3> QED BY <3>1, <3>2
    <2> QED BY <1>6, <2>1, <2>2, <2>3 DEF Edited, Agree
  <1> QED BY <1>3, <1>4, <1>5, <1>6

\* What is spoiled stays so.
LEMMA SpoiledStays == Next => (spoiled => spoiled')
  <1> SUFFICES ASSUME Next, spoiled PROVE spoiled'
    OBVIOUS
  <1>1. ASSUME NEW g \in Goroutines, BeginRead(g) \/ BeginTransform(g) \/ BeginMutex(g)
                 \/ (\E s \in Inputs : BeginWrite(g, s))
        PROVE  spoiled'
    BY <1>1 DEF BeginRead, BeginTransform, BeginMutex, BeginWrite, Begin
  <1>2. ASSUME NEW g \in Goroutines, Step(g) PROVE spoiled'
    BY <1>2 DEF Step, Locking, LetIn, fileVars, Return, ReadByte, ReadEnds, Truncate, Transform, WriteByte,
                Written, Shrink, Cut, MutexLock, MutexUnlock, Stay
  <1>3. ASSUME NEW g \in Goroutines, Fails(g) PROVE spoiled'
    BY <1>3 DEF Fails, LockFails, GiveUp, WriteFails, ShrinkFails, CutFails, Writing, In, Stay
  <1>4. ASSUME NEW p \in Processes, Die(p) PROVE spoiled'
    BY <1>4 DEF Die
  <1> QED BY <1>1, <1>2, <1>3, <1>4 DEF Next

\* Who is inside and past reading, or makes a Transform, is the writer.
LEMMA Writers ==
  ASSUME PhaseInv, ContentInv, ~spoiled, NEW g \in Goroutines, Inside(g), at[g] # "read" \/ call[g].op # "read"
  PROVE  Updating(g) /\ Edited(at[g], call[g]) /\ Planned(at[g], call[g])
  <1>1. Fits("locked", mode[g], at[g], call[g])
    BY DEF PhaseInv, Inside
  <1>2. mode[g] = "write"
    BY <1>1 DEF Fits
  <1> QED BY <1>2 DEF Updating, ContentInv

\* Every step keeps what is said of the contents.
LEMMA ContentKept ==
  ASSUME Typed, DataType', QueuesAtHome, PhaseInv, ContentInv, Next
  PROVE  ContentInv'
  <1> SUFFICES ASSUME ~spoiled' PROVE ContentInv'
    BY DEF ContentInv
  <1>0. ~spoiled
    BY SpoiledStays
  <1>00. call \in [Goroutines -> Calls] /\ at \in [Goroutines -> Spots] /\ file \in Seq(Byte) /\ saved \in Seq(Byte)
    BY DEF Typed, DataType
  <1>L. ASSUME NEW g \in Goroutines, NEW c \in Calls,
               Unlock(g), Go(g, "done"),
         (call' = call /\ c = call[g]) \/ call' = [call EXCEPT ![g] = c],
               Updating(g) \/ file' = file, saved' = saved
        PROVE  ContentInv'
    <2>1. Apartly(g) /\ pc'[g] \in {"unlk", "panic"}
      BY <1>L, LeaveDoes
    <2> QED BY <1>0, <1>L, <2>1, ContentOut
  <1>1. ASSUME NEW g \in Goroutines, NEW c \in Calls, NEW m \in Modes, NEW spot \in Spots, Begin(g, c, m, spot)
        PROVE  ContentInv'
    <2>1. Apartly(g) /\ pc'[g] = "ask" /\ UNCHANGED <<file, saved>>
      BY <1>1, BeginDoes
    <2> QED BY <1>0, <2>1, ContentOut
  <1>2. ASSUME NEW g \in Goroutines, BeginRead(g) \/ BeginTransform(g) \/ BeginMutex(g)
                 \/ (\E s \in Inputs : BeginWrite(g, s))
        PROVE  ContentInv'
    <2>1. ASSUME NEW s \in Inputs PROVE [NoCall EXCEPT !.op = "write", !.new = s] \in Calls
      <3>1. s \in Contents
        BY LockedFileAssumption
      <3> QED BY <3>1, NoCallType DEF Calls
    <2>2. /\ [NoCall EXCEPT !.op = "read"] \in Calls /\ [NoCall EXCEPT !.op = "transform"] \in Calls
          /\ [NoCall EXCEPT !.op = "mutex"] \in Calls
      BY NoCallType DEF Calls
    <2> QED BY <1>1, <1>2, <2>1, <2>2 DEF BeginRead, BeginTransform, BeginMutex, BeginWrite, Spots, Modes
  <1>3. ASSUME NEW g \in Goroutines, Locking(g) PROVE ContentInv'
    <2>1. /\ Apartly(g)
          /\ LetIn(g) \/ (UNCHANGED fileVars /\ pc'[g] # "locked")
      BY <1>3, LockingDoes
    <2>2. CASE LetIn(g)
      BY <2>1, <2>2, ContentLetIn
    <2>3. CASE UNCHANGED fileVars /\ pc'[g] # "locked"
      BY <1>0, <2>1, <2>3, ContentOut DEF fileVars
    <2> QED BY <2>1, <2>2, <2>3
  <1>4. ASSUME NEW g \in Goroutines, LockFails(g) PROVE ContentInv'
    <2>1. Apartly(g) /\ pc'[g] \in {"unlk", "unlocked"} /\ UNCHANGED <<file, saved>>
      BY <1>4, <1>00 DEF LockFails, StatFails, SetlkFails, Move, Go, Apartly, Typed, LockTypeOK
    <2> QED BY <1>0, <2>1, ContentOut
  <1>5. ASSUME NEW g \in Goroutines, Return(g) PROVE ContentInv'
    <2>1. Apartly(g) /\ pc'[g] = "idle" /\ UNCHANGED <<file, saved>>
      BY <1>5, <1>00 DEF Return, Close, Move, Go, Apartly, Typed, LockTypeOK
    <2> QED BY <1>0, <2>1, ContentOut
  <1>6. ASSUME NEW g \in Goroutines, ReadByte(g) PROVE ContentInv'
    <2> PICK old \in Seq(Byte) : old = call[g].buf
      BY <1>00, CallsAre
    <2> DEFINE b == Append(old, file[Len(old) + 1])
    <2>1. /\ In(g, "read") /\ Len(old) < Len(file) /\ UNCHANGED <<pc, mode, saved, file>> /\ Go(g, "read")
          /\ call' = [call EXCEPT ![g].buf = b]
      BY <1>6 DEF ReadByte, Stay, lockVars
    <2>2. Len(old) <= Len(file) /\ Agree(old, file, Len(old))
      BY <1>0, <2>1 DEF ContentInv
    <2>3. b \in Seq(Byte) /\ Len(b) <= Len(file) /\ Agree(b, file, Len(b))
      BY <1>00, <2>1, <2>2 DEF Agree
    <2> HIDE DEF b
    <2> PICK c \in Calls : c = [call[g] EXCEPT !.buf = b]
      BY <1>00, <2>3, CallsChange
    <2>4. c.buf = b /\ c.off = call[g].off
      BY <1>00, CallFields
    <2>5. call' = [call EXCEPT ![g] = c]
      BY <1>00, <2>1
    <2>6. ASSUME mode[g] = "write" PROVE Edited("read", c)' /\ Planned("read", c)
      <3>1. Edited("read", call[g])
        BY <1>0, <2>1, <2>6 DEF ContentInv, Updating, In
      <3>2. file' = saved'
        BY <2>1, <3>1 DEF Edited
      <3> QED BY <3>2 DEF Edited, Planned
    <2>7. Len(c.buf) <= Len(file') /\ Agree(c.buf, file', Len(c.buf))
      BY <2>1, <2>3, <2>4
    <2> QED BY <1>0, <2>1, <2>5, <2>6, <2>7, ContentStay DEF In, Spots
  <1>7. ASSUME NEW g \in Goroutines, ReadEnds(g) PROVE ContentInv'
    <2> PICK c \in Calls : c = call[g]
      BY <1>00
    <2>1. In(g, "read") /\ Len(c.buf) >= Len(file) /\ UNCHANGED <<file, call>>
      BY <1>7 DEF ReadEnds
    <2>2. CASE c.op = "read"
      BY <1>7, <2>1, <2>2, <1>L DEF ReadEnds, Leave
    <2>3. CASE c.op # "read"
      <3>1. UNCHANGED <<pc, mode, saved>> /\ Go(g, "transform")
        BY <1>7, <2>3 DEF ReadEnds, Stay, lockVars
      <3>2. Updating(g) /\ Edited("read", call[g])
        BY <1>0, <2>1, <2>3, Writers DEF In
      <3>3. Len(c.buf) <= Len(file) /\ Agree(c.buf, file, Len(c.buf))
        BY <1>0, <2>1 DEF ContentInv
      <3>4. c.buf = file
        BY <1>00, <2>1, <3>3, SameContents, CallsAre
      <3>5. c.buf = saved /\ file = saved
        BY <3>2, <3>4 DEF Edited
      <3>6. Edited("transform", c)' /\ Planned("transform", c)
        BY <2>1, <3>1, <3>5 DEF Edited, Planned
      <3> QED BY <1>0, <2>1, <3>1, <3>6, ContentStay DEF In, Spots
    <2> QED BY <2>2, <2>3
  <1>8. ASSUME NEW g \in Goroutines, GiveUp(g) PROVE ContentInv'
    <2>1. [call[g] EXCEPT !.err = TRUE] \in Calls
      BY <1>00, CallsChange
    <2>2. /\ Unlock(g) /\ Go(g, "done") /\ call' = [call EXCEPT ![g] = [call[g] EXCEPT !.err = TRUE]]
          /\ UNCHANGED <<file, saved>>
      BY <1>8, <1>00 DEF GiveUp, Leave
    <2> QED BY <2>1, <2>2, <1>L
  <1>9. ASSUME NEW g \in Goroutines, Truncate(g) PROVE ContentInv'
    <2> PICK c \in Calls : c = call[g]
      BY <1>00
    <2>1. /\ In(g, "truncate") /\ file' = <<>> /\ UNCHANGED <<pc, mode, saved, call>> /\ Go(g, "copy")
      BY <1>9 DEF Truncate, Stay, lockVars
    <2>2. Updating(g) /\ Edited("truncate", c)
      BY <1>0, <2>1, Writers DEF In
    <2>3. c.off = 0 /\ Len(c.new) \in Nat /\ Len(file') = 0
      BY <2>1, <2>2, CallsAre DEF Edited
    <2>4. Edited("copy", c)' /\ Planned("copy", c)
      BY <2>3 DEF Edited, Planned, Agree
    <2> QED BY <1>0, <2>1, <2>2, <2>4, ContentStay DEF In, Spots
  <1>10. ASSUME NEW g \in Goroutines, Transform(g) PROVE ContentInv'
    <2> PICK c \in Calls : c = call[g]
      BY <1>00
    <2> PICK t \in Transforms :
          /\ c.buf \in DOMAIN t
          /\ LET grows == Len(t[c.buf]) > Len(c.buf) IN
             /\ call' = [call EXCEPT ![g].new = t[c.buf], ![g].off = IF grows THEN Len(c.buf) ELSE 0]
             /\ Stay(g, IF grows THEN "tail" ELSE "head")
      BY <1>10 DEF Transform
    <2>1. In(g, "transform") /\ UNCHANGED file
      BY <1>10 DEF Transform
    <2>2. Updating(g) /\ Edited("transform", c)
      BY <1>0, <2>1, Writers DEF In
    <2>3. file = saved /\ c.buf = saved
      BY <2>2 DEF Edited
    <2> DEFINE s == t[c.buf]
               n == IF Len(s) > Len(c.buf) THEN Len(c.buf) ELSE 0
               spot == IF Len(s) > Len(c.buf) THEN "tail" ELSE "head"
    <2>4. s \in Contents /\ Len(c.buf) \in Nat /\ Len(s) \in Nat
      BY ContentsAre, CallsAre
    <2>5. /\ n \in Nat /\ UNCHANGED <<pc, mode, saved>> /\ Go(g, spot)
          /\ call' = [call EXCEPT ![g].new = s, ![g].off = n]
      BY <2>4 DEF Stay, lockVars
    <2> PICK d \in Calls : d = [c EXCEPT !.new = s, !.off = n]
      BY <2>4, <2>5, CallsChange
    <2>6. call' = [call EXCEPT ![g] = d]
      BY <1>00, <2>5
    <2>7. d.buf = c.buf /\ d.new = s /\ d.off = n
      BY CallFields
    <2>8. Edited(spot, d)'
      <3>1. file' = c.buf
        BY <2>1, <2>3
      <3>2. CASE Len(s) > Len(c.buf)
        BY <2>4, <2>7, <3>1, <3>2 DEF Edited, Agree
      <3>3. CASE ~(Len(s) > Len(c.buf))
        BY <2>4, <2>7, <3>1, <3>3 DEF Edited, Agree
      <3> QED BY <3>2, <3>3
    <2>9. Planned(spot, d)
      BY <2>3, <2>7 DEF Planned
    <2> QED BY <1>0, <2>1, <2>2, <2>5, <2>6, <2>8, <2>9, ContentStay DEF In, Spots
  <1>11. ASSUME NEW g \in Goroutines, WriteByte(g) PROVE ContentInv'
    <2> PICK c \in Calls : c = call[g]
      BY <1>00
    <2> PICK spot \in {"copy", "tail", "head", "rollback"} : spot = at[g] /\ Inside(g)
      BY <1>11 DEF WriteByte, Writing, In
    <2> PICK n \in Nat : n = c.off + 1
      BY CallsAre
    <2>1. Updating(g) /\ Edited(spot, c) /\ Planned(spot, c)
      BY <1>0, Writers
    <2>2. n <= Limit(g)
      BY <1>11 DEF WriteByte
    <2>3. /\ spot \in {"copy", "tail"} => n <= Len(c.new)
          /\ spot = "head" => n <= Len(c.new) /\ n <= Len(c.buf)
          /\ spot = "rollback" => n <= Len(c.buf)
      <3>1. Len(c.buf) \in Nat /\ Len(c.new) \in Nat
        BY CallsAre
      <3>2. CASE spot \in {"copy", "tail"}
        BY <2>2, <3>2 DEF Limit
      <3>3. CASE spot = "head"
        BY <2>2, <3>1, <3>3 DEF Limit, Least
      <3>4. CASE spot = "rollback"
        BY <2>2, <3>4 DEF Limit
      <3> QED BY <3>2, <3>3, <3>4
    <2>4. Source(g) = IF spot = "rollback" THEN c.buf ELSE c.new
      BY DEF Source
    <2>5. n \in Nat \ {0} /\ Source(g)[n] \in Byte
      <3>1. c.buf \in Seq(Byte) /\ c.new \in Seq(Byte) /\ c.off \in Nat
        BY CallsAre
      <3> QED BY <2>3, <2>4, <3>1
    <2> PICK b \in Byte : b = Source(g)[n]
      BY <2>5
    <2>6. file' = WithByte(file, n, b)
      BY <1>11 DEF WriteByte, WithByte
    <2> PICK d \in Calls : d = [c EXCEPT !.off = n]
      BY CallsChange
    <2>7. d.buf = c.buf /\ d.new = c.new /\ d.off = n
      BY CallFields
    <2>8. UNCHANGED <<pc, mode, saved>> /\ Go(g, spot) /\ call' = [call EXCEPT ![g] = d]
      BY <1>11, <1>00 DEF WriteByte, Stay, lockVars
    <2>9. b = IF spot = "rollback" THEN c.buf[n] ELSE c.new[n]
      BY <2>4
    <2>10. Edited(spot, d)'
      BY <1>00, <2>1, <2>3, <2>6, <2>7, <2>9, EditedByte, ZenonT(30)
    <2>11. Planned(spot, d)
      BY <2>1, <2>7 DEF Planned
    <2> QED BY <1>0, <2>1, <2>8, <2>10, <2>11, ContentStay DEF Spots
  <1>12. ASSUME NEW g \in Goroutines, Written(g) PROVE ContentInv'
    <2> PICK c \in Calls : c = call[g]
      BY <1>00
    <2> PICK spot \in {"copy", "tail", "head", "rollback"} : spot = at[g] /\ Inside(g)
      BY <1>12 DEF Written, Writing, In
    <2>1. Updating(g) /\ Edited(spot, c) /\ Planned(spot, c)
      BY <1>0, Writers
    <2>2. c.off = Limit(g) /\ UNCHANGED file
      BY <1>12 DEF Written
    <2>3. Len(c.buf) \in Nat /\ Len(c.new) \in Nat /\ c.off \in Nat
      BY CallsAre
    <2>4. CASE spot = "tail"
      <3> PICK d \in Calls : d = [c EXCEPT !.off = 0]
        BY CallsChange
      <3>1. d.buf = c.buf /\ d.new = c.new /\ d.off = 0
        BY CallFields
      <3>2. UNCHANGED <<pc, mode, saved>> /\ Go(g, "head") /\ call' = [call EXCEPT ![g] = d]
        BY <1>12, <2>4, <1>00 DEF Written, Stay, lockVars
      <3>3. c.off = Len(c.new)
        BY <2>2, <2>4 DEF Limit
      <3>4. Edited("head", d)'
        BY <2>1, <2>2, <2>3, <2>4, <3>1, <3>3 DEF Edited, Agree
      <3>5. Planned("head", d)
        BY <2>1, <2>4, <3>1 DEF Planned
      <3> QED BY <1>0, <2>1, <3>2, <3>4, <3>5, ContentStay DEF Spots
    <2>5. CASE spot = "head" /\ Len(c.new) < Len(c.buf)
      <3>1. UNCHANGED <<pc, mode, saved, call>> /\ Go(g, "shrink")
        BY <1>12, <2>5 DEF Written, Stay, lockVars
      <3>2. c.off = Len(c.new)
        BY <2>2, <2>3, <2>5 DEF Limit, Least
      <3>3. Edited("shrink", c)'
        BY <2>1, <2>2, <2>3, <2>5, <3>2 DEF Edited, Agree
      <3>4. Planned("shrink", c)
        BY <2>1, <2>5 DEF Planned
      <3> QED BY <1>0, <2>1, <3>1, <3>3, <3>4, ContentStay DEF Spots
    <2>6. CASE spot = "rollback"
      <3>1. UNCHANGED <<pc, mode, saved, call>> /\ Go(g, "cut")
        BY <1>12, <2>6 DEF Written, Stay, lockVars
      <3>2. c.off = Len(c.buf)
        BY <2>2, <2>6 DEF Limit
      <3>3. Edited("cut", c)'
        BY <2>1, <2>2, <2>3, <2>6, <3>2 DEF Edited, Agree
      <3>4. Planned("cut", c)
        BY <2>1, <2>6 DEF Planned
      <3> QED BY <1>0, <2>1, <3>1, <3>3, <3>4, ContentStay DEF Spots
    <2>7. CASE Leave(g) /\ UNCHANGED call
      BY <2>2, <2>7, <1>L DEF Leave
    <2> QED BY <1>12, <2>4, <2>5, <2>6, <2>7 DEF Written
  <1>13. ASSUME NEW g \in Goroutines, WriteFails(g) \/ ShrinkFails(g) PROVE ContentInv'
    <2> PICK c \in Calls : c = call[g]
      BY <1>00
    <2> PICK spot \in {"copy", "tail", "head", "rollback", "shrink"} : spot = at[g] /\ Inside(g)
      BY <1>13 DEF WriteFails, ShrinkFails, Writing, In
    <2>1. Updating(g) /\ Edited(spot, c) /\ Planned(spot, c)
      BY <1>0, Writers
    <2>2. Len(c.buf) \in Nat /\ Len(c.new) \in Nat /\ c.off \in Nat
      BY CallsAre
    <2> PICK d \in Calls : d = [c EXCEPT !.err = TRUE, !.off = 0]
      BY CallsChange
    <2>3. d.buf = c.buf /\ d.new = c.new /\ d.off = 0
      BY CallFields
    <2>4. UNCHANGED file /\ call' = [call EXCEPT ![g] = d]
      BY <1>13, <1>00 DEF WriteFails, ShrinkFails
    <2>5. \/ Leave(g) \/ (spot = "tail" /\ Stay(g, "cut")) \/ (spot \in {"head", "shrink"} /\ Stay(g, "rollback"))
      BY <1>13 DEF WriteFails, ShrinkFails, Writing, In
    <2>6. CASE Leave(g)
      BY <2>4, <2>6, <1>L DEF Leave
    <2>7. CASE spot = "tail" /\ Stay(g, "cut")
      <3>1. UNCHANGED <<pc, mode, saved>> /\ Go(g, "cut")
        BY <2>7 DEF Stay, lockVars
      <3>2. Edited("cut", d)'
        BY <2>1, <2>2, <2>3, <2>4, <2>7 DEF Edited, Agree
      <3>3. Planned("cut", d)
        BY <2>1, <2>3, <2>7 DEF Planned
      <3> QED BY <1>0, <2>1, <2>4, <3>1, <3>2, <3>3, ContentStay DEF Spots
    <2>8. CASE spot \in {"head", "shrink"} /\ Stay(g, "rollback")
      <3>1. UNCHANGED <<pc, mode, saved>> /\ Go(g, "rollback")
        BY <2>8 DEF Stay, lockVars
      <3>2. Len(file) >= Len(c.buf)
        <4>1. CASE spot = "head"
          BY <2>1, <4>1 DEF Edited
        <4>2. CASE spot = "shrink"
          BY <2>1, <2>2, <4>2 DEF Edited
        <4> QED BY <2>8, <4>1, <4>2
      <3>3. Edited("rollback", d)'
        BY <2>2, <2>3, <2>4, <3>2 DEF Edited, Agree
      <3>4. Planned("rollback", d)
        BY <2>1, <2>3, <2>8 DEF Planned
      <3> QED BY <1>0, <2>1, <2>4, <3>1, <3>3, <3>4, ContentStay DEF Spots
    <2> QED BY <2>5, <2>6, <2>7, <2>8
  <1>14. ASSUME NEW g \in Goroutines, Shrink(g) \/ Cut(g) \/ CutFails(g) \/ MutexUnlock(g) PROVE ContentInv'
    <2>1. Inside(g) /\ at[g] \in {"shrink", "cut", "critical"}
      BY <1>14 DEF Shrink, Cut, CutFails, MutexUnlock, In
    <2>2. Updating(g)
      BY <1>0, <2>1, Writers
    <2>3. Unlock(g) /\ Go(g, "done") /\ UNCHANGED <<call, saved>>
      BY <1>14 DEF Shrink, Cut, CutFails, MutexUnlock, Leave
    <2> QED BY <1>00, <2>2, <2>3, <1>L
  <1>15. ASSUME NEW g \in Goroutines, MutexLock(g) PROVE ContentInv'
    <2> PICK c \in Calls : c = call[g]
      BY <1>00
    <2>1. In(g, "mutex") /\ UNCHANGED <<pc, mode, call, file, saved>> /\ Go(g, "critical")
      BY <1>15 DEF MutexLock, lockVars
    <2>2. Updating(g) /\ Edited("mutex", c)
      BY <1>0, <2>1, Writers DEF In
    <2>3. Edited("critical", c)' /\ Planned("critical", c)
      BY <2>1, <2>2 DEF Edited, Planned
    <2> QED BY <1>0, <2>1, <2>2, <2>3, ContentStay DEF In, Spots
  <1>16. ASSUME NEW p \in Processes, Die(p) PROVE ContentInv'
    <2> DEFINE mine == {g \in Goroutines : Home(g) = p}
    <2>1. /\ at' = [g \in Goroutines |-> IF g \in mine THEN "idle" ELSE at[g]]
          /\ call' = [g \in Goroutines |-> IF g \in mine THEN NoCall ELSE call[g]]
          /\ pc' = [g \in Goroutines |-> IF g \in mine THEN "idle" ELSE pc[g]]
          /\ mode' = [g \in Goroutines |-> IF g \in mine THEN "none" ELSE mode[g]]
          /\ UNCHANGED <<file, saved>>
      BY <1>16 DEF Die, Crash
    <2> HIDE DEF mine
    <2>2. ASSUME NEW g \in Goroutines, Inside(g)'
          PROVE  Inside(g) /\ mode'[g] = mode[g] /\ at'[g] = at[g] /\ call'[g] = call[g]
      BY <2>1, <2>2 DEF Inside
    <2>3. \A g, h \in Goroutines : g # h /\ Inside(g)' /\ Inside(h)' => ~Conflict(mode'[g], mode'[h])
      BY <1>0, <2>2 DEF ContentInv
    <2>4. ASSUME NEW g \in Goroutines, Updating(g)' PROVE (Edited(at[g], call[g]) /\ Planned(at[g], call[g]))'
      <3>1. Updating(g) /\ at'[g] = at[g] /\ call'[g] = call[g]
        BY <2>2, <2>4 DEF Updating
      <3>2. Edited(at[g], call[g]) /\ Planned(at[g], call[g])
        BY <1>0, <3>1 DEF ContentInv
      <3> QED BY <2>1, <3>1, <3>2 DEF Edited, Planned, Agree
    <2>5. ASSUME NEW g \in Goroutines, In(g, "read")'
          PROVE  Len(call'[g].buf) <= Len(file') /\ Agree(call'[g].buf, file', Len(call'[g].buf))
      <3>1. In(g, "read") /\ call'[g] = call[g]
        BY <2>2, <2>5 DEF In
      <3> QED BY <1>0, <2>1, <3>1 DEF ContentInv
    <2> QED BY <2>3, <2>4, <2>5 DEF ContentInv, Agree
  <1> QED BY <1>2, <1>3, <1>4, <1>5, <1>6, <1>7, <1>8, <1>9, <1>10, <1>11, <1>12, <1>13, <1>14, <1>15,
             <1>16 DEF Next, Step, Fails

-----------------------------------------------------------------------------
(* The file seen from outside                                              *)

\* What a caller sees of the file, and of its call.
Value == IF \E g \in Goroutines : Updating(g) THEN saved ELSE file

\* The state of a call, from the place it is at.
StateOf(spot, c) ==
  CASE spot = "idle" -> "idle"
    [] spot = "done" -> IF c.err THEN "failed" ELSE "done"
    [] OTHER -> "busy"

States == [g \in Goroutines |-> StateOf(at[g], call[g])]
Ops == [g \in Goroutines |-> call[g].op]
\* Its argument and its result.
ArgOf(c) == IF c.op = "write" THEN c.new ELSE <<>>
Args == [g \in Goroutines |-> ArgOf(call[g])]
ResultOf(spot, c) == IF c.op = "read" /\ spot = "done" THEN c.buf ELSE <<>>
Results == [g \in Goroutines |-> ResultOf(at[g], call[g])]

\* A step that nobody sees is a stutter of AtomicFile.
LEMMA StutterIs ==
  ASSUME UNCHANGED <<Value, States, Ops, Args, Results, spoiled>>
  PROVE  UNCHANGED A!atomicVars
  BY DEF A!atomicVars, Value, States, StateOf, Ops, Args, ArgOf, Results, ResultOf

\* The actions of AtomicFile, in these terms: a call begins.
LEMMA StartIs ==
  ASSUME NEW g \in Goroutines, States[g] = "idle", States' = [States EXCEPT ![g] = "busy"],
         UNCHANGED <<Value, spoiled>>
  PROVE  A!AtomicNext
  <1>1. A!Start(g)
    BY DEF A!Start, Value, States, StateOf
  <1> QED BY <1>1 DEF A!AtomicNext

\* A call ends.
LEMMA EndIs ==
  ASSUME NEW g \in Goroutines, States[g] \in {"done", "failed"}, States' = [States EXCEPT ![g] = "idle"],
         UNCHANGED <<Value, spoiled>>
  PROVE  A!AtomicNext
  <1>1. A!End(g)
    BY DEF A!End, Value, States, StateOf
  <1> QED BY <1>1 DEF A!AtomicNext

\* It takes effect.
LEMMA SucceedIs ==
  ASSUME NEW g \in Goroutines, States[g] = "busy", States' = [States EXCEPT ![g] = "done"],
         UNCHANGED <<Ops, Args, spoiled>>,
         \/ Ops[g] = "read" /\ Results'[g] = Value /\ Value' = Value
         \/ Ops[g] = "write" /\ Value' = Args[g]
         \/ Ops[g] = "transform" /\ \E t \in Transforms : Value' = t[Value]
         \/ Ops[g] = "mutex" /\ Value' = Value
  PROVE  A!AtomicNext
  <1>1. A!Becomes(g, "done")
    BY DEF A!Becomes, States, StateOf, Ops, Args, ArgOf
  <1>2. A!Succeed(g)
    <2>1. CASE Ops[g] = "read" /\ Results'[g] = Value /\ Value' = Value
      BY <1>1, <2>1 DEF A!Succeed, Value, Ops, Results, ResultOf
    <2>2. CASE Ops[g] = "write" /\ Value' = Args[g]
      BY <1>1, <2>2 DEF A!Succeed, Value, Ops, Args, ArgOf
    <2>3. CASE Ops[g] = "transform" /\ \E t \in Transforms : Value' = t[Value]
      BY <1>1, <2>3 DEF A!Succeed, Value, Ops
    <2>4. CASE Ops[g] = "mutex" /\ Value' = Value
      BY <1>1, <2>4 DEF A!Succeed, Value, Ops
    <2> QED BY <2>1, <2>2, <2>3, <2>4
  <1> QED BY <1>2 DEF A!AtomicNext

\* It fails.
LEMMA FailIs ==
  ASSUME NEW g \in Goroutines, States[g] = "busy", States' = [States EXCEPT ![g] = "failed"],
         UNCHANGED <<Ops, Args, spoiled>>,
         \/ Value' = Value
         \/ Ops[g] = "write" /\ \E n \in 0 .. Len(Args[g]) : Value' = SubSeq(Args[g], 1, n)
  PROVE  A!AtomicNext
  <1>1. A!Becomes(g, "failed")
    BY DEF A!Becomes, States, StateOf, Ops, Args, ArgOf
  <1>2. A!Fail(g)
    <2>1. CASE Value' = Value
      BY <1>1, <2>1 DEF A!Fail, Value
    <2>2. CASE Ops[g] = "write" /\ \E n \in 0 .. Len(Args[g]) : Value' = SubSeq(Args[g], 1, n)
      BY <1>1, <2>2 DEF A!Fail, Value, Ops, Args, ArgOf
    <2> QED BY <2>1, <2>2
  <1> QED BY <1>2 DEF A!AtomicNext

\* Some die.
LEMMA DieIs ==
  ASSUME NEW mine \in SUBSET Goroutines,
         States' = [g \in Goroutines |-> IF g \in mine THEN "idle" ELSE States[g]],
         spoiled' = spoiled,
         \/ Value' = Value
         \/ \E g \in mine : States[g] = "busy" /\ Ops[g] \in {"write", "transform"}
  PROVE  A!AtomicNext
  <1>1. A!Die(mine)
    <2>1. CASE Value' = Value
      BY <2>1 DEF A!Die, Value, States, StateOf
    <2>2. CASE \E g \in mine : States[g] = "busy" /\ Ops[g] \in {"write", "transform"}
      BY <2>2 DEF A!Die, States, StateOf, Ops
    <2> QED BY <2>1, <2>2
  <1> QED BY <1>1 DEF A!AtomicNext

\* Nothing is promised of what is spoiled.
LEMMA SpoiledIs == spoiled' => A!AtomicNext
  BY DEF A!AtomicNext

\* A step of g that does not let it in or out of an update.
LEMMA SameValue ==
  ASSUME NEW g \in Goroutines, Apartly(g), Updating(g)' <=> Updating(g),
         UNCHANGED saved, Updating(g) \/ file' = file
  PROVE  Value' = Value
  <1>1. ASSUME NEW h \in Goroutines PROVE Updating(h)' <=> Updating(h)
    <2>1. CASE h = g
      BY <2>1
    <2>2. CASE h # g
      <3>1. mode'[h] = mode[h] /\ (pc'[h] = pc[h] \/ (pc[h] = "send" /\ pc'[h] = "setlk"))
        BY <2>2 DEF Apartly
      <3> QED BY <3>1 DEF Updating, Inside
    <2> QED BY <2>1, <2>2
  <1>2. (\E h \in Goroutines : Updating(h))' <=> \E h \in Goroutines : Updating(h)
    BY <1>1
  <1> QED BY <1>2 DEF Value

\* A writer goes out.
LEMMA OutValue ==
  ASSUME PhaseInv, ContentInv, ~spoiled, NEW g \in Goroutines, Apartly(g), Updating(g), pc'[g] # "locked"
  PROVE  Value = saved /\ Value' = file'
  <1>1. Value = saved
    BY DEF Value
  <1>2. ASSUME NEW h \in Goroutines PROVE ~Updating(h)'
    <2>1. CASE h = g
      BY <2>1 DEF Updating, Inside
    <2>2. CASE h # g
      <3>1. ~Inside(h)
        BY <2>2, SoleWriter
      <3>2. mode'[h] = mode[h] /\ (pc'[h] = pc[h] \/ (pc[h] = "send" /\ pc'[h] = "setlk"))
        BY <2>2 DEF Apartly
      <3> QED BY <3>1, <3>2 DEF Updating, Inside
    <2> QED BY <2>1, <2>2
  <1>3. ~(\E h \in Goroutines : Updating(h))'
    BY <1>2
  <1> QED BY <1>1, <1>3 DEF Value

\* A reader sees the file.
LEMMA ReaderValue ==
  ASSUME PhaseInv, ContentInv, ~spoiled, NEW g \in Goroutines, Inside(g), mode[g] = "read"
  PROVE  Value = file
  <1>1. ASSUME NEW h \in Goroutines PROVE ~Updating(h)
    BY SoleWriter DEF Updating
  <1> QED BY <1>1 DEF Value

\* A step of g alone changes what is seen of g.
LEMMA OneState ==
  ASSUME NEW g \in Goroutines, Apartly(g), NEW spot, NEW c, at'[g] = spot, call'[g] = c
  PROVE  /\ States' = [States EXCEPT ![g] = StateOf(spot, c)]
         /\ c.op = call[g].op => Ops' = Ops
         /\ c.op = call[g].op /\ c.new = call[g].new => Args' = Args
         /\ Results' = [Results EXCEPT ![g] = ResultOf(spot, c)]
  <1>1. \A h \in Goroutines \ {g} : at'[h] = at[h] /\ call'[h] = call[h]
    BY DEF Apartly
  <1>2. States' = [States EXCEPT ![g] = StateOf(spot, c)]
    BY <1>1 DEF States, StateOf
  <1>3. c.op = call[g].op => Ops' = Ops
    BY <1>1 DEF Ops
  <1>4. c.op = call[g].op /\ c.new = call[g].new => Args' = Args
    BY <1>1 DEF Args, ArgOf
  <1>5. Results' = [Results EXCEPT ![g] = ResultOf(spot, c)]
    BY <1>1 DEF Results, ResultOf
  <1> QED BY <1>2, <1>3, <1>4, <1>5

\* A call is done.
LEMMA DoneState ==
  ASSUME NEW g \in Goroutines, Apartly(g), NEW c \in Calls, at'[g] = "done", call'[g] = c,
         c.op = call[g].op, c.new = call[g].new
  PROVE  /\ States' = [States EXCEPT ![g] = IF c.err THEN "failed" ELSE "done"]
         /\ Ops' = Ops /\ Args' = Args
  BY OneState DEF StateOf

\* What is seen of a goroutine that is inside.
LEMMA InsideState ==
  ASSUME PhaseInv, NEW g \in Goroutines, at[g] \notin {"idle", "done"}
  PROVE  /\ States[g] = "busy" /\ Results[g] = <<>> /\ Ops[g] = call[g].op
         /\ Args[g] = IF call[g].op = "write" THEN call[g].new ELSE <<>>
  BY DEF States, StateOf, Results, ResultOf, Ops, Args, ArgOf

\* A step inside that nobody sees.
LEMMA StayRefines ==
  ASSUME Typed, PhaseInv, NEW g \in Goroutines, NEW c \in Calls, NEW spot \in Spots \ {"idle", "done"},
         Inside(g), UNCHANGED <<pc, mode, saved, spoiled>>, Go(g, spot),
         (call' = call /\ c = call[g]) \/ call' = [call EXCEPT ![g] = c],
         c.op = call[g].op, c.new = call[g].new \/ c.op # "write",
         Updating(g) \/ file' = file
  PROVE  UNCHANGED A!atomicVars
  <1>1. /\ Apartly(g) /\ pc'[g] = pc[g] /\ mode'[g] = mode[g] /\ at'[g] = spot /\ call'[g] = c
    BY StayDoes
  <1>2. Fits("locked", mode[g], at[g], call[g])
    BY DEF PhaseInv, Inside
  <1>3. States[g] = "busy" /\ Results[g] = <<>> /\ at[g] \notin {"idle", "done"}
    BY <1>2, InsideState DEF Fits
  <1>4. States' = States
    <2>1. StateOf(spot, c) = "busy"
      BY DEF StateOf
    <2>2. States' = [States EXCEPT ![g] = "busy"]
      BY <1>1, <2>1, OneState
    <2> QED BY <1>3, <2>2 DEF States
  <1>5. Ops' = Ops
    BY <1>1, OneState
  <1>6. Args' = Args
    BY <1>1 DEF Args, ArgOf, Apartly
  <1>7. Results' = Results
    <2>1. ResultOf(spot, c) = <<>>
      BY DEF ResultOf
    <2>2. Results' = [Results EXCEPT ![g] = <<>>]
      BY <1>1, <2>1, OneState
    <2> QED BY <1>3, <2>2 DEF Results
  <1>8. Value' = Value
    <2>1. Updating(g)' <=> Updating(g)
      BY <1>1 DEF Updating, Inside
    <2> QED BY <1>1, <2>1, SameValue
  <1> QED BY <1>4, <1>5, <1>6, <1>7, <1>8, StutterIs

\* What is seen of a call that ends its work and unlocks.
LEMMA LeaveShows ==
  ASSUME Typed, PhaseInv, ContentInv, ~spoiled, NEW g \in Goroutines, NEW c \in Calls,
         Unlock(g), Go(g, "done"),
         (call' = call /\ c = call[g]) \/ call' = [call EXCEPT ![g] = c],
         c.op = call[g].op, c.new = call[g].new, saved' = saved, Updating(g) \/ file' = file
  PROVE  /\ States[g] = "busy" /\ States' = [States EXCEPT ![g] = IF c.err THEN "failed" ELSE "done"]
         /\ Ops' = Ops /\ Args' = Args /\ Ops[g] = c.op /\ (c.op = "write" => Args[g] = c.new)
         /\ Results'[g] = IF c.op = "read" THEN c.buf ELSE <<>>
         /\ Updating(g) => Value = saved /\ Value' = file'
         /\ ~Updating(g) => Value = file /\ Value' = Value
  <1>1. /\ pc[g] = "locked" /\ Apartly(g)
        /\ pc'[g] \in {"unlk", "panic"} /\ mode'[g] = mode[g] /\ at'[g] = "done" /\ call'[g] = c
    BY LeaveDoes
  <1>2. Fits("locked", mode[g], at[g], call[g])
    BY <1>1 DEF PhaseInv
  <1>3. at[g] \notin {"idle", "done"} /\ mode[g] \in {"read", "write"}
    BY <1>2 DEF Fits
  <1>4. States[g] = "busy" /\ Ops[g] = c.op /\ (c.op = "write" => Args[g] = c.new)
    BY <1>3, InsideState
  <1>5. /\ States' = [States EXCEPT ![g] = IF c.err THEN "failed" ELSE "done"]
        /\ Ops' = Ops /\ Args' = Args
    BY <1>1, DoneState
  <1>6. Results'[g] = IF c.op = "read" THEN c.buf ELSE <<>>
    BY <1>1 DEF Results, ResultOf
  <1>7. Updating(g) => Value = saved /\ Value' = file'
    BY <1>1, OutValue
  <1>8. ASSUME ~Updating(g) PROVE Value = file /\ Value' = Value
    <2>1. mode[g] = "read"
      BY <1>1, <1>3, <1>8 DEF Updating, Inside
    <2>2. Value = file
      BY <1>1, <2>1, ReaderValue DEF Inside
    <2>3. Updating(g)' <=> Updating(g)
      BY <1>1, <1>8 DEF Updating, Inside
    <2> QED BY <1>1, <1>8, <2>2, <2>3, SameValue
  <1> QED BY <1>4, <1>5, <1>6, <1>7, <1>8

-----------------------------------------------------------------------------
(* Every step is one of AtomicFile                                         *)

\* Every step is one that AtomicFile allows, or is not seen.
LEMMA StepRefines ==
  ASSUME Typed, DataType', QueuesAtHome, PhaseInv, PhaseInv', ContentInv, Next
  PROVE  [A!AtomicNext]_(A!atomicVars)
  <1> SUFFICES ASSUME ~spoiled' PROVE A!AtomicNext \/ UNCHANGED A!atomicVars
    BY SpoiledIs
  <1>0. ~spoiled /\ spoiled' = spoiled
    BY SpoiledStays DEF Typed, DataType
  <1>00. call \in [Goroutines -> Calls] /\ at \in [Goroutines -> Spots] /\ file \in Seq(Byte) /\ saved \in Seq(Byte)
    BY DEF Typed, DataType
  <1>F. \A g \in Goroutines : Fits(pc[g], mode[g], at[g], call[g])
    BY DEF PhaseInv
  <1>1. ASSUME NEW g \in Goroutines, NEW c \in Calls, NEW m \in Modes, NEW spot \in {"read", "truncate", "mutex"},
               Begin(g, c, m, spot)
        PROVE  A!AtomicNext
    <2>1. /\ pc[g] = "idle" /\ Apartly(g) /\ pc'[g] = "ask" /\ at'[g] = spot /\ call'[g] = c
          /\ UNCHANGED <<file, saved>>
      BY <1>1, BeginDoes DEF Spots
    <2>2. at[g] = "idle"
      BY <1>F, <2>1 DEF Fits
    <2>3. StateOf(spot, c) = "busy"
      BY DEF StateOf
    <2>4. States[g] = "idle" /\ States' = [States EXCEPT ![g] = "busy"]
      <3>1. States[g] = "idle"
        BY <2>2 DEF States, StateOf
      <3> QED BY <2>1, <2>3, <3>1, OneState
    <2>5. Value' = Value
      BY <2>1, SameValue DEF Updating, Inside
    <2> QED BY <1>0, <2>4, <2>5, StartIs
  <1>2. ASSUME NEW g \in Goroutines, BeginRead(g) \/ BeginTransform(g) \/ BeginMutex(g)
                 \/ (\E s \in Inputs : BeginWrite(g, s))
        PROVE  A!AtomicNext
    <2>1. ASSUME NEW s \in Inputs PROVE [NoCall EXCEPT !.op = "write", !.new = s] \in Calls
      <3>1. s \in Contents
        BY LockedFileAssumption
      <3> QED BY <3>1, NoCallType DEF Calls
    <2>2. /\ [NoCall EXCEPT !.op = "read"] \in Calls /\ [NoCall EXCEPT !.op = "transform"] \in Calls
          /\ [NoCall EXCEPT !.op = "mutex"] \in Calls
      BY NoCallType DEF Calls
    <2> QED BY <1>1, <1>2, <2>1, <2>2 DEF BeginRead, BeginTransform, BeginMutex, BeginWrite, Modes
  <1>S. ASSUME NEW g \in Goroutines, Apartly(g), mode'[g] = mode[g], at'[g] = at[g], call'[g] = call[g],
               Value' = Value
        PROVE  UNCHANGED A!atomicVars
    <2>1. UNCHANGED <<States, Ops, Args, Results>>
      <3>1. \A h \in Goroutines : at'[h] = at[h] /\ call'[h] = call[h]
        BY <1>S DEF Apartly
      <3> QED BY <3>1 DEF States, StateOf, Ops, Args, ArgOf, Results, ResultOf
    <2> QED BY <1>0, <1>S, <2>1, StutterIs
  <1>3. ASSUME NEW g \in Goroutines, Locking(g) PROVE UNCHANGED A!atomicVars
    <2>1. /\ Apartly(g) /\ mode'[g] = mode[g] /\ at'[g] = at[g] /\ call'[g] = call[g]
          /\ \/ LetIn(g) /\ pc[g] = "setlk" /\ pc'[g] = "locked"
             \/ UNCHANGED fileVars /\ pc[g] # "locked" /\ pc'[g] # "locked"
      BY <1>3, LockingDoes
    <2>2. CASE UNCHANGED fileVars /\ pc[g] # "locked" /\ pc'[g] # "locked"
      <3>1. Value' = Value
        BY <2>1, <2>2, SameValue DEF Updating, Inside, fileVars
      <3> QED BY <2>1, <3>1, <1>S
    <2>3. CASE LetIn(g) /\ pc[g] = "setlk" /\ pc'[g] = "locked"
      <3>1. \A h \in Goroutines : ~Updating(h)
        BY <2>1, <2>3, ContentLetIn
      <3>2. Value = file /\ file' = file
        BY <2>3, <3>1 DEF Value, LetIn
      <3>3. Value' = file'
        <4>1. CASE mode[g] = "write"
          <5>1. Updating(g)' /\ saved' = file'
            BY <2>1, <2>3, <3>2, <4>1 DEF Updating, Inside, LetIn
          <5> QED BY <5>1 DEF Value
        <4>2. CASE mode[g] # "write"
          <5>1. ASSUME NEW h \in Goroutines PROVE ~Updating(h)'
            <6>1. CASE h = g
              BY <2>1, <4>2, <6>1 DEF Updating
            <6>2. CASE h # g
              BY <2>1, <3>1, <6>2 DEF Apartly, Updating, Inside
            <6> QED BY <6>1, <6>2
          <5> QED BY <5>1 DEF Value
        <4> QED BY <4>1, <4>2
      <3> QED BY <2>1, <3>2, <3>3, <1>S
    <2> QED BY <2>1, <2>2, <2>3
  <1>4. ASSUME NEW g \in Goroutines, LockFails(g) PROVE A!AtomicNext
    <2> PICK c \in Calls : c = [call[g] EXCEPT !.err = TRUE]
      BY <1>00, CallsChange
    <2>1. /\ pc[g] \in {"ask", "setlk"} /\ Apartly(g) /\ pc'[g] \in {"unlk", "unlocked"} /\ at'[g] = "done"
          /\ call'[g] = c /\ UNCHANGED <<file, saved>>
      BY <1>4, <1>00 DEF LockFails, StatFails, SetlkFails, Move, Go, Apartly, Typed, LockTypeOK
    <2>2. c.op = call[g].op /\ c.new = call[g].new /\ c.err = TRUE
      BY <1>00, CallFields
    <2>3. at[g] \notin {"idle", "done"}
      BY <1>F, <2>1 DEF Fits
    <2>4. States[g] = "busy"
      BY <2>3, InsideState
    <2>6. States' = [States EXCEPT ![g] = "failed"] /\ Ops' = Ops /\ Args' = Args
      BY <2>1, <2>2, DoneState
    <2>7. Value' = Value
      BY <2>1, SameValue DEF Updating, Inside
    <2> QED BY <1>0, <2>4, <2>6, <2>7, FailIs
  <1>5. ASSUME NEW g \in Goroutines, Return(g) PROVE A!AtomicNext
    <2>1. pc[g] = "unlocked" /\ Apartly(g) /\ pc'[g] = "idle" /\ at'[g] = "idle" /\ call'[g] = NoCall
          /\ UNCHANGED <<file, saved>>
      BY <1>5, <1>00 DEF Return, Close, Move, Go, Apartly, Typed, LockTypeOK
    <2>2. at[g] = "done"
      BY <1>F, <2>1 DEF Fits
    <2>3. States[g] \in {"done", "failed"}
      BY <2>2 DEF States, StateOf
    <2>4. StateOf("idle", NoCall) = "idle"
      BY DEF StateOf
    <2>5. States' = [States EXCEPT ![g] = "idle"]
      BY <2>1, <2>4, OneState
    <2>6. Value' = Value
      BY <2>1, SameValue DEF Updating, Inside
    <2> QED BY <1>0, <2>3, <2>5, <2>6, EndIs
  <1>6. ASSUME NEW g \in Goroutines, ReadByte(g) PROVE UNCHANGED A!atomicVars
    <2> PICK old \in Seq(Byte) : old = call[g].buf
      BY <1>00, CallsAre
    <2> DEFINE b == Append(old, file[Len(old) + 1])
    <2>1. /\ In(g, "read") /\ Len(old) < Len(file) /\ UNCHANGED <<pc, mode, saved, file>> /\ Go(g, "read")
          /\ call' = [call EXCEPT ![g].buf = b]
      BY <1>6 DEF ReadByte, Stay, lockVars
    <2>2. b \in Seq(Byte)
      BY <1>00, <2>1
    <2> HIDE DEF b
    <2> PICK c \in Calls : c = [call[g] EXCEPT !.buf = b]
      BY <1>00, <2>2, CallsChange
    <2>3. c.op = call[g].op /\ c.new = call[g].new
      BY <1>00, CallFields
    <2>4. call' = [call EXCEPT ![g] = c]
      BY <1>00, <2>1
    <2> QED BY <1>0, <2>1, <2>3, <2>4, StayRefines DEF In, Spots
  <1>7. ASSUME NEW g \in Goroutines, ReadEnds(g) PROVE A!AtomicNext \/ UNCHANGED A!atomicVars
    <2> PICK c \in Calls : c = call[g]
      BY <1>00
    <2>1. In(g, "read") /\ Len(c.buf) >= Len(file) /\ UNCHANGED <<file, call>>
      BY <1>7 DEF ReadEnds
    <2>2. CASE c.op = "read"
      <3>1. Unlock(g) /\ Go(g, "done") /\ UNCHANGED <<saved, spoiled>>
        BY <1>7, <2>2 DEF ReadEnds, Leave
      <3>2. mode[g] = "read" /\ ~c.err
        BY <1>F, <2>1, <2>2 DEF Fits, In, Inside
      <3>3. Len(c.buf) <= Len(file) /\ Agree(c.buf, file, Len(c.buf))
        BY <1>0, <2>1 DEF ContentInv
      <3>4. c.buf = file
        BY <1>00, <2>1, <3>3, SameContents, CallsAre
      <3>5. /\ States[g] = "busy" /\ States' = [States EXCEPT ![g] = IF c.err THEN "failed" ELSE "done"]
            /\ Ops' = Ops /\ Args' = Args /\ Ops[g] = c.op
            /\ Results'[g] = IF c.op = "read" THEN c.buf ELSE <<>>
            /\ ~Updating(g) => Value = file /\ Value' = Value
        BY <1>0, <2>1, <3>1, LeaveShows
      <3>6. Ops[g] = "read" /\ Results'[g] = Value /\ Value' = Value
        BY <2>2, <3>2, <3>4, <3>5 DEF Updating
      <3>7. States' = [States EXCEPT ![g] = "done"]
        BY <3>2, <3>5
      <3> QED BY <3>1, <3>5, <3>6, <3>7, SucceedIs
    <2>3. CASE c.op # "read"
      <3>1. UNCHANGED <<pc, mode, saved>> /\ Go(g, "transform")
        BY <1>7, <2>3 DEF ReadEnds, Stay, lockVars
      <3> QED BY <1>0, <2>1, <3>1, StayRefines DEF In, Spots
    <2> QED BY <2>2, <2>3
  <1>8. ASSUME NEW g \in Goroutines, GiveUp(g) PROVE A!AtomicNext
    <2> PICK c \in Calls : c = [call[g] EXCEPT !.err = TRUE]
      BY <1>00, CallsChange
    <2>1. /\ Unlock(g) /\ Go(g, "done") /\ call' = [call EXCEPT ![g] = c]
          /\ UNCHANGED <<file, saved>> /\ Inside(g) /\ at[g] \in {"read", "truncate", "transform"}
      BY <1>8, <1>00 DEF GiveUp, Leave, In
    <2>2. c.op = call[g].op /\ c.new = call[g].new /\ c.err = TRUE
      BY <1>00, CallFields
    <2>3. /\ States[g] = "busy" /\ States' = [States EXCEPT ![g] = "failed"]
          /\ Ops' = Ops /\ Args' = Args
          /\ Updating(g) => Value = saved /\ Value' = file'
          /\ ~Updating(g) => Value = file /\ Value' = Value
      BY <1>0, <2>1, <2>2, LeaveShows
    <2>4. Updating(g) => file = saved
      BY <1>0, <2>1 DEF ContentInv, Edited
    <2> QED BY <1>0, <2>1, <2>3, <2>4, FailIs
  <1>9. ASSUME NEW g \in Goroutines, Truncate(g) PROVE UNCHANGED A!atomicVars
    <2> PICK c \in Calls : c = call[g]
      BY <1>00
    <2>1. /\ In(g, "truncate") /\ UNCHANGED <<pc, mode, saved, call>> /\ Go(g, "copy")
      BY <1>9 DEF Truncate, Stay, lockVars
    <2>2. Updating(g)
      BY <1>0, <2>1, Writers DEF In
    <2> QED BY <1>0, <2>1, <2>2, StayRefines DEF In, Spots
  <1>10. ASSUME NEW g \in Goroutines, Transform(g) PROVE UNCHANGED A!atomicVars
    <2> PICK t \in Transforms :
          /\ call[g].buf \in DOMAIN t
          /\ LET grows == Len(t[call[g].buf]) > Len(call[g].buf) IN
             /\ call' = [call EXCEPT ![g].new = t[call[g].buf], ![g].off = IF grows THEN Len(call[g].buf) ELSE 0]
             /\ Stay(g, IF grows THEN "tail" ELSE "head")
      BY <1>10 DEF Transform
    <2> PICK c \in Calls : c = call[g]
      BY <1>00
    <2> DEFINE s == t[c.buf]
               n == IF Len(s) > Len(c.buf) THEN Len(c.buf) ELSE 0
    <2>1. s \in Contents /\ Len(c.buf) \in Nat /\ Len(s) \in Nat
      BY ContentsAre, CallsAre
    <2>2. PICK spot \in {"tail", "head"} : Stay(g, spot)
      BY <2>1
    <2>3. /\ n \in Nat /\ UNCHANGED <<pc, mode, saved>> /\ Go(g, spot)
          /\ call' = [call EXCEPT ![g].new = s, ![g].off = n]
      BY <2>1, <2>2 DEF Stay, lockVars
    <2> PICK d \in Calls : d = [c EXCEPT !.new = s, !.off = n]
      BY <2>1, <2>3, CallsChange
    <2>4. call' = [call EXCEPT ![g] = d]
      BY <1>00, <2>3
    <2>5. d.op = c.op
      BY CallFields
    <2>6. In(g, "transform") /\ UNCHANGED file
      BY <1>10 DEF Transform
    <2>7. c.op = "transform"
      BY <1>F, <2>6 DEF Fits, In
    <2> QED BY <1>0, <2>3, <2>4, <2>5, <2>6, <2>7, StayRefines DEF In, Spots
  <1>11. ASSUME NEW g \in Goroutines, WriteByte(g) PROVE UNCHANGED A!atomicVars
    <2> PICK c \in Calls : c = call[g]
      BY <1>00
    <2> PICK spot \in {"copy", "tail", "head", "rollback"} : spot = at[g] /\ Inside(g)
      BY <1>11 DEF WriteByte, Writing, In
    <2> PICK n \in Nat : n = c.off + 1
      BY CallsAre
    <2>1. Updating(g)
      BY <1>0, Writers
    <2> PICK d \in Calls : d = [c EXCEPT !.off = n]
      BY CallsChange
    <2>2. d.op = c.op /\ d.new = c.new
      BY CallFields
    <2>3. UNCHANGED <<pc, mode, saved>> /\ Go(g, spot) /\ call' = [call EXCEPT ![g] = d]
      BY <1>11, <1>00 DEF WriteByte, Stay, lockVars
    <2> QED BY <1>0, <2>1, <2>2, <2>3, StayRefines DEF Spots
  <1>12. ASSUME NEW g \in Goroutines, Written(g) PROVE A!AtomicNext \/ UNCHANGED A!atomicVars
    <2> PICK c \in Calls : c = call[g]
      BY <1>00
    <2> PICK spot \in {"copy", "tail", "head", "rollback"} : spot = at[g] /\ Inside(g)
      BY <1>12 DEF Written, Writing, In
    <2>1. Updating(g) /\ Edited(spot, c) /\ Planned(spot, c)
      BY <1>0, Writers
    <2>2. c.off = Limit(g) /\ UNCHANGED file
      BY <1>12 DEF Written
    <2>3. Len(c.buf) \in Nat /\ Len(c.new) \in Nat /\ c.off \in Nat /\ c.new \in Seq(Byte)
      BY CallsAre
    <2>4. CASE spot = "tail"
      <3> PICK d \in Calls : d = [c EXCEPT !.off = 0]
        BY CallsChange
      <3>1. d.op = c.op /\ d.new = c.new
        BY CallFields
      <3>2. UNCHANGED <<pc, mode, saved>> /\ Go(g, "head") /\ call' = [call EXCEPT ![g] = d]
        BY <1>12, <2>4, <1>00 DEF Written, Stay, lockVars
      <3> QED BY <1>0, <2>1, <3>1, <3>2, StayRefines DEF Spots
    <2>5. ASSUME NEW next \in {"shrink", "cut"}, Stay(g, next), UNCHANGED call
          PROVE  UNCHANGED A!atomicVars
      <3>1. UNCHANGED <<pc, mode, saved>> /\ Go(g, next)
        BY <2>5 DEF Stay, lockVars
      <3> QED BY <1>0, <2>1, <2>5, <3>1, StayRefines DEF Spots
    <2>6. CASE Leave(g) /\ UNCHANGED call /\ (spot = "copy" \/ (spot = "head" /\ ~(Len(c.new) < Len(c.buf))))
      <3>1. Unlock(g) /\ Go(g, "done") /\ UNCHANGED <<saved, call>>
        BY <2>6 DEF Leave
      <3>2. /\ ~c.err /\ c.op = IF spot = "copy" THEN "write" ELSE "transform"
        BY <1>F, <2>6 DEF Fits, Inside
      <3>3. /\ States[g] = "busy" /\ States' = [States EXCEPT ![g] = IF c.err THEN "failed" ELSE "done"]
            /\ Ops' = Ops /\ Args' = Args /\ Ops[g] = c.op /\ (c.op = "write" => Args[g] = c.new)
            /\ Value = saved /\ Value' = file'
        BY <1>0, <2>1, <3>1, LeaveShows
      <3>4. States' = [States EXCEPT ![g] = "done"]
        BY <3>2, <3>3
      <3>5. Len(file) = Len(c.new) /\ Agree(file, c.new, Len(file))
        <4>1. CASE spot = "copy"
          <5>1. c.off = Len(c.new)
            BY <2>2, <4>1 DEF Limit
          <5> QED BY <2>1, <4>1, <5>1 DEF Edited
        <4>2. CASE spot = "head" /\ ~(Len(c.new) < Len(c.buf))
          <5>1. c.off = Len(c.buf)
            BY <2>2, <2>3, <4>2 DEF Limit, Least
          <5>2. /\ Len(file) >= Len(c.buf) /\ Len(file) >= Len(c.new)
                /\ Len(file) = Len(c.buf) \/ Len(file) = Len(c.new)
                /\ Agree(file, c.new, c.off)
                /\ \A i \in Len(c.buf) + 1 .. Len(c.new) : file[i] = c.new[i]
            BY <2>1, <4>2 DEF Edited
          <5>3. Len(file) = Len(c.new)
            BY <2>3, <4>2, <5>2
          <5>4. Agree(file, c.new, Len(c.new))
            BY <2>3, <5>1, <5>2 DEF Agree
          <5> QED BY <5>3, <5>4
        <4> QED BY <2>6, <4>1, <4>2
      <3>6. file = c.new
        BY <1>00, <2>3, <3>5, SameContents
      <3>7. CASE c.op = "write"
        BY <1>0, <2>2, <3>3, <3>4, <3>6, <3>7, SucceedIs
      <3>8. CASE c.op = "transform"
        <4>1. PICK t \in Transforms : c.new = t[saved]
          BY <2>1, <2>6, <3>2, <3>8 DEF Planned
        <4>2. Ops[g] = "transform" /\ Value' = t[Value]
          BY <2>2, <3>3, <3>6, <3>8, <4>1
        <4> QED BY <1>0, <3>3, <3>4, <4>2, SucceedIs
      <3> QED BY <3>2, <3>7, <3>8
    <2> QED BY <1>12, <2>4, <2>5, <2>6 DEF Written
  <1>13. ASSUME NEW g \in Goroutines, WriteFails(g) \/ ShrinkFails(g) PROVE A!AtomicNext \/ UNCHANGED A!atomicVars
    <2> PICK c \in Calls : c = call[g]
      BY <1>00
    <2> PICK spot \in {"copy", "tail", "head", "rollback", "shrink"} : spot = at[g] /\ Inside(g)
      BY <1>13 DEF WriteFails, ShrinkFails, Writing, In
    <2>1. Updating(g) /\ Edited(spot, c)
      BY <1>0, Writers
    <2>2. Len(c.new) \in Nat /\ c.off \in Nat /\ c.new \in Seq(Byte)
      BY CallsAre
    <2> PICK d \in Calls : d = [c EXCEPT !.err = TRUE, !.off = 0]
      BY CallsChange
    <2>3. d.op = c.op /\ d.new = c.new /\ d.err = TRUE
      BY CallFields
    <2>4. UNCHANGED file /\ call' = [call EXCEPT ![g] = d]
      BY <1>13, <1>00 DEF WriteFails, ShrinkFails
    <2>5. (Leave(g) /\ spot = "copy") \/ (\E next \in {"cut", "rollback"} : Stay(g, next))
      BY <1>13, <1>0 DEF WriteFails, ShrinkFails, Writing, In
    <2>6. CASE Leave(g) /\ spot = "copy"
      <3>1. Unlock(g) /\ Go(g, "done") /\ UNCHANGED saved
        BY <2>6 DEF Leave
      <3>2. c.op = "write"
        BY <1>F, <2>6 DEF Fits, Inside
      <3>3. /\ States[g] = "busy" /\ States' = [States EXCEPT ![g] = "failed"]
            /\ Ops' = Ops /\ Args' = Args /\ Ops[g] = "write" /\ Args[g] = c.new
            /\ Value' = file'
        <4>1. d.op = call[g].op /\ d.new = call[g].new
          BY <2>3
        <4>2. /\ States[g] = "busy" /\ States' = [States EXCEPT ![g] = IF d.err THEN "failed" ELSE "done"]
              /\ Ops' = Ops /\ Args' = Args /\ Ops[g] = d.op /\ (d.op = "write" => Args[g] = d.new)
              /\ Value' = file'
          BY <1>0, <2>1, <2>4, <3>1, <4>1, LeaveShows
        <4> QED BY <2>3, <3>2, <4>2
      <3>4. c.off <= Len(c.new) /\ Len(file) = c.off /\ Agree(file, c.new, c.off)
        BY <2>1, <2>6 DEF Edited
      <3>5. SubSeq(c.new, 1, c.off) \in Seq(Byte) /\ Len(SubSeq(c.new, 1, c.off)) = c.off
            /\ \A i \in 1 .. c.off : SubSeq(c.new, 1, c.off)[i] = c.new[i]
        BY <2>2, <3>4
      <3> PICK s \in Seq(Byte) : s = SubSeq(c.new, 1, c.off)
        BY <3>5
      <3>6. file = s
        <4>1. Len(file) = Len(s) /\ Agree(file, s, Len(file))
          BY <3>4, <3>5 DEF Agree
        <4> QED BY <1>00, <4>1, SameContents
      <3>7. c.off \in 0 .. Len(Args[g]) /\ Value' = SubSeq(Args[g], 1, c.off)
        BY <2>2, <2>4, <3>3, <3>4, <3>6
      <3> QED BY <1>0, <3>3, <3>7, FailIs
    <2>7. ASSUME NEW next \in {"cut", "rollback"}, Stay(g, next) PROVE UNCHANGED A!atomicVars
      <3>1. UNCHANGED <<pc, mode, saved>> /\ Go(g, next)
        BY <2>7 DEF Stay, lockVars
      <3> QED BY <1>0, <2>1, <2>3, <2>4, <3>1, StayRefines DEF Spots
    <2> QED BY <2>5, <2>6, <2>7
  <1>14. ASSUME NEW g \in Goroutines, Shrink(g) PROVE A!AtomicNext
    <2> PICK c \in Calls : c = call[g]
      BY <1>00
    <2>1. In(g, "shrink") /\ Unlock(g) /\ Go(g, "done") /\ UNCHANGED <<call, saved>> /\ file' = Prefix(Len(c.new))
      BY <1>14 DEF Shrink, Leave
    <2>2. Updating(g) /\ Edited("shrink", c) /\ Planned("shrink", c)
      BY <1>0, <2>1, Writers DEF In
    <2>3. ~c.err /\ c.op = "transform"
      BY <1>F, <2>1 DEF Fits, In, Inside
    <2>4. /\ States[g] = "busy" /\ States' = [States EXCEPT ![g] = IF c.err THEN "failed" ELSE "done"]
          /\ Ops' = Ops /\ Args' = Args /\ Ops[g] = c.op
          /\ Value = saved /\ Value' = file'
      BY <1>0, <2>1, <2>2, LeaveShows
    <2>5. States' = [States EXCEPT ![g] = "done"]
      BY <2>3, <2>4
    <2>6. Len(c.new) \in Nat /\ c.new \in Seq(Byte) /\ Len(c.buf) \in Nat
      BY CallsAre
    <2>7. Len(c.new) <= Len(file) /\ Agree(file, c.new, Len(c.new))
      BY <2>2, <2>6 DEF Edited
    <2>8. /\ file' \in Seq(Byte) /\ Len(file') = Len(c.new)
          /\ \A i \in 1 .. Len(c.new) : file'[i] = file[i]
      BY <1>00, <2>1, <2>6, <2>7, PrefixIs
    <2>9. file' = c.new
      BY <2>6, <2>7, <2>8, SameContents DEF Agree
    <2>10. PICK t \in Transforms : c.new = t[saved]
      BY <2>2 DEF Planned
    <2>11. Ops[g] = "transform" /\ Value' = t[Value]
      BY <2>3, <2>4, <2>9, <2>10
    <2> QED BY <1>0, <2>4, <2>5, <2>11, SucceedIs
  <1>15. ASSUME NEW g \in Goroutines, Cut(g) PROVE A!AtomicNext
    <2> PICK c \in Calls : c = call[g]
      BY <1>00
    <2>1. In(g, "cut") /\ Unlock(g) /\ Go(g, "done") /\ UNCHANGED <<call, saved>> /\ file' = Prefix(Len(c.buf))
      BY <1>15 DEF Cut, Leave
    <2>2. Updating(g) /\ Edited("cut", c) /\ Planned("cut", c)
      BY <1>0, <2>1, Writers DEF In
    <2>3. c.err
      BY <1>F, <2>1 DEF Fits, In, Inside
    <2>4. /\ States[g] = "busy" /\ States' = [States EXCEPT ![g] = IF c.err THEN "failed" ELSE "done"]
          /\ Ops' = Ops /\ Args' = Args
          /\ Value = saved /\ Value' = file'
      BY <1>0, <2>1, <2>2, LeaveShows
    <2>5. States' = [States EXCEPT ![g] = "failed"]
      BY <2>3, <2>4
    <2>6. c.buf \in Seq(Byte) /\ Len(c.buf) \in Nat
      BY CallsAre
    <2>7. Len(c.buf) <= Len(file) /\ Agree(file, c.buf, Len(c.buf))
      BY <1>00, <2>2, <2>6 DEF Edited
    <2>8. /\ file' \in Seq(Byte) /\ Len(file') = Len(c.buf)
          /\ \A i \in 1 .. Len(c.buf) : file'[i] = file[i]
      BY <1>00, <2>1, <2>6, <2>7, PrefixIs
    <2>9. file' = c.buf
      BY <2>6, <2>7, <2>8, SameContents DEF Agree
    <2>10. Value' = Value
      BY <2>2, <2>4, <2>9 DEF Planned
    <2> QED BY <1>0, <2>4, <2>5, <2>10, FailIs
  <1>16. ASSUME NEW g \in Goroutines, CutFails(g) PROVE FALSE
    BY <1>16 DEF CutFails
  <1>17. ASSUME NEW g \in Goroutines, MutexLock(g) PROVE UNCHANGED A!atomicVars
    <2>1. In(g, "mutex") /\ UNCHANGED <<pc, mode, call, file, saved>> /\ Go(g, "critical")
      BY <1>17 DEF MutexLock, lockVars
    <2> PICK c \in Calls : c = call[g]
      BY <1>00
    <2> QED BY <1>0, <2>1, StayRefines DEF In, Spots
  <1>18. ASSUME NEW g \in Goroutines, MutexUnlock(g) PROVE A!AtomicNext
    <2> PICK c \in Calls : c = call[g]
      BY <1>00
    <2>1. In(g, "critical") /\ Unlock(g) /\ Go(g, "done") /\ UNCHANGED <<call, saved, file>>
      BY <1>18 DEF MutexUnlock
    <2>2. Updating(g) /\ Edited("critical", c)
      BY <1>0, <2>1, Writers DEF In
    <2>3. ~c.err /\ c.op = "mutex"
      BY <1>F, <2>1 DEF Fits, In, Inside
    <2>4. /\ States[g] = "busy" /\ States' = [States EXCEPT ![g] = IF c.err THEN "failed" ELSE "done"]
          /\ Ops' = Ops /\ Args' = Args /\ Ops[g] = c.op
          /\ Value = saved /\ Value' = file'
      BY <1>0, <2>1, <2>2, LeaveShows
    <2>5. States' = [States EXCEPT ![g] = "done"]
      BY <2>3, <2>4
    <2>6. Ops[g] = "mutex" /\ Value' = Value
      BY <2>1, <2>2, <2>3, <2>4 DEF Edited
    <2> QED BY <1>0, <2>4, <2>5, <2>6, SucceedIs
  <1>19. ASSUME NEW p \in Processes, Die(p) PROVE A!AtomicNext
    <2> PICK mine \in SUBSET Goroutines : mine = {g \in Goroutines : Home(g) = p}
      OBVIOUS
    <2>1. /\ at' = [g \in Goroutines |-> IF g \in mine THEN "idle" ELSE at[g]]
          /\ call' = [g \in Goroutines |-> IF g \in mine THEN NoCall ELSE call[g]]
          /\ pc' = [g \in Goroutines |-> IF g \in mine THEN "idle" ELSE pc[g]]
          /\ mode' = [g \in Goroutines |-> IF g \in mine THEN "none" ELSE mode[g]]
          /\ UNCHANGED <<file, saved>>
      BY <1>19 DEF Die, Crash
    <2>2. States' = [g \in Goroutines |-> IF g \in mine THEN "idle" ELSE States[g]]
      BY <2>1 DEF States, StateOf
    <2>3. ASSUME NEW g \in Goroutines PROVE Updating(g)' <=> Updating(g) /\ g \notin mine
      BY <2>1 DEF Updating, Inside
    <2>4. CASE \E g \in mine : Updating(g)
      <3>1. PICK g \in mine : Updating(g)
        BY <2>4
      <3>2. Fits("locked", mode[g], at[g], call[g]) /\ Edited(at[g], call[g])
        BY <1>0, <1>F, <3>1 DEF ContentInv, Updating, Inside
      <3>3. at[g] \notin {"idle", "done"} /\ call[g].op \in {"write", "transform", "mutex"}
        <4>1. at[g] \notin {"idle", "done"} /\ mode[g] = "write" /\ call[g].op # "none"
          BY <3>1, <3>2 DEF Fits, Updating
        <4> QED BY <1>00, <3>2, <4>1 DEF Fits, Calls
      <3>4. States[g] = "busy" /\ Ops[g] = call[g].op
        BY <3>3, InsideState
      <3>5. CASE call[g].op \in {"write", "transform"}
        BY <1>0, <2>2, <3>1, <3>4, <3>5, DieIs
      <3>6. CASE call[g].op = "mutex"
        <4>1. at[g] \in {"mutex", "critical"}
          BY <1>00, <3>2, <3>3, <3>6 DEF Fits, Spots
        <4>2. file = saved
          BY <3>2, <4>1 DEF Edited
        <4>3. Value' = Value
          BY <2>1, <4>2 DEF Value
        <4> QED BY <1>0, <2>2, <4>3, DieIs
      <3> QED BY <3>3, <3>5, <3>6
    <2>5. CASE ~\E g \in mine : Updating(g)
      <3>1. (\E g \in Goroutines : Updating(g))' <=> \E g \in Goroutines : Updating(g)
        BY <2>3, <2>5
      <3>2. Value' = Value
        BY <2>1, <3>1 DEF Value
      <3> QED BY <1>0, <2>2, <3>2, DieIs
    <2> QED BY <2>4, <2>5
  <1> QED BY <1>2, <1>3, <1>4, <1>5, <1>6, <1>7, <1>8, <1>9, <1>10, <1>11, <1>12, <1>13, <1>14, <1>15,
             <1>16, <1>17, <1>18, <1>19 DEF Next, Step, Fails

\* The inductive invariant.
FileInv == LockInv /\ DataType /\ LeftType /\ PhaseInv /\ ContentInv

\* It holds at first.
LEMMA FileInit == Init => FileInv
  <1> SUFFICES ASSUME Init PROVE FileInv
    OBVIOUS
  <1>1. LockInv
    BY LockInitInv DEF Init
  <1>2. file \in Contents /\ file \in Seq(Byte) /\ saved = file
    BY ContentsAre, LockedFileAssumption DEF Init
  <1>3. DataType
    BY <1>2, NoCallType DEF Init, DataType, Spots
  <1>4. LeftType
    <2>1. left \in Budgets
      BY DEF Init
    <2>2. left \in [ops : SUBSET {"read", "write", "transform", "mutex"}, calls : [Goroutines -> Nat],
                    faults : Nat, crashes : Nat]
      BY <2>1, LockedFileAssumption
    <2>3. \A g \in Goroutines : left.calls[g] \in 0 .. left.calls[g]
      <3>1. ASSUME NEW g \in Goroutines PROVE left.calls[g] \in 0 .. left.calls[g]
        <4> PICK n \in Nat : n = left.calls[g]
          BY <2>2
        <4>1. n \in 0 .. n
          OBVIOUS
        <4> QED BY <4>1
      <3> QED BY <3>1
    <2>4. left.faults \in 0 .. left.faults /\ left.crashes \in 0 .. left.crashes
      BY <2>2
    <2> QED BY <2>1, <2>2, <2>3, <2>4 DEF LeftType
  <1>5. PhaseInv
    BY DEF Init, LockInit, PhaseInv, Fits
  <1>6. ContentInv
    BY DEF Init, LockInit, ContentInv, Inside, Updating, In
  <1> QED BY <1>1, <1>3, <1>4, <1>5, <1>6 DEF FileInv

\* It is kept, and what is seen are steps of AtomicFile.
LEMMA FileKept == FileInv /\ [Next]_vars => FileInv' /\ [A!AtomicNext]_(A!atomicVars)
  <1> SUFFICES ASSUME FileInv, [Next]_vars PROVE FileInv' /\ [A!AtomicNext]_(A!atomicVars)
    OBVIOUS
  <1>1. LockInv'
    BY StepsAreLockSteps, LockInvKept DEF FileInv
  <1>2. CASE Next
    <2>1. Typed /\ QueuesAtHome /\ LockTypeOK /\ LeftType /\ PhaseInv /\ ContentInv
      BY DEF FileInv, Typed, LockInv
    <2>2. DataType' /\ LeftType'
      BY <1>2, <2>1, DataKept DEF Typed
    <2>3. PhaseInv'
      BY <1>2, <2>1, <2>2, PhaseKept
    <2>4. ContentInv'
      BY <1>2, <2>1, <2>2, ContentKept
    <2>5. [A!AtomicNext]_(A!atomicVars)
      BY <1>2, <2>1, <2>2, <2>3, StepRefines
    <2> QED BY <1>1, <2>2, <2>3, <2>4, <2>5 DEF FileInv
  <1>3. CASE UNCHANGED vars
    <2>1. UNCHANGED <<lockVars, file, mutex, at, call, left, saved, spoiled>>
      BY <1>3 DEF vars, fileVars
    <2>2. DataType' /\ LeftType'
      BY <2>1 DEF FileInv, DataType, LeftType
    <2>3. PhaseInv' /\ ContentInv'
      BY <2>1, SMTT(30) DEF FileInv, PhaseInv, Fits, ContentInv, Updating, In, Inside, Edited, Planned, Agree, lockVars
    <2>4. UNCHANGED A!atomicVars
      BY <2>1 DEF A!atomicVars, Updating, Inside, lockVars
    <2> QED BY <1>1, <2>2, <2>3, <2>4 DEF FileInv
  <1> QED BY <1>2, <1>3

\* The variables have their types, and a goroutine that calls nothing has no lock and keeps
\* nothing of its last call (lockedfile.go:24-187).
THEOREM TypeCorrect == Spec => []TypeOK
  <1>1. FileInv => TypeOK
    BY DEF FileInv, LockInv, DataType, LeftType, PhaseInv, Fits, TypeOK
  <1> QED BY <1>1, FileInit, FileKept, PTL DEF Spec

\* What is in the file at first is what AtomicFile starts with.
LEMMA InitRefines == Init => A!AtomicInit
  <1> SUFFICES ASSUME Init PROVE A!AtomicInit
    OBVIOUS
  <1>1. file \in Contents
    BY LockedFileAssumption DEF Init
  <1> QED BY <1>1 DEF A!AtomicInit, Init, LockInit, Updating, Inside

\* Reads, writes, transformations and critical sections take effect one at a time, each at one moment:
\* whoever reads sees all of what a writer left, a Transform whose system calls fail puts back what
\* was there, and only a Write that fails, or a death in the middle of an update, leaves a part
\* (lockedfile.go:5-6, 98-187).  This for any goroutines, processes, contents and transformations,
\* until a Close of the process dropped a lock that was needed, or a rollback failed.
THEOREM ImplementsHolds == Spec => Implements
  BY FileInit, FileKept, InitRefines, PTL DEF Spec, Implements, A!AtomicSpec
=============================================================================
