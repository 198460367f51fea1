-------------------------- MODULE BuildCacheProof --------------------------
(***************************************************************************)
(* Proofs about BuildCache, for any processes, actions, outputs and sizes, *)
(* faults and damage.                                                      *)
(*                                                                         *)
(* TypeInv adds to the types what the place of a process says of its local *)
(* variables, and that who has a removed file open has it listed as lost.  *)
(* HonestInv is about caches whose disk is sound: output files only grow,  *)
(* by bytes of the output, so each writer has put in at least as much as   *)
(* it has copied, and who writes the entry has seen the file whole, or it  *)
(* was trimmed.  RepairInv is about any disk, and a Put that runs alone:   *)
(* what it has copied so far is right, and nothing else is left over.      *)
(***************************************************************************)
EXTENDS BuildCache, TLAPS

-----------------------------------------------------------------------------
(* Contents of files                                                       *)

\* A function on an initial range of the numbers is a sequence.
LEMMA SeqIs ==
  ASSUME NEW n \in Nat, NEW f \in [1 .. n -> BOOLEAN]
  PROVE  f \in Seq(BOOLEAN) /\ Len(f) = n /\ DOMAIN f = 1 .. n
  OBVIOUS

\* Writing a byte leaves a file at least as long, with the byte in it and the others as they were.
LEMMA WriteAtIs ==
  ASSUME NEW s \in Seq(BOOLEAN), NEW n \in Nat
  PROVE  /\ WriteAt(s, n) \in Seq(BOOLEAN)
         /\ Len(WriteAt(s, n)) = IF Len(s) > n THEN Len(s) ELSE n + 1
         /\ WriteAt(s, n)[n + 1] = TRUE
         /\ \A i \in 1 .. Len(s) : i # n + 1 => WriteAt(s, n)[i] = s[i]
  <1> DEFINE L == IF Len(s) > n THEN Len(s) ELSE n + 1
             F(i) == IF i = n + 1 THEN TRUE ELSE IF i <= Len(s) THEN s[i] ELSE FALSE
  <1>1. L \in Nat /\ L >= n + 1 /\ L >= Len(s)
    OBVIOUS
  <1>2. WriteAt(s, n) = [i \in 1 .. L |-> F(i)]
    BY DEF WriteAt
  <1>3. \A i \in 1 .. L : F(i) \in BOOLEAN
    <2> TAKE i \in 1 .. L
    <2>1. CASE i = n + 1
      BY <2>1
    <2>2. CASE i # n + 1 /\ i <= Len(s)
      <3>1. s[i] \in BOOLEAN
        BY <2>2
      <3> QED BY <2>2, <3>1
    <2>3. CASE i # n + 1 /\ ~(i <= Len(s))
      BY <2>3
    <2> QED BY <2>1, <2>2, <2>3
  <1>4. F(n + 1) = TRUE
    OBVIOUS
  <1>5. \A i \in 1 .. Len(s) : i # n + 1 => F(i) = s[i]
    <2> SUFFICES ASSUME NEW i \in 1 .. Len(s), i # n + 1 PROVE F(i) = s[i]
      OBVIOUS
    <2>1. i <= Len(s)
      OBVIOUS
    <2> QED BY <2>1, Zenon
  <1> HIDE DEF F, L
  <1>6. WriteAt(s, n) \in [1 .. L -> BOOLEAN]
    BY <1>2, <1>3
  <1>7. WriteAt(s, n) \in Seq(BOOLEAN) /\ Len(WriteAt(s, n)) = L
    BY <1>1, <1>6, SeqIs
  <1>8. WriteAt(s, n)[n + 1] = TRUE
    BY <1>1, <1>2, <1>4
  <1>9. \A i \in 1 .. Len(s) : i # n + 1 => WriteAt(s, n)[i] = s[i]
    BY <1>1, <1>2, <1>5
  <1> QED BY <1>7, <1>8, <1>9 DEF L

\* The content of a complete output file: all of its bytes, and no more.
LEMMA WholeIs ==
  ASSUME NEW o \in Outputs
  PROVE  /\ Whole(o) \in Seq(BOOLEAN) /\ Len(Whole(o)) = Size[o]
         /\ \A i \in 1 .. Size[o] : Whole(o)[i] = TRUE
  <1>1. Size[o] \in Nat
    BY BuildCacheAssumption
  <1>2. Whole(o) \in [1 .. Size[o] -> BOOLEAN]
    BY DEF Whole
  <1>3. \A i \in 1 .. Size[o] : Whole(o)[i] = TRUE
    BY DEF Whole
  <1> QED BY <1>1, <1>2, <1>3, SeqIs

\* When the content of a file is the output, byte by byte.
LEMMA CompleteMeans ==
  ASSUME NEW o \in Outputs, data[o] \in Seq(BOOLEAN)
  PROVE  Complete(o) <=> /\ o \in exists /\ Len(data[o]) = Size[o]
                         /\ \A i \in 1 .. Size[o] : data[o][i] = TRUE
  <1>1. ASSUME Len(data[o]) = Size[o], \A i \in 1 .. Size[o] : data[o][i] = TRUE
        PROVE  data[o] = Whole(o)
    <2>1. data[o] = [i \in 1 .. Size[o] |-> data[o][i]]
      BY <1>1
    <2> QED BY <1>1, <2>1 DEF Whole
  <1> QED BY <1>1, WholeIs DEF Complete

-----------------------------------------------------------------------------
(* Types                                                                   *)

\* What the place of a process says of its local variables.
Local(place, c) ==
  /\ place \in Places /\ c \in Calls
  /\ place \in {"stat", "rehash", "open", "copy", "close", "verify", "create", "write",
                "remove", "put", "usedA", "usedD", "look", "use"} => c.out \in Outputs
  /\ place \in {"stat", "rehash", "open", "copy", "close", "verify", "create", "write",
                "remove", "put", "get", "usedA"} => c.id \in Actions
  /\ place \in {"stat", "rehash", "open"} => c.off = 0
  /\ place = "copy" => c.off < Size[c.out]
  /\ place = "close" => c.off = Size[c.out]
  /\ place = "trimRemove" => c.victim \in Files

ProcInv ==
  /\ pc \in [Procs -> Places] /\ call \in [Procs -> Calls]
  /\ \A p \in Procs : Local(pc[p], call[p])

\* The files, the files ever removed, and their contents.
ContentInv ==
  /\ exists \subseteq Files /\ lost \subseteq Files
  /\ entry \in [Actions -> Outputs \cup {NoFile}]
  /\ data \in [Outputs -> Seq(BOOLEAN)]

RestInv ==
  /\ params \in Runs
  /\ trimTxt \subseteq Int
  /\ now \in 0 .. MaxTime
  /\ alone \subseteq Procs

\* The time of a file is not much older than its last use.
TimeInv ==
  /\ mtime \in [Files -> Int] /\ lastUse \in [Files -> Int]
  /\ \A f \in Files : lastUse[f] - mtime[f] < MtimeInterval

\* Who has open what is no longer in the directory: that was removed.
GoneInv == gone \subseteq Procs /\ \A p \in gone : Opened(p) \in lost

DiskInv == ContentInv /\ RestInv /\ TimeInv

TypeInv == ProcInv /\ DiskInv /\ GoneInv

\* The types that the invariant contains.
LEMMA TypeInvImplies == TypeInv => TypeOK
  BY DEF TypeInv, ProcInv, DiskInv, ContentInv, RestInv, TimeInv, GoneInv, TypeOK, Local

\* p moves to a place, with the local variables c.
Moves(p, place, c) ==
  /\ pc' = [pc EXCEPT ![p] = place]
  /\ call' = [call EXCEPT ![p] = c]

\* Only p moves, and what its place says of its local variables holds again.
LEMMA LocalKept ==
  ASSUME ProcInv, NEW p \in Procs, NEW place, NEW c, Moves(p, place, c), Local(place, c)
  PROVE  /\ ProcInv' /\ pc'[p] = place /\ call'[p] = c
         /\ \A q \in Procs \ {p} : pc'[q] = pc[q] /\ call'[q] = call[q]
  <1>1. place \in Places /\ c \in Calls
    BY DEF Local
  <1>2. pc' \in [Procs -> Places] /\ call' \in [Procs -> Calls]
    BY <1>1 DEF ProcInv, Moves
  <1>3. pc'[p] = place /\ call'[p] = c /\ \A q \in Procs \ {p} : pc'[q] = pc[q] /\ call'[q] = call[q]
    BY DEF ProcInv, Moves
  <1>4. ASSUME NEW q \in Procs PROVE Local(pc[q], call[q])'
    <2>1. CASE q = p
      BY <1>3, <2>1 DEF Local
    <2>2. CASE q # p
      <3>1. Local(pc[q], call[q])
        BY DEF ProcInv
      <3>2. pc'[q] = pc[q] /\ call'[q] = call[q]
        BY <1>3, <2>2
      <3> QED BY <3>1, <3>2 DEF Local
    <2> QED BY <2>1, <2>2
  <1> QED BY <1>2, <1>3, <1>4 DEF ProcInv

\* The end of an operation.
LEMMA ReturnMoves ==
  ASSUME ProcInv, NEW p \in Procs, Return(p)
  PROVE  Moves(p, "idle", NoCall) /\ Local("idle", NoCall)
  <1>1. NoCall \in Calls
    BY BuildCacheAssumption DEF NoCall, Calls
  <1> QED BY <1>1 DEF Return, Go, Moves, Local, Places

\* A step that leaves the local variables alone.
LEMMA GoMoves ==
  ASSUME ProcInv, NEW p \in Procs, NEW place, Go(p, place), call' = call
  PROVE  Moves(p, place, call[p])
  BY DEF ProcInv, Go, Moves

\* putIndexEntry
LEMMA ThenIndexMoves ==
  ASSUME ProcInv, NEW p \in Procs, ThenIndex(p), call' = call,
         pc[p] \in {"rehash", "open", "close"}
  PROVE  \E place \in {"verify", "create"} :
           Moves(p, place, call[p]) /\ Local(place, call[p])
  <1>1. Local(pc[p], call[p])
    BY DEF ProcInv
  <1>2. ASSUME NEW place \in {"verify", "create"}, Go(p, place)
        PROVE  Moves(p, place, call[p]) /\ Local(place, call[p])
    BY <1>1, <1>2, GoMoves DEF Local, Places
  <1> QED BY <1>2 DEF ThenIndex

-----------------------------------------------------------------------------
(* What each process does next                                             *)

\* The steps of Put (cache.go:380-565) and the places they lead to.
LEMMA PutMoves ==
  ASSUME ProcInv, DiskInv, NEW p \in Procs, PutSteps(p)
  PROVE  \E place, c : Moves(p, place, c) /\ Local(place, c)
  <1> DEFINE P == \E place, c : Moves(p, place, c) /\ Local(place, c)
  <1>L. Local(pc[p], call[p]) /\ pc[p] \in Places /\ call[p] \in Calls
    BY DEF ProcInv
  <1>R. ASSUME Return(p) PROVE P
    BY <1>R, ReturnMoves
  <1>T. ASSUME ThenIndex(p), call' = call, pc[p] \in {"rehash", "open", "close"} PROVE P
    BY <1>T, ThenIndexMoves
  <1>G. ASSUME NEW place, Go(p, place), call' = call, Local(place, call[p]) PROVE P
    BY <1>G, GoMoves
  <1> HIDE DEF P
  <1>1. ASSUME Stat(p) PROVE P
    <2> DEFINE size == IF call[p].out \in exists THEN Len(data[call[p].out]) ELSE -1
               c == [call[p] EXCEPT !.seen = size]
               place == IF size = Size[call[p].out] THEN "rehash" ELSE "open"
    <2>1. call[p].out \in Outputs /\ call[p].id \in Actions /\ call[p].off = 0
      BY <1>1, <1>L DEF Stat, Local
    <2>2. size \in Int
      BY <2>1 DEF DiskInv, ContentInv
    <2>3. pc' = [pc EXCEPT ![p] = place] /\ call' = [call EXCEPT ![p] = c]
      BY <1>1 DEF Stat, Go, ProcInv
    <2>4. c \in Calls /\ c.out = call[p].out /\ c.id = call[p].id /\ c.off = 0
      BY <2>1, <2>2, <1>L DEF Calls
    <2>5. place \in {"rehash", "open"}
      OBVIOUS
    <2> HIDE DEF c, place, size
    <2>6. Moves(p, place, c) /\ Local(place, c)
      BY <2>1, <2>3, <2>4, <2>5 DEF Moves, Local, Places
    <2> QED BY <2>6 DEF P
  <1>2. ASSUME Rehash(p) PROVE P
    <2>1. CASE Complete(call[p].out)
      BY <1>2, <2>1, <1>T DEF Rehash
    <2>2. CASE ~Complete(call[p].out)
      BY <1>2, <2>2, <1>G, <1>L DEF Rehash, Local, Places
    <2> QED BY <2>1, <2>2
  <1>3. ASSUME Open(p) PROVE P
    <2>1. CASE Size[call[p].out] = 0
      BY <1>3, <2>1, <1>T DEF Open
    <2>2. CASE Size[call[p].out] # 0
      <3>1. call[p].out \in Outputs /\ call[p].id \in Actions /\ call[p].off = 0 /\ Size[call[p].out] > 0
        BY <1>3, <1>L, <2>2, BuildCacheAssumption DEF Open, Local
      <3> QED BY <1>3, <2>2, <3>1, <1>G, <1>L DEF Open, Local, Places
    <2> QED BY <2>1, <2>2
  <1>4. ASSUME CopyByte(p) PROVE P
    <2> DEFINE c == [call[p] EXCEPT !.off = @ + 1]
               place == IF call[p].off + 1 = Size[call[p].out] THEN "close" ELSE "copy"
    <2>1. /\ call[p].out \in Outputs /\ call[p].id \in Actions /\ call[p].off \in Nat
          /\ call[p].off < Size[call[p].out] /\ Size[call[p].out] \in Nat
      BY <1>4, <1>L, BuildCacheAssumption DEF CopyByte, Local, Calls
    <2>2. call' = [call EXCEPT ![p] = c]
      BY <1>4 DEF CopyByte, ProcInv
    <2>3. pc' = [pc EXCEPT ![p] = place]
      BY <1>4 DEF CopyByte, ProcInv, Go
    <2>4. c \in Calls /\ c.out = call[p].out /\ c.id = call[p].id /\ c.off = call[p].off + 1
      BY <2>1, <1>L DEF Calls
    <2>5. /\ place \in {"copy", "close"}
          /\ place = "close" => call[p].off + 1 = Size[call[p].out]
          /\ place = "copy" => call[p].off + 1 < Size[call[p].out]
      BY <2>1
    <2> HIDE DEF c, place
    <2>6. Moves(p, place, c) /\ Local(place, c)
      BY <2>1, <2>2, <2>3, <2>4, <2>5 DEF Moves, Local, Places
    <2> QED BY <2>6 DEF P
  <1>5. ASSUME CopyFails(p) \/ CloseFails(p) \/ RemoveEntry(p) PROVE P
    BY <1>5, <1>R DEF CopyFails, CloseFails, RemoveEntry
  <1>6. ASSUME Close(p) PROVE P
    BY <1>6, <1>T DEF Close
  <1>7. ASSUME VerifyEntry(p) PROVE P
    <2>1. CASE Return(p)
      BY <2>1, <1>R
    <2>2. CASE Go(p, "create") /\ UNCHANGED call
      BY <1>7, <2>2, <1>G, <1>L DEF VerifyEntry, Local, Places
    <2> QED BY <1>7, <2>1, <2>2 DEF VerifyEntry
  <1>8. ASSUME Create(p) PROVE P
    BY <1>8, <1>G, <1>L DEF Create, Local, Places
  <1>9. ASSUME WriteEntry(p) PROVE P
    BY <1>9, <1>G, <1>L DEF WriteEntry, Local, Places
  <1>10. ASSUME WriteFails(p) PROVE P
    BY <1>10, <1>G, <1>L DEF WriteFails, Local, Places
  <1>11. P
    BY <1>1, <1>2, <1>3, <1>4, <1>5, <1>6, <1>7, <1>8, <1>9, <1>10 DEF PutSteps
  <1> QED BY <1>11 DEF P

\* The steps of Get, GetFile and GetBytes, and the end of any operation.
LEMMA GetMoves ==
  ASSUME ProcInv, DiskInv, NEW p \in Procs, GetSteps(p) \/ Done(p) \/ Crash(p)
  PROVE  \E place, c : Moves(p, place, c) /\ Local(place, c)
  <1> DEFINE P == \E place, c : Moves(p, place, c) /\ Local(place, c)
  <1>L. Local(pc[p], call[p]) /\ pc[p] \in Places /\ call[p] \in Calls
    BY DEF ProcInv
  <1>R. ASSUME Return(p) PROVE P
    BY <1>R, ReturnMoves
  <1>G. ASSUME NEW place, Go(p, place), call' = call, Local(place, call[p]) PROVE P
    BY <1>G, GoMoves
  <1> HIDE DEF P
  <1>1. ASSUME ReadEntry(p) PROVE P
    <2>1. CASE Return(p)
      BY <2>1, <1>R
    <2>2. CASE entry[call[p].id] # NoFile
      <3> DEFINE c == [call[p] EXCEPT !.out = entry[call[p].id]]
      <3>1. call[p].id \in Actions
        BY <1>1, <1>L DEF ReadEntry, Local
      <3>2. entry[call[p].id] \in Outputs
        BY <2>2, <3>1 DEF DiskInv, ContentInv
      <3>3. Go(p, "usedA") /\ call' = [call EXCEPT ![p] = c]
        BY <1>1, <2>2 DEF ReadEntry, ProcInv
      <3>4. c \in Calls /\ c.out = entry[call[p].id] /\ c.id = call[p].id
        BY <3>2, <1>L DEF Calls
      <3> HIDE DEF c
      <3>5. Moves(p, "usedA", c) /\ Local("usedA", c)
        BY <3>1, <3>2, <3>3, <3>4 DEF Moves, Go, Local, Places
      <3> QED BY <3>5 DEF P
    <2> QED BY <1>1, <2>1, <2>2 DEF ReadEntry
  <1>2. ASSUME UsedEntry(p) PROVE P
    <2>1. CASE Return(p)
      BY <2>1, <1>R
    <2>2. CASE Go(p, "usedD") /\ UNCHANGED call
      BY <1>2, <2>2, <1>G, <1>L DEF UsedEntry, Local, Places
    <2> QED BY <1>2, <2>1, <2>2 DEF UsedEntry
  <1>3. ASSUME UsedOutput(p) PROVE P
    BY <1>3, <1>G, <1>L DEF UsedOutput, Local, Places
  <1>4. ASSUME Look(p) PROVE P
    <2>1. CASE Return(p)
      BY <2>1, <1>R
    <2>2. CASE Go(p, "use") /\ UNCHANGED call
      BY <1>4, <2>2, <1>G, <1>L DEF Look, Local, Places
    <2> QED BY <1>4, <2>1, <2>2 DEF Look
  <1>5. ASSUME Done(p) \/ Crash(p) PROVE P
    BY <1>5, <1>R DEF Done, Crash
  <1>6. P
    BY <1>1, <1>2, <1>3, <1>4, <1>5 DEF GetSteps
  <1> QED BY <1>6 DEF P

\* The steps of Trim (cache.go:312-376).
LEMMA TrimMoves ==
  ASSUME ProcInv, DiskInv, NEW p \in Procs, TrimSteps(p)
  PROVE  \E place, c : Moves(p, place, c) /\ Local(place, c)
  <1> DEFINE P == \E place, c : Moves(p, place, c) /\ Local(place, c)
  <1>L. Local(pc[p], call[p]) /\ pc[p] \in Places /\ call[p] \in Calls
    BY DEF ProcInv
  <1>M. ASSUME NEW place \in {"trim", "trimRemove"}, NEW c \in Calls, Moves(p, place, c),
               place = "trimRemove" => c.victim \in Files
        PROVE  P
    BY <1>M DEF Local, Places
  <1>R. ASSUME Return(p) PROVE P
    BY <1>R, ReturnMoves
  <1> HIDE DEF P
  <1>1. ASSUME ReadTrim(p) PROVE P
    <2>1. CASE Return(p)
      BY <2>1, <1>R
    <2>2. CASE Go(p, "trim") /\ call' = [call EXCEPT ![p].todo = Files]
      <3> DEFINE c == [call[p] EXCEPT !.todo = Files]
      <3>1. c \in Calls
        BY <1>L DEF Calls
      <3>2. Moves(p, "trim", c)
        BY <2>2 DEF Go, Moves, ProcInv
      <3> QED BY <1>M, <3>1, <3>2
    <2> QED BY <1>1, <2>1, <2>2 DEF ReadTrim
  <1>2. ASSUME NEW f \in Files, TrimStat(p, f) PROVE P
    <2>1. CASE f \in exists /\ mtime[f] < Cutoff(p)
      <3> DEFINE c == [call[p] EXCEPT !.todo = @ \ {f}, !.victim = f]
      <3>1. c \in Calls /\ c.victim = f
        BY <1>L DEF Calls
      <3>2. Moves(p, "trimRemove", c)
        BY <1>2, <2>1 DEF TrimStat, Go, Moves, ProcInv
      <3> QED BY <1>M, <3>1, <3>2
    <2>2. CASE ~(f \in exists /\ mtime[f] < Cutoff(p))
      <3> DEFINE c == [call[p] EXCEPT !.todo = @ \ {f}]
      <3>1. c \in Calls
        BY <1>L DEF Calls
      <3>2. Moves(p, "trim", c)
        BY <1>2, <2>2 DEF TrimStat, Moves, ProcInv
      <3> QED BY <1>M, <3>1, <3>2
    <2> QED BY <2>1, <2>2
  <1>3. ASSUME TrimRemove(p) PROVE P
    <2> DEFINE c == [call[p] EXCEPT !.victim = NoFile]
    <2>1. c \in Calls
      BY <1>L DEF Calls
    <2>2. Moves(p, "trim", c)
      BY <1>3 DEF TrimRemove, Go, Moves, ProcInv
    <2> QED BY <1>M, <2>1, <2>2
  <1>4. ASSUME WriteTrim(p) PROVE P
    BY <1>4, <1>R DEF WriteTrim
  <1>5. P
    BY <1>1, <1>2, <1>3, <1>4 DEF TrimSteps
  <1> QED BY <1>5 DEF P

\* The first step of an operation.
LEMMA CallMoves ==
  ASSUME ProcInv, DiskInv, NEW p \in Procs, Call(p)
  PROVE  \/ \E place, c : Moves(p, place, c) /\ Local(place, c)
         \/ UNCHANGED vars
  <1> DEFINE P == \E place, c : Moves(p, place, c) /\ Local(place, c)
  <1>0. NoCall \in Calls /\ now \in 0 .. MaxTime
    BY BuildCacheAssumption DEF NoCall, Calls, DiskInv, RestInv
  <1>M. ASSUME NEW place \in {"stat", "get", "read"}, NEW c \in Calls, Invoke(p, c), Go(p, place),
               place \in {"stat", "get"} => c.id \in Actions,
               place = "stat" => c.out \in Outputs /\ c.off = 0
        PROVE  P
    <2>1. Local(place, c)
      BY <1>M DEF Local, Places
    <2>2. Moves(p, place, c)
      BY <1>M DEF Moves, Go, Invoke
    <2> QED BY <2>1, <2>2
  <1> HIDE DEF P
  <1>1. ASSUME Trim(p) PROVE P
    <2>1. [NoCall EXCEPT !.op = "trim", !.start = now] \in Calls
      BY <1>0 DEF Calls
    <2> QED BY <1>1, <2>1, <1>M DEF Trim
  <1>2. ASSUME NEW a \in Actions, NEW o \in Outputs, NEW v \in {TRUE, ~params.verify}, Put(p, a, o, v)
        PROVE  P
    <2> DEFINE c == [NoCall EXCEPT !.op = "put", !.id = a, !.out = o, !.allow = v]
    <2>1. c.id = a /\ c.out = o /\ c.off = 0
      BY DEF NoCall
    <2>0. v \in BOOLEAN
      OBVIOUS
    <2>2. c \in Calls
      BY <1>0, <2>0 DEF Calls
    <2>3. Invoke(p, c) /\ Go(p, "stat")
      BY <1>2 DEF Put
    <2> HIDE DEF c
    <2> QED BY <2>1, <2>2, <2>3, <1>M
  <1>3. ASSUME NEW a \in Actions, NEW o \in {"get", "getFile", "getBytes"}, Get(p, o, a), ~UNCHANGED vars
        PROVE  P
    <2> DEFINE c == [NoCall EXCEPT !.op = o, !.id = a]
    <2>1. c.id = a
      BY DEF NoCall
    <2>2. c \in Calls
      BY <1>0 DEF Calls
    <2>3. Invoke(p, c) /\ Go(p, "get")
      BY <1>3 DEF Get
    <2> HIDE DEF c
    <2> QED BY <2>1, <2>2, <2>3, <1>M
  <1>4. P \/ UNCHANGED vars
    BY <1>1, <1>2, <1>3 DEF Call
  <1> QED BY <1>4 DEF P

\* One process moves at a time.
LEMMA Moved ==
  ASSUME ProcInv, DiskInv, NEW p \in Procs,
         PutSteps(p) \/ GetSteps(p) \/ TrimSteps(p) \/ Done(p) \/ Crash(p) \/ (Call(p) /\ ~UNCHANGED vars)
  PROVE  ProcInv' /\ \A q \in Procs \ {p} : pc'[q] = pc[q] /\ call'[q] = call[q]
  <1>1. \E place, c : Moves(p, place, c) /\ Local(place, c)
    BY PutMoves, GetMoves, TrimMoves, CallMoves
  <1> QED BY <1>1, LocalKept

-----------------------------------------------------------------------------
(* What is on the disk                                                     *)

\* Neither writing a file nor using it makes its time much older than its last use.
LEMMA TimesKept ==
  ASSUME TimeInv, now \in Int, NEW f \in Files,
         Written(f) \/ Unwritten \/ Used(f)
  PROVE  TimeInv'
  <1>0. MtimeInterval \in Nat /\ MtimeInterval > 0
    BY BuildCacheAssumption
  <1>1. CASE Written(f)
    <2>1. mtime' \in [Files -> Int] /\ lastUse' \in [Files -> Int]
      BY <1>1 DEF Written, TimeInv
    <2>2. ASSUME NEW g \in Files PROVE lastUse'[g] - mtime'[g] < MtimeInterval
      BY <1>0, <1>1 DEF Written, TimeInv
    <2> QED BY <2>1, <2>2 DEF TimeInv
  <1>2. CASE Unwritten
    BY <1>2 DEF Unwritten, TimeInv
  <1>3. CASE f \in exists /\ Used(f)
    <2>1. lastUse' = [lastUse EXCEPT ![f] = now] /\ (\/ mtime' = mtime /\ now - mtime[f] < MtimeInterval
                                                     \/ mtime' = [mtime EXCEPT ![f] = now])
      BY <1>3 DEF Used
    <2>2. mtime' \in [Files -> Int] /\ lastUse' \in [Files -> Int]
      BY <2>1 DEF TimeInv
    <2>3. ASSUME NEW g \in Files PROVE lastUse'[g] - mtime'[g] < MtimeInterval
      BY <1>0, <2>1 DEF TimeInv
    <2> QED BY <2>2, <2>3 DEF TimeInv
  <1> QED BY <1>1, <1>2, <1>3 DEF Used

\* The content of a file just created.
LEMMA EmptyIs == <<>> \in Seq(BOOLEAN)
  OBVIOUS

\* os.Remove keeps the types.
LEMMA RemoveKeeps ==
  ASSUME ContentInv, NEW f \in Files, NEW closed, Remove(f, closed)
  PROVE  ContentInv'
  <1>1. exists' \subseteq Files /\ lost' \subseteq Files
    BY DEF ContentInv, Remove
  <1>2. entry' \in [Actions -> Outputs \cup {NoFile}]
    BY DEF ContentInv, Remove
  <1>3. data' \in [Outputs -> Seq(BOOLEAN)]
    <2>1. data' = [o \in Outputs |-> IF o = f THEN <<>> ELSE data[o]]
      BY DEF Remove
    <2>2. \A o \in Outputs : (IF o = f THEN <<>> ELSE data[o]) \in Seq(BOOLEAN)
      BY EmptyIs DEF ContentInv
    <2> QED BY <2>1, <2>2
  <1> QED BY <1>1, <1>2, <1>3 DEF ContentInv

\* A step that leaves the files alone.
LEMMA ContentSame ==
  ASSUME ContentInv, UNCHANGED <<exists, entry, data, lost>>
  PROVE  ContentInv'
  BY DEF ContentInv

\* Every step of a process keeps the types of the files.
LEMMA ContentKept ==
  ASSUME ContentInv, ProcInv, NEW p \in Procs,
         Call(p) \/ PutSteps(p) \/ GetSteps(p) \/ TrimSteps(p) \/ Done(p) \/ Crash(p)
  PROVE  ContentInv'
  <1>L. Local(pc[p], call[p]) /\ call[p] \in Calls
    BY DEF ProcInv
  <1>F. Outputs \subseteq Files /\ Actions \subseteq Files
    BY DEF Files
  <1>0. ASSUME UNCHANGED <<exists, entry, data, lost>> PROVE ContentInv'
    BY <1>0, ContentSame
  <1>1. ASSUME Call(p) PROVE ContentInv'
    <2>1. UNCHANGED <<exists, entry, data, lost>>
      BY <1>1 DEF Call, Trim, Put, Get, Invoke, vars, diskVars, ghostVars
    <2> QED BY <2>1, <1>0
  <1>2. ASSUME GetSteps(p) \/ Done(p) \/ Crash(p) PROVE ContentInv'
    <2>1. UNCHANGED <<exists, entry, data, lost>>
      BY <1>2 DEF GetSteps, ReadEntry, UsedEntry, UsedOutput, Look, Done, Crash, diskVars, ghostVars
    <2> QED BY <2>1, <1>0
  <1>3. ASSUME Stat(p) \/ Rehash(p) \/ Close(p) \/ VerifyEntry(p) PROVE ContentInv'
    <2>1. UNCHANGED <<exists, entry, data, lost>>
      BY <1>3 DEF Stat, Rehash, Close, VerifyEntry, diskVars, ghostVars
    <2> QED BY <2>1, <1>0
  <1>4. ASSUME Open(p) PROVE ContentInv'
    <2>1. call[p].out \in Outputs
      BY <1>4, <1>L DEF Open, Local
    <2>2. data' \in [Outputs -> Seq(BOOLEAN)]
      <3>1. data' = data \/ data' = [data EXCEPT ![call[p].out] = <<>>]
        BY <1>4 DEF Open
      <3> QED BY <3>1, EmptyIs DEF ContentInv
    <2>3. exists' = exists \cup {call[p].out} /\ entry' = entry /\ lost' = lost
      BY <1>4 DEF Open
    <2> QED BY <2>1, <2>2, <2>3, <1>F DEF ContentInv
  <1>5. ASSUME CopyByte(p) PROVE ContentInv'
    <2>1. call[p].out \in Outputs /\ call[p].off \in Nat
      BY <1>5, <1>L DEF CopyByte, Local, Calls
    <2>2. data' = data \/ data' = [data EXCEPT ![call[p].out] = WriteAt(data[call[p].out], call[p].off)]
      BY <1>5, <2>1 DEF CopyByte, ContentInv
    <2>3. WriteAt(data[call[p].out], call[p].off) \in Seq(BOOLEAN)
      BY <2>1, WriteAtIs DEF ContentInv
    <2>4. data' \in [Outputs -> Seq(BOOLEAN)]
      BY <2>2, <2>3 DEF ContentInv
    <2> QED BY <1>5, <2>4 DEF CopyByte, ContentInv
  <1>6. ASSUME CopyFails(p) PROVE ContentInv'
    <2>1. data' = data \/ data' = [data EXCEPT ![call[p].out] = <<>>]
      BY <1>6 DEF CopyFails
    <2>2. data' \in [Outputs -> Seq(BOOLEAN)]
      BY <2>1, EmptyIs DEF ContentInv
    <2> QED BY <1>6, <2>2 DEF CopyFails, ContentInv
  <1>7. ASSUME CloseFails(p) PROVE ContentInv'
    BY <1>7, <1>L, <1>F, RemoveKeeps DEF CloseFails, Local
  <1>8. ASSUME Create(p) PROVE ContentInv'
    BY <1>8, <1>L, <1>F DEF Create, Local, ContentInv
  <1>9. ASSUME WriteEntry(p) PROVE ContentInv'
    <2>1. call[p].out \in Outputs
      BY <1>9, <1>L DEF WriteEntry, Local
    <2> QED BY <1>9, <2>1 DEF WriteEntry, ContentInv
  <1>10. ASSUME WriteFails(p) PROVE ContentInv'
    <2>1. call[p].out \in Outputs
      BY <1>10, <1>L DEF WriteFails, Local
    <2> QED BY <1>10, <2>1 DEF WriteFails, ContentInv
  <1>11. ASSUME RemoveEntry(p) PROVE ContentInv'
    BY <1>11, <1>L, <1>F, RemoveKeeps DEF RemoveEntry, Local
  <1>12. ASSUME ReadTrim(p) \/ (\E f \in Files : TrimStat(p, f)) \/ WriteTrim(p) PROVE ContentInv'
    <2>1. UNCHANGED <<exists, entry, data, lost>>
      BY <1>12 DEF ReadTrim, TrimStat, WriteTrim, diskVars, ghostVars
    <2> QED BY <2>1, <1>0
  <1>13. ASSUME TrimRemove(p) PROVE ContentInv'
    BY <1>13, <1>L, <1>F, RemoveKeeps DEF TrimRemove, Local
  <1> QED BY <1>1, <1>2, <1>3, <1>4, <1>5, <1>6, <1>7, <1>8, <1>9, <1>10, <1>11, <1>12, <1>13
          DEF PutSteps, TrimSteps

\* Every step of a process keeps the bound on the times of files.
LEMMA TimeKept ==
  ASSUME TimeInv, ProcInv, now \in Int, NEW p \in Procs,
         Call(p) \/ PutSteps(p) \/ GetSteps(p) \/ TrimSteps(p) \/ Done(p) \/ Crash(p)
  PROVE  TimeInv'
  <1>L. Local(pc[p], call[p])
    BY DEF ProcInv
  <1>F. Outputs \subseteq Files /\ Actions \subseteq Files
    BY DEF Files
  <1>0. ASSUME UNCHANGED <<mtime, lastUse>> PROVE TimeInv'
    BY <1>0 DEF TimeInv
  <1>W. ASSUME NEW f \in Files, Written(f) \/ Unwritten \/ Used(f) PROVE TimeInv'
    BY <1>W, TimesKept
  <1>1. ASSUME Call(p) PROVE TimeInv'
    <2>1. UNCHANGED <<mtime, lastUse>>
      BY <1>1 DEF Call, Trim, Put, Get, Invoke, vars, diskVars, ghostVars
    <2> QED BY <2>1, <1>0
  <1>2. ASSUME Stat(p) \/ Rehash(p) \/ CloseFails(p) \/ RemoveEntry(p) PROVE TimeInv'
    <2>1. UNCHANGED <<mtime, lastUse>>
      BY <1>2 DEF Stat, Rehash, CloseFails, RemoveEntry, diskVars, ghostVars
    <2> QED BY <2>1, <1>0
  <1>3. ASSUME ReadEntry(p) \/ Look(p) \/ Done(p) \/ Crash(p) PROVE TimeInv'
    <2>1. UNCHANGED <<mtime, lastUse>>
      BY <1>3 DEF ReadEntry, Look, Done, Crash, diskVars, ghostVars
    <2> QED BY <2>1, <1>0
  <1>4. ASSUME TrimSteps(p) PROVE TimeInv'
    <2>1. UNCHANGED <<mtime, lastUse>>
      BY <1>4 DEF TrimSteps, ReadTrim, TrimStat, TrimRemove, WriteTrim, diskVars, ghostVars
    <2> QED BY <2>1, <1>0
  <1>5. ASSUME Open(p) \/ CopyByte(p) \/ CopyFails(p) \/ Close(p) PROVE TimeInv'
    <2>1. call[p].out \in Files
      BY <1>5, <1>L, <1>F DEF Open, CopyByte, CopyFails, Close, Local
    <2>2. Written(call[p].out) \/ Unwritten
      BY <1>5 DEF Open, CopyByte, CopyFails, Close
    <2> QED BY <2>1, <2>2, <1>W
  <1>6. ASSUME VerifyEntry(p) \/ Create(p) \/ WriteEntry(p) \/ WriteFails(p) \/ UsedEntry(p) PROVE TimeInv'
    <2>1. call[p].id \in Files
      BY <1>6, <1>L, <1>F DEF VerifyEntry, Create, WriteEntry, WriteFails, UsedEntry, Local
    <2>2. Written(call[p].id) \/ Unwritten \/ Used(call[p].id)
      BY <1>6 DEF VerifyEntry, Create, WriteEntry, WriteFails, UsedEntry
    <2> QED BY <2>1, <2>2, <1>W
  <1>7. ASSUME UsedOutput(p) PROVE TimeInv'
    BY <1>7, <1>L, <1>F, <1>W DEF UsedOutput, Local
  <1> QED BY <1>1, <1>2, <1>3, <1>4, <1>5, <1>6, <1>7 DEF PutSteps, GetSteps

\* No file is removed: a process only closes what it has open.
LEMMA GoneSame ==
  ASSUME GoneInv, NEW p \in Procs, lost \subseteq lost',
         \A q \in Procs \ {p} : pc'[q] = pc[q] /\ call'[q] = call[q],
         gone' \subseteq gone, p \in gone' => Opened(p)' = Opened(p)
  PROVE  GoneInv'
  BY DEF GoneInv, Opened

\* A file is removed, which the process that does so has not open.
LEMMA GoneMore ==
  ASSUME GoneInv, ProcInv, NEW p \in Procs, NEW f, NEW closed \in SUBSET Procs, Remove(f, closed),
         \A q \in Procs \ {p} : pc'[q] = pc[q] /\ call'[q] = call[q],
         p \in closed \/ pc[p] \in {"remove", "trimRemove"}, f \in Files, lost \subseteq Files
  PROVE  GoneInv' /\ p \notin gone'
  <1>1. ASSUME pc[p] \in {"remove", "trimRemove"} PROVE p \notin gone'
    <2>1. Opened(p) = NoFile
      BY <1>1 DEF Opened
    <2>2. p \notin gone /\ Opened(p) # f
      BY <2>1, BuildCacheAssumption DEF GoneInv
    <2> QED BY <2>2 DEF Remove
  <1>2. p \notin gone'
    BY <1>1 DEF Remove
  <1>3. ASSUME NEW q \in gone' PROVE q \in Procs /\ (Opened(q) \in lost)'
    <2>1. q \in Procs \ {p} /\ Opened(q) \in lost'
      BY <1>2, <1>3 DEF GoneInv, Remove
    <2>2. Opened(q)' = Opened(q)
      BY <2>1 DEF Opened
    <2> QED BY <2>1, <2>2
  <1> QED BY <1>2, <1>3 DEF GoneInv

\* Every step of a process keeps GoneInv.
LEMMA GoneKept ==
  ASSUME GoneInv, ProcInv, DiskInv, NEW p \in Procs, 
         Call(p) \/ PutSteps(p) \/ GetSteps(p) \/ TrimSteps(p) \/ Done(p) \/ Crash(p)
  PROVE  GoneInv'
  <1>L. Local(pc[p], call[p]) /\ pc \in [Procs -> Places] /\ call \in [Procs -> Calls]
    BY DEF ProcInv
  <1>F. Outputs \subseteq Files /\ Actions \subseteq Files /\ lost \subseteq Files
    BY DEF Files, DiskInv, ContentInv
  <1>M. ASSUME PutSteps(p) \/ GetSteps(p) \/ TrimSteps(p) \/ Done(p) \/ Crash(p) \/ (Call(p) /\ ~UNCHANGED vars)
        PROVE  \A q \in Procs \ {p} : pc'[q] = pc[q] /\ call'[q] = call[q]
    BY <1>M, Moved
  <1>N. ASSUME pc[p] \notin {"copy", "close", "write"} PROVE p \notin gone
    <2>1. Opened(p) = NoFile
      BY <1>N DEF Opened
    <2> QED BY <2>1, <1>F, BuildCacheAssumption DEF GoneInv
  <1>S. ASSUME p \notin gone', gone' \subseteq gone, lost' = lost, ~UNCHANGED vars
        PROVE  GoneInv'
    BY <1>S, <1>M, GoneSame
  <1>1. ASSUME Call(p), ~UNCHANGED vars PROVE GoneInv'
    <2>1. pc[p] = "idle" /\ gone' = gone /\ lost' = lost
      BY <1>1 DEF Call, Trim, Put, Get, Invoke
    <2> QED BY <2>1, <1>1, <1>N, <1>S
  <1>2. ASSUME GetSteps(p) \/ Stat(p) \/ Rehash(p) \/ Open(p) \/ VerifyEntry(p) \/ Create(p) \/ Done(p) PROVE GoneInv'
    <2>1. pc[p] \notin {"copy", "close", "write"} /\ gone' = gone /\ lost' = lost
      BY <1>2 DEF GetSteps, ReadEntry, UsedEntry, UsedOutput, Look, Stat, Rehash, Open, VerifyEntry,
                  Create, Done, ghostVars
    <2>2. \A q \in Procs \ {p} : pc'[q] = pc[q] /\ call'[q] = call[q]
      BY <1>2, <1>M DEF PutSteps
    <2> QED BY <2>1, <2>2, <1>N, GoneSame
  <1>3. ASSUME CopyByte(p) PROVE GoneInv'
    <2>1. gone' = gone /\ lost' = lost
      BY <1>3 DEF CopyByte
    <2>2. \A q \in Procs \ {p} : pc'[q] = pc[q] /\ call'[q] = call[q]
      BY <1>3, <1>M DEF PutSteps
    <2>3. call'[p].out = call[p].out
      BY <1>3, <1>L DEF CopyByte, Calls
    <2>4. pc[p] = "copy" /\ pc'[p] \in {"copy", "close"}
      BY <1>3, <1>L DEF CopyByte, Go
    <2>5. Opened(p)' = Opened(p)
      BY <2>3, <2>4 DEF Opened
    <2> QED BY <2>1, <2>2, <2>5, GoneSame
  <1>4. ASSUME CopyFails(p) \/ Close(p) \/ WriteEntry(p) \/ WriteFails(p) \/ Crash(p) PROVE GoneInv'
    <2>1. gone' = gone \ {p} /\ lost' = lost
      BY <1>4 DEF CopyFails, Close, WriteEntry, WriteFails, Crash
    <2>2. \A q \in Procs \ {p} : pc'[q] = pc[q] /\ call'[q] = call[q]
      BY <1>4, <1>M DEF PutSteps
    <2> QED BY <2>1, <2>2, GoneSame
  <1>5. ASSUME CloseFails(p) PROVE GoneInv'
    <2>1. call[p].out \in Files /\ Remove(call[p].out, {p})
      BY <1>5, <1>L, <1>F DEF CloseFails, Local
    <2>2. \A q \in Procs \ {p} : pc'[q] = pc[q] /\ call'[q] = call[q]
      BY <1>5, <1>M DEF PutSteps
    <2> QED BY <2>1, <2>2, <1>F, GoneMore
  <1>6. ASSUME RemoveEntry(p) PROVE GoneInv'
    <2>1. call[p].id \in Files /\ Remove(call[p].id, {}) /\ pc[p] = "remove"
      BY <1>6, <1>L, <1>F DEF RemoveEntry, Local
    <2>2. \A q \in Procs \ {p} : pc'[q] = pc[q] /\ call'[q] = call[q]
      BY <1>6, <1>M DEF PutSteps
    <2> QED BY <2>1, <2>2, <1>F, GoneMore
  <1>7. ASSUME TrimRemove(p) PROVE GoneInv'
    <2>1. call[p].victim \in Files /\ Remove(call[p].victim, {}) /\ pc[p] = "trimRemove"
      BY <1>7, <1>L, <1>F DEF TrimRemove, Local
    <2>2. \A q \in Procs \ {p} : pc'[q] = pc[q] /\ call'[q] = call[q]
      BY <1>7, <1>M DEF TrimSteps
    <2> QED BY <2>1, <2>2, <1>F, GoneMore
  <1>8. ASSUME ReadTrim(p) \/ (\E f \in Files : TrimStat(p, f)) \/ WriteTrim(p) PROVE GoneInv'
    <2>1. pc[p] \notin {"copy", "close", "write"} /\ gone' = gone /\ lost' = lost
      BY <1>8 DEF ReadTrim, TrimStat, WriteTrim, ghostVars
    <2>2. \A q \in Procs \ {p} : pc'[q] = pc[q] /\ call'[q] = call[q]
      BY <1>8, <1>M DEF TrimSteps
    <2> QED BY <2>1, <2>2, <1>N, GoneSame
  <1>9. ASSUME UNCHANGED vars PROVE GoneInv'
    BY <1>9 DEF GoneInv, Opened, vars, ghostVars
  <1> QED BY <1>1, <1>2, <1>3, <1>4, <1>5, <1>6, <1>7, <1>8, <1>9 DEF PutSteps, TrimSteps

-----------------------------------------------------------------------------
(* The rest of the types                                                   *)

\* Every step of a process keeps the types of trim.txt and the ghosts, and the parameters.
LEMMA RestKept ==
  ASSUME RestInv, ProcInv, NEW p \in Procs,
         Call(p) \/ PutSteps(p) \/ GetSteps(p) \/ TrimSteps(p) \/ Done(p) \/ Crash(p)
  PROVE  RestInv' /\ params' = params
  <1>0. ASSUME UNCHANGED <<params, trimTxt, now, alone>> PROVE RestInv' /\ params' = params
    BY <1>0 DEF RestInv
  <1>1. ASSUME NEW c, Invoke(p, c) PROVE RestInv' /\ params' = params
    BY <1>1 DEF Invoke, RestInv, diskVars
  <1>2. ASSUME Call(p) PROVE RestInv' /\ params' = params
    <2>1. (\E c : Invoke(p, c)) \/ UNCHANGED <<params, trimTxt, now, alone>>
      BY <1>2 DEF Call, Trim, Put, Get, vars, diskVars, ghostVars
    <2> QED BY <2>1, <1>0, <1>1
  <1>3. ASSUME PutSteps(p) PROVE RestInv' /\ params' = params
    <2>1. UNCHANGED <<params, trimTxt, now, alone>>
      BY <1>3 DEF PutSteps, Stat, Rehash, Open, CopyByte, CopyFails, Close, CloseFails, VerifyEntry,
                  Create, WriteEntry, WriteFails, RemoveEntry, diskVars, ghostVars
    <2> QED BY <2>1, <1>0
  <1>4. ASSUME GetSteps(p) \/ Done(p) \/ Crash(p) PROVE RestInv' /\ params' = params
    <2>1. UNCHANGED <<params, trimTxt, now, alone>>
      BY <1>4 DEF GetSteps, ReadEntry, UsedEntry, UsedOutput, Look, Done, Crash, diskVars, ghostVars
    <2> QED BY <2>1, <1>0
  <1>5. ASSUME ReadTrim(p) \/ (\E f \in Files : TrimStat(p, f)) \/ TrimRemove(p) PROVE RestInv' /\ params' = params
    <2>1. UNCHANGED <<params, trimTxt, now, alone>>
      BY <1>5 DEF ReadTrim, TrimStat, TrimRemove, diskVars, ghostVars
    <2> QED BY <2>1, <1>0
  <1>6. ASSUME WriteTrim(p) PROVE RestInv' /\ params' = params
    <2>1. call[p].start \in Int
      BY BuildCacheAssumption DEF ProcInv, Calls
    <2>2. trimTxt' \subseteq Int
      BY <1>6, <2>1 DEF WriteTrim
    <2> QED BY <1>6, <2>2 DEF WriteTrim, RestInv, ghostVars
  <1> QED BY <1>2, <1>3, <1>4, <1>5, <1>6 DEF TrimSteps

\* The steps: time, or one of a process.
LEMMA NextIs ==
  ASSUME [Next]_vars
  PROVE  \/ Tick \/ UNCHANGED vars
         \/ \E p \in Procs :
              Call(p) \/ PutSteps(p) \/ GetSteps(p) \/ TrimSteps(p) \/ Done(p) \/ Crash(p)
  BY DEF Next

\* The invariant holds in a new cache, a filled one and a damaged one.
LEMMA TypeInit ==
  ASSUME Init
  PROVE  TypeInv
  <1>1. NoCall \in Calls
    BY BuildCacheAssumption DEF NoCall, Calls
  <1>2. ProcInv
    BY <1>1 DEF Init, ProcInv, Local, Places
  <1>3. ContentInv
    <2>1. exists \subseteq Files /\ lost \subseteq Files
      BY DEF Init
    <2>2. entry \in [Actions -> Outputs \cup {NoFile}]
      BY DEF Init
    <2>3. \A o \in Outputs : Old(o) \subseteq Seq(BOOLEAN)
      <3> TAKE o \in Outputs
      <3>1. Size[o] \in Nat
        BY BuildCacheAssumption
      <3>2. ASSUME NEW n \in Nat PROVE [i \in 1 .. n |-> FALSE] \in Seq(BOOLEAN)
        <4>1. [i \in 1 .. n |-> FALSE] \in [1 .. n -> BOOLEAN]
          OBVIOUS
        <4> QED BY <4>1, SeqIs
      <3>3. Damaged(o) \subseteq Seq(BOOLEAN)
        <4> SUFFICES ASSUME NEW s \in Damaged(o) PROVE s \in Seq(BOOLEAN)
          OBVIOUS
        <4>1. PICK n \in {Size[o], Size[o] + 1} : s = [i \in 1 .. n |-> FALSE]
          BY DEF Damaged
        <4>2. n \in Nat
          BY <3>1
        <4> QED BY <4>1, <4>2, <3>2
      <3> QED BY <3>3, EmptyIs, WholeIs DEF Old
    <2>4. data \in [Outputs -> Seq(BOOLEAN)]
      BY <2>3 DEF Init
    <2> QED BY <2>1, <2>2, <2>4 DEF ContentInv
  <1>4. RestInv
    <2>1. params.age \in Int /\ params \in Runs
      BY BuildCacheAssumption DEF Init, AllRuns
    <2>2. MaxTime \in Nat /\ MtimeInterval \in Nat
      BY BuildCacheAssumption
    <2> QED BY <2>1, <2>2 DEF Init, RestInv
  <1>5. TimeInv
    <2>1. params.age \in Int
      BY BuildCacheAssumption DEF Init, AllRuns
    <2>2. MtimeInterval \in Nat /\ MtimeInterval > 0
      BY BuildCacheAssumption
    <2> QED BY <2>1, <2>2 DEF Init, TimeInv
  <1>6. GoneInv
    BY DEF Init, GoneInv
  <1> QED BY <1>2, <1>3, <1>4, <1>5, <1>6 DEF TypeInv, DiskInv

\* Every step keeps the invariant.
LEMMA TypeStep ==
  ASSUME TypeInv, [Next]_vars
  PROVE  TypeInv'
  <1>0. ProcInv /\ DiskInv /\ GoneInv /\ ContentInv /\ RestInv /\ TimeInv /\ now \in Int
    BY DEF TypeInv, DiskInv, RestInv
  <1>1. ASSUME UNCHANGED <<params, exists, entry, data, mtime, trimTxt, pc, call, ghostVars>>,
               now' \in 0 .. MaxTime
        PROVE  TypeInv'
    <2>1. ProcInv' /\ GoneInv'
      BY <1>0, <1>1 DEF ProcInv, GoneInv, Opened, ghostVars, Local
    <2>2. ContentInv' /\ TimeInv' /\ RestInv'
      BY <1>0, <1>1 DEF ContentInv, TimeInv, RestInv, ghostVars
    <2> QED BY <2>1, <2>2 DEF TypeInv, DiskInv
  <1>2. CASE Tick
    <2>1. params.clock \in 0 .. MaxTime /\ now \in 0 .. MaxTime /\ MaxTime \in Nat
      BY <1>0, BuildCacheAssumption DEF RestInv, AllRuns
    <2>2. now' \in 0 .. MaxTime
      BY <1>2, <2>1 DEF Tick
    <2> QED BY <1>1, <1>2, <2>2 DEF Tick
  <1>3. CASE UNCHANGED vars
    BY <1>0, <1>1, <1>3 DEF vars, diskVars, RestInv
  <1>4. ASSUME NEW p \in Procs,
               Call(p) \/ PutSteps(p) \/ GetSteps(p) \/ TrimSteps(p) \/ Done(p) \/ Crash(p),
               ~UNCHANGED vars
        PROVE  TypeInv'
    <2>1. ProcInv'
      BY <1>0, <1>4, Moved
    <2>2. ContentInv' /\ TimeInv' /\ RestInv' /\ GoneInv'
      BY <1>0, <1>4, ContentKept, TimeKept, RestKept, GoneKept
    <2> QED BY <2>1, <2>2 DEF TypeInv, DiskInv
  <1> QED BY <1>2, <1>3, <1>4, NextIs

\* Every variable has its type, whatever the processes do and when they die.
THEOREM TypeCorrect == Spec => []TypeOK
  <1>1. Init => TypeInv
    BY TypeInit
  <1>2. TypeInv /\ [Next]_vars => TypeInv'
    BY TypeStep
  <1>3. TypeInv => TypeOK
    BY TypeInvImplies
  <1> QED BY <1>1, <1>2, <1>3, PTL DEF Spec

\* What Trim decides to remove was not used for at least trimLimit.
THEOREM TrimSparesHolds == Spec => TrimSpares
  <1>1. Init => TypeInv
    BY TypeInit
  <1>2. TypeInv /\ [Next]_vars => TypeInv'
    BY TypeStep
  <1>3. ASSUME TypeInv, [Next]_vars
        PROVE  \A p \in Procs : pc[p] = "trim" /\ pc'[p] = "trimRemove"
                        => lastUse[call'[p].victim] < call[p].start - TrimLimit
    <2> SUFFICES ASSUME NEW p \in Procs, pc[p] = "trim", pc'[p] = "trimRemove"
                 PROVE  lastUse[call'[p].victim] < call[p].start - TrimLimit
      OBVIOUS
    <2>0. ProcInv /\ DiskInv /\ TimeInv /\ pc \in [Procs -> Places] /\ call \in [Procs -> Calls]
      BY <1>3 DEF TypeInv, DiskInv, ProcInv
    <2>1. ~Tick /\ ~UNCHANGED vars
      BY DEF Tick, vars
    <2>2. PICK q \in Procs : Call(q) \/ PutSteps(q) \/ GetSteps(q) \/ TrimSteps(q) \/ Done(q) \/ Crash(q)
      BY <1>3, <2>1, NextIs
    <2>3. q = p
      BY <2>0, <2>1, <2>2, Moved
    <2>4. TrimSteps(p)
      <3>1. ~Call(p)
        BY <2>1 DEF Call, Trim, Put, Get, Invoke
      <3>2. ~PutSteps(p)
        BY DEF PutSteps, Stat, Rehash, Open, CopyByte, CopyFails, Close, CloseFails, VerifyEntry,
               Create, WriteEntry, WriteFails, RemoveEntry
      <3>3. ~GetSteps(p) /\ ~Done(p)
        BY DEF GetSteps, ReadEntry, UsedEntry, UsedOutput, Look, Done
      <3>4. ~Crash(p)
        BY <2>0 DEF Crash, Return, Go
      <3> QED BY <2>2, <2>3, <3>1, <3>2, <3>3, <3>4
    <2>5. PICK f \in Files : TrimStat(p, f)
      <3>1. ~ReadTrim(p) /\ ~TrimRemove(p)
        BY DEF ReadTrim, TrimRemove
      <3>2. ~WriteTrim(p)
        BY <2>0 DEF WriteTrim, Return, Go
      <3> QED BY <2>4, <3>1, <3>2 DEF TrimSteps
    <2>6. f \in exists /\ mtime[f] < Cutoff(p) /\ call'[p] = [call[p] EXCEPT !.todo = @ \ {f}, !.victim = f]
      BY <2>0, <2>5 DEF TrimStat
    <2>7. call'[p].victim = f
      BY <2>0, <2>6 DEF Calls
    <2>8. /\ lastUse[f] \in Int /\ mtime[f] \in Int /\ call[p].start \in Int
          /\ TrimLimit \in Int /\ MtimeInterval \in Int /\ lastUse[f] - mtime[f] < MtimeInterval
      BY <2>0, BuildCacheAssumption DEF TimeInv, Calls
    <2> QED BY <2>6, <2>7, <2>8 DEF Cutoff
  <1> QED BY <1>1, <1>2, <1>3, PTL DEF Spec, TrimSpares

-----------------------------------------------------------------------------
(* Index entries                                                           *)

\* An output file grows from nothing to the whole.
Grown(o) ==
  /\ Len(data[o]) <= Size[o]
  /\ \A i \in 1 .. Len(data[o]) : data[o][i] = TRUE
  /\ o \notin exists => data[o] = <<>>

There(o) == Complete(o) \/ o \in lost

\* What a writer wrote, it wrote to the file that is there, unless that was removed.
Reached(p) ==
  pc[p] \in {"copy", "close"} /\ p \notin gone =>
    call[p].out \in exists /\ call[p].off <= Len(data[call[p].out])

Ready(p) ==
  /\ pc[p] \in {"rehash", "open"} => call[p].seen <= Size[call[p].out]
  /\ pc[p] \in {"verify", "create", "write", "usedA", "usedD", "look", "use"} => There(call[p].out)
  /\ pc[p] # "remove"

HonestInv ==
  Sound => /\ \A o \in Outputs : Grown(o)
           /\ \A p \in Procs : Reached(p) /\ Ready(p)
           /\ \A a \in Actions : entry[a] # NoFile => There(entry[a])

\* What a step may do to an index entry.
Honest(a) ==
  entry'[a] \in {entry[a], NoFile} \/ \E o \in Outputs : entry'[a] = o /\ There(o)'

\* What follows for a step of p from what it does to the files.
LEMMA HonestSteps ==
  ASSUME TypeInv, ProcInv', HonestInv, Sound, params' = params, NEW p \in Procs,
         \A q \in Procs \ {p} : pc'[q] = pc[q] /\ call'[q] = call[q],
         \A o \in Outputs : Grown(o)' /\ (There(o) => There(o)'),
         \A q \in Procs \ {p} : Reached(q)',
         Reached(p)' /\ Ready(p)',
         \A a \in Actions : Honest(a)
  PROVE  HonestInv'
  <1>1. \A q \in Procs : Local(pc[q], call[q]) /\ Reached(q) /\ Ready(q)
    BY DEF TypeInv, ProcInv, HonestInv
  <1>2. ASSUME NEW q \in Procs \ {p} PROVE Ready(q)'
    <2>1. Local(pc[q], call[q]) /\ Ready(q) /\ pc'[q] = pc[q] /\ call'[q] = call[q]
      BY <1>1
    <2>2. pc[q] \in {"verify", "create", "write", "usedA", "usedD", "look", "use"} => There(call[q].out)'
      BY <2>1 DEF Ready, Local
    <2> QED BY <2>1, <2>2 DEF Ready, There, Complete
  <1>3. ASSUME NEW a \in Actions PROVE (entry[a] # NoFile => There(entry[a]))'
    <2>0. (entry[a] # NoFile => There(entry[a])) /\ entry[a] \in Outputs \cup {NoFile}
      BY DEF HonestInv, TypeInv, DiskInv, ContentInv
    <2>1. CASE entry'[a] = NoFile
      BY <2>1
    <2>2. CASE entry'[a] # NoFile
      <3>1. PICK o \in Outputs : entry'[a] = o /\ There(o)'
        BY <2>0, <2>2 DEF Honest
      <3> QED BY <3>1 DEF There, Complete, Whole
    <2> QED BY <2>1, <2>2
  <1> QED BY <1>2, <1>3 DEF HonestInv

\* The files stay as they are, or a new one appears.
LEMMA FilesStay ==
  ASSUME TypeInv, HonestInv, Sound, NEW p \in Procs,
         \A q \in Procs \ {p} : pc'[q] = pc[q] /\ call'[q] = call[q],
         exists \subseteq exists', data' = data, lost' = lost, gone \ {p} \subseteq gone'
  PROVE  /\ \A o \in Outputs : Grown(o)' /\ (There(o) => There(o)')
         /\ \A q \in Procs \ {p} : Reached(q)'
  <1>1. ASSUME NEW o \in Outputs PROVE Grown(o)' /\ (There(o) => There(o)')
    <2>1. Grown(o)
      BY DEF HonestInv
    <2> QED BY <2>1 DEF Grown, There, Complete, Whole
  <1>2. ASSUME NEW q \in Procs \ {p} PROVE Reached(q)'
    <2>1. Reached(q) /\ pc'[q] = pc[q] /\ call'[q] = call[q] /\ (q \notin gone' => q \notin gone)
      BY DEF HonestInv
    <2> QED BY <2>1 DEF Reached
  <1> QED BY <1>1, <1>2

\* Every step of a process keeps HonestInv on a sound disk.
LEMMA HonestKept ==
  ASSUME TypeInv, TypeInv', HonestInv, Sound, NEW p \in Procs, params' = params,
         \A q \in Procs \ {p} : pc'[q] = pc[q] /\ call'[q] = call[q],
         Call(p) \/ PutSteps(p) \/ GetSteps(p) \/ TrimSteps(p) \/ Done(p) \/ Crash(p),
         ~UNCHANGED vars
  PROVE  HonestInv'
  <1>L. Local(pc[p], call[p]) /\ pc \in [Procs -> Places] /\ call \in [Procs -> Calls] /\ ProcInv'
    BY DEF TypeInv, ProcInv
  <1>H. Reached(p) /\ Ready(p) /\ \A o \in Outputs : Grown(o) /\ Size[o] \in Nat /\ data[o] \in Seq(BOOLEAN)
    BY BuildCacheAssumption DEF HonestInv, TypeInv, DiskInv, ContentInv
  <1>S. ASSUME exists \subseteq exists', data' = data, lost' = lost, gone \ {p} \subseteq gone',
               Reached(p)' /\ Ready(p)',
               \A a \in Actions : Honest(a)
        PROVE  HonestInv'
    <2>1. /\ \A o \in Outputs : Grown(o)' /\ (There(o) => There(o)')
          /\ \A q \in Procs \ {p} : Reached(q)'
      BY <1>S, FilesStay
    <2> QED BY <2>1, <1>S, <1>L, HonestSteps
  <1>U. ASSUME UNCHANGED <<exists, data, lost, gone, entry>>, Reached(p)' /\ Ready(p)' PROVE HonestInv'
    BY <1>U, <1>S DEF Honest
  <1>N. ASSUME UNCHANGED <<exists, data, lost, gone, entry>>,
               pc'[p] \in {"idle", "stat", "put", "get", "read", "trim", "trimRemove"}
        PROVE  HonestInv'
    <2>1. Reached(p)' /\ Ready(p)'
      BY <1>N DEF Reached, Ready
    <2> QED BY <2>1, <1>N, <1>U
  <1>0. ~params.faulty
    BY DEF Sound
  <1>1. ASSUME Call(p) PROVE HonestInv'
    <2>1. pc'[p] \in {"stat", "get", "read"}
      BY <1>1, <1>L DEF Call, Trim, Put, Get, Go
    <2>2. UNCHANGED <<exists, data, lost, gone, entry>>
      BY <1>1 DEF Call, Trim, Put, Get, Invoke, diskVars
    <2> QED BY <2>1, <2>2, <1>N
  <1>G. ASSUME pc[p] \in {"verify", "usedA", "usedD", "look"}, UNCHANGED <<exists, data, lost, gone, entry>>,
               call'[p] = call[p], pc'[p] \in {"create", "usedD", "look", "use"}
        PROVE  HonestInv'
    <2>1. There(call[p].out)'
      BY <1>G, <1>H DEF Ready, There, Complete, Whole
    <2>2. Reached(p)' /\ Ready(p)'
      BY <2>1, <1>G DEF Reached, Ready
    <2> QED BY <2>2, <1>G, <1>U
  <1>2. ASSUME ReadEntry(p) \/ Done(p) PROVE HonestInv'
    <2>1. UNCHANGED <<exists, data, lost, gone, entry>>
      BY <1>2 DEF ReadEntry, Done, diskVars, ghostVars
    <2>2. CASE Return(p)
      <3>1. pc'[p] = "idle"
        BY <2>2, <1>L DEF Return, Go
      <3> QED BY <2>1, <3>1, <1>N
    <2>3. CASE ReadEntry(p) /\ entry[call[p].id] # NoFile
      <3>1. call[p].id \in Actions
        BY <2>3, <1>L DEF ReadEntry, Local
      <3>2. entry[call[p].id] \in Outputs
        BY <2>3, <3>1 DEF TypeInv, DiskInv, ContentInv
      <3>3. PICK o \in Outputs : o = entry[call[p].id]
        BY <3>2
      <3>4. There(o)'
        BY <2>1, <2>3, <3>1, <3>3 DEF HonestInv, There, Complete, Whole
      <3>5. pc'[p] = "usedA" /\ call'[p] = [call[p] EXCEPT !.out = o]
        BY <2>3, <3>3, <1>L DEF ReadEntry, Go
      <3>6. call'[p].out = o
        BY <3>5, <1>L DEF Calls
      <3>7. Reached(p)' /\ Ready(p)'
        BY <3>4, <3>5, <3>6 DEF Reached, Ready
      <3> QED BY <2>1, <3>7, <1>U
    <2> QED BY <1>2, <2>2, <2>3 DEF ReadEntry, Done
  <1>16. ASSUME UsedEntry(p) \/ UsedOutput(p) \/ Look(p) PROVE HonestInv'
    <2>1. UNCHANGED <<exists, data, lost, gone, entry>> /\ pc[p] \in {"usedA", "usedD", "look"}
      BY <1>16 DEF UsedEntry, UsedOutput, Look, diskVars, ghostVars
    <2>2. CASE Return(p)
      <3>1. pc'[p] = "idle"
        BY <2>2, <1>L DEF Return, Go
      <3> QED BY <2>1, <3>1, <1>N
    <2>3. CASE call' = call
      <3>1. pc'[p] \in {"usedD", "look", "use"} \/ Return(p)
        BY <1>16, <1>L DEF UsedEntry, UsedOutput, Look, Go
      <3> QED BY <2>1, <2>2, <2>3, <3>1, <1>G
    <2> QED BY <1>16, <2>2, <2>3 DEF UsedEntry, UsedOutput, Look
  <1>3. ASSUME Crash(p) PROVE HonestInv'
    <2>1. UNCHANGED <<exists, data, lost, entry>> /\ gone' = gone \ {p} /\ pc'[p] = "idle"
      BY <1>3, <1>L DEF Crash, Return, Go, diskVars
    <2>2. Reached(p)' /\ Ready(p)'
      BY <2>1 DEF Reached, Ready
    <2> QED BY <2>1, <2>2, <1>S DEF Honest
  <1>4. ASSUME Stat(p) PROVE HonestInv'
    <2> DEFINE size == IF call[p].out \in exists THEN Len(data[call[p].out]) ELSE -1
    <2>1. call[p].out \in Outputs
      BY <1>4, <1>L DEF Stat, Local
    <2>2. size <= Size[call[p].out]
      BY <2>1, <1>H DEF Grown
    <2>3. pc'[p] \in {"rehash", "open"} /\ call'[p] = [call[p] EXCEPT !.seen = size]
      BY <1>4, <1>L DEF Stat, Go
    <2>4. call'[p].seen = size /\ call'[p].out = call[p].out
      BY <2>3, <1>L DEF Calls
    <2> HIDE DEF size
    <2>5. Reached(p)' /\ Ready(p)'
      BY <2>2, <2>3, <2>4 DEF Reached, Ready
    <2>6. UNCHANGED <<exists, data, lost, gone, entry>>
      BY <1>4 DEF Stat, diskVars, ghostVars
    <2> QED BY <2>5, <2>6, <1>U
  <1>T. ASSUME ThenIndex(p), call' = call, There(call[p].out)' PROVE Reached(p)' /\ Ready(p)'
    <2>1. pc'[p] \in {"verify", "create"} /\ call'[p] = call[p]
      BY <1>T, <1>L DEF ThenIndex, Go
    <2> QED BY <2>1, <1>T DEF Reached, Ready, There, Complete, Whole
  <1>5. ASSUME Rehash(p) PROVE HonestInv'
    <2>1. UNCHANGED <<exists, data, lost, gone, entry, call>>
      BY <1>5 DEF Rehash, diskVars, ghostVars
    <2>2. CASE Complete(call[p].out)
      <3>1. There(call[p].out)'
        BY <2>1, <2>2 DEF There, Complete, Whole
      <3> QED BY <1>5, <2>1, <2>2, <3>1, <1>T, <1>U DEF Rehash
    <2>3. CASE ~Complete(call[p].out)
      <3>1. pc[p] = "rehash" /\ pc'[p] = "open" /\ call'[p] = call[p]
        BY <1>5, <2>1, <2>3, <1>L DEF Rehash, Go
      <3>2. Reached(p)' /\ Ready(p)'
        BY <3>1, <1>H DEF Reached, Ready
      <3> QED BY <3>2, <2>1, <1>U
    <2> QED BY <2>2, <2>3
  <1>6. ASSUME Open(p) PROVE HonestInv'
    <2>1. call[p].out \in Outputs /\ call[p].off = 0 /\ pc[p] = "open"
      BY <1>6, <1>L DEF Open, Local
    <2>2. call[p].seen <= Size[call[p].out] /\ call[p].seen \in Int
      BY <2>1, <1>H, <1>L DEF Ready, Calls
    <2>3. ~(call[p].seen > Size[call[p].out])
      BY <2>1, <2>2, <1>H
    <2>4. /\ data' = data /\ exists' = exists \cup {call[p].out}
          /\ UNCHANGED <<lost, gone, entry, call>>
      BY <1>6, <2>3 DEF Open
    <2>5. CASE Size[call[p].out] = 0
      <3>1. Grown(call[p].out) /\ data[call[p].out] \in Seq(BOOLEAN)
        BY <2>1, <1>H
      <3>2. Len(data[call[p].out]) = 0
        BY <3>1, <2>5 DEF Grown
      <3>3. data[call[p].out] = Whole(call[p].out)
        BY <3>1, <3>2, <2>5 DEF Whole
      <3>4. There(call[p].out)'
        BY <2>4, <3>3 DEF There, Complete, Whole
      <3>5. Reached(p)' /\ Ready(p)'
        BY <1>6, <2>4, <2>5, <3>4, <1>T DEF Open
      <3> QED BY <2>4, <3>5, <1>S DEF Honest
    <2>6. CASE Size[call[p].out] # 0
      <3>1. pc'[p] = "copy" /\ call'[p] = call[p]
        BY <1>6, <2>4, <2>6, <1>L DEF Open, Go
      <3>2. Reached(p)' /\ Ready(p)'
        BY <2>1, <2>4, <3>1, <1>H DEF Reached, Ready
      <3> QED BY <2>4, <3>2, <1>S DEF Honest
    <2> QED BY <2>5, <2>6
  <1>7. ASSUME CopyByte(p) PROVE HonestInv'
    <2>0. call[p].out \in Outputs /\ call[p].off \in Nat /\ call[p].off < Size[call[p].out]
      BY <1>7, <1>L DEF CopyByte, Local, Calls
    <2> PICK o \in Outputs, n \in Nat : o = call[p].out /\ n = call[p].off
      BY <2>0
    <2>1. /\ o \in Outputs /\ n \in Nat /\ n < Size[o] /\ pc[p] = "copy"
          /\ UNCHANGED <<exists, lost, gone, entry>> /\ o = call[p].out /\ n = call[p].off
      BY <2>0, <1>7 DEF CopyByte
    <2>2. call'[p] = [call[p] EXCEPT !.off = @ + 1] /\ pc'[p] \in {"copy", "close"}
      BY <1>7, <1>L DEF CopyByte, Go
    <2>3. call'[p].off = n + 1 /\ call'[p].out = o
      BY <2>2, <1>L DEF Calls
    <2>4. CASE p \in gone
      <3>1. data' = data
        BY <1>7, <2>4 DEF CopyByte
      <3>2. Reached(p)' /\ Ready(p)'
        BY <2>1, <2>2, <2>4 DEF Reached, Ready
      <3> QED BY <2>1, <3>1, <3>2, <1>U
    <2>5. CASE p \notin gone
      <3>0. data \in [Outputs -> Seq(BOOLEAN)]
        BY DEF TypeInv, DiskInv, ContentInv
      <3>1. data' = [data EXCEPT ![o] = WriteAt(data[o], n)]
        BY <1>7, <2>5, <2>1, <3>0 DEF CopyByte
      <3>2. o \in exists /\ n <= Len(data[o]) /\ Grown(o) /\ data[o] \in Seq(BOOLEAN) /\ Size[o] \in Nat
        BY <2>1, <2>5, <1>H DEF Reached
      <3> DEFINE s == WriteAt(data[o], n)
      <3>w. /\ s \in Seq(BOOLEAN) /\ Len(s) = (IF Len(data[o]) > n THEN Len(data[o]) ELSE n + 1)
            /\ s[n + 1] = TRUE
            /\ \A i \in 1 .. Len(data[o]) : i # n + 1 => s[i] = data[o][i]
        BY <3>2, WriteAtIs
      <3>s. data'[o] = s /\ \A x \in Outputs \ {o} : data'[x] = data[x]
        BY <2>1, <3>0, <3>1
      <3> HIDE DEF s
      <3>3. /\ s \in Seq(BOOLEAN) /\ Len(s) <= Size[o] /\ Len(s) >= n + 1 /\ Len(s) >= Len(data[o])
            /\ Len(s) \in Nat
        BY <2>1, <3>2, <3>w DEF Grown
      <3>4. \A i \in 1 .. Len(s) : s[i] = TRUE
        <4> SUFFICES ASSUME NEW i \in 1 .. Len(s) PROVE s[i] = TRUE
          OBVIOUS
        <4>1. CASE i = n + 1
          BY <3>w, <4>1
        <4>2. CASE i # n + 1
          <5>1. i \in 1 .. Len(data[o])
            BY <2>1, <3>2, <4>2, <3>w
          <5> QED BY <3>2, <4>2, <5>1, <3>w DEF Grown
        <4> QED BY <4>1, <4>2
      <3>6. ASSUME NEW x \in Outputs PROVE Grown(x)' /\ (There(x) => There(x)')
        <4>1. CASE x # o
          <5>1. data'[x] = data[x] /\ Grown(x)
            BY <3>s, <4>1, <1>H
          <5> QED BY <2>1, <5>1 DEF Grown, There, Complete, Whole
        <4>2. CASE x = o
          <5>1. Grown(o)'
            BY <2>1, <3>2, <3>3, <3>4, <3>s DEF Grown
          <5>2. ASSUME Complete(o) PROVE Complete(o)'
            <6>1. Len(data[o]) = Size[o]
              BY <2>1, <3>2, <5>2, CompleteMeans
            <6>2. Len(s) = Size[o]
              BY <6>1, <3>2, <3>3
            <6>3. s = Whole(o)
              <7>1. s = [i \in 1 .. Size[o] |-> s[i]]
                BY <3>3, <6>2
              <7> QED BY <7>1, <6>2, <3>4 DEF Whole
            <6> QED BY <2>1, <3>2, <3>s, <6>3 DEF Complete, Whole
          <5>3. There(o) => There(o)'
            BY <5>2, <2>1 DEF There
          <5> QED BY <4>2, <5>1, <5>3
        <4> QED BY <4>1, <4>2
      <3>7. ASSUME NEW q \in Procs \ {p} PROVE Reached(q)'
        <4>1. Reached(q) /\ Local(pc[q], call[q]) /\ pc'[q] = pc[q] /\ call'[q] = call[q] /\ call[q] \in Calls
          BY DEF HonestInv, TypeInv, ProcInv
        <4>2. CASE pc[q] \in {"copy", "close"} /\ q \notin gone
          <5>1. /\ call[q].out \in Outputs /\ call[q].out \in exists
                /\ call[q].off <= Len(data[call[q].out]) /\ call[q].off \in Nat
            BY <4>1, <4>2 DEF Reached, Local, Calls
          <5>2. Len(data[call[q].out]) \in Nat
            BY <5>1, <1>H
          <5>3. Len(data'[call[q].out]) \in Nat /\ Len(data'[call[q].out]) >= Len(data[call[q].out])
            BY <3>3, <3>s, <5>1, <5>2
          <5> QED BY <2>1, <4>1, <5>1, <5>2, <5>3 DEF Reached
        <4>3. CASE ~(pc[q] \in {"copy", "close"} /\ q \notin gone)
          BY <2>1, <4>1, <4>3 DEF Reached
        <4> QED BY <4>2, <4>3
      <3>8. Reached(p)' /\ Ready(p)'
        <4>1. o \in exists' /\ n + 1 <= Len(data'[o])
          BY <2>1, <3>2, <3>3, <3>s
        <4> QED BY <4>1, <2>2, <2>3 DEF Reached, Ready
      <3>9. \A a \in Actions : Honest(a)
        BY <2>1 DEF Honest
      <3> QED BY <3>6, <3>7, <3>8, <3>9, <1>L, HonestSteps
    <2> QED BY <2>4, <2>5
  <1>8. ASSUME Close(p) PROVE HonestInv'
    <2>0. call[p].out \in Outputs /\ call[p].off = Size[call[p].out]
      BY <1>8, <1>L DEF Close, Local
    <2> PICK o \in Outputs : o = call[p].out
      BY <2>0
    <2>1. /\ o \in Outputs /\ call[p].off = Size[o] /\ pc[p] = "close" /\ o = call[p].out
          /\ UNCHANGED <<exists, data, lost, entry, call>> /\ gone' = gone \ {p}
      BY <2>0, <1>8 DEF Close
    <2>2. There(o)
      <3>1. CASE p \in gone
        BY <2>1, <3>1 DEF TypeInv, GoneInv, Opened, There
      <3>2. CASE p \notin gone
        <4>1. /\ o \in exists /\ Size[o] <= Len(data[o]) /\ Grown(o) /\ data[o] \in Seq(BOOLEAN)
              /\ Size[o] \in Nat
          BY <2>1, <3>2, <1>H DEF Reached
        <4>2. Len(data[o]) = Size[o]
          BY <4>1 DEF Grown
        <4> QED BY <2>1, <4>1, <4>2, CompleteMeans DEF There, Grown
      <3> QED BY <3>1, <3>2
    <2>3. There(o)'
      BY <2>1, <2>2 DEF There, Complete, Whole
    <2>4. Reached(p)' /\ Ready(p)'
      BY <1>8, <2>1, <2>3, <1>T DEF Close
    <2> QED BY <2>1, <2>4, <1>S DEF Honest
  <1>9. ASSUME VerifyEntry(p) PROVE HonestInv'
    <2>1. UNCHANGED <<exists, data, lost, gone, entry>> /\ pc[p] = "verify"
      BY <1>9 DEF VerifyEntry
    <2>2. CASE Return(p)
      BY <2>1, <2>2, <1>N, <1>L DEF Return, Go
    <2>3. CASE Go(p, "create") /\ UNCHANGED call
      <3>1. pc'[p] = "create" /\ call'[p] = call[p]
        BY <2>3, <1>L DEF Go
      <3> QED BY <2>1, <3>1, <1>G
    <2> QED BY <1>9, <2>2, <2>3 DEF VerifyEntry
  <1>10. ASSUME Create(p) PROVE HonestInv'
    <2>1. /\ exists' = exists \cup {call[p].id} /\ UNCHANGED <<data, lost, gone, entry>> /\ pc[p] = "create"
          /\ pc'[p] = "write" /\ call'[p] = call[p]
      BY <1>10, <1>L DEF Create, Go
    <2>2. Reached(p)' /\ Ready(p)'
      BY <2>1, <1>H DEF Reached, Ready, There, Complete, Whole
    <2> QED BY <2>1, <2>2, <1>S DEF Honest
  <1>11. ASSUME WriteEntry(p) PROVE HonestInv'
    <2>1. /\ UNCHANGED <<exists, data, lost>> /\ gone' = gone \ {p} /\ pc[p] = "write" /\ pc'[p] = "put"
          /\ entry' = entry \/ entry' = [entry EXCEPT ![call[p].id] = call[p].out]
      BY <1>11, <1>L DEF WriteEntry, Go
    <2>0. call[p].out \in Outputs
      BY <2>1, <1>L DEF Local
    <2> PICK o \in Outputs : o = call[p].out
      BY <2>0
    <2>2. There(o)'
      BY <2>1, <1>H DEF Ready, There, Complete, Whole
    <2>3. Reached(p)' /\ Ready(p)'
      BY <2>1 DEF Reached, Ready
    <2>4. ASSUME NEW a \in Actions PROVE Honest(a)
      <3>1. entry \in [Actions -> Outputs \cup {NoFile}]
        BY DEF TypeInv, DiskInv, ContentInv
      <3>2. entry'[a] = entry[a] \/ entry'[a] = call[p].out
        BY <2>1, <3>1
      <3> QED BY <2>2, <3>2 DEF Honest
    <2> QED BY <2>1, <2>3, <2>4, <1>S
  <1>12. ~CopyFails(p) /\ ~CloseFails(p) /\ ~WriteFails(p)
    BY <1>0 DEF CopyFails, CloseFails, WriteFails
  <1>13. ~RemoveEntry(p)
    BY <1>H DEF Ready, RemoveEntry
  <1>14. ASSUME ReadTrim(p) \/ (\E f \in Files : TrimStat(p, f)) \/ WriteTrim(p) PROVE HonestInv'
    <2>1. UNCHANGED <<exists, data, lost, gone, entry>>
      BY <1>14 DEF ReadTrim, TrimStat, WriteTrim, diskVars, ghostVars
    <2>2. pc'[p] \in {"idle", "trim", "trimRemove"}
      BY <1>14, <1>L DEF ReadTrim, TrimStat, WriteTrim, Return, Go
    <2> QED BY <2>1, <2>2, <1>N
  <1>15. ASSUME TrimRemove(p) PROVE HonestInv'
    <2> DEFINE f == call[p].victim
    <2>1. f \in Files /\ pc[p] = "trimRemove" /\ pc'[p] = "trim"
      BY <1>15, <1>L DEF TrimRemove, Local, Go
    <2>2. /\ exists' = exists \ {f}
          /\ \A a \in Actions : Honest(a)
          /\ \A o \in Outputs : data'[o] = IF o = f THEN <<>> ELSE data[o]
          /\ gone' = gone \cup {q \in Procs : Opened(q) = f}
          /\ lost' = lost \cup {f}
      BY <1>15 DEF TrimRemove, Remove, Honest
    <2>3. ASSUME NEW o \in Outputs PROVE Grown(o)' /\ (There(o) => There(o)')
      <3>1. Grown(o) /\ Size[o] \in Nat
        BY <1>H
      <3>2. CASE o = f
        <4>1. data'[o] = <<>> /\ o \in lost'
          BY <2>2, <3>2
        <4>2. Grown(o)'
          BY <4>1, <3>1 DEF Grown
        <4> QED BY <4>1, <4>2 DEF There
      <3>3. CASE o # f
        <4>1. data'[o] = data[o] /\ (o \in exists' <=> o \in exists) /\ (o \in lost' <=> o \in lost)
          BY <2>2, <3>3
        <4> QED BY <4>1, <3>1 DEF Grown, There, Complete, Whole
      <3> QED BY <3>2, <3>3
    <2>4. ASSUME NEW q \in Procs \ {p} PROVE Reached(q)'
      <3> SUFFICES ASSUME pc'[q] \in {"copy", "close"}, q \notin gone'
                   PROVE  call'[q].out \in exists' /\ call'[q].off <= Len(data'[call'[q].out])
        BY DEF Reached
      <3>1. Reached(q) /\ Local(pc[q], call[q]) /\ pc'[q] = pc[q] /\ call'[q] = call[q]
        BY DEF HonestInv, TypeInv, ProcInv
      <3>2. q \notin gone /\ Opened(q) # f
        BY <2>2
      <3>3. call[q].out # f /\ call[q].out \in Outputs
        BY <3>1, <3>2 DEF Opened, Local
      <3>4. data'[call[q].out] = data[call[q].out] /\ (call[q].out \in exists => call[q].out \in exists')
        BY <2>2, <3>3
      <3> QED BY <3>1, <3>2, <3>4 DEF Reached
    <2>5. Reached(p)' /\ Ready(p)'
      BY <2>1 DEF Reached, Ready
    <2> QED BY <2>2, <2>3, <2>4, <2>5, <1>L, HonestSteps
  <1> QED BY <1>1, <1>2, <1>3, <1>4, <1>5, <1>6, <1>7, <1>8, <1>9, <1>10, <1>11, <1>12, <1>13, <1>14, <1>15,
             <1>16 DEF PutSteps, GetSteps, TrimSteps

-----------------------------------------------------------------------------
(* Puts that run alone                                                     *)

\* A sound cache has entries of complete outputs only, or none.
LEMMA HonestInit ==
  ASSUME Init
  PROVE  HonestInv
  <1> SUFFICES ASSUME Sound PROVE HonestInv
    BY DEF HonestInv
  <1>1. \A p \in Procs : Reached(p) /\ Ready(p)
    BY DEF Init, Reached, Ready
  <1>2. ASSUME NEW o \in Outputs PROVE Grown(o) /\ (params.filled => There(o))
    <2>1. data[o] \in Old(o) /\ Size[o] \in Nat /\ o \in Files
      BY BuildCacheAssumption DEF Init, Files
    <2>2. CASE ~params.filled
      <3>1. data[o] = <<>>
        BY <2>1, <2>2 DEF Old
      <3> QED BY <2>1, <2>2, <3>1 DEF Grown
    <2>3. CASE params.filled
      <3>1. data[o] = Whole(o) /\ o \in exists
        BY <2>1, <2>3 DEF Old, Sound, Init
      <3>2. Len(Whole(o)) = Size[o] /\ \A i \in 1 .. Size[o] : Whole(o)[i] = TRUE
        BY WholeIs
      <3>3. Grown(o)
        BY <2>1, <3>1, <3>2 DEF Grown
      <3> QED BY <3>1, <3>3 DEF There, Complete
    <2> QED BY <2>2, <2>3
  <1>3. ASSUME NEW a \in Actions, entry[a] # NoFile PROVE There(entry[a])
    <2>1. params.filled /\ entry[a] \in Outputs
      BY <1>3 DEF Init
    <2> QED BY <2>1, <1>2
  <1> QED BY <1>1, <1>2, <1>3 DEF HonestInv

\* Every step keeps HonestInv.
LEMMA HonestStep ==
  ASSUME TypeInv, HonestInv, [Next]_vars
  PROVE  HonestInv'
  <1>0. TypeInv'
    BY TypeStep
  <1>1. ASSUME UNCHANGED <<params, exists, entry, data, pc, call, ghostVars>> PROVE HonestInv'
    BY <1>1 DEF HonestInv, Sound, Grown, There, Complete, Whole, Reached, Ready, ghostVars
  <1>2. CASE Tick \/ UNCHANGED vars
    BY <1>1, <1>2 DEF Tick, vars, diskVars
  <1>3. ASSUME NEW p \in Procs,
               Call(p) \/ PutSteps(p) \/ GetSteps(p) \/ TrimSteps(p) \/ Done(p) \/ Crash(p),
               ~UNCHANGED vars
        PROVE  HonestInv'
    <2>1. \A q \in Procs \ {p} : pc'[q] = pc[q] /\ call'[q] = call[q]
      BY <1>3, Moved DEF TypeInv
    <2>2. params' = params
      BY <1>3, RestKept DEF TypeInv, DiskInv
    <2>3. CASE ~Sound
      BY <2>2, <2>3 DEF HonestInv, Sound
    <2>4. CASE Sound
      BY <1>0, <1>3, <2>1, <2>2, <2>4, HonestKept
    <2> QED BY <2>3, <2>4
  <1> QED BY <1>2, <1>3, NextIs

\* An index entry never names an output that is not there in full, unless that was trimmed.
THEOREM IndexHonestHolds == Spec => []IndexHonest
  <1>1. Init => TypeInv /\ HonestInv
    BY TypeInit, HonestInit
  <1>2. TypeInv /\ HonestInv /\ [Next]_vars => (TypeInv /\ HonestInv)'
    BY TypeStep, HonestStep
  <1>3. HonestInv => IndexHonest
    BY DEF HonestInv, IndexHonest, There
  <1> QED BY <1>1, <1>2, <1>3, PTL DEF Spec

\* Without faults of the disk, and unless the file was trimmed since, what GetFile or
\* GetBytes gives to the caller is the output.
THEOREM ServedRightIfSound == Spec => [](Sound => ServedRight)
  <1>1. Init => TypeInv /\ HonestInv
    BY TypeInit, HonestInit
  <1>2. TypeInv /\ HonestInv /\ [Next]_vars => (TypeInv /\ HonestInv)'
    BY TypeStep, HonestStep
  <1>3. HonestInv => (Sound => ServedRight)
    BY DEF HonestInv, Ready, There, ServedRight
  <1> QED BY <1>1, <1>2, <1>3, PTL DEF Spec
-----------------------------------------------------------------------------

Absent == \A o \in Outputs : o \notin exists => data[o] = <<>>

\* The file a writer has open is there, unless it was removed.
Holding(p) == pc[p] \in {"copy", "close"} /\ p \notin gone => call[p].out \in exists

\* Nothing runs beside p.
Alone(p) == p \notin gone /\ \A q \in Procs \ {p} : pc[q] = "idle"

Here(o) == IF o \in exists THEN Len(data[o]) ELSE -1

\* What a Put that runs alone has made of the output.
Mending(p) ==
  /\ pc[p] \in {"rehash", "open"} => call[p].seen = Here(call[p].out)
  /\ pc[p] \in {"copy", "close"} =>
       /\ call[p].off <= Len(data[call[p].out]) /\ Len(data[call[p].out]) <= Size[call[p].out]
       /\ \A i \in 1 .. call[p].off : data[call[p].out][i] = TRUE
  /\ pc[p] \in {"verify", "create", "write", "put"} => Complete(call[p].out)
  /\ pc[p] = "put" => entry[call[p].id] = call[p].out

RepairInv ==
  /\ Absent
  /\ \A p \in Procs : Holding(p)
  /\ \A p \in alone : Alone(p) /\ Mending(p)

\* What follows for a step of p from what it does to the files.
LEMMA RepairSteps ==
  ASSUME TypeInv, RepairInv, NEW p \in Procs,
         \A q \in Procs \ {p} : pc'[q] = pc[q] /\ call'[q] = call[q],
         pc[p] # "idle", alone' = alone, Absent',
         \A q \in Procs : Holding(q)',
         p \in alone => p \notin gone' /\ Mending(p)'
  PROVE  RepairInv'
  <1>1. alone \subseteq Procs
    BY DEF TypeInv, DiskInv, RestInv
  <1>2. alone \subseteq {p}
    BY <1>1 DEF RepairInv, Alone
  <1>3. ASSUME p \in alone PROVE Alone(p)'
    BY <1>1, <1>3 DEF RepairInv, Alone
  <1> QED BY <1>1, <1>2, <1>3 DEF RepairInv

\* The files stay as they are, or a new one appears.
LEMMA FilesHeld ==
  ASSUME TypeInv, RepairInv, NEW p \in Procs,
         \A q \in Procs \ {p} : pc'[q] = pc[q] /\ call'[q] = call[q],
         exists \subseteq exists', data' = data, gone \ {p} \subseteq gone'
  PROVE  Absent' /\ \A q \in Procs \ {p} : Holding(q)'
  <1>1. ASSUME NEW q \in Procs \ {p} PROVE Holding(q)'
    <2>1. Holding(q) /\ (q \notin gone' => q \notin gone)
      BY DEF RepairInv
    <2> QED BY <2>1 DEF Holding
  <1> QED BY <1>1 DEF RepairInv, Absent

\* A file is removed by a process that does not write it.
LEMMA FilesRemoved ==
  ASSUME TypeInv, RepairInv, NEW p \in Procs, NEW f, NEW closed, Remove(f, closed), closed \subseteq {p},
         \A q \in Procs \ {p} : pc'[q] = pc[q] /\ call'[q] = call[q],
         pc'[p] \in {"idle", "trim"}, p \in closed \/ pc[p] \in {"remove", "trimRemove"}, f \in Files
  PROVE  Absent' /\ (\A q \in Procs : Holding(q)') /\ p \notin gone'
  <1>1. ASSUME NEW q \in Procs \ {p} PROVE Holding(q)'
    <2> SUFFICES ASSUME pc'[q] \in {"copy", "close"}, q \notin gone' PROVE call'[q].out \in exists'
      BY DEF Holding
    <2>1. q \notin gone /\ Opened(q) # f
      BY DEF Remove
    <2>2. Holding(q) /\ call[q].out # f
      BY <2>1 DEF RepairInv, Opened
    <2> QED BY <2>1, <2>2 DEF Holding, Remove
  <1>2. Holding(p)'
    BY DEF Holding
  <1>3. Absent'
    BY DEF RepairInv, Absent, Remove
  <1>4. p \notin gone'
    <2>1. ProcInv /\ GoneInv /\ lost \subseteq Files /\ closed \in SUBSET Procs
      BY DEF TypeInv, DiskInv, ContentInv
    <2> QED BY <2>1, GoneMore
  <1> QED BY <1>1, <1>2, <1>3, <1>4

\* Every step of a process keeps RepairInv.
LEMMA RepairKept ==
  ASSUME TypeInv, RepairInv, NEW p \in Procs,
         \A q \in Procs \ {p} : pc'[q] = pc[q] /\ call'[q] = call[q],
         Call(p) \/ PutSteps(p) \/ GetSteps(p) \/ TrimSteps(p) \/ Done(p) \/ Crash(p),
         ~UNCHANGED vars
  PROVE  RepairInv'
  <1>L. /\ Local(pc[p], call[p]) /\ pc \in [Procs -> Places] /\ call \in [Procs -> Calls]
        /\ call[p] \in Calls
        /\ data \in [Outputs -> Seq(BOOLEAN)] /\ entry \in [Actions -> Outputs \cup {NoFile}]
        /\ alone \subseteq Procs
    BY DEF TypeInv, ProcInv, DiskInv, ContentInv, RestInv
  <1>H. Absent /\ Holding(p) /\ (p \in alone => Alone(p) /\ Mending(p))
    BY DEF RepairInv
  <1>Z. \A o \in Outputs : Size[o] \in Nat
    BY BuildCacheAssumption
  <1>S. ASSUME pc[p] # "idle", alone' = alone, exists \subseteq exists', data' = data, gone \ {p} \subseteq gone',
               gone' \subseteq gone, Holding(p)', p \in alone => Mending(p)'
        PROVE  RepairInv'
    <2>1. Absent' /\ \A q \in Procs \ {p} : Holding(q)'
      BY <1>S, FilesHeld
    <2>2. p \in alone => p \notin gone'
      BY <1>S, <1>H DEF Alone
    <2> QED BY <2>1, <2>2, <1>S, RepairSteps
  <1>N. ASSUME pc[p] # "idle", alone' = alone, UNCHANGED <<exists, data>>, gone' = gone \/ gone' = gone \ {p},
               pc'[p] \in {"idle", "stat", "get", "usedA", "usedD", "look", "use", "read",
                           "trim", "trimRemove", "remove"}
        PROVE  RepairInv'
    <2>1. Holding(p)' /\ Mending(p)'
      BY <1>N DEF Holding, Mending
    <2> QED BY <2>1, <1>N, <1>S
  <1>1. ASSUME Call(p) PROVE RepairInv'
    <2>1. /\ pc'[p] \in {"stat", "get", "read"} /\ pc[p] = "idle"
          /\ UNCHANGED <<exists, data, gone>>
          /\ alone' = IF \A q \in Procs \ {p} : pc[q] = "idle" THEN {p} ELSE {}
      BY <1>1, <1>L DEF Call, Trim, Put, Get, Invoke, Go, diskVars
    <2>2. Absent' /\ \A q \in Procs \ {p} : Holding(q)'
      BY <2>1, FilesHeld
    <2>3. Holding(p)' /\ Mending(p)'
      BY <2>1 DEF Holding, Mending
    <2>4. p \notin gone
      BY <2>1, BuildCacheAssumption DEF TypeInv, GoneInv, Opened, DiskInv, ContentInv
    <2>5. alone' # {} => alone' = {p} /\ Alone(p)'
      BY <2>1, <2>4 DEF Alone
    <2> QED BY <2>2, <2>3, <2>5 DEF RepairInv
  <1>2. ASSUME GetSteps(p) \/ Done(p) \/ Crash(p) PROVE RepairInv'
    <2>1. UNCHANGED <<exists, data, alone>> /\ (gone' = gone \/ gone' = gone \ {p}) /\ pc[p] # "idle"
      BY <1>2 DEF GetSteps, ReadEntry, UsedEntry, UsedOutput, Look, Done, Crash, diskVars, ghostVars
    <2>2. pc'[p] \in {"idle", "usedA", "usedD", "look", "use"}
      BY <1>2, <1>L DEF GetSteps, ReadEntry, UsedEntry, UsedOutput, Look, Done, Crash, Return, Go
    <2> QED BY <2>1, <2>2, <1>N
  <1>3. ASSUME ReadTrim(p) \/ (\E f \in Files : TrimStat(p, f)) \/ WriteTrim(p) PROVE RepairInv'
    <2>1. UNCHANGED <<exists, data, alone, gone>> /\ pc[p] # "idle"
      BY <1>3 DEF ReadTrim, TrimStat, WriteTrim, diskVars, ghostVars
    <2>2. pc'[p] \in {"idle", "trim", "trimRemove"}
      BY <1>3, <1>L DEF ReadTrim, TrimStat, WriteTrim, Return, Go
    <2> QED BY <2>1, <2>2, <1>N
  <1>R. ASSUME NEW f \in Files, NEW closed, Remove(f, closed), closed \subseteq {p}, alone' = alone,
               pc'[p] \in {"idle", "trim"}, p \in closed \/ pc[p] \in {"remove", "trimRemove"}, pc[p] # "idle"
        PROVE  RepairInv'
    <2>1. Absent' /\ (\A q \in Procs : Holding(q)') /\ p \notin gone'
      BY <1>R, FilesRemoved
    <2>2. Mending(p)'
      BY <1>R DEF Mending
    <2> QED BY <2>1, <2>2, <1>R, RepairSteps
  <1>4. ASSUME TrimRemove(p) PROVE RepairInv'
    <2>1. /\ call[p].victim \in Files /\ Remove(call[p].victim, {}) /\ pc[p] = "trimRemove"
          /\ pc'[p] = "trim" /\ alone' = alone
      BY <1>4, <1>L DEF TrimRemove, Local, Go
    <2> QED BY <2>1, <1>R
  <1>5. ASSUME CloseFails(p) PROVE RepairInv'
    <2>1. /\ call[p].out \in Files /\ Remove(call[p].out, {p}) /\ pc[p] = "close"
          /\ pc'[p] = "idle" /\ alone' = alone
      BY <1>5, <1>L DEF CloseFails, Local, Return, Go, Files
    <2> QED BY <2>1, <1>R
  <1>6. ASSUME RemoveEntry(p) PROVE RepairInv'
    <2>1. /\ call[p].id \in Files /\ Remove(call[p].id, {}) /\ pc[p] = "remove"
          /\ pc'[p] = "idle" /\ alone' = alone
      BY <1>6, <1>L DEF RemoveEntry, Local, Return, Go, Files
    <2> QED BY <2>1, <1>R
  <1>7. ASSUME Stat(p) PROVE RepairInv'
    <2> DEFINE size == IF call[p].out \in exists THEN Len(data[call[p].out]) ELSE -1
    <2>1. pc'[p] \in {"rehash", "open"} /\ call'[p] = [call[p] EXCEPT !.seen = size]
      BY <1>7, <1>L DEF Stat, Go
    <2>2. call'[p].seen = size /\ call'[p].out = call[p].out
      BY <2>1, <1>L DEF Calls
    <2>3. UNCHANGED <<exists, data, gone, alone>> /\ pc[p] = "stat"
      BY <1>7 DEF Stat, diskVars, ghostVars
    <2>4. Holding(p)' /\ Mending(p)'
      BY <2>1, <2>2, <2>3 DEF Holding, Mending, Here
    <2> QED BY <2>3, <2>4, <1>S
  <1>T. ASSUME ThenIndex(p), call' = call, p \in alone => Complete(call[p].out)'
        PROVE  Holding(p)' /\ (p \in alone => Mending(p)')
    <2>1. pc'[p] \in {"verify", "create"}
      BY <1>T, <1>L DEF ThenIndex, Go
    <2> QED BY <2>1, <1>T DEF Holding, Mending
  <1>8. ASSUME Rehash(p) PROVE RepairInv'
    <2>1. UNCHANGED <<exists, data, gone, alone, call>> /\ pc[p] = "rehash"
      BY <1>8 DEF Rehash, diskVars, ghostVars
    <2>2. CASE Complete(call[p].out)
      <3>1. Complete(call[p].out)'
        BY <2>1, <2>2 DEF Complete, Whole
      <3>2. Holding(p)' /\ (p \in alone => Mending(p)')
        BY <1>8, <2>1, <2>2, <3>1, <1>T DEF Rehash
      <3> QED BY <2>1, <3>2, <1>S
    <2>3. CASE ~Complete(call[p].out)
      <3>1. pc'[p] = "open"
        BY <1>8, <2>3, <1>L DEF Rehash, Go
      <3>2. Holding(p)' /\ (p \in alone => Mending(p)')
        BY <2>1, <3>1, <1>H DEF Holding, Mending, Here
      <3> QED BY <2>1, <3>2, <1>S
    <2> QED BY <2>2, <2>3
  <1>9. ASSUME Open(p) PROVE RepairInv'
    <2>0. call[p].out \in Outputs /\ call[p].off = 0
      BY <1>9, <1>L DEF Open, Local
    <2> PICK o \in Outputs : o = call[p].out
      BY <2>0
    <2>1. /\ exists' = exists \cup {o} /\ UNCHANGED <<gone, alone, call>> /\ pc[p] = "open"
          /\ call[p].off = 0 /\ call[p].out = o /\ Size[o] \in Nat /\ call[p].seen \in Int
          /\ data[o] \in Seq(BOOLEAN)
      BY <1>9, <2>0, <1>L, <1>Z DEF Open, Calls
    <2>2. /\ data' = data \/ data' = [data EXCEPT ![o] = <<>>]
          /\ call[p].seen > Size[o] => data' = [data EXCEPT ![o] = <<>>]
      BY <1>9, <2>1 DEF Open
    <2>3. \A x \in Outputs \ {o} : data'[x] = data[x]
      BY <2>2, <1>L
    <2>4. p \in alone => data'[o] \in Seq(BOOLEAN) /\ Len(data'[o]) <= Size[o]
      <3>1. CASE call[p].seen > Size[o]
        <4>1. data'[o] = <<>>
          BY <2>2, <3>1, <1>L
        <4> QED BY <4>1, <2>1, EmptyIs
      <3>2. CASE ~(call[p].seen > Size[o])
        <4>1. data'[o] = data[o] \/ data'[o] = <<>>
          BY <2>2, <1>L
        <4>2. ASSUME p \in alone PROVE Len(data[o]) <= Size[o]
          <5>1. CASE o \in exists
            BY <2>1, <3>2, <4>2, <5>1, <1>H DEF Mending, Here
          <5>2. CASE o \notin exists
            BY <2>1, <5>2, <1>H DEF Absent
          <5> QED BY <5>1, <5>2
        <4>3. Len(<<>>) = 0 /\ Size[o] >= 0
          BY <2>1
        <4>4. CASE data'[o] = data[o]
          BY <2>1, <4>2, <4>4
        <4>5. CASE data'[o] = <<>>
          BY <4>3, <4>5, EmptyIs
        <4> QED BY <4>1, <4>4, <4>5
      <3> QED BY <3>1, <3>2
    <2>5. Absent' /\ \A q \in Procs \ {p} : Holding(q)'
      <3>1. Absent'
        BY <2>1, <2>3, <1>H DEF Absent
      <3>2. ASSUME NEW q \in Procs \ {p} PROVE Holding(q)'
        <4>1. Holding(q)
          BY DEF RepairInv
        <4> QED BY <2>1, <4>1 DEF Holding
      <3> QED BY <3>1, <3>2
    <2>6. Holding(p)' /\ (p \in alone => Mending(p)')
      <3>1. CASE Size[o] = 0
        <4>1. ASSUME p \in alone PROVE Complete(o)'
          <5>1. data'[o] = <<>>
            BY <2>4, <3>1, <4>1
          <5>2. Whole(o) = <<>>
            BY <3>1 DEF Whole
          <5> QED BY <2>1, <5>1, <5>2 DEF Complete, Whole
        <4>2. p \in alone => Complete(call[p].out)'
          BY <2>1, <4>1 DEF Complete, Whole
        <4>3. ThenIndex(p)
          BY <1>9, <2>1, <3>1 DEF Open
        <4> QED BY <2>1, <4>2, <4>3, <1>T
      <3>2. CASE Size[o] # 0
        <4>1. pc'[p] = "copy"
          BY <1>9, <2>1, <3>2, <1>L DEF Open, Go
        <4> QED BY <2>1, <2>4, <4>1 DEF Holding, Mending
      <3> QED BY <3>1, <3>2
    <2>7. p \in alone => p \notin gone'
      BY <2>1, <1>H DEF Alone
    <2>8. \A q \in Procs : Holding(q)'
      BY <2>5, <2>6
    <2> QED BY <2>1, <2>5, <2>6, <2>7, <2>8, RepairSteps
  <1>10. ASSUME CopyByte(p) PROVE RepairInv'
    <2>0. call[p].out \in Outputs /\ call[p].off \in Nat /\ call[p].off < Size[call[p].out]
      BY <1>10, <1>L DEF CopyByte, Local, Calls
    <2> PICK o \in Outputs, n \in Nat : o = call[p].out /\ n = call[p].off
      BY <2>0
    <2>1. /\ n < Size[o] /\ Size[o] \in Nat /\ pc[p] = "copy" /\ UNCHANGED <<exists, gone, alone>>
          /\ o = call[p].out /\ n = call[p].off /\ data[o] \in Seq(BOOLEAN)
      BY <1>10, <2>0, <1>L, <1>Z DEF CopyByte
    <2>2. call'[p] = [call[p] EXCEPT !.off = @ + 1] /\ pc'[p] \in {"copy", "close"}
      BY <1>10, <1>L DEF CopyByte, Go
    <2>3. call'[p].off = n + 1 /\ call'[p].out = o
      BY <2>1, <2>2, <1>L DEF Calls
    <2>4. Holding(p)'
      BY <2>1, <2>2, <2>3, <1>H DEF Holding
    <2>5. CASE p \in gone
      <3>1. data' = data
        BY <1>10, <2>5 DEF CopyByte
      <3>2. p \notin alone
        BY <2>5, <1>H DEF Alone
      <3> QED BY <2>1, <2>4, <3>1, <3>2, <1>S
    <2>6. CASE p \notin gone
      <3>1. o \in exists
        BY <2>1, <2>6, <1>H DEF Holding
      <3> DEFINE s == WriteAt(data[o], n)
      <3>2. data' = [data EXCEPT ![o] = s]
        BY <1>10, <2>1, <2>6, <1>L DEF CopyByte
      <3>3. /\ Len(s) = (IF Len(data[o]) > n THEN Len(data[o]) ELSE n + 1) /\ s[n + 1] = TRUE
            /\ \A i \in 1 .. Len(data[o]) : i # n + 1 => s[i] = data[o][i]
        BY <2>1, WriteAtIs
      <3>4. data'[o] = s /\ \A x \in Outputs \ {o} : data'[x] = data[x]
        BY <3>2, <1>L
      <3> HIDE DEF s
      <3>5. Absent'
        BY <2>1, <3>1, <3>4, <1>H DEF Absent
      <3>6. ASSUME NEW q \in Procs \ {p} PROVE Holding(q)'
        <4>1. Holding(q)
          BY DEF RepairInv
        <4> QED BY <2>1, <4>1 DEF Holding
      <3>7. ASSUME p \in alone PROVE Mending(p)'
        <4>1. /\ n <= Len(data[o]) /\ Len(data[o]) <= Size[o] /\ Len(data[o]) \in Nat
              /\ \A i \in 1 .. n : data[o][i] = TRUE
          BY <2>1, <3>7, <1>H DEF Mending
        <4>2. n + 1 <= Len(s) /\ Len(s) <= Size[o]
          BY <2>1, <3>3, <4>1
        <4>3. ASSUME NEW i \in 1 .. n + 1 PROVE s[i] = TRUE
          <5>1. CASE i = n + 1
            BY <3>3, <5>1
          <5>2. CASE i # n + 1
            <6>1. i \in 1 .. n /\ i \in 1 .. Len(data[o])
              BY <4>1, <5>2
            <6> QED BY <3>3, <4>1, <5>2, <6>1
          <5> QED BY <5>1, <5>2
        <4> QED BY <2>2, <2>3, <3>4, <4>2, <4>3 DEF Mending
      <3>8. p \notin gone' /\ \A q \in Procs : Holding(q)'
        BY <2>1, <2>4, <2>6, <3>6
      <3> QED BY <2>1, <3>5, <3>7, <3>8, RepairSteps
    <2> QED BY <2>5, <2>6
  <1>11. ASSUME CopyFails(p) PROVE RepairInv'
    <2>1. /\ data' = data \/ data' = [data EXCEPT ![call[p].out] = <<>>]
          /\ exists' = exists /\ gone' = gone \ {p} /\ alone' = alone /\ pc[p] = "copy"
      BY <1>11 DEF CopyFails
    <2>2. pc'[p] = "idle"
      BY <1>11, <1>L DEF CopyFails, Return, Go
    <2>3. \A x \in Outputs : data'[x] \in {data[x], <<>>}
      BY <2>1, <1>L
    <2>4. Absent'
      BY <2>1, <2>3, <1>H DEF Absent
    <2>5. ASSUME NEW q \in Procs \ {p} PROVE Holding(q)'
      <3>1. Holding(q)
        BY DEF RepairInv
      <3> QED BY <2>1, <3>1 DEF Holding
    <2>6. Holding(p)' /\ Mending(p)' /\ p \notin gone'
      BY <2>1, <2>2 DEF Holding, Mending
    <2>7. \A q \in Procs : Holding(q)'
      BY <2>5, <2>6
    <2> QED BY <2>1, <2>4, <2>6, <2>7, RepairSteps
  <1>12. ASSUME Close(p) PROVE RepairInv'
    <2>0. call[p].out \in Outputs /\ call[p].off = Size[call[p].out]
      BY <1>12, <1>L DEF Close, Local
    <2> PICK o \in Outputs : o = call[p].out
      BY <2>0
    <2>1. /\ UNCHANGED <<exists, data, alone, call>> /\ gone' = gone \ {p} /\ pc[p] = "close"
          /\ o = call[p].out /\ call[p].off = Size[o] /\ Size[o] \in Nat /\ data[o] \in Seq(BOOLEAN)
      BY <1>12, <2>0, <1>L, <1>Z DEF Close
    <2>2. ASSUME p \in alone PROVE Complete(o)
      <3>1. /\ o \in exists /\ Size[o] <= Len(data[o]) /\ Len(data[o]) <= Size[o]
            /\ \A i \in 1 .. Size[o] : data[o][i] = TRUE
        BY <2>1, <2>2, <1>H DEF Mending, Holding, Alone
      <3>2. Len(data[o]) = Size[o]
        BY <2>1, <3>1
      <3> QED BY <2>1, <3>1, <3>2, CompleteMeans
    <2>3. p \in alone => Complete(call[p].out)'
      BY <2>1, <2>2 DEF Complete, Whole
    <2>4. Holding(p)' /\ (p \in alone => Mending(p)')
      BY <1>12, <2>1, <2>3, <1>T DEF Close
    <2> QED BY <2>1, <2>4, <1>S
  <1>C. ASSUME pc[p] \in {"verify", "create", "write"}, data' = data, exists \subseteq exists',
               call'[p] = call[p], pc'[p] \in {"create", "write"}
        PROVE  Holding(p)' /\ (p \in alone => Mending(p)')
    BY <1>C, <1>H DEF Holding, Mending, Complete, Whole
  <1>13. ASSUME VerifyEntry(p) PROVE RepairInv'
    <2>1. UNCHANGED <<exists, data, alone, gone>> /\ pc[p] = "verify"
      BY <1>13 DEF VerifyEntry
    <2>2. CASE Return(p)
      BY <2>1, <2>2, <1>N, <1>L DEF Return, Go
    <2>3. CASE Go(p, "create") /\ UNCHANGED call
      <3>1. pc'[p] = "create" /\ call'[p] = call[p]
        BY <2>3, <1>L DEF Go
      <3> QED BY <2>1, <3>1, <1>C, <1>S
    <2> QED BY <1>13, <2>2, <2>3 DEF VerifyEntry
  <1>14. ASSUME Create(p) PROVE RepairInv'
    <2>1. /\ exists \subseteq exists' /\ UNCHANGED <<data, alone, gone>> /\ pc[p] = "create"
          /\ pc'[p] = "write" /\ call'[p] = call[p]
      BY <1>14, <1>L DEF Create, Go
    <2> QED BY <2>1, <1>C, <1>S
  <1>15. ASSUME WriteEntry(p) PROVE RepairInv'
    <2>1. /\ UNCHANGED <<exists, data, alone, call>> /\ gone' = gone \ {p} /\ pc[p] = "write"
          /\ pc'[p] = "put"
      BY <1>15, <1>L DEF WriteEntry, Go
    <2>2. ASSUME p \in alone PROVE Mending(p)'
      <3>1. call[p].id \in Actions /\ entry' = [entry EXCEPT ![call[p].id] = call[p].out]
        BY <1>15, <2>1, <2>2, <1>H, <1>L DEF WriteEntry, Alone, Local
      <3>2. entry'[call[p].id] = call[p].out
        BY <3>1, <1>L
      <3>3. Complete(call[p].out)
        BY <2>1, <2>2, <1>H DEF Mending
      <3> QED BY <2>1, <3>2, <3>3 DEF Mending, Complete, Whole
    <2>3. Holding(p)'
      BY <2>1 DEF Holding
    <2> QED BY <2>1, <2>2, <2>3, <1>S
  <1>16. ASSUME WriteFails(p) PROVE RepairInv'
    <2>1. UNCHANGED <<exists, data, alone>> /\ gone' = gone \ {p} /\ pc[p] = "write" /\ pc'[p] = "remove"
      BY <1>16, <1>L DEF WriteFails, Go
    <2> QED BY <2>1, <1>N
  <1> QED BY <1>1, <1>2, <1>3, <1>4, <1>5, <1>6, <1>7, <1>8, <1>9, <1>10, <1>11, <1>12, <1>13, <1>14, <1>15, <1>16
          DEF PutSteps, TrimSteps

\* At first nothing runs, and what is not there has no content.
LEMMA RepairInit ==
  ASSUME Init
  PROVE  RepairInv
  <1>1. Absent
    <2> SUFFICES ASSUME NEW o \in Outputs, o \notin exists PROVE data[o] = <<>>
      BY DEF Absent
    <2>1. ~params.filled
      BY DEF Init, Files
    <2> QED BY <2>1 DEF Init, Old
  <1> QED BY <1>1 DEF Init, RepairInv, Holding

\* Every step keeps RepairInv.
LEMMA RepairStep ==
  ASSUME TypeInv, RepairInv, [Next]_vars
  PROVE  RepairInv'
  <1>1. ASSUME UNCHANGED <<exists, entry, data, pc, call, ghostVars>> PROVE RepairInv'
    BY <1>1 DEF RepairInv, Absent, Holding, Alone, Mending, Here, Complete, Whole, ghostVars
  <1>2. CASE Tick \/ UNCHANGED vars
    BY <1>1, <1>2 DEF Tick, vars, diskVars
  <1>3. ASSUME NEW p \in Procs,
               Call(p) \/ PutSteps(p) \/ GetSteps(p) \/ TrimSteps(p) \/ Done(p) \/ Crash(p),
               ~UNCHANGED vars
        PROVE  RepairInv'
    <2>1. \A q \in Procs \ {p} : pc'[q] = pc[q] /\ call'[q] = call[q]
      BY <1>3, Moved DEF TypeInv
    <2> QED BY <1>3, <2>1, RepairKept
  <1> QED BY <1>2, <1>3, NextIs

\* A Put that succeeded while nothing else ran left the output there in full.
THEOREM PutRepairsHolds == Spec => []PutRepairs
  <1>1. Init => TypeInv /\ RepairInv
    BY TypeInit, RepairInit
  <1>2. TypeInv /\ RepairInv /\ [Next]_vars => (TypeInv /\ RepairInv)'
    BY TypeStep, RepairStep
  <1>3. RepairInv => PutRepairs
    BY DEF RepairInv, Mending, PutRepairs
  <1> QED BY <1>1, <1>2, <1>3, PTL DEF Spec
=============================================================================
