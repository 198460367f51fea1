----------------------------- MODULE BuildCache -----------------------------
(***************************************************************************)
(* cache.Cache: a directory of index files, by action, and output files,   *)
(* by content, that processes read, fill and trim at once without a lock.  *)
(* One action is one system call, or several of which only one matters to  *)
(* others.  A process may die anywhere; under params.faulty its reads and  *)
(* writes may fail, and under params.corrupt the disk was damaged before.  *)
(***************************************************************************)
EXTENDS Integers, Sequences

CONSTANTS
  Procs,         \* processes, or goroutines, that use the cache
  Actions,       \* action IDs, which name the index files
  Outputs,       \* output IDs, which name the output files
  Size,          \* the size of each output
  NoFile,        \* what none of these is
  MtimeInterval, TrimInterval, TrimLimit,
  MaxTime,       \* bound of the clock
  Runs           \* what is considered: operations, damage and clock

Files == Actions \cup Outputs
AllRuns == [ops : SUBSET {"put", "get", "getFile", "getBytes", "trim"}, faulty : BOOLEAN,
            corrupt : BOOLEAN, verify : BOOLEAN, filled : BOOLEAN, age : 0 .. MaxTime,
            clock : 0 .. MaxTime]

ASSUME BuildCacheAssumption ==
  /\ Size \in [Outputs -> Nat]
  /\ Actions \cap Outputs = {} /\ NoFile \notin Files
  /\ {MtimeInterval, TrimInterval, TrimLimit} \subseteq Nat \ {0} /\ MaxTime \in Nat
  /\ Runs \subseteq AllRuns

VARIABLES
  params,    \* what is considered, chosen once
  \* the directory
  exists,    \* the files there are
  entry,     \* the output an index file names, NoFile if it is empty or torn
  data,      \* the bytes of an output file: is each the one of that output?
  mtime,
  trimTxt,   \* trim.txt: {t}, or {} when it cannot be read
  now,
  \* each process
  pc,        \* where it is
  call,      \* its operation and the local variables of that
  \* ghosts
  gone,      \* processes that have open a file removed since
  lost,      \* files ever removed
  alone,     \* the process whose Put nobody else ran beside, if any
  lastUse    \* when each file was last written or used

diskVars == <<exists, entry, data, mtime, trimTxt, now>>
ghostVars == <<gone, lost, alone, lastUse>>
vars == <<params, diskVars, pc, call, ghostVars>>

Places == {"idle", "stat", "rehash", "open", "copy", "close", "verify", "create", "write",
           "remove", "put", "get", "usedA", "usedD", "look", "use", "read", "trim", "trimRemove"}

Calls ==
  [op : {"none", "put", "get", "getFile", "getBytes", "trim"},
   id : Actions \cup {NoFile},       \* its argument
   allow : BOOLEAN,                  \* allowVerify
   out : Outputs \cup {NoFile},      \* the output it puts or found
   seen : Int,                       \* the size it saw, -1 if there was no file
   off : Nat,                        \* bytes it wrote to the output file it has open
   todo : SUBSET Files,              \* files trimSubdir has yet to look at
   victim : Files \cup {NoFile},     \* the file it is about to remove
   start : 0 .. MaxTime]             \* the time at which its Trim began

NoCall == [op |-> "none", id |-> NoFile, allow |-> FALSE, out |-> NoFile, seen |-> -1, off |-> 0,
           todo |-> {}, victim |-> NoFile, start |-> 0]

\* What each variable holds (cache.go:34-37, 145-149).
TypeOK ==
  /\ params \in Runs
  /\ exists \subseteq Files
  /\ entry \in [Actions -> Outputs \cup {NoFile}]
  /\ data \in [Outputs -> Seq(BOOLEAN)]
  /\ mtime \in [Files -> Int] /\ lastUse \in [Files -> Int]
  /\ trimTxt \subseteq Int
  /\ now \in 0 .. MaxTime
  /\ pc \in [Procs -> Places]
  /\ call \in [Procs -> Calls]
  /\ gone \subseteq Procs /\ alone \subseteq Procs
  /\ lost \subseteq Files
  /\ \A p \in Procs : pc[p] \in {"stat", "rehash", "open", "copy", "close", "verify", "create",
                                 "write", "remove", "put", "usedA", "usedD", "look", "use"}
                        => call[p].out \in Outputs

\* The file holds the output, and no more.
Whole(o) == [i \in 1 .. Size[o] |-> TRUE]
Complete(o) == o \in exists /\ data[o] = Whole(o)

\* The cache is new, or was filled some time ago; disk damage made output files of the
\* wrong bytes, or longer than they should be, and spoiled the trim time.
Damaged(o) == {[i \in 1 .. n |-> FALSE] : n \in {Size[o], Size[o] + 1}}

Old(o) ==
  IF ~params.filled THEN {<<>>} ELSE IF params.corrupt THEN Damaged(o) ELSE {Whole(o)}

Init ==
  /\ params \in Runs
  /\ exists = IF params.filled THEN Files ELSE {}
  /\ entry \in [Actions -> IF params.filled THEN Outputs ELSE {NoFile}]
  /\ data \in [Outputs -> UNION {Old(o) : o \in Outputs}]
  /\ \A o \in Outputs : data[o] \in Old(o)
  /\ mtime = [f \in Files |-> -params.age] /\ lastUse = mtime
  /\ trimTxt \in IF params.corrupt THEN {{}, {MaxTime + MtimeInterval}} ELSE {{-params.age}}
  /\ now = 0
  /\ pc = [p \in Procs |-> "idle"]
  /\ call = [p \in Procs |-> NoCall]
  /\ gone = {} /\ lost = {} /\ alone = {}

-----------------------------------------------------------------------------
(* System calls                                                            *)

Go(p, place) == pc' = [pc EXCEPT ![p] = place]

\* The operation ends, and with it the life of its local variables.
Return(p) == Go(p, "idle") /\ call' = [call EXCEPT ![p] = NoCall]

\* The file a process has open for writing.
Opened(p) ==
  IF pc[p] \in {"copy", "close"} THEN call[p].out ELSE IF pc[p] = "write" THEN call[p].id ELSE NoFile

\* Writing sets the time of the file, and os.Chtimes does.
Written(f) ==
  /\ mtime' = [mtime EXCEPT ![f] = now]
  /\ lastUse' = [lastUse EXCEPT ![f] = now]

Unwritten == UNCHANGED <<mtime, lastUse>>

\* os.Remove, by those who have closed it: who has the file open goes on with what is no longer in the directory.
Remove(f, closed) ==
  /\ exists' = exists \ {f}
  /\ entry' = [a \in Actions |-> IF a = f THEN NoFile ELSE entry[a]]
  /\ data' = [o \in Outputs |-> IF o = f THEN <<>> ELSE data[o]]
  /\ gone' = (gone \cup {q \in Procs : Opened(q) = f}) \ closed
  /\ lost' = lost \cup {f}

\* used: the time of a file is set if it is old enough.
Used(f) ==
  IF f \in exists
    THEN /\ lastUse' = [lastUse EXCEPT ![f] = now]
         /\ IF now - mtime[f] < MtimeInterval
              THEN UNCHANGED mtime ELSE mtime' = [mtime EXCEPT ![f] = now]
    ELSE Unwritten

Tick ==
  /\ now < params.clock
  /\ now' = now + 1
  /\ UNCHANGED <<params, exists, entry, data, mtime, trimTxt, pc, call, ghostVars>>

\* A call c of one of the operations.
Invoke(p, c) ==
  /\ pc[p] = "idle" /\ c.op \in params.ops
  /\ call' = [call EXCEPT ![p] = c]
  /\ alone' = IF \A q \in Procs \ {p} : pc[q] = "idle" THEN {p} ELSE {}
  /\ UNCHANGED <<params, diskVars, gone, lost, lastUse>>

\* The process is killed, or a call that changes nothing when it fails has failed.
Crash(p) ==
  /\ pc[p] # "idle"
  /\ Return(p) /\ gone' = gone \ {p}
  /\ UNCHANGED <<params, diskVars, lost, alone, lastUse>>

-----------------------------------------------------------------------------
(* Put and PutNoVerify                                                     *)

\* The output ID is the hash of the file to put.
Put(p, a, o, v) ==
  /\ Invoke(p, [NoCall EXCEPT !.op = "put", !.id = a, !.out = o, !.allow = v])
  /\ Go(p, "stat")

\* copyFile: os.Stat of the output file.
Stat(p) ==
  /\ pc[p] = "stat"
  /\ LET size == IF call[p].out \in exists THEN Len(data[call[p].out]) ELSE -1 IN
       /\ call' = [call EXCEPT ![p].seen = size]
       /\ Go(p, IF size = Size[call[p].out] THEN "rehash" ELSE "open")
  /\ UNCHANGED <<params, diskVars, ghostVars>>

\* putIndexEntry is next.
ThenIndex(p) == Go(p, IF params.verify /\ call[p].allow THEN "verify" ELSE "create")

\* A defect: a file of the right size is taken for the output.
RehashOmitted(p) ==
  /\ pc[p] = "rehash"
  /\ ThenIndex(p)
  /\ UNCHANGED <<params, diskVars, call, ghostVars>>

\* A file of the right size is hashed, and left alone if it is the output.
Rehash(p) ==
  /\ pc[p] = "rehash"
  /\ IF Complete(call[p].out) THEN ThenIndex(p) ELSE Go(p, "open")
  /\ UNCHANGED <<params, diskVars, call, ghostVars>>

\* A defect: os.O_TRUNC always.
OpenTruncating(p) ==
  /\ pc[p] = "open"
  /\ exists' = exists \cup {call[p].out}
  /\ data' = [data EXCEPT ![call[p].out] = <<>>]
  /\ Written(call[p].out)
  /\ IF Size[call[p].out] = 0 THEN ThenIndex(p) ELSE Go(p, "copy")
  /\ UNCHANGED <<params, entry, trimTxt, now, call, gone, lost, alone>>

\* os.OpenFile, which truncates a file that was seen to be too long.  An output of
\* no bytes is done.
Open(p) ==
  /\ pc[p] = "open"
  /\ exists' = exists \cup {call[p].out}
  /\ IF call[p].seen > Size[call[p].out]
       THEN data' = [data EXCEPT ![call[p].out] = <<>>] /\ Written(call[p].out)
       ELSE /\ UNCHANGED data
            /\ IF call[p].out \in exists THEN Unwritten ELSE Written(call[p].out)
  /\ IF Size[call[p].out] = 0 THEN ThenIndex(p) ELSE Go(p, "copy")
  /\ UNCHANGED <<params, entry, trimTxt, now, call, gone, lost, alone>>

\* The byte after the first n is written: a hole before it reads as zeros.
WriteAt(s, n) ==
  [i \in 1 .. IF Len(s) > n THEN Len(s) ELSE n + 1 |->
     IF i = n + 1 THEN TRUE ELSE IF i <= Len(s) THEN s[i] ELSE FALSE]

\* One byte is copied; the last one only after the hash of all was checked.
CopyByte(p) ==
  /\ pc[p] = "copy"
  /\ call' = [call EXCEPT ![p].off = @ + 1]
  /\ IF p \in gone THEN UNCHANGED data /\ Unwritten
     ELSE data' = [data EXCEPT ![call[p].out] = WriteAt(@, call[p].off)] /\ Written(call[p].out)
  /\ IF call[p].off + 1 = Size[call[p].out] THEN Go(p, "close") ELSE UNCHANGED pc
  /\ UNCHANGED <<params, exists, entry, trimTxt, now, gone, lost, alone>>

\* A read or a write fails: f.Truncate(0), which may fail as well.
CopyFails(p) ==
  /\ pc[p] = "copy" /\ params.faulty
  /\ \/ UNCHANGED data /\ Unwritten
     \/ p \notin gone /\ data' = [data EXCEPT ![call[p].out] = <<>>] /\ Written(call[p].out)
  /\ Return(p) /\ gone' = gone \ {p}
  /\ UNCHANGED <<params, exists, entry, trimTxt, now, lost, alone>>

\* f.Close, and os.Chtimes by name.
Close(p) ==
  /\ pc[p] = "close"
  /\ IF call[p].out \in exists THEN Written(call[p].out) ELSE Unwritten
  /\ gone' = gone \ {p}
  /\ ThenIndex(p)
  /\ UNCHANGED <<params, exists, entry, data, trimTxt, now, call, lost, alone>>

\* f.Close fails: the file of that name is removed.
CloseFails(p) ==
  /\ pc[p] = "close" /\ params.faulty
  /\ Remove(call[p].out, {p}) /\ Return(p)
  /\ UNCHANGED <<params, mtime, trimTxt, now, alone, lastUse>>

\* c.get under verify; another output for the action is a panic.
VerifyEntry(p) ==
  /\ pc[p] = "verify"
  /\ IF entry[call[p].id] = NoFile
       THEN Go(p, "create") /\ Unwritten /\ UNCHANGED call
       ELSE /\ Used(call[p].id)
            /\ IF entry[call[p].id] = call[p].out THEN Go(p, "create") /\ UNCHANGED call ELSE Return(p)
  /\ UNCHANGED <<params, exists, entry, data, trimTxt, now, gone, lost, alone>>

\* os.OpenFile of the index file, which is not truncated.
Create(p) ==
  /\ pc[p] = "create"
  /\ exists' = exists \cup {call[p].id}
  /\ IF call[p].id \in exists THEN Unwritten ELSE Written(call[p].id)
  /\ Go(p, "write")
  /\ UNCHANGED <<params, entry, data, trimTxt, now, call, gone, lost, alone>>

\* The entry is written; every entry has the same length.
WriteEntry(p) ==
  /\ pc[p] = "write"
  /\ IF p \in gone THEN UNCHANGED entry ELSE entry' = [entry EXCEPT ![call[p].id] = call[p].out]
  /\ IF call[p].id \in exists THEN Written(call[p].id) ELSE Unwritten
  /\ Go(p, "put") /\ gone' = gone \ {p}
  /\ UNCHANGED <<params, exists, data, trimTxt, now, call, lost, alone>>

\* It cannot be written, or only in part, which leaves a torn one, or it is
\* written and Truncate or Close fails.
WriteFails(p) ==
  /\ pc[p] = "write" /\ params.faulty
  /\ \/ UNCHANGED entry /\ Unwritten
     \/ /\ p \notin gone /\ Written(call[p].id)
        /\ \E left \in {NoFile, call[p].out} : entry' = [entry EXCEPT ![call[p].id] = left]
  /\ Go(p, "remove") /\ gone' = gone \ {p}
  /\ UNCHANGED <<params, exists, data, trimTxt, now, call, lost, alone>>

\* os.Remove of the index file, whoever has written it since.
RemoveEntry(p) ==
  /\ pc[p] = "remove"
  /\ Remove(call[p].id, {}) /\ Return(p)
  /\ UNCHANGED <<params, mtime, trimTxt, now, alone, lastUse>>

-----------------------------------------------------------------------------
(* Get, GetFile and GetBytes                                               *)

Get(p, o, a) ==
  IF params.verify
    THEN pc[p] = "idle" /\ UNCHANGED vars
    ELSE Invoke(p, [NoCall EXCEPT !.op = o, !.id = a]) /\ Go(p, "get")

\* A defect: a file that is empty or incomplete is not noticed.
ReadEntryUnchecked(p) ==
  /\ pc[p] = "get"
  /\ call' = [call EXCEPT ![p].out = entry[call[p].id]] /\ Go(p, "usedA")
  /\ UNCHANGED <<params, diskVars, ghostVars>>

\* The index file is opened, read and parsed.
ReadEntry(p) ==
  /\ pc[p] = "get"
  /\ IF entry[call[p].id] = NoFile
       THEN Return(p)
       ELSE /\ call' = [call EXCEPT ![p].out = entry[call[p].id]] /\ Go(p, "usedA")
  /\ UNCHANGED <<params, diskVars, ghostVars>>

\* c.used of the index file.
UsedEntry(p) ==
  /\ pc[p] = "usedA"
  /\ Used(call[p].id)
  /\ IF call[p].op = "get" THEN Return(p) ELSE Go(p, "usedD") /\ UNCHANGED call
  /\ UNCHANGED <<params, exists, entry, data, trimTxt, now, gone, lost, alone>>

\* OutputFile: c.used of the output file.
UsedOutput(p) ==
  /\ pc[p] = "usedD"
  /\ Used(call[p].out)
  /\ Go(p, "look")
  /\ UNCHANGED <<params, exists, entry, data, trimTxt, now, call, gone, lost, alone>>

\* GetFile looks at the size of the file, GetBytes at the hash of its content.
Found(p) ==
  IF call[p].op = "getFile" THEN call[p].out \in exists /\ Len(data[call[p].out]) = Size[call[p].out]
                       ELSE Complete(call[p].out)

Look(p) ==
  /\ pc[p] = "look"
  /\ IF Found(p) THEN Go(p, "use") /\ UNCHANGED call ELSE Return(p)
  /\ UNCHANGED <<params, diskVars, ghostVars>>

\* The caller is done with what Put or a Get function gave it.
Done(p) ==
  /\ pc[p] \in {"put", "use"}
  /\ Return(p)
  /\ UNCHANGED <<params, diskVars, ghostVars>>

-----------------------------------------------------------------------------
(* Trim                                                                    *)

Trim(p) ==
  /\ Invoke(p, [NoCall EXCEPT !.op = "trim", !.start = now])
  /\ Go(p, "read")

Recent(p, t) == call[p].start - t < TrimInterval /\ call[p].start - t > -MtimeInterval

\* trim.txt is read, under its lock, and the directory if it is time.
ReadTrim(p) ==
  /\ pc[p] = "read"
  /\ IF \E t \in trimTxt : Recent(p, t)
       THEN Return(p)
       ELSE /\ call' = [call EXCEPT ![p].todo = Files] /\ Go(p, "trim")
  /\ UNCHANGED <<params, diskVars, ghostVars>>

\* A defect: no allowance for times that are older than the last use.
CutoffTight(p) == call[p].start - TrimLimit

Cutoff(p) == call[p].start - TrimLimit - MtimeInterval

\* trimSubdir: os.Stat of one of the names read.
TrimStat(p, f) ==
  /\ pc[p] = "trim" /\ f \in call[p].todo
  /\ IF f \in exists /\ mtime[f] < Cutoff(p)
       THEN call' = [call EXCEPT ![p].todo = @ \ {f}, ![p].victim = f] /\ Go(p, "trimRemove")
       ELSE call' = [call EXCEPT ![p].todo = @ \ {f}] /\ UNCHANGED pc
  /\ UNCHANGED <<params, diskVars, ghostVars>>

TrimRemove(p) ==
  /\ pc[p] = "trimRemove"
  /\ Remove(call[p].victim, {})
  /\ call' = [call EXCEPT ![p].victim = NoFile] /\ Go(p, "trim")
  /\ UNCHANGED <<params, mtime, trimTxt, now, alone, lastUse>>

\* trim.txt is truncated and written, under its lock; that may end half way.
WriteTrim(p) ==
  /\ pc[p] = "trim" /\ call[p].todo = {}
  /\ trimTxt' \in {{call[p].start}, {}}
  /\ Return(p)
  /\ UNCHANGED <<params, exists, entry, data, mtime, now, ghostVars>>

-----------------------------------------------------------------------------
PutSteps(p) ==
  \/ Stat(p) \/ Rehash(p) \/ Open(p) \/ CopyByte(p) \/ CopyFails(p) \/ Close(p) \/ CloseFails(p)
  \/ VerifyEntry(p) \/ Create(p) \/ WriteEntry(p) \/ WriteFails(p) \/ RemoveEntry(p)

GetSteps(p) == ReadEntry(p) \/ UsedEntry(p) \/ UsedOutput(p) \/ Look(p)

TrimSteps(p) ==
  ReadTrim(p) \/ (\E f \in Files : TrimStat(p, f)) \/ TrimRemove(p) \/ WriteTrim(p)

Call(p) ==
  \/ Trim(p)
  \/ \E a \in Actions :
    \/ \E o \in Outputs, v \in {TRUE, ~params.verify} : Put(p, a, o, v)
    \/ \E o \in {"get", "getFile", "getBytes"} : Get(p, o, a)

Next ==
  \/ Tick
  \/ \E p \in Procs : Call(p) \/ PutSteps(p) \/ GetSteps(p) \/ TrimSteps(p) \/ Done(p) \/ Crash(p)

Spec == Init /\ [][Next]_vars

-----------------------------------------------------------------------------
(* Properties                                                              *)

Sound == ~params.faulty /\ ~params.corrupt

\* An index entry never names an output that is not there in full, unless that was
\* trimmed: not while others put the same output, and not after a process died at
\* any point of a Put (cache.go:41-43, 461-467, 496-500, 528-530).
IndexHonest ==
  Sound => \A a \in Actions : entry[a] # NoFile => Complete(entry[a]) \/ entry[a] \in lost

\* Whatever was on the disk before, a Put that succeeded while nothing else ran left
\* the output there in full and the entry naming it (cache.go:480-500, 537-541).
PutRepairs ==
  \A p \in alone : pc[p] = "put" => Complete(call[p].out) /\ entry[call[p].id] = call[p].out

\* What Trim decides to remove was not used for at least trimLimit, although the
\* times it goes by may be older than the last use (cache.go:276-292, 331-334).
TrimSpares ==
  [][\A p \in Procs : pc[p] = "trim" /\ pc'[p] = "trimRemove"
                        => lastUse[call'[p].victim] < call[p].start - TrimLimit]_vars

\* "They ... may duplicate effort but will not corrupt the cache" (cache.go:41-43):
\* the file GetFile returns holds the output, unless it was removed since.
ServedRight ==
  ~params.corrupt => \A p \in Procs : pc[p] = "use" => Complete(call[p].out) \/ call[p].out \in lost
=============================================================================
