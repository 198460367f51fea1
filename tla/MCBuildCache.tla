---------------------------- MODULE MCBuildCache ----------------------------
(* Instances of BuildCache for TLC. *)
EXTENDS BuildCache

CONSTANTS o, z

\* An output of two bytes, and the empty one.
SizeOf == [x \in Outputs |-> IF x = z THEN 0 ELSE 2]

Run == [ops |-> {"put", "getFile"}, faulty |-> FALSE, corrupt |-> FALSE, verify |-> FALSE,
        filled |-> FALSE, age |-> 0, clock |-> 0]

\* Processes that fill and read the cache and die.
FillRuns == {[Run EXCEPT !.ops = {"put", "getFile", "getBytes"}]}

\* Faults of the disk, and damage done to it before.
FaultRuns == {[Run EXCEPT !.ops = {"put"}, !.faulty = TRUE],
              [Run EXCEPT !.ops = {"put"}, !.corrupt = TRUE, !.filled = TRUE]}

VerifyRuns == {[Run EXCEPT !.verify = TRUE]}

\* Trimming as time goes by; a cache used again after a long time; spoiled trim times.
TrimRuns == {[Run EXCEPT !.ops = {"get", "trim"}, !.filled = TRUE, !.clock = MaxTime],
             [Run EXCEPT !.ops = {"put", "trim"}, !.filled = TRUE, !.age = MaxTime],
             [Run EXCEPT !.ops = {"trim"}, !.corrupt = TRUE, !.filled = TRUE, !.age = MaxTime]}

\* A reader beside writers whose disk fails.
ReadFaultRuns == {[Run EXCEPT !.faulty = TRUE]}

AllKindsOfRuns == FillRuns \cup FaultRuns \cup VerifyRuns \cup TrimRuns
=============================================================================
