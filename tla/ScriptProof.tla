---------------------------- MODULE ScriptProof ----------------------------
(***************************************************************************)
(* Proofs about Script for any bounds, names and set of runs: that it is   *)
(* type correct, that no child process escapes it, that the names of       *)
(* background commands stay unique, that the details of every failed phase *)
(* reach the log, and that the verdict is faithful; and about what it      *)
(* leaves behind: that recorded updates are not lost, that phases that     *)
(* succeeded stay out of the log, that output is that of processes that    *)
(* are done and in order, that input reaches one process, and that a skip  *)
(* has checked every status.                                               *)
(***************************************************************************)
EXTENDS Script, SequenceTheorems, TLAPS

-----------------------------------------------------------------------------
(* RemoveAt of SequencesExt, as wait name uses it on ts.background.        *)

LEMMA RemoveAtElements ==
  ASSUME NEW S, NEW s \in Seq(S), NEW i \in 1 .. Len(s)
  PROVE  /\ RemoveAt(s, i) \in Seq(S)
         /\ Len(RemoveAt(s, i)) = Len(s) - 1
         /\ \A j \in 1 .. Len(s) - 1 :
              RemoveAt(s, i)[j] = IF j < i THEN s[j] ELSE s[j + 1]
  <1> DEFINE L == SubSeq(s, 1, i - 1)
             R == SubSeq(s, i + 1, Len(s))
  <1>1. L \in Seq(S) /\ Len(L) = i - 1 /\ \A j \in 1 .. i - 1 : L[j] = s[j]
    OBVIOUS
  <1>2. R \in Seq(S) /\ Len(R) = Len(s) - i /\ \A j \in 1 .. Len(s) - i : R[j] = s[i + j]
    OBVIOUS
  <1>3. RemoveAt(s, i) = L \o R
    BY DEF RemoveAt
  <1> HIDE DEF L, R
  <1>4. Len(L \o R) = Len(L) + Len(R) /\ L \o R \in Seq(S)
    BY <1>1, <1>2, ConcatProperties
  <1>5. \A j \in 1 .. Len(L) + Len(R) :
          (L \o R)[j] = IF j <= Len(L) THEN L[j] ELSE R[j - Len(L)]
    BY <1>1, <1>2, ConcatProperties, Zenon
  <1>6. Len(L) + Len(R) = Len(s) - 1
    BY <1>1, <1>2
  <1>7. ASSUME NEW j \in 1 .. Len(s) - 1
        PROVE  (L \o R)[j] = IF j < i THEN s[j] ELSE s[j + 1]
    <2>1. (L \o R)[j] = IF j <= i - 1 THEN L[j] ELSE R[j - (i - 1)]
      BY <1>1, <1>5, <1>6
    <2>2. CASE j < i
      BY <1>1, <2>1, <2>2
    <2>3. CASE ~(j < i)
      <3>1. (j - (i - 1)) \in 1 .. Len(s) - i
        BY <2>3
      <3>2. i + (j - (i - 1)) = j + 1
        OBVIOUS
      <3>3. R[j - (i - 1)] = s[i + (j - (i - 1))]
        BY <1>2, <3>1, Zenon
      <3>4. (L \o R)[j] = R[j - (i - 1)]
        BY <2>1, <2>3
      <3>5. R[j - (i - 1)] = s[j + 1]
        BY <3>2, <3>3
      <3>6. ~(j < i)
        BY <2>3
      <3>7. (L \o R)[j] = s[j + 1]
        BY <3>4, <3>5, Zenon
      <3> QED BY <3>6, <3>7, Zenon
    <2> QED BY <2>2, <2>3
  <1> QED BY <1>3, <1>4, <1>6, <1>7

-----------------------------------------------------------------------------
(* Type correctness.  To be inductive it needs to know what the goroutine  *)
(* is blocked in, and that phases are not more than lines.                 *)

ControlInv ==
  /\ pc = "exec" => current.proc \in Procs
  /\ pc = "wait" => current.index >= 1
  /\ pc = "waitOne" => current.index \in 1 .. Len(background)
  /\ phase <= lines

TypeInv == TypeOK /\ ControlInv

TtyStates == [in : 0 .. MaxLines, stdin : BOOLEAN, out : 0 .. MaxProcs]

\* The parameters of a run.
LEMMA ParamsType ==
  ASSUME params \in Runs
  PROVE  /\ params.continueOnError \in BOOLEAN /\ params.verbose \in BOOLEAN
         /\ params.updateScripts \in BOOLEAN /\ params.deadline \in BOOLEAN
         /\ params.length \in Nat /\ params.length <= MaxLines
  BY ScriptAssumption DEF AllRuns

\* What exec leaves of the input and the terminal.
LEMMA AfterExecType ==
  ASSUME IOTypes, NEW out \in 0 .. MaxProcs, AfterExec(out)
  PROVE  stdin' \in 0 .. MaxLines /\ tty' \in TtyStates
  <1>1. tty.out \in 0 .. MaxProcs /\ 0 \in 0 .. MaxLines
    BY ScriptAssumption DEF IOTypes
  <1>2. (IF tty.in # 0 THEN out ELSE tty.out) \in 0 .. MaxProcs
    BY <1>1
  <1> QED
    BY <1>1, <1>2 DEF AfterExec, TtyStates

\* What ttyin makes of the terminal.
LEMMA TtyinType ==
  ASSUME IOTypes, ControlTypes, NEW useStdin \in BOOLEAN, NEW empty \in BOOLEAN,
         Ttyin(useStdin, empty)
  PROVE  tty' \in TtyStates
  <1>1. lines + 1 \in 0 .. MaxLines
    BY ParamsType, ScriptAssumption DEF ControlTypes, Ttyin, Line
  <1>2. (IF empty THEN 0 ELSE lines + 1) \in 0 .. MaxLines
    BY <1>1, ScriptAssumption
  <1>3. tty \in TtyStates /\ (tty.stdin \/ useStdin) \in BOOLEAN
    BY DEF IOTypes, TtyStates
  <1>4. ASSUME tty' = [tty EXCEPT !.in = IF empty THEN 0 ELSE lines + 1,
                                  !.stdin = @ \/ useStdin]
        PROVE  tty' \in TtyStates
    BY <1>2, <1>3, <1>4 DEF TtyStates
  <1>5. ASSUME tty' = [tty EXCEPT !.stdin = @ \/ useStdin]
        PROVE  tty' \in TtyStates
    BY <1>3, <1>5 DEF TtyStates
  <1> QED
    BY <1>3, <1>4, <1>5 DEF Ttyin

\* What stdin makes of the input.
LEMMA StdinType ==
  ASSUME IOTypes, ControlTypes, Stdin
  PROVE  stdin' \in 0 .. MaxLines
  <1>1. lines + 1 \in 0 .. MaxLines
    BY ParamsType, ScriptAssumption DEF ControlTypes, Stdin, Line
  <1> QED
    BY <1>1, ScriptAssumption DEF Stdin, IOTypes

\* The elements of ts.background.
LEMMA BackgroundType ==
  ASSUME ChildTypes
  PROVE  \A i \in 1 .. Len(background) :
           /\ background[i].proc \in Procs
           /\ background[i].name \in Names \cup {Unnamed}
           /\ background[i].neg \in BOOLEAN
  <1>1. \A i \in 1 .. Len(background) : background[i] \in Background
    BY DEF ChildTypes
  <1> QED
    BY <1>1 DEF Background

\* What waitBackground leaves as output.
LEMMA OutputsType ==
  ASSUME ChildTypes
  PROVE  [i \in 1 .. Len(background) |-> background[i].proc] \in Seq(0 .. MaxProcs)
  <1>1. \A i \in 1 .. Len(background) : background[i].proc \in 0 .. MaxProcs
    BY ScriptAssumption, BackgroundType DEF ChildTypes, Procs
  <1>2. Len(background) \in Nat
    BY DEF ChildTypes
  <1> QED
    BY <1>1, <1>2

\* The signals sent by interruptProcess, kill and the deadline.
LEMMA InterruptType ==
  ASSUME ChildTypes, NEW S, Interrupt(S)
  PROVE  signals' \in [Procs -> SUBSET Signals]
  <1>1. "INT" \in Signals
    BY DEF Signals
  <1> QED
    BY <1>1 DEF ChildTypes, Interrupt

LEMMA KillAllType ==
  ASSUME ChildTypes, NEW sig \in {"INT", "KILL"}, KillAll(sig)
  PROVE  signals' \in [Procs -> SUBSET Signals]
  <1>1. sig \in Signals
    BY DEF Signals
  <1> QED
    BY <1>1 DEF ChildTypes, KillAll

LEMMA KillOneType ==
  ASSUME ChildTypes, NEW sig \in {"INT", "KILL"}, NEW i \in 1 .. Len(background),
         KillOne(i, sig)
  PROVE  signals' \in [Procs -> SUBSET Signals]
  <1>1. sig \in Signals
    BY DEF Signals
  <1>2. background[i].proc \in Procs
    BY BackgroundType
  <1> QED
    BY <1>1, <1>2 DEF ChildTypes, KillOne

LEMMA DeadlineSignalType ==
  ASSUME ChildTypes, NEW p \in Procs, DeadlineSignal(p)
  PROVE  signals' \in [Procs -> SUBSET Signals]
  <1>1. "QUIT" \in Signals /\ "KILL" \in Signals
    BY DEF Signals
  <1> QED
    BY <1>1 DEF ChildTypes, DeadlineSignal

\* The position in waitBackground's loop.
LEMMA WaitNextType ==
  ASSUME ControlTypes, pc = "wait", current' = [current EXCEPT !.index = @ + 1]
  PROVE  current' \in BlockedStates
  BY DEF ControlTypes, BlockedStates

\* The goroutine keeps its types.
LEMMA ControlTypesStep == TypeInv /\ [Next]_vars => ControlTypes'
  <1> SUFFICES ASSUME TypeInv, [Next]_vars PROVE ControlTypes'
    OBVIOUS
  <1> USE ScriptAssumption, ParamsType
      DEF TypeInv, TypeOK, ControlTypes, Procs, controlVars, childVars,
          ioVars, failVars, logVars,
          NoCommand, Blocked, BlockedStates
  <1>1. ASSUME NEW neg \in BOOLEAN, ExecFails(neg) PROVE ControlTypes'
    BY <1>1 DEF ExecFails, Line, Outcome, Proceed, Fatalf, FatalfSetting, AfterExec
  <1>2. ASSUME NEW p \in Procs, NEW neg \in BOOLEAN, ExecStarts(p, neg)
        PROVE ControlTypes'
    BY <1>2 DEF ExecStarts, Line, Start
  <1>3. ASSUME ExecReturns PROVE ControlTypes'
    BY <1>3 DEF ExecReturns, Outcome, Proceed, Fatalf, FatalfSetting, AfterExec
  <1>4. ASSUME NEW n \in Names \cup {Unnamed}, BackgroundRefused(n) PROVE ControlTypes'
    BY <1>4 DEF BackgroundRefused, Line, Fatalf, FatalfSetting
  <1>5. ASSUME NEW n \in Names \cup {Unnamed}, NEW neg \in BOOLEAN,
               BackgroundFails(n, neg)
        PROVE ControlTypes'
    BY <1>5 DEF BackgroundFails, Line, Outcome, Proceed, Fatalf, FatalfSetting
  <1>6. ASSUME NEW p \in Procs, NEW n \in Names \cup {Unnamed}, NEW neg \in BOOLEAN,
               BackgroundStarts(p, n, neg)
        PROVE ControlTypes'
    BY <1>6 DEF BackgroundStarts, Line, Start, Proceed, Background
  <1>7. ASSUME Wait PROVE ControlTypes'
    BY <1>7 DEF Wait, WaitAll, Line, Interrupt
  <1>8. ASSUME Skip PROVE ControlTypes'
    BY <1>8 DEF Skip, WaitAll, Line, Interrupt
  <1>9. ASSUME WaitNext PROVE ControlTypes'
    <2>1. current' \in BlockedStates
      <3>1. NoCommand \in BlockedStates
        OBVIOUS
      <3> QED BY <1>9, <3>1, WaitNextType DEF WaitNext
    <2>2. pc' \in {"wait", "loop", "updates"}
      BY <1>9 DEF WaitNext, Fatalf, FatalfSetting
    <2>3. verdict' \in {verdict, "fail"}
      BY <1>9 DEF WaitNext, Fatalf, FatalfSetting
    <2>4. UNCHANGED <<params, lines, stopped, panicked>>
      BY <1>9 DEF WaitNext
    <2> QED BY <2>1, <2>2, <2>3, <2>4
  <1>10. ASSUME WaitReturns PROVE ControlTypes'
    BY <1>10 DEF WaitReturns, WaitedAll, Proceed
  <1>11. ASSUME SkipReturns PROVE ControlTypes'
    BY <1>11 DEF SkipReturns, WaitedAll
  <1>12. ASSUME WaitUnknown PROVE ControlTypes'
    BY <1>12 DEF WaitUnknown, Line, Fatalf, FatalfSetting
  <1>13. ASSUME NEW i \in 1 .. Len(background), WaitOne(i) PROVE ControlTypes'
    BY <1>13 DEF WaitOne, Line
  <1>14. ASSUME WaitOneReturns PROVE ControlTypes'
    BY <1>14 DEF WaitOneReturns, Fatalf, FatalfSetting, Proceed
  <1>15. ASSUME NEW sig \in {"INT", "KILL"}, KillAll(sig) PROVE ControlTypes'
    BY <1>15 DEF KillAll, Line, Outcome, Proceed, Fatalf, FatalfSetting
  <1>16. ASSUME KillUnknown PROVE ControlTypes'
    BY <1>16 DEF KillUnknown, Line, Fatalf, FatalfSetting
  <1>17. ASSUME NEW i \in 1 .. Len(background), NEW sig \in {"INT", "KILL"},
               KillOne(i, sig)
        PROVE ControlTypes'
    BY <1>17 DEF KillOne, Line, Outcome, Proceed, Fatalf, FatalfSetting
  <1>18. ASSUME Stop PROVE ControlTypes'
    BY <1>18 DEF Stop, Line
  <1>19. ASSUME Stdin PROVE ControlTypes'
    BY <1>19 DEF Stdin, Line, Outcome, Proceed, Fatalf, FatalfSetting
  <1>20. ASSUME CmpUpdates PROVE ControlTypes'
    BY <1>20 DEF CmpUpdates, Line, Proceed
  <1>21. ASSUME NEW useStdin \in BOOLEAN, NEW empty \in BOOLEAN, Ttyin(useStdin, empty)
        PROVE ControlTypes'
    BY <1>21 DEF Ttyin, Line, Outcome, Proceed, Fatalf, FatalfSetting
  <1>22. ASSUME NEW ok \in BOOLEAN, Custom(ok) PROVE ControlTypes'
    BY <1>22 DEF Custom, Line, Outcome, Proceed, Fatalf, FatalfSetting
  <1>23. ASSUME NEW ok \in BOOLEAN, Other(ok) PROVE ControlTypes'
    BY <1>23 DEF Other, Line, Outcome, Proceed, Fatalf, FatalfSetting
  <1>24. ASSUME NEW ok \in BOOLEAN, Setup(ok) PROVE ControlTypes'
    BY <1>24 DEF Setup
  <1>25. ASSUME PhaseComment PROVE ControlTypes'
    BY <1>25 DEF PhaseComment, Rewound
  <1>26. ASSUME EndOfScript PROVE ControlTypes'
    BY <1>26 DEF EndOfScript
  <1>27. ASSUME End PROVE ControlTypes'
    BY <1>27 DEF End, EndInterrupting, WaitAll, Interrupt
  <1>28. ASSUME EndReturns PROVE ControlTypes'
    BY <1>28 DEF EndReturns, WaitedAll, EndVerdict, Rewound
  <1>29. ASSUME ApplyScriptUpdates PROVE ControlTypes'
    BY <1>29 DEF ApplyScriptUpdates
  <1>30. ASSUME Cleanup PROVE ControlTypes'
    BY <1>30 DEF Cleanup, WaitAll, Interrupt
  <1>31. ASSUME CleanupReturns PROVE ControlTypes'
    BY <1>31 DEF CleanupReturns, WaitedAll
  <1>32. ASSUME Flush PROVE ControlTypes'
    BY <1>32 DEF Flush
  <1>33. ASSUME NEW p \in Procs, Exit(p) PROVE ControlTypes'
    BY <1>33 DEF Exit
  <1>34. ASSUME NEW p \in Procs, Reap(p) PROVE ControlTypes'
    BY <1>34 DEF Reap
  <1>35. ASSUME NEW p \in Procs, DeadlineSignal(p) PROVE ControlTypes'
    BY <1>35 DEF DeadlineSignal
  <1>36. ASSUME Deadline PROVE ControlTypes'
    BY <1>36 DEF Deadline
  <1>37. CASE UNCHANGED vars
    BY <1>37 DEF vars
  <1> QED
    <2>1. CASE Exec
      BY <2>1, <1>1, <1>2, <1>3 DEF Exec
    <2>2. CASE ExecBackground
      BY <2>2, <1>4, <1>5, <1>6 DEF ExecBackground
    <2>3. CASE Waits
      BY <2>3, <1>7, <1>8, <1>9, <1>10, <1>11, <1>12, <1>13, <1>14 DEF Waits
    <2>4. CASE Kills
      BY <2>4, <1>15, <1>16, <1>17 DEF Kills
    <2>5. CASE OtherCommands
      BY <2>5, <1>18, <1>19, <1>20, <1>21, <1>22, <1>23 DEF OtherCommands
    <2>6. CASE Run
      BY <2>6, <1>24, <1>25, <1>26, <1>27, <1>28, <1>29, <1>30, <1>31, <1>32 DEF Run
    <2>7. CASE Children
      BY <2>7, <1>33, <1>34, <1>35 DEF Children
    <2> QED
      BY <1>36, <1>37, <2>1, <2>2, <2>3, <2>4, <2>5, <2>6, <2>7
      DEF Next, ScriptGoroutine, Finished

\* The child processes keep theirs.
LEMMA ChildTypesStep == TypeInv /\ [Next]_vars => ChildTypes'
  <1> SUFFICES ASSUME TypeInv, [Next]_vars PROVE ChildTypes'
    OBVIOUS
  <1> USE ScriptAssumption, ParamsType
      DEF TypeInv, TypeOK, ChildTypes, Procs, controlVars, childVars,
          ioVars, failVars, logVars,
          NoCommand, Blocked, BlockedStates
  <1>1. ASSUME NEW neg \in BOOLEAN, ExecFails(neg) PROVE ChildTypes'
    BY <1>1 DEF ExecFails, Line
  <1>2. ASSUME NEW p \in Procs, NEW neg \in BOOLEAN, ExecStarts(p, neg)
        PROVE ChildTypes'
    BY <1>2 DEF ExecStarts, Line, Start
  <1>3. ASSUME ExecReturns PROVE ChildTypes'
    BY <1>3 DEF ExecReturns
  <1>4. ASSUME NEW n \in Names \cup {Unnamed}, BackgroundRefused(n) PROVE ChildTypes'
    BY <1>4 DEF BackgroundRefused, Line
  <1>5. ASSUME NEW n \in Names \cup {Unnamed}, NEW neg \in BOOLEAN,
               BackgroundFails(n, neg)
        PROVE ChildTypes'
    BY <1>5 DEF BackgroundFails, Line
  <1>6. ASSUME NEW p \in Procs, NEW n \in Names \cup {Unnamed}, NEW neg \in BOOLEAN,
               BackgroundStarts(p, n, neg)
        PROVE ChildTypes'
    BY <1>6 DEF BackgroundStarts, Line, Start, Background
  <1>7. ASSUME Wait PROVE ChildTypes'
    BY <1>7, InterruptType DEF Wait, WaitAll, Line
  <1>8. ASSUME Skip PROVE ChildTypes'
    BY <1>8, InterruptType DEF Skip, WaitAll, Line
  <1>9. ASSUME WaitNext PROVE ChildTypes'
    BY <1>9 DEF WaitNext
  <1>10. ASSUME WaitReturns PROVE ChildTypes'
    BY <1>10 DEF WaitReturns, WaitedAll
  <1>11. ASSUME SkipReturns PROVE ChildTypes'
    BY <1>11 DEF SkipReturns, WaitedAll
  <1>12. ASSUME WaitUnknown PROVE ChildTypes'
    BY <1>12 DEF WaitUnknown, Line
  <1>13. ASSUME NEW i \in 1 .. Len(background), WaitOne(i) PROVE ChildTypes'
    BY <1>13 DEF WaitOne, Line
  <1>14. ASSUME WaitOneReturns PROVE ChildTypes'
    <2>1. current.index \in 1 .. Len(background)
      BY <1>14 DEF WaitOneReturns, ControlInv
    <2>2. RemoveAt(background, current.index) \in Seq(Background)
      BY <2>1, RemoveAtElements
    <2>3. background' \in Seq(Background)
      BY <1>14, <2>2 DEF WaitOneReturns
    <2>4. UNCHANGED <<childVars, expired>>
      BY <1>14 DEF WaitOneReturns
    <2> QED BY <2>3, <2>4
  <1>15. ASSUME NEW sig \in {"INT", "KILL"}, KillAll(sig) PROVE ChildTypes'
    BY <1>15, KillAllType DEF KillAll, Line
  <1>16. ASSUME KillUnknown PROVE ChildTypes'
    BY <1>16 DEF KillUnknown, Line
  <1>17. ASSUME NEW i \in 1 .. Len(background), NEW sig \in {"INT", "KILL"},
               KillOne(i, sig)
        PROVE ChildTypes'
    BY <1>17, KillOneType DEF KillOne, Line
  <1>18. ASSUME Stop PROVE ChildTypes'
    BY <1>18 DEF Stop, Line
  <1>19. ASSUME Stdin PROVE ChildTypes'
    BY <1>19 DEF Stdin, Line
  <1>20. ASSUME CmpUpdates PROVE ChildTypes'
    BY <1>20 DEF CmpUpdates, Line
  <1>21. ASSUME NEW useStdin \in BOOLEAN, NEW empty \in BOOLEAN, Ttyin(useStdin, empty)
        PROVE ChildTypes'
    BY <1>21 DEF Ttyin, Line
  <1>22. ASSUME NEW ok \in BOOLEAN, Custom(ok) PROVE ChildTypes'
    BY <1>22 DEF Custom, Line
  <1>23. ASSUME NEW ok \in BOOLEAN, Other(ok) PROVE ChildTypes'
    BY <1>23 DEF Other, Line
  <1>24. ASSUME NEW ok \in BOOLEAN, Setup(ok) PROVE ChildTypes'
    BY <1>24 DEF Setup
  <1>25. ASSUME PhaseComment PROVE ChildTypes'
    BY <1>25 DEF PhaseComment
  <1>26. ASSUME EndOfScript PROVE ChildTypes'
    BY <1>26 DEF EndOfScript
  <1>27. ASSUME End PROVE ChildTypes'
    BY <1>27, InterruptType DEF End, EndInterrupting, WaitAll
  <1>28. ASSUME EndReturns PROVE ChildTypes'
    BY <1>28 DEF EndReturns, WaitedAll
  <1>29. ASSUME ApplyScriptUpdates PROVE ChildTypes'
    BY <1>29 DEF ApplyScriptUpdates
  <1>30. ASSUME Cleanup PROVE ChildTypes'
    BY <1>30, InterruptType DEF Cleanup, WaitAll
  <1>31. ASSUME CleanupReturns PROVE ChildTypes'
    BY <1>31 DEF CleanupReturns, WaitedAll
  <1>32. ASSUME Flush PROVE ChildTypes'
    BY <1>32 DEF Flush
  <1>33. ASSUME NEW p \in Procs, Exit(p) PROVE ChildTypes'
    BY <1>33 DEF Exit
  <1>34. ASSUME NEW p \in Procs, Reap(p) PROVE ChildTypes'
    BY <1>34 DEF Reap
  <1>35. ASSUME NEW p \in Procs, DeadlineSignal(p) PROVE ChildTypes'
    BY <1>35, DeadlineSignalType DEF DeadlineSignal
  <1>36. ASSUME Deadline PROVE ChildTypes'
    BY <1>36 DEF Deadline
  <1>37. CASE UNCHANGED vars
    BY <1>37 DEF vars
  <1> QED
    <2>1. CASE Exec
      BY <2>1, <1>1, <1>2, <1>3 DEF Exec
    <2>2. CASE ExecBackground
      BY <2>2, <1>4, <1>5, <1>6 DEF ExecBackground
    <2>3. CASE Waits
      BY <2>3, <1>7, <1>8, <1>9, <1>10, <1>11, <1>12, <1>13, <1>14 DEF Waits
    <2>4. CASE Kills
      BY <2>4, <1>15, <1>16, <1>17 DEF Kills
    <2>5. CASE OtherCommands
      BY <2>5, <1>18, <1>19, <1>20, <1>21, <1>22, <1>23 DEF OtherCommands
    <2>6. CASE Run
      BY <2>6, <1>24, <1>25, <1>26, <1>27, <1>28, <1>29, <1>30, <1>31, <1>32 DEF Run
    <2>7. CASE Children
      BY <2>7, <1>33, <1>34, <1>35 DEF Children
    <2> QED
      BY <1>36, <1>37, <2>1, <2>2, <2>3, <2>4, <2>5, <2>6, <2>7
      DEF Next, ScriptGoroutine, Finished

\* So do the inputs and outputs of commands.
LEMMA IOTypesStep == TypeInv /\ [Next]_vars => IOTypes'
  <1> SUFFICES ASSUME TypeInv, [Next]_vars PROVE IOTypes'
    OBVIOUS
  <1> USE ScriptAssumption, ParamsType
      DEF TypeInv, TypeOK, IOTypes, Procs, controlVars, childVars,
          ioVars, failVars, logVars,
          NoCommand, Blocked, BlockedStates
  <1>1. ASSUME NEW neg \in BOOLEAN, ExecFails(neg) PROVE IOTypes'
    <2>1. AfterExec(0) => stdin' \in 0 .. MaxLines /\ tty' \in TtyStates
      BY AfterExecType
    <2>2. stdin \in 0 .. MaxLines /\ tty \in TtyStates
      BY DEF TtyStates
    <2>3. stdin' \in 0 .. MaxLines /\ tty' \in TtyStates
      BY <1>1, <2>1, <2>2 DEF ExecFails
    <2> QED BY <1>1, <2>3 DEF ExecFails, TtyStates
  <1>2. ASSUME NEW p \in Procs, NEW neg \in BOOLEAN, ExecStarts(p, neg) PROVE IOTypes'
    BY <1>2 DEF ExecStarts, Start
  <1>3. ASSUME ExecReturns PROVE IOTypes'
    <2>1. current.proc \in 0 .. MaxProcs
      BY <1>3 DEF ExecReturns, ControlTypes
    <2>2. stdin' \in 0 .. MaxLines /\ tty' \in TtyStates
      BY <1>3, <2>1, AfterExecType DEF ExecReturns
    <2>3. <<current.proc>> \in Seq(0 .. MaxProcs)
      BY <2>1
    <2> QED BY <1>3, <2>2, <2>3 DEF ExecReturns, TtyStates
  <1>4. ASSUME NEW n \in Names \cup {Unnamed}, BackgroundRefused(n) PROVE IOTypes'
    BY <1>4 DEF BackgroundRefused
  <1>5. ASSUME NEW n \in Names \cup {Unnamed}, NEW neg \in BOOLEAN,
               BackgroundFails(n, neg)
        PROVE IOTypes'
    BY <1>5 DEF BackgroundFails
  <1>6. ASSUME NEW p \in Procs, NEW n \in Names \cup {Unnamed}, NEW neg \in BOOLEAN,
               BackgroundStarts(p, n, neg)
        PROVE IOTypes'
    BY <1>6 DEF BackgroundStarts, Start
  <1>7. ASSUME Wait PROVE IOTypes'
    BY <1>7 DEF Wait, WaitAll
  <1>8. ASSUME Skip PROVE IOTypes'
    BY <1>8 DEF Skip, WaitAll
  <1>9. ASSUME WaitNext PROVE IOTypes'
    BY <1>9 DEF WaitNext
  <1>10. ASSUME WaitReturns PROVE IOTypes'
    BY <1>10, OutputsType DEF WaitReturns, WaitedAll
  <1>11. ASSUME SkipReturns PROVE IOTypes'
    BY <1>11, OutputsType DEF SkipReturns, WaitedAll
  <1>12. ASSUME WaitUnknown PROVE IOTypes'
    BY <1>12 DEF WaitUnknown
  <1>13. ASSUME NEW i \in 1 .. Len(background), WaitOne(i) PROVE IOTypes'
    BY <1>13 DEF WaitOne
  <1>14. ASSUME WaitOneReturns PROVE IOTypes'
    <2>1. background[current.index].proc \in 0 .. MaxProcs
      BY <1>14, BackgroundType DEF WaitOneReturns, ControlInv
    <2>2. <<background[current.index].proc>> \in Seq(0 .. MaxProcs)
      BY <2>1
    <2> QED BY <1>14, <2>2 DEF WaitOneReturns
  <1>15. ASSUME NEW sig \in {"INT", "KILL"}, KillAll(sig) PROVE IOTypes'
    BY <1>15 DEF KillAll
  <1>16. ASSUME KillUnknown PROVE IOTypes'
    BY <1>16 DEF KillUnknown
  <1>17. ASSUME NEW i \in 1 .. Len(background), NEW sig \in {"INT", "KILL"},
               KillOne(i, sig)
        PROVE IOTypes'
    BY <1>17 DEF KillOne
  <1>18. ASSUME Stop PROVE IOTypes'
    BY <1>18 DEF Stop
  <1>19. ASSUME Stdin PROVE IOTypes'
    BY <1>19, StdinType DEF Stdin
  <1>20. ASSUME CmpUpdates PROVE IOTypes'
    BY <1>20 DEF CmpUpdates
  <1>21. ASSUME NEW useStdin \in BOOLEAN, NEW empty \in BOOLEAN, Ttyin(useStdin, empty)
        PROVE IOTypes'
    <2>1. tty' \in TtyStates
      BY <1>21, TtyinType
    <2>2. UNCHANGED <<stdout, stdin, fed, updates>>
      BY <1>21 DEF Ttyin
    <2> QED BY <2>1, <2>2 DEF TtyStates
  <1>22. ASSUME NEW ok \in BOOLEAN, Custom(ok) PROVE IOTypes'
    BY <1>22 DEF Custom
  <1>23. ASSUME NEW ok \in BOOLEAN, Other(ok) PROVE IOTypes'
    BY <1>23 DEF Other
  <1>24. ASSUME NEW ok \in BOOLEAN, Setup(ok) PROVE IOTypes'
    BY <1>24 DEF Setup
  <1>25. ASSUME PhaseComment PROVE IOTypes'
    BY <1>25 DEF PhaseComment
  <1>26. ASSUME EndOfScript PROVE IOTypes'
    BY <1>26 DEF EndOfScript
  <1>27. ASSUME End PROVE IOTypes'
    BY <1>27 DEF End, EndInterrupting, WaitAll
  <1>28. ASSUME EndReturns PROVE IOTypes'
    BY <1>28, OutputsType DEF EndReturns, WaitedAll
  <1>29. ASSUME ApplyScriptUpdates PROVE IOTypes'
    BY <1>29 DEF ApplyScriptUpdates
  <1>30. ASSUME Cleanup PROVE IOTypes'
    BY <1>30 DEF Cleanup, WaitAll
  <1>31. ASSUME CleanupReturns PROVE IOTypes'
    BY <1>31, OutputsType DEF CleanupReturns, WaitedAll
  <1>32. ASSUME Flush PROVE IOTypes'
    BY <1>32 DEF Flush
  <1>33. ASSUME NEW p \in Procs, Exit(p) PROVE IOTypes'
    BY <1>33 DEF Exit
  <1>34. ASSUME NEW p \in Procs, Reap(p) PROVE IOTypes'
    BY <1>34 DEF Reap
  <1>35. ASSUME NEW p \in Procs, DeadlineSignal(p) PROVE IOTypes'
    BY <1>35 DEF DeadlineSignal
  <1>36. ASSUME Deadline PROVE IOTypes'
    BY <1>36 DEF Deadline
  <1>37. CASE UNCHANGED vars
    BY <1>37 DEF vars
  <1> QED
    <2>1. CASE Exec
      BY <2>1, <1>1, <1>2, <1>3 DEF Exec
    <2>2. CASE ExecBackground
      BY <2>2, <1>4, <1>5, <1>6 DEF ExecBackground
    <2>3. CASE Waits
      BY <2>3, <1>7, <1>8, <1>9, <1>10, <1>11, <1>12, <1>13, <1>14 DEF Waits
    <2>4. CASE Kills
      BY <2>4, <1>15, <1>16, <1>17 DEF Kills
    <2>5. CASE OtherCommands
      BY <2>5, <1>18, <1>19, <1>20, <1>21, <1>22, <1>23 DEF OtherCommands
    <2>6. CASE Run
      BY <2>6, <1>24, <1>25, <1>26, <1>27, <1>28, <1>29, <1>30, <1>31, <1>32 DEF Run
    <2>7. CASE Children
      BY <2>7, <1>33, <1>34, <1>35 DEF Children
    <2> QED
      BY <1>36, <1>37, <2>1, <2>2, <2>3, <2>4, <2>5, <2>6, <2>7
      DEF Next, ScriptGoroutine, Finished

\* So does the log.
LEMMA LogTypesStep == TypeInv /\ [Next]_vars => LogTypes'
  <1> SUFFICES ASSUME TypeInv, [Next]_vars PROVE LogTypes'
    OBVIOUS
  <1> USE ScriptAssumption, ParamsType
      DEF TypeInv, TypeOK, LogTypes, ControlTypes, ControlInv, Procs, controlVars, childVars,
          ioVars, failVars, logVars,
          NoCommand, Blocked, BlockedStates
  <1>1. ASSUME NEW neg \in BOOLEAN, ExecFails(neg) PROVE LogTypes'
    BY <1>1 DEF ExecFails, Line, Outcome, Proceed, Fatalf, FatalfSetting
  <1>2. ASSUME NEW p \in Procs, NEW neg \in BOOLEAN, ExecStarts(p, neg) PROVE LogTypes'
    BY <1>2 DEF ExecStarts, Line
  <1>3. ASSUME ExecReturns PROVE LogTypes'
    BY <1>3 DEF ExecReturns, Outcome, Proceed, Fatalf, FatalfSetting
  <1>4. ASSUME NEW n \in Names \cup {Unnamed}, BackgroundRefused(n) PROVE LogTypes'
    BY <1>4 DEF BackgroundRefused, Line, Fatalf, FatalfSetting
  <1>5. ASSUME NEW n \in Names \cup {Unnamed}, NEW neg \in BOOLEAN,
               BackgroundFails(n, neg)
        PROVE LogTypes'
    BY <1>5 DEF BackgroundFails, Line, Outcome, Proceed, Fatalf, FatalfSetting
  <1>6. ASSUME NEW p \in Procs, NEW n \in Names \cup {Unnamed}, NEW neg \in BOOLEAN,
               BackgroundStarts(p, n, neg)
        PROVE LogTypes'
    BY <1>6 DEF BackgroundStarts, Line, Proceed, Background
  <1>7. ASSUME Wait PROVE LogTypes'
    BY <1>7 DEF Wait, WaitAll, Line
  <1>8. ASSUME Skip PROVE LogTypes'
    BY <1>8 DEF Skip, WaitAll, Line
  <1>9. ASSUME WaitNext PROVE LogTypes'
    BY <1>9 DEF WaitNext, Fatalf, FatalfSetting
  <1>10. ASSUME WaitReturns PROVE LogTypes'
    BY <1>10 DEF WaitReturns, WaitedAll, Proceed
  <1>11. ASSUME SkipReturns PROVE LogTypes'
    BY <1>11 DEF SkipReturns, WaitedAll
  <1>12. ASSUME WaitUnknown PROVE LogTypes'
    BY <1>12 DEF WaitUnknown, Line, Fatalf, FatalfSetting
  <1>13. ASSUME NEW i \in 1 .. Len(background), WaitOne(i) PROVE LogTypes'
    BY <1>13 DEF WaitOne, Line
  <1>14. ASSUME WaitOneReturns PROVE LogTypes'
    BY <1>14 DEF WaitOneReturns, Fatalf, FatalfSetting, Proceed
  <1>15. ASSUME NEW sig \in {"INT", "KILL"}, KillAll(sig) PROVE LogTypes'
    BY <1>15 DEF KillAll, Line, Outcome, Proceed, Fatalf, FatalfSetting
  <1>16. ASSUME KillUnknown PROVE LogTypes'
    BY <1>16 DEF KillUnknown, Line, Fatalf, FatalfSetting
  <1>17. ASSUME NEW i \in 1 .. Len(background), NEW sig \in {"INT", "KILL"},
               KillOne(i, sig)
        PROVE LogTypes'
    BY <1>17 DEF KillOne, Line, Outcome, Proceed, Fatalf, FatalfSetting
  <1>18. ASSUME Stop PROVE LogTypes'
    BY <1>18 DEF Stop, Line
  <1>19. ASSUME Stdin PROVE LogTypes'
    BY <1>19 DEF Stdin, Line, Outcome, Proceed, Fatalf, FatalfSetting
  <1>20. ASSUME CmpUpdates PROVE LogTypes'
    BY <1>20 DEF CmpUpdates, Line, Proceed
  <1>21. ASSUME NEW useStdin \in BOOLEAN, NEW empty \in BOOLEAN, Ttyin(useStdin, empty)
        PROVE LogTypes'
    BY <1>21 DEF Ttyin, Line, Outcome, Proceed, Fatalf, FatalfSetting
  <1>22. ASSUME NEW ok \in BOOLEAN, Custom(ok) PROVE LogTypes'
    BY <1>22 DEF Custom, Line, Outcome, Proceed, Fatalf, FatalfSetting
  <1>23. ASSUME NEW ok \in BOOLEAN, Other(ok) PROVE LogTypes'
    BY <1>23 DEF Other, Line, Outcome, Proceed, Fatalf, FatalfSetting
  <1>24. ASSUME NEW ok \in BOOLEAN, Setup(ok) PROVE LogTypes'
    BY <1>24 DEF Setup
  <1>25. ASSUME PhaseComment PROVE LogTypes'
    <2>1. phase' \in 0 .. MaxLines
      BY <1>25 DEF PhaseComment
    <2>2. kept' \subseteq 0 .. MaxLines
      BY <1>25 DEF PhaseComment
    <2>3. UNCHANGED failedIn
      BY <1>25 DEF PhaseComment
    <2>4. loud' \in BOOLEAN /\ lastBlockFailed' \in BOOLEAN /\ dirty' \in BOOLEAN
      BY <1>25 DEF PhaseComment
    <2> QED BY <2>1, <2>2, <2>3, <2>4
  <1>26. ASSUME EndOfScript PROVE LogTypes'
    BY <1>26 DEF EndOfScript
  <1>27. ASSUME End PROVE LogTypes'
    BY <1>27 DEF End, EndInterrupting, WaitAll
  <1>28. ASSUME EndReturns PROVE LogTypes'
    BY <1>28 DEF EndReturns, WaitedAll, EndVerdict, Rewound
  <1>29. ASSUME ApplyScriptUpdates PROVE LogTypes'
    BY <1>29 DEF ApplyScriptUpdates
  <1>30. ASSUME Cleanup PROVE LogTypes'
    BY <1>30 DEF Cleanup, WaitAll
  <1>31. ASSUME CleanupReturns PROVE LogTypes'
    BY <1>31 DEF CleanupReturns, WaitedAll
  <1>32. ASSUME Flush PROVE LogTypes'
    BY <1>32 DEF Flush
  <1>33. ASSUME NEW p \in Procs, Exit(p) PROVE LogTypes'
    BY <1>33 DEF Exit
  <1>34. ASSUME NEW p \in Procs, Reap(p) PROVE LogTypes'
    BY <1>34 DEF Reap
  <1>35. ASSUME NEW p \in Procs, DeadlineSignal(p) PROVE LogTypes'
    BY <1>35 DEF DeadlineSignal
  <1>36. ASSUME Deadline PROVE LogTypes'
    BY <1>36 DEF Deadline
  <1>37. CASE UNCHANGED vars
    BY <1>37 DEF vars
  <1> QED
    <2>1. CASE Exec
      BY <2>1, <1>1, <1>2, <1>3 DEF Exec
    <2>2. CASE ExecBackground
      BY <2>2, <1>4, <1>5, <1>6 DEF ExecBackground
    <2>3. CASE Waits
      BY <2>3, <1>7, <1>8, <1>9, <1>10, <1>11, <1>12, <1>13, <1>14 DEF Waits
    <2>4. CASE Kills
      BY <2>4, <1>15, <1>16, <1>17 DEF Kills
    <2>5. CASE OtherCommands
      BY <2>5, <1>18, <1>19, <1>20, <1>21, <1>22, <1>23 DEF OtherCommands
    <2>6. CASE Run
      BY <2>6, <1>24, <1>25, <1>26, <1>27, <1>28, <1>29, <1>30, <1>31, <1>32 DEF Run
    <2>7. CASE Children
      BY <2>7, <1>33, <1>34, <1>35 DEF Children
    <2> QED
      BY <1>36, <1>37, <2>1, <2>2, <2>3, <2>4, <2>5, <2>6, <2>7
      DEF Next, ScriptGoroutine, Finished

\* What the goroutine is blocked in is what it can wait for.
LEMMA ControlInvStep == TypeInv /\ [Next]_vars => ControlInv'
  <1> SUFFICES ASSUME TypeInv, [Next]_vars PROVE ControlInv'
    OBVIOUS
  <1> USE ScriptAssumption, ParamsType
      DEF TypeInv, TypeOK, ControlInv, ControlTypes,
          LogTypes, Procs, controlVars, childVars,
          ioVars, failVars, logVars,
          NoCommand, Blocked, BlockedStates
  <1>1. ASSUME NEW neg \in BOOLEAN, ExecFails(neg) PROVE ControlInv'
    BY <1>1 DEF ExecFails, Line, Outcome, Proceed, Fatalf, FatalfSetting
  <1>2. ASSUME NEW p \in Procs, NEW neg \in BOOLEAN, ExecStarts(p, neg)
        PROVE ControlInv'
    BY <1>2 DEF ExecStarts, Line
  <1>3. ASSUME ExecReturns PROVE ControlInv'
    BY <1>3 DEF ExecReturns, Outcome, Proceed, Fatalf, FatalfSetting
  <1>4. ASSUME NEW n \in Names \cup {Unnamed}, BackgroundRefused(n) PROVE ControlInv'
    BY <1>4 DEF BackgroundRefused, Line, Fatalf, FatalfSetting
  <1>5. ASSUME NEW n \in Names \cup {Unnamed}, NEW neg \in BOOLEAN,
               BackgroundFails(n, neg)
        PROVE ControlInv'
    BY <1>5 DEF BackgroundFails, Line, Outcome, Proceed, Fatalf, FatalfSetting
  <1>6. ASSUME NEW p \in Procs, NEW n \in Names \cup {Unnamed}, NEW neg \in BOOLEAN,
               BackgroundStarts(p, n, neg)
        PROVE ControlInv'
    BY <1>6 DEF BackgroundStarts, Line, Proceed, Background
  <1>7. ASSUME Wait PROVE ControlInv'
    BY <1>7 DEF Wait, WaitAll, Line
  <1>8. ASSUME Skip PROVE ControlInv'
    BY <1>8 DEF Skip, WaitAll, Line
  <1>9. ASSUME WaitNext PROVE ControlInv'
    BY <1>9 DEF WaitNext, Fatalf, FatalfSetting
  <1>10. ASSUME WaitReturns PROVE ControlInv'
    BY <1>10 DEF WaitReturns, WaitedAll, Proceed
  <1>11. ASSUME SkipReturns PROVE ControlInv'
    BY <1>11 DEF SkipReturns, WaitedAll
  <1>12. ASSUME WaitUnknown PROVE ControlInv'
    BY <1>12 DEF WaitUnknown, Line, Fatalf, FatalfSetting
  <1>13. ASSUME NEW i \in 1 .. Len(background), WaitOne(i) PROVE ControlInv'
    BY <1>13 DEF WaitOne, Line
  <1>14. ASSUME WaitOneReturns PROVE ControlInv'
    BY <1>14 DEF WaitOneReturns, Fatalf, FatalfSetting, Proceed
  <1>15. ASSUME NEW sig \in {"INT", "KILL"}, KillAll(sig) PROVE ControlInv'
    BY <1>15 DEF KillAll, Line, Outcome, Proceed, Fatalf, FatalfSetting
  <1>16. ASSUME KillUnknown PROVE ControlInv'
    BY <1>16 DEF KillUnknown, Line, Fatalf, FatalfSetting
  <1>17. ASSUME NEW i \in 1 .. Len(background), NEW sig \in {"INT", "KILL"},
               KillOne(i, sig)
        PROVE ControlInv'
    BY <1>17 DEF KillOne, Line, Outcome, Proceed, Fatalf, FatalfSetting
  <1>18. ASSUME Stop PROVE ControlInv'
    BY <1>18 DEF Stop, Line
  <1>19. ASSUME Stdin PROVE ControlInv'
    BY <1>19 DEF Stdin, Line, Outcome, Proceed, Fatalf, FatalfSetting
  <1>20. ASSUME CmpUpdates PROVE ControlInv'
    BY <1>20 DEF CmpUpdates, Line, Proceed
  <1>21. ASSUME NEW useStdin \in BOOLEAN, NEW empty \in BOOLEAN, Ttyin(useStdin, empty)
        PROVE ControlInv'
    BY <1>21 DEF Ttyin, Line, Outcome, Proceed, Fatalf, FatalfSetting
  <1>22. ASSUME NEW ok \in BOOLEAN, Custom(ok) PROVE ControlInv'
    BY <1>22 DEF Custom, Line, Outcome, Proceed, Fatalf, FatalfSetting
  <1>23. ASSUME NEW ok \in BOOLEAN, Other(ok) PROVE ControlInv'
    BY <1>23 DEF Other, Line, Outcome, Proceed, Fatalf, FatalfSetting
  <1>24. ASSUME NEW ok \in BOOLEAN, Setup(ok) PROVE ControlInv'
    BY <1>24 DEF Setup
  <1>25. ASSUME PhaseComment PROVE ControlInv'
    BY <1>25 DEF PhaseComment, Rewound
  <1>26. ASSUME EndOfScript PROVE ControlInv'
    BY <1>26 DEF EndOfScript
  <1>27. ASSUME End PROVE ControlInv'
    BY <1>27 DEF End, EndInterrupting, WaitAll
  <1>28. ASSUME EndReturns PROVE ControlInv'
    BY <1>28 DEF EndReturns, WaitedAll, EndVerdict, Rewound
  <1>29. ASSUME ApplyScriptUpdates PROVE ControlInv'
    BY <1>29 DEF ApplyScriptUpdates
  <1>30. ASSUME Cleanup PROVE ControlInv'
    BY <1>30 DEF Cleanup, WaitAll
  <1>31. ASSUME CleanupReturns PROVE ControlInv'
    BY <1>31 DEF CleanupReturns, WaitedAll
  <1>32. ASSUME Flush PROVE ControlInv'
    BY <1>32 DEF Flush
  <1>33. ASSUME NEW p \in Procs, Exit(p) PROVE ControlInv'
    BY <1>33 DEF Exit
  <1>34. ASSUME NEW p \in Procs, Reap(p) PROVE ControlInv'
    BY <1>34 DEF Reap
  <1>35. ASSUME NEW p \in Procs, DeadlineSignal(p) PROVE ControlInv'
    BY <1>35 DEF DeadlineSignal
  <1>36. ASSUME Deadline PROVE ControlInv'
    BY <1>36 DEF Deadline
  <1>37. CASE UNCHANGED vars
    BY <1>37 DEF vars
  <1> QED
    <2>1. CASE Exec
      BY <2>1, <1>1, <1>2, <1>3 DEF Exec
    <2>2. CASE ExecBackground
      BY <2>2, <1>4, <1>5, <1>6 DEF ExecBackground
    <2>3. CASE Waits
      BY <2>3, <1>7, <1>8, <1>9, <1>10, <1>11, <1>12, <1>13, <1>14 DEF Waits
    <2>4. CASE Kills
      BY <2>4, <1>15, <1>16, <1>17 DEF Kills
    <2>5. CASE OtherCommands
      BY <2>5, <1>18, <1>19, <1>20, <1>21, <1>22, <1>23 DEF OtherCommands
    <2>6. CASE Run
      BY <2>6, <1>24, <1>25, <1>26, <1>27, <1>28, <1>29, <1>30, <1>31, <1>32 DEF Run
    <2>7. CASE Children
      BY <2>7, <1>33, <1>34, <1>35 DEF Children
    <2> QED
      BY <1>36, <1>37, <2>1, <2>2, <2>3, <2>4, <2>5, <2>6, <2>7
      DEF Next, ScriptGoroutine, Finished

\* The script starts well typed.
LEMMA TypeInitial == Init => TypeInv
  <1> SUFFICES ASSUME Init PROVE TypeInv
    OBVIOUS
  <1> USE ScriptAssumption DEF Init
  <1>1. ControlTypes
    <2>1. NoCommand \in BlockedStates /\ 0 \in 0 .. MaxLines
      BY DEF NoCommand, Blocked, BlockedStates
    <2> QED
      BY <2>1 DEF ControlTypes
  <1>2. ChildTypes
    <2>1. background \in Seq(Background)
      OBVIOUS
    <2>2. signals \in [Procs -> SUBSET Signals]
      OBVIOUS
    <2> QED
      BY <2>1, <2>2 DEF ChildTypes
  <1>3. IOTypes
    BY DEF IOTypes
  <1>4. LogTypes
    <2>1. params.verbose \in BOOLEAN
      BY ParamsType
    <2>2. phase \in 0 .. MaxLines
      OBVIOUS
    <2>3. kept \subseteq 0 .. MaxLines /\ failedIn \subseteq 0 .. MaxLines
      OBVIOUS
    <2> QED
      BY <2>1, <2>2, <2>3 DEF LogTypes
  <1>5. ControlInv
    BY DEF ControlInv
  <1> QED
    BY <1>1, <1>2, <1>3, <1>4, <1>5 DEF TypeInv, TypeOK

\* In every state the variables have their types, and the script's goroutine is
\* blocked in something that exists.
THEOREM TypeInvariance == Spec => []TypeInv
  <1>1. TypeInv /\ [Next]_vars => TypeInv'
    BY ControlTypesStep, ChildTypesStep, IOTypesStep, LogTypesStep, ControlInvStep
    DEF TypeInv, TypeOK
  <1> QED
    BY TypeInitial, <1>1, PTL DEF Spec

\* TypeOK holds throughout, for every bound, set of names and set of runs.
THEOREM TypeCorrect == Spec => []TypeOK
  <1>1. TypeInv => TypeOK
    BY DEF TypeInv
  <1> QED
    BY TypeInvariance, <1>1, PTL

-----------------------------------------------------------------------------
(* No process is lost track of.  WaitedAll empties ts.background, so the   *)
(* invariant says that waitBackground waited for all of it; and that every *)
(* process in it was started, so that a new one is not among them.         *)

Started == \A i \in 1 .. Len(background) : state[background[i].proc] # "unused"

WaitedFor ==
  pc = "wait" => \A i \in 1 .. Len(background) :
                   i < current.index => state[background[i].proc] = "reaped"

Emptied == pc \in {"flush", "finished"} => background = <<>>

TrackInv == TypeInv /\ NoOrphans /\ UniqueNames /\ Started /\ WaitedFor /\ Emptied

\* What most steps leave alone.
Quiet ==
  /\ UNCHANGED <<state, background>>
  /\ pc = "exec" => UNCHANGED <<pc, current>>
  /\ pc' = "wait" => current'.index = 1 \/ UNCHANGED <<pc, current>>
  /\ pc' \in {"flush", "finished"} => pc \in {"flush", "finished"}

\* The end of waitBackground, whoever called it.
WaitEnds == \E then \in {"wait", "skip", "end", "cleanup"} :
                WaitedAll(then) /\ pc' \notin {"wait", "exec"}

\* The steps that are not quiet.
Notable ==
  \/ \E p \in Procs, neg \in BOOLEAN : ExecStarts(p, neg)
  \/ ExecReturns
  \/ \E p \in Procs, n \in Names \cup {Unnamed}, neg \in BOOLEAN : BackgroundStarts(p, n, neg)
  \/ WaitNext \/ WaitEnds \/ WaitOneReturns
  \/ \E p \in Procs : Exit(p) \/ Reap(p)

\* Every step is one or the other.
LEMMA QuietOrNotable == TypeInv /\ [Next]_vars => Quiet \/ Notable
  <1> SUFFICES ASSUME TypeInv, [Next]_vars PROVE Quiet \/ Notable
    OBVIOUS
  <1> USE DEF controlVars, childVars, NoCommand, Blocked
  <1>1. ASSUME NEW neg \in BOOLEAN, ExecFails(neg) PROVE Quiet
    BY <1>1 DEF ExecFails, Line, Outcome, Proceed, Fatalf, FatalfSetting, Quiet
  <1>2. ASSUME NEW p \in Procs, NEW neg \in BOOLEAN, ExecStarts(p, neg) PROVE Notable
    BY <1>2 DEF Notable
  <1>3. ASSUME ExecReturns PROVE Notable
    BY <1>3 DEF Notable
  <1>4. ASSUME NEW n \in Names \cup {Unnamed}, BackgroundRefused(n) PROVE Quiet
    BY <1>4 DEF BackgroundRefused, Line, Fatalf, FatalfSetting, Quiet
  <1>5. ASSUME NEW n \in Names \cup {Unnamed}, NEW neg \in BOOLEAN,
               BackgroundFails(n, neg)
        PROVE Quiet
    BY <1>5 DEF BackgroundFails, Line, Outcome, Proceed, Fatalf, FatalfSetting, Quiet
  <1>6. ASSUME NEW p \in Procs, NEW n \in Names \cup {Unnamed}, NEW neg \in BOOLEAN,
               BackgroundStarts(p, n, neg)
        PROVE Notable
    BY <1>6 DEF Notable
  <1>7. ASSUME Wait PROVE Quiet
    BY <1>7 DEF Wait, WaitAll, Line, Quiet
  <1>8. ASSUME Skip PROVE Quiet
    BY <1>8 DEF Skip, WaitAll, Line, Quiet
  <1>9. ASSUME WaitNext PROVE Notable
    BY <1>9 DEF Notable
  <1>10. ASSUME WaitReturns PROVE Notable
    BY <1>10 DEF WaitReturns, WaitedAll, Proceed, Notable, WaitEnds
  <1>11. ASSUME SkipReturns PROVE Notable
    BY <1>11 DEF SkipReturns, WaitedAll, Proceed, Notable, WaitEnds
  <1>12. ASSUME WaitUnknown PROVE Quiet
    BY <1>12 DEF WaitUnknown, Line, Fatalf, FatalfSetting, Quiet
  <1>13. ASSUME NEW i \in 1 .. Len(background), WaitOne(i) PROVE Quiet
    BY <1>13 DEF WaitOne, Line, Quiet
  <1>14. ASSUME WaitOneReturns PROVE Notable
    BY <1>14 DEF Notable
  <1>15. ASSUME NEW sig \in {"INT", "KILL"}, KillAll(sig) PROVE Quiet
    BY <1>15 DEF KillAll, Line, Outcome, Proceed, Fatalf, FatalfSetting, Quiet
  <1>16. ASSUME KillUnknown PROVE Quiet
    BY <1>16 DEF KillUnknown, Line, Fatalf, FatalfSetting, Quiet
  <1>17. ASSUME NEW i \in 1 .. Len(background), NEW sig \in {"INT", "KILL"},
               KillOne(i, sig)
        PROVE Quiet
    BY <1>17 DEF KillOne, Line, Outcome, Proceed, Fatalf, FatalfSetting, Quiet
  <1>18. ASSUME Stop PROVE Quiet
    BY <1>18 DEF Stop, Line, Quiet
  <1>19. ASSUME Stdin PROVE Quiet
    BY <1>19 DEF Stdin, Line, Outcome, Proceed, Fatalf, FatalfSetting, Quiet
  <1>20. ASSUME CmpUpdates PROVE Quiet
    BY <1>20 DEF CmpUpdates, Line, Proceed, Quiet
  <1>21. ASSUME NEW useStdin \in BOOLEAN, NEW empty \in BOOLEAN, Ttyin(useStdin, empty)
        PROVE Quiet
    BY <1>21 DEF Ttyin, Line, Outcome, Proceed, Fatalf, FatalfSetting, Quiet
  <1>22. ASSUME NEW ok \in BOOLEAN, Custom(ok) PROVE Quiet
    BY <1>22 DEF Custom, Line, Outcome, Proceed, Fatalf, FatalfSetting, Quiet
  <1>23. ASSUME NEW ok \in BOOLEAN, Other(ok) PROVE Quiet
    BY <1>23 DEF Other, Line, Outcome, Proceed, Fatalf, FatalfSetting, Quiet
  <1>24. ASSUME NEW ok \in BOOLEAN, Setup(ok) PROVE Quiet
    BY <1>24 DEF Setup, Quiet
  <1>25. ASSUME PhaseComment PROVE Quiet
    BY <1>25 DEF PhaseComment, Quiet
  <1>26. ASSUME EndOfScript PROVE Quiet
    BY <1>26 DEF EndOfScript, Quiet
  <1>27. ASSUME End PROVE Quiet
    BY <1>27 DEF End, EndInterrupting, WaitAll, Quiet
  <1>28. ASSUME EndReturns PROVE Notable
    BY <1>28 DEF EndReturns, WaitedAll, Proceed, Notable, WaitEnds
  <1>29. ASSUME ApplyScriptUpdates PROVE Quiet
    BY <1>29 DEF ApplyScriptUpdates, Quiet
  <1>30. ASSUME Cleanup PROVE Quiet
    BY <1>30 DEF Cleanup, WaitAll, Quiet
  <1>31. ASSUME CleanupReturns PROVE Notable
    BY <1>31 DEF CleanupReturns, WaitedAll, Proceed, Notable, WaitEnds
  <1>32. ASSUME Flush PROVE Quiet
    BY <1>32 DEF Flush, Quiet
  <1>33. ASSUME NEW p \in Procs, Exit(p) PROVE Notable
    BY <1>33 DEF Notable
  <1>34. ASSUME NEW p \in Procs, Reap(p) PROVE Notable
    BY <1>34 DEF Notable
  <1>35. ASSUME NEW p \in Procs, DeadlineSignal(p) PROVE Quiet
    BY <1>35 DEF DeadlineSignal, Quiet
  <1>36. ASSUME Deadline PROVE Quiet
    BY <1>36 DEF Deadline, Quiet
  <1>37. CASE UNCHANGED vars
    BY <1>37 DEF vars, Quiet
  <1> QED
    <2>1. CASE Exec
      BY <2>1, <1>1, <1>2, <1>3 DEF Exec
    <2>2. CASE ExecBackground
      BY <2>2, <1>4, <1>5, <1>6 DEF ExecBackground
    <2>3. CASE Waits
      BY <2>3, <1>7, <1>8, <1>9, <1>10, <1>11, <1>12, <1>13, <1>14 DEF Waits
    <2>4. CASE Kills
      BY <2>4, <1>15, <1>16, <1>17 DEF Kills
    <2>5. CASE OtherCommands
      BY <2>5, <1>18, <1>19, <1>20, <1>21, <1>22, <1>23 DEF OtherCommands
    <2>6. CASE Run
      BY <2>6, <1>24, <1>25, <1>26, <1>27, <1>28, <1>29, <1>30, <1>31, <1>32 DEF Run
    <2>7. CASE Children
      BY <2>7, <1>33, <1>34, <1>35 DEF Children
    <2> QED
      BY <1>36, <1>37, <2>1, <2>2, <2>3, <2>4, <2>5, <2>6, <2>7
      DEF Next, ScriptGoroutine, Finished

\* waitBackground, when it has waited for every process of ts.background.
LEMMA AllReaped ==
  ASSUME TrackInv, WaitEnds
  PROVE  /\ \A p \in Procs : ~Uncollected(p)
         /\ background' = <<>> /\ UNCHANGED state
         /\ pc' # "wait" /\ pc' # "exec"
  <1>1. pc = "wait" /\ current.index > Len(background)
    BY DEF WaitEnds, WaitedAll
  <1>2. \A i \in 1 .. Len(background) : state[background[i].proc] = "reaped"
    BY <1>1 DEF TrackInv, WaitedFor, TypeInv, TypeOK, ControlTypes, BlockedStates, ChildTypes
  <1>3. \A p \in Procs : ~Uncollected(p)
    BY <1>1, <1>2 DEF TrackInv, NoOrphans, BackgroundProcs, Foreground, Uncollected
  <1>4. background' = <<>> /\ UNCHANGED state
    BY DEF WaitEnds, WaitedAll, childVars
  <1> QED
    BY <1>3, <1>4 DEF WaitEnds

\* Nothing that was tracked gets lost.
LEMMA TrackStep == TrackInv /\ TypeInv' /\ [Next]_vars => TrackInv'
  <1> SUFFICES ASSUME TrackInv, TypeInv', Quiet \/ Notable PROVE TrackInv'
    BY QuietOrNotable DEF TrackInv
  <1> USE DEF TrackInv, Uncollected, Foreground, BackgroundProcs
  <1>a. ChildTypes /\ ChildTypes' /\ Len(background) \in Nat
    BY DEF TypeInv, TypeOK, ChildTypes
  <1>1. CASE Quiet
    <2>1. NoOrphans'
      BY <1>1 DEF Quiet, NoOrphans, Emptied
    <2>2. UniqueNames' /\ Started'
      BY <1>1 DEF Quiet, UniqueNames, Started
    <2>3. WaitedFor'
      BY <1>1, <1>a DEF Quiet, WaitedFor
    <2>4. Emptied'
      BY <1>1 DEF Quiet, Emptied
    <2> QED
      BY <2>1, <2>2, <2>3, <2>4
  <1>2. ASSUME NEW p \in Procs, NEW neg \in BOOLEAN, ExecStarts(p, neg)
        PROVE  TrackInv'
    <2>1. /\ pc = "loop" /\ pc' = "exec" /\ current'.proc = p
          /\ background' = background /\ state' = [state EXCEPT ![p] = "alive"]
      BY <1>2 DEF ExecStarts, Line, Start, Blocked
    <2>2. NoOrphans'
      BY <2>1, <1>a DEF NoOrphans, ChildTypes
    <2>3. UniqueNames' /\ Started'
      BY <2>1, <1>a, BackgroundType DEF UniqueNames, Started, ChildTypes
    <2> QED
      BY <2>1, <2>2, <2>3 DEF WaitedFor, Emptied
  <1>3. CASE ExecReturns
    <2>1. /\ pc = "exec" /\ state[current.proc] = "reaped" /\ pc' \in {"loop", "updates"}
          /\ background' = background /\ state' = state
      BY <1>3 DEF ExecReturns, childVars, Outcome, Proceed, Fatalf, FatalfSetting
    <2>2. NoOrphans'
      BY <2>1 DEF NoOrphans
    <2>3. UniqueNames' /\ Started'
      BY <2>1 DEF UniqueNames, Started
    <2> QED
      BY <2>1, <2>2, <2>3 DEF WaitedFor, Emptied
  <1>4. ASSUME NEW p \in Procs, NEW n \in Names \cup {Unnamed}, NEW neg \in BOOLEAN,
               BackgroundStarts(p, n, neg)
        PROVE  TrackInv'
    <2> DEFINE b == [name |-> n, proc |-> p, neg |-> neg]
    <2>1. /\ pc = "loop" /\ pc' = "loop" /\ background' = Append(background, b)
          /\ state[p] = "unused" /\ state' = [state EXCEPT ![p] = "alive"]
          /\ ~NameUsed(n)
      BY <1>4 DEF BackgroundStarts, Line, Start, Proceed, Fresh
    <2> HIDE DEF b
    <2>2. /\ Len(background') = Len(background) + 1
          /\ \A i \in 1 .. Len(background) : background'[i] = background[i]
          /\ background'[Len(background) + 1] = b
      BY <2>1, <1>a DEF ChildTypes
    <2>3. b.proc = p /\ b.name = n
      BY DEF b
    <2>4. state'[p] = "alive" /\ \A q \in Procs : q # p => state'[q] = state[q]
      BY <2>1, <1>a DEF ChildTypes
    <2>5. \A i \in 1 .. Len(background) : background[i].proc # p
      BY <2>1 DEF Started
    <2>6. NoOrphans'
      <3>1. ASSUME NEW q \in Procs, Uncollected(q)'
            PROVE  \E i \in 1 .. Len(background') : background'[i].proc = q
        <4>1. CASE q = p
          BY <4>1, <1>a, <2>2, <2>3
        <4>2. CASE q # p
          <5>1. PICK i \in 1 .. Len(background) : background[i].proc = q
            BY <4>2, <3>1, <2>1, <2>4 DEF NoOrphans
          <5> QED
            BY <5>1, <1>a, <2>2
        <4> QED
          BY <4>1, <4>2
      <3> QED
        BY <3>1, <2>1 DEF NoOrphans
    <2>7. UniqueNames'
      <3> SUFFICES ASSUME NEW i \in 1 .. Len(background'), NEW j \in 1 .. Len(background'),
                          i # j
                   PROVE  /\ background'[i].proc # background'[j].proc
                          /\ background'[i].name = background'[j].name
                               => background'[i].name = Unnamed
        BY DEF UniqueNames
      <3>1. CASE i \in 1 .. Len(background) /\ j \in 1 .. Len(background)
        BY <3>1, <2>2 DEF UniqueNames
      <3>2. CASE i = Len(background) + 1
        <4>1. j \in 1 .. Len(background)
          BY <3>2, <2>2, <1>a
        <4> QED
          BY <3>2, <4>1, <2>1, <2>2, <2>3, <2>5 DEF NameUsed
      <3>3. CASE j = Len(background) + 1
        <4>1. i \in 1 .. Len(background)
          BY <3>3, <2>2, <1>a
        <4> QED
          BY <3>3, <4>1, <2>1, <2>2, <2>3, <2>5 DEF NameUsed
      <3> QED
        BY <3>1, <3>2, <3>3, <2>2, <1>a
    <2>8. Started'
      <3> SUFFICES ASSUME NEW i \in 1 .. Len(background')
                   PROVE  state'[background'[i].proc] # "unused"
        BY DEF Started
      <3>1. CASE i \in 1 .. Len(background)
        BY <3>1, <2>2, <2>4, <2>5, <1>a, BackgroundType DEF Started
      <3>2. CASE i = Len(background) + 1
        BY <3>2, <2>2, <2>3, <2>4
      <3> QED
        BY <3>1, <3>2, <2>2, <1>a
    <2> QED
      BY <2>1, <2>6, <2>7, <2>8 DEF WaitedFor, Emptied
  <1>5. CASE WaitNext
    <2>1. /\ pc = "wait" /\ background' = background /\ state' = state
          /\ current.index \in 1 .. Len(background)
          /\ state[background[current.index].proc] = "reaped"
          /\ \/ pc' = "wait" /\ current'.index = current.index + 1
             \/ pc' \in {"loop", "updates"}
      <3>1. current.index \in Nat /\ current.index >= 1
        BY <1>5 DEF WaitNext, TypeInv, TypeOK, ControlTypes, BlockedStates, ControlInv
      <3>2. current' = [current EXCEPT !.index = @ + 1] => current'.index = current.index + 1
        BY DEF TypeInv, TypeOK, ControlTypes, BlockedStates
      <3> QED
        BY <1>5, <1>a, <3>1, <3>2
        DEF WaitNext, Done, childVars, controlVars, Fatalf, FatalfSetting
    <2>2. NoOrphans'
      BY <2>1 DEF NoOrphans
    <2>3. UniqueNames' /\ Started'
      BY <2>1 DEF UniqueNames, Started
    <2>4. WaitedFor'
      BY <2>1, <1>a DEF WaitedFor
    <2> QED
      BY <2>1, <2>2, <2>3, <2>4 DEF Emptied
  <1>6. CASE WaitEnds
    <2>1. NoOrphans'
      BY <1>6, AllReaped DEF NoOrphans
    <2> QED
      BY <1>6, <2>1, AllReaped DEF UniqueNames, Started, WaitedFor, Emptied
  <1>7. CASE WaitOneReturns
    <2>1. /\ pc = "waitOne" /\ pc' \in {"loop", "updates"} /\ state' = state
          /\ current.index \in 1 .. Len(background)
          /\ state[background[current.index].proc] = "reaped"
          /\ background' \in {background, RemoveAt(background, current.index)}
      BY <1>7
      DEF WaitOneReturns, Done, childVars, Fatalf, FatalfSetting, Proceed, TypeInv, ControlInv
    <2>2. CASE background' = background
      <3>1. NoOrphans'
        BY <2>1, <2>2 DEF NoOrphans
      <3>2. UniqueNames' /\ Started'
        BY <2>1, <2>2 DEF UniqueNames, Started
      <3> QED
        BY <2>1, <3>1, <3>2 DEF WaitedFor, Emptied
    <2>3. CASE background' = RemoveAt(background, current.index)
      <3> DEFINE k == current.index
      <3>1. /\ Len(background') = Len(background) - 1
            /\ \A j \in 1 .. Len(background) - 1 :
                 background'[j] = IF j < k THEN background[j] ELSE background[j + 1]
        BY <2>1, <2>3, <1>a, RemoveAtElements DEF ChildTypes
      <3>2. k \in 1 .. Len(background) /\ state[background[k].proc] = "reaped"
        BY <2>1
      <3> HIDE DEF k
      <3>3. ASSUME NEW i \in 1 .. Len(background), i # k
            PROVE  \E j \in 1 .. Len(background') : background'[j] = background[i]
        <4>1. CASE i < k
          BY <4>1, <3>1, <3>2, <1>a
        <4>2. CASE i > k
          <5>1. i - 1 \in 1 .. Len(background') /\ ~(i - 1 < k) /\ (i - 1) + 1 = i
            BY <4>2, <3>1, <3>2, <1>a
          <5> QED
            BY <5>1, <3>1
        <4> QED
          BY <3>2, <3>3, <4>1, <4>2
      <3>4. NoOrphans'
        <4>1. ASSUME NEW p \in Procs, Uncollected(p)
              PROVE  \E j \in 1 .. Len(background') : background'[j].proc = p
          <5>1. PICK i \in 1 .. Len(background) : background[i].proc = p
            BY <4>1, <2>1 DEF NoOrphans
          <5>2. i # k
            BY <4>1, <5>1, <3>2
          <5> QED
            BY <5>1, <5>2, <3>3
        <4> QED
          BY <4>1, <2>1 DEF NoOrphans
      <3>5. ASSUME NEW j \in 1 .. Len(background')
            PROVE  \E i \in 1 .. Len(background) :
                     background'[j] = background[i] /\ i = IF j < k THEN j ELSE j + 1
        BY <3>1, <3>2, <1>a
      <3>6. UniqueNames'
        <4> SUFFICES ASSUME NEW i \in 1 .. Len(background'), NEW j \in 1 .. Len(background')
                     PROVE  /\ background'[i].proc = background'[j].proc => i = j
                            /\ background'[i].name = background'[j].name
                                 /\ background'[i].name # Unnamed => i = j
          BY DEF UniqueNames
        <4>1. PICK a \in 1 .. Len(background) :
                background'[i] = background[a] /\ a = IF i < k THEN i ELSE i + 1
          BY <3>5
        <4>2. PICK b \in 1 .. Len(background) :
                background'[j] = background[b] /\ b = IF j < k THEN j ELSE j + 1
          BY <3>5
        <4>3. a = b => i = j
          BY <4>1, <4>2, <3>1, <3>2, <1>a
        <4> QED
          BY <4>1, <4>2, <4>3 DEF UniqueNames
      <3>7. Started'
        BY <3>5, <2>1 DEF Started
      <3> QED
        BY <2>1, <3>4, <3>6, <3>7 DEF WaitedFor, Emptied
    <2> QED
      BY <2>1, <2>2, <2>3
  <1>8. ASSUME NEW p \in Procs, Exit(p) \/ Reap(p)
        PROVE  TrackInv'
    <2>1. /\ UNCHANGED <<pc, current, background>>
          /\ state[p] \in {"alive", "zombie"} /\ state'[p] \in {"zombie", "reaped"}
          /\ \A q \in Procs : q # p => state'[q] = state[q]
      BY <1>8, <1>a DEF Exit, Reap, controlVars, ChildTypes
    <2>2. NoOrphans'
      BY <2>1 DEF NoOrphans
    <2>3. UniqueNames'
      BY <2>1 DEF UniqueNames
    <2>4. \A i \in 1 .. Len(background) :
            /\ state'[background[i].proc] # "unused"
            /\ state[background[i].proc] = "reaped" => state'[background[i].proc] = "reaped"
      BY <2>1, <1>a, BackgroundType DEF Started
    <2> QED
      BY <2>1, <2>2, <2>3, <2>4 DEF Started, WaitedFor, Emptied
  <1> QED
    BY <1>1, <1>2, <1>3, <1>4, <1>5, <1>6, <1>7, <1>8 DEF Notable

\* The invariant that keeps track of processes.
LEMMA TrackInvariance == Spec => []TrackInv
  <1>1. Init => TrackInv
    BY TypeInitial DEF Init, TrackInv, NoOrphans, UniqueNames, Started, WaitedFor, Emptied,
                       Uncollected
  <1>2. TrackInv => TypeInv
    BY DEF TrackInv
  <1> QED
    BY TypeInvariance, TrackStep, <1>1, <1>2, PTL DEF Spec

\* Every process that was not collected is in ts.background or in the foreground,
\* whatever commands a script runs and however it ends; none is left at the end.
THEOREM NoOrphansHolds == Spec => []NoOrphans
  <1>1. TrackInv => NoOrphans
    BY DEF TrackInv
  <1> QED
    BY TrackInvariance, <1>1, PTL

\* A name in ts.background means one command, and a process is in it once.
THEOREM UniqueNamesHold == Spec => []UniqueNames
  <1>1. TrackInv => UniqueNames
    BY DEF TrackInv
  <1> QED
    BY TrackInvariance, <1>1, PTL

-----------------------------------------------------------------------------
(* The log and the verdict.  A failed phase's details are safe in one of   *)
(* three ways: kept if the phase is over, else dirty with loud set or with *)
(* no rewind to come, since the run is unwinding.                          *)

Unwinding == \/ pc \in {"updates", "cleanup", "flush", "finished"}
             \/ pc = "wait" /\ current.then = "cleanup"

LogInv ==
  /\ failedIn \subseteq 0 .. phase
  /\ failedIn \ {phase} \subseteq kept
  /\ phase \in failedIn => dirty /\ lastBlockFailed /\ (loud \/ Unwinding)
  /\ pc \in {"exec", "waitOne"} => dirty
  /\ pc = "wait" /\ current.then # "wait" /\ current.then # "skip" => ~current.check
  /\ FailedPhasesShown

VerdictInv ==
  /\ pc = "wait" => current.then # "none"
  /\ verdict = "none" <=> ~Unwinding
  /\ failedIn # {} /\ ~params.continueOnError => Unwinding /\ verdict = "fail"
  /\ failedIn # {} => verdict # "pass"

\* A line that ends, well or not, leaves the log as it should be.
LEMMA LineEnds ==
  ASSUME TypeInv, LogInv, ~Unwinding, Fatalf \/ Proceed, UNCHANGED <<params, phase, kept>>,
         dirty' = TRUE
  PROVE  LogInv'
  <1> USE DEF Unwinding, FailedPhasesShown
  <1>1. phase \in Nat /\ failedIn \subseteq 0 .. phase
    BY DEF TypeInv, TypeOK, LogTypes, LogInv
  <1>2. CASE Proceed
    BY <1>2 DEF Proceed, failVars, LogInv
  <1>3. CASE Fatalf
    <2>1. failedIn' = failedIn \cup {phase} /\ lastBlockFailed' = TRUE
      BY <1>3 DEF Fatalf, FatalfSetting
    <2>2. (pc' = "loop" /\ loud' = TRUE) \/ pc' = "updates"
      BY <1>3 DEF Fatalf, FatalfSetting
    <2>3. failedIn' \subseteq 0 .. phase
      BY <1>1, <2>1
    <2>4. failedIn' \ {phase} \subseteq kept
      BY <2>1 DEF LogInv
    <2> QED
      BY <2>1, <2>2, <2>3, <2>4 DEF LogInv
  <1> QED
    BY <1>2, <1>3

\* The details of failed phases stay safe.
LEMMA LogInvStep == TypeInv /\ LogInv /\ [Next]_vars => LogInv'
  <1> SUFFICES ASSUME TypeInv /\ LogInv, [Next]_vars PROVE LogInv'
    OBVIOUS
  <1> USE ParamsType
      DEF TypeInv, TypeOK, ControlTypes, LogTypes, ControlInv, LogInv, FailedPhasesShown,
          Unwinding, controlVars, failVars, logVars, NoCommand, Blocked, BlockedStates
  <1>1. ASSUME NEW neg \in BOOLEAN, ExecFails(neg) PROVE LogInv'
    BY <1>1, LineEnds DEF ExecFails, Line, Outcome
  <1>2. ASSUME NEW p \in Procs, NEW neg \in BOOLEAN, ExecStarts(p, neg) PROVE LogInv'
    BY <1>2 DEF ExecStarts, Line
  <1>3. ASSUME ExecReturns PROVE LogInv'
    BY <1>3, LineEnds DEF ExecReturns, Outcome
  <1>4. ASSUME NEW n \in Names \cup {Unnamed}, BackgroundRefused(n) PROVE LogInv'
    BY <1>4 DEF BackgroundRefused, Line, Fatalf, FatalfSetting
  <1>5. ASSUME NEW n \in Names \cup {Unnamed}, NEW neg \in BOOLEAN,
               BackgroundFails(n, neg)
        PROVE LogInv'
    BY <1>5, LineEnds DEF BackgroundFails, Line, Outcome
  <1>6. ASSUME NEW p \in Procs, NEW n \in Names \cup {Unnamed}, NEW neg \in BOOLEAN,
               BackgroundStarts(p, n, neg)
        PROVE LogInv'
    BY <1>6 DEF BackgroundStarts, Line, Proceed, Background
  <1>7. ASSUME Wait PROVE LogInv'
    BY <1>7 DEF Wait, WaitAll, Line
  <1>8. ASSUME Skip PROVE LogInv'
    BY <1>8 DEF Skip, WaitAll, Line
  <1>9. ASSUME WaitNext PROVE LogInv'
    <2>1. CASE Fatalf
      <3>1. current.check /\ current.then \in {"wait", "skip"}
        BY <1>9, <2>1 DEF WaitNext, Fatalf, FatalfSetting
      <3>2. ~Silent /\ dirty' = TRUE
        BY <1>9, <3>1 DEF WaitNext, Silent
      <3> QED
        BY <1>9, <2>1, <3>1, <3>2, LineEnds DEF WaitNext
    <2>2. CASE UNCHANGED <<pc, verdict, failVars>> /\ current' = [current EXCEPT !.index = @ + 1]
      <3>1. current'.then = current.then /\ current'.check = current.check
        BY <2>2
      <3>2. dirty => dirty'
        BY <1>9 DEF WaitNext
      <3>3. UNCHANGED <<params, phase, kept>> /\ pc = "wait"
        BY <1>9 DEF WaitNext
      <3> QED
        BY <2>2, <3>1, <3>2, <3>3
    <2> QED BY <1>9, <2>1, <2>2 DEF WaitNext
  <1>10. ASSUME WaitReturns PROVE LogInv'
    BY <1>10 DEF WaitReturns, WaitedAll, Proceed
  <1>11. ASSUME SkipReturns PROVE LogInv'
    BY <1>11 DEF SkipReturns, WaitedAll
  <1>12. ASSUME WaitUnknown PROVE LogInv'
    BY <1>12 DEF WaitUnknown, Line, Fatalf, FatalfSetting
  <1>13. ASSUME NEW i \in 1 .. Len(background), WaitOne(i) PROVE LogInv'
    BY <1>13 DEF WaitOne, Line
  <1>14. ASSUME WaitOneReturns PROVE LogInv'
    BY <1>14, LineEnds DEF WaitOneReturns
  <1>15. ASSUME NEW sig \in {"INT", "KILL"}, KillAll(sig) PROVE LogInv'
    BY <1>15, LineEnds DEF KillAll, Line, Outcome
  <1>16. ASSUME KillUnknown PROVE LogInv'
    BY <1>16 DEF KillUnknown, Line, Fatalf, FatalfSetting
  <1>17. ASSUME NEW i \in 1 .. Len(background), NEW sig \in {"INT", "KILL"},
               KillOne(i, sig)
        PROVE LogInv'
    BY <1>17, LineEnds DEF KillOne, Line, Outcome
  <1>18. ASSUME Stop PROVE LogInv'
    BY <1>18 DEF Stop, Line
  <1>19. ASSUME Stdin PROVE LogInv'
    BY <1>19, LineEnds DEF Stdin, Line, Outcome
  <1>20. ASSUME CmpUpdates PROVE LogInv'
    BY <1>20 DEF CmpUpdates, Line, Proceed
  <1>21. ASSUME NEW useStdin \in BOOLEAN, NEW empty \in BOOLEAN, Ttyin(useStdin, empty)
        PROVE LogInv'
    BY <1>21 DEF Ttyin, Line, Outcome, Proceed, Fatalf, FatalfSetting
  <1>22. ASSUME NEW ok \in BOOLEAN, Custom(ok) PROVE LogInv'
    BY <1>22, LineEnds DEF Custom, Line, Outcome
  <1>23. ASSUME NEW ok \in BOOLEAN, Other(ok) PROVE LogInv'
    BY <1>23, LineEnds DEF Other, Line, Outcome
  <1>24. ASSUME NEW ok \in BOOLEAN, Setup(ok) PROVE LogInv'
    BY <1>24 DEF Setup
  <1>25. ASSUME PhaseComment PROVE LogInv'
    BY <1>25 DEF PhaseComment, Rewound
  <1>26. ASSUME EndOfScript PROVE LogInv'
    BY <1>26 DEF EndOfScript
  <1>27. ASSUME End PROVE LogInv'
    BY <1>27 DEF End, EndInterrupting, WaitAll
  <1>28. ASSUME EndReturns PROVE LogInv'
    BY <1>28 DEF EndReturns, WaitedAll, EndVerdict, Rewound
  <1>29. ASSUME ApplyScriptUpdates PROVE LogInv'
    BY <1>29 DEF ApplyScriptUpdates
  <1>30. ASSUME Cleanup PROVE LogInv'
    BY <1>30 DEF Cleanup, WaitAll
  <1>31. ASSUME CleanupReturns PROVE LogInv'
    BY <1>31 DEF CleanupReturns, WaitedAll
  <1>32. ASSUME Flush PROVE LogInv'
    BY <1>32 DEF Flush
  <1>33. ASSUME NEW p \in Procs, Exit(p) PROVE LogInv'
    BY <1>33 DEF Exit
  <1>34. ASSUME NEW p \in Procs, Reap(p) PROVE LogInv'
    BY <1>34 DEF Reap
  <1>35. ASSUME NEW p \in Procs, DeadlineSignal(p) PROVE LogInv'
    BY <1>35 DEF DeadlineSignal
  <1>36. ASSUME Deadline PROVE LogInv'
    BY <1>36 DEF Deadline
  <1>37. CASE UNCHANGED vars
    BY <1>37 DEF vars
  <1> QED
    <2>1. CASE Exec
      BY <2>1, <1>1, <1>2, <1>3 DEF Exec
    <2>2. CASE ExecBackground
      BY <2>2, <1>4, <1>5, <1>6, SMTT(30) DEF ExecBackground
    <2>3. CASE Waits
      BY <2>3, <1>7, <1>8, <1>9, <1>10, <1>11, <1>12, <1>13, <1>14 DEF Waits
    <2>4. CASE Kills
      BY <2>4, <1>15, <1>16, <1>17 DEF Kills
    <2>5. CASE OtherCommands
      BY <2>5, <1>18, <1>19, <1>20, <1>21, <1>22, <1>23 DEF OtherCommands
    <2>6. CASE Run
      BY <2>6, <1>24, <1>25, <1>26, <1>27, <1>28, <1>29, <1>30, <1>31, <1>32 DEF Run
    <2>7. CASE Children
      BY <2>7, <1>33, <1>34, <1>35 DEF Children
    <2> QED
      BY <1>36, <1>37, <2>1, <2>2, <2>3, <2>4, <2>5, <2>6, <2>7
      DEF Next, ScriptGoroutine, Finished

\* The verdict stays faithful.
LEMMA VerdictInvStep == TypeInv /\ LogInv /\ VerdictInv /\ [Next]_vars => VerdictInv'
  <1> SUFFICES ASSUME TypeInv /\ LogInv /\ VerdictInv, [Next]_vars PROVE VerdictInv'
    OBVIOUS
  <1> USE ParamsType
      DEF TypeInv, TypeOK, ControlTypes, LogTypes, ControlInv, VerdictInv,
          Unwinding, controlVars, failVars, logVars, NoCommand, Blocked, BlockedStates
  <1>1. ASSUME NEW neg \in BOOLEAN, ExecFails(neg) PROVE VerdictInv'
    BY <1>1 DEF ExecFails, Line, Outcome, Proceed, Fatalf, FatalfSetting
  <1>2. ASSUME NEW p \in Procs, NEW neg \in BOOLEAN, ExecStarts(p, neg)
        PROVE VerdictInv'
    BY <1>2 DEF ExecStarts, Line
  <1>3. ASSUME ExecReturns PROVE VerdictInv'
    BY <1>3 DEF ExecReturns, Outcome, Proceed, Fatalf, FatalfSetting
  <1>4. ASSUME NEW n \in Names \cup {Unnamed}, BackgroundRefused(n) PROVE VerdictInv'
    BY <1>4 DEF BackgroundRefused, Line, Fatalf, FatalfSetting
  <1>5. ASSUME NEW n \in Names \cup {Unnamed}, NEW neg \in BOOLEAN,
               BackgroundFails(n, neg)
        PROVE VerdictInv'
    BY <1>5 DEF BackgroundFails, Line, Outcome, Proceed, Fatalf, FatalfSetting
  <1>6. ASSUME NEW p \in Procs, NEW n \in Names \cup {Unnamed}, NEW neg \in BOOLEAN,
               BackgroundStarts(p, n, neg)
        PROVE VerdictInv'
    BY <1>6 DEF BackgroundStarts, Line, Proceed, Background
  <1>7. ASSUME Wait PROVE VerdictInv'
    BY <1>7 DEF Wait, WaitAll, Line
  <1>8. ASSUME Skip PROVE VerdictInv'
    BY <1>8 DEF Skip, WaitAll, Line
  <1>9. ASSUME WaitNext PROVE VerdictInv'
    <2>1. CASE Fatalf
      <3>1. current.check /\ current.then \in {"wait", "skip"}
        BY <1>9, <2>1 DEF WaitNext, Fatalf, FatalfSetting, LogInv
      <3> QED
        BY <1>9, <2>1, <3>1 DEF WaitNext, Fatalf, FatalfSetting
    <2>2. CASE UNCHANGED <<pc, verdict, failVars>> /\ current' = [current EXCEPT !.index = @ + 1]
      <3>1. current'.then = current.then
        BY <2>2
      <3>2. UNCHANGED params
        BY <1>9 DEF WaitNext
      <3> QED
        BY <2>2, <3>1, <3>2
    <2> QED BY <1>9, <2>1, <2>2 DEF WaitNext
  <1>10. ASSUME WaitReturns PROVE VerdictInv'
    BY <1>10 DEF WaitReturns, WaitedAll, Proceed
  <1>11. ASSUME SkipReturns PROVE VerdictInv'
    BY <1>11 DEF SkipReturns, WaitedAll
  <1>12. ASSUME WaitUnknown PROVE VerdictInv'
    BY <1>12 DEF WaitUnknown, Line, Fatalf, FatalfSetting
  <1>13. ASSUME NEW i \in 1 .. Len(background), WaitOne(i) PROVE VerdictInv'
    BY <1>13 DEF WaitOne, Line
  <1>14. ASSUME WaitOneReturns PROVE VerdictInv'
    BY <1>14 DEF WaitOneReturns, Fatalf, FatalfSetting, Proceed
  <1>15. ASSUME NEW sig \in {"INT", "KILL"}, KillAll(sig) PROVE VerdictInv'
    BY <1>15 DEF KillAll, Line, Outcome, Proceed, Fatalf, FatalfSetting
  <1>16. ASSUME KillUnknown PROVE VerdictInv'
    BY <1>16 DEF KillUnknown, Line, Fatalf, FatalfSetting
  <1>17. ASSUME NEW i \in 1 .. Len(background), NEW sig \in {"INT", "KILL"},
               KillOne(i, sig)
        PROVE VerdictInv'
    BY <1>17 DEF KillOne, Line, Outcome, Proceed, Fatalf, FatalfSetting
  <1>18. ASSUME Stop PROVE VerdictInv'
    BY <1>18 DEF Stop, Line
  <1>19. ASSUME Stdin PROVE VerdictInv'
    BY <1>19 DEF Stdin, Line, Outcome, Proceed, Fatalf, FatalfSetting
  <1>20. ASSUME CmpUpdates PROVE VerdictInv'
    BY <1>20 DEF CmpUpdates, Line, Proceed
  <1>21. ASSUME NEW useStdin \in BOOLEAN, NEW empty \in BOOLEAN, Ttyin(useStdin, empty)
        PROVE VerdictInv'
    BY <1>21 DEF Ttyin, Line, Outcome, Proceed, Fatalf, FatalfSetting
  <1>22. ASSUME NEW ok \in BOOLEAN, Custom(ok) PROVE VerdictInv'
    BY <1>22 DEF Custom, Line, Outcome, Proceed, Fatalf, FatalfSetting
  <1>23. ASSUME NEW ok \in BOOLEAN, Other(ok) PROVE VerdictInv'
    BY <1>23 DEF Other, Line, Outcome, Proceed, Fatalf, FatalfSetting
  <1>24. ASSUME NEW ok \in BOOLEAN, Setup(ok) PROVE VerdictInv'
    BY <1>24 DEF Setup
  <1>25. ASSUME PhaseComment PROVE VerdictInv'
    BY <1>25 DEF PhaseComment, Rewound
  <1>26. ASSUME EndOfScript PROVE VerdictInv'
    BY <1>26 DEF EndOfScript
  <1>27. ASSUME End PROVE VerdictInv'
    BY <1>27 DEF End, EndInterrupting, WaitAll
  <1>28. ASSUME EndReturns PROVE VerdictInv'
    BY <1>28 DEF EndReturns, WaitedAll, EndVerdict, Rewound
  <1>29. ASSUME ApplyScriptUpdates PROVE VerdictInv'
    BY <1>29 DEF ApplyScriptUpdates
  <1>30. ASSUME Cleanup PROVE VerdictInv'
    BY <1>30 DEF Cleanup, WaitAll
  <1>31. ASSUME CleanupReturns PROVE VerdictInv'
    BY <1>31 DEF CleanupReturns, WaitedAll
  <1>32. ASSUME Flush PROVE VerdictInv'
    BY <1>32 DEF Flush
  <1>33. ASSUME NEW p \in Procs, Exit(p) PROVE VerdictInv'
    BY <1>33 DEF Exit
  <1>34. ASSUME NEW p \in Procs, Reap(p) PROVE VerdictInv'
    BY <1>34 DEF Reap
  <1>35. ASSUME NEW p \in Procs, DeadlineSignal(p) PROVE VerdictInv'
    BY <1>35 DEF DeadlineSignal
  <1>36. ASSUME Deadline PROVE VerdictInv'
    BY <1>36 DEF Deadline
  <1>37. CASE UNCHANGED vars
    BY <1>37 DEF vars
  <1> QED
    <2>1. CASE Exec
      BY <2>1, <1>1, <1>2, <1>3 DEF Exec
    <2>2. CASE ExecBackground
      BY <2>2, <1>4, <1>5, <1>6, ZenonT(30) DEF ExecBackground
    <2>3. CASE Waits
      BY <2>3, <1>7, <1>8, <1>9, <1>10, <1>11, <1>12, <1>13, <1>14 DEF Waits
    <2>4. CASE Kills
      BY <2>4, <1>15, <1>16, <1>17 DEF Kills
    <2>5. CASE OtherCommands
      BY <2>5, <1>18, <1>19, <1>20, <1>21, <1>22, <1>23 DEF OtherCommands
    <2>6. CASE Run
      BY <2>6, <1>24, <1>25, <1>26, <1>27, <1>28, <1>29, <1>30, <1>31, <1>32 DEF Run
    <2>7. CASE Children
      BY <2>7, <1>33, <1>34, <1>35 DEF Children
    <2> QED
      BY <1>36, <1>37, <2>1, <2>2, <2>3, <2>4, <2>5, <2>6, <2>7
      DEF Next, ScriptGoroutine, Finished

\* What is known of the log and the verdict, in every state.
LEMMA LogVerdictInvariance == Spec => [](LogInv /\ VerdictInv)
  <1>1. Init => LogInv /\ VerdictInv
    BY ParamsType DEF Init, LogInv, VerdictInv, Unwinding, FailedPhasesShown
  <1>2. TypeInv /\ LogInv /\ VerdictInv /\ [Next]_vars => LogInv' /\ VerdictInv'
    BY LogInvStep, VerdictInvStep
  <1> QED
    BY TypeInvariance, <1>1, <1>2, PTL DEF Spec

\* Whatever phases follow a failure and however the script ends, the details of
\* the phases that failed are in the log that is reported.
THEOREM FailedPhasesAreShown == Spec => []FailedPhasesShown
  <1>1. LogInv => FailedPhasesShown
    BY DEF LogInv
  <1> QED
    BY LogVerdictInvariance, <1>1, PTL

\* A script in which a line failed is never reported as passed.
THEOREM VerdictIsFaithful == Spec => []VerdictFaithful
  <1>1. TypeInv /\ VerdictInv => VerdictFaithful
    BY ParamsType
    DEF VerdictInv, VerdictFaithful, Unwinding, TypeInv, TypeOK, ControlTypes
  <1> QED
    BY TypeInvariance, LogVerdictInvariance, <1>1, PTL

-----------------------------------------------------------------------------
(* Updates of the script: recorded by cmp until the deferred function has  *)
(* had its turn, and then dealt with.                                      *)

\* The deferred applyScriptUpdates is over, or was never deferred.
Updated == \/ pc \in {"cleanup", "flush", "finished"}
           \/ pc = "wait" /\ current.then = "cleanup"

UpdatesInv ==
  /\ pc = "setup" => updates = "none"
  /\ updates = "pending" /\ Updated => panicked
  /\ updates = "refused" => Updated /\ verdict = "fail"

\* What was recorded stays recorded until it is dealt with.
LEMMA UpdatesStep == TypeInv /\ LogInv /\ VerdictInv /\ UpdatesInv /\ [Next]_vars => UpdatesInv'
  <1> SUFFICES ASSUME TypeInv /\ LogInv /\ VerdictInv /\ UpdatesInv, [Next]_vars PROVE UpdatesInv'
    OBVIOUS
  <1> USE ParamsType
      DEF TypeInv, TypeOK, ControlTypes, LogTypes, ControlInv, controlVars, ioVars, failVars, logVars,
          NoCommand, Blocked, BlockedStates, Unwinding, UpdatesInv, Updated, HasUpdates, LogInv, VerdictInv
  <1>1. ASSUME NEW neg \in BOOLEAN, ExecFails(neg) PROVE UpdatesInv'
    BY <1>1 DEF ExecFails, Line, Outcome, Proceed, Fatalf, FatalfSetting, AfterExec
  <1>2. ASSUME NEW p \in Procs, NEW neg \in BOOLEAN, ExecStarts(p, neg)
        PROVE UpdatesInv'
    BY <1>2 DEF ExecStarts, Line, Start
  <1>3. ASSUME ExecReturns PROVE UpdatesInv'
    BY <1>3 DEF ExecReturns, Outcome, Proceed, Fatalf, FatalfSetting, AfterExec
  <1>4. ASSUME NEW n \in Names \cup {Unnamed}, BackgroundRefused(n) PROVE UpdatesInv'
    BY <1>4 DEF BackgroundRefused, Line, Fatalf, FatalfSetting
  <1>5. ASSUME NEW n \in Names \cup {Unnamed}, NEW neg \in BOOLEAN,
               BackgroundFails(n, neg)
        PROVE UpdatesInv'
    BY <1>5 DEF BackgroundFails, Line, Outcome, Proceed, Fatalf, FatalfSetting
  <1>6. ASSUME NEW p \in Procs, NEW n \in Names \cup {Unnamed}, NEW neg \in BOOLEAN,
               BackgroundStarts(p, n, neg)
        PROVE UpdatesInv'
    BY <1>6 DEF BackgroundStarts, Line, Start, Proceed, Background
  <1>7. ASSUME Wait PROVE UpdatesInv'
    BY <1>7 DEF Wait, WaitAll, Line, Interrupt
  <1>8. ASSUME Skip PROVE UpdatesInv'
    BY <1>8 DEF Skip, WaitAll, Line, Interrupt
  <1>9. ASSUME WaitNext PROVE UpdatesInv'
    BY <1>9 DEF WaitNext, Fatalf, FatalfSetting
  <1>10. ASSUME WaitReturns PROVE UpdatesInv'
    BY <1>10 DEF WaitReturns, WaitedAll, Proceed
  <1>11. ASSUME SkipReturns PROVE UpdatesInv'
    BY <1>11 DEF SkipReturns, WaitedAll
  <1>12. ASSUME WaitUnknown PROVE UpdatesInv'
    BY <1>12 DEF WaitUnknown, Line, Fatalf, FatalfSetting
  <1>13. ASSUME NEW i \in 1 .. Len(background), WaitOne(i) PROVE UpdatesInv'
    BY <1>13 DEF WaitOne, Line
  <1>14. ASSUME WaitOneReturns PROVE UpdatesInv'
    BY <1>14 DEF WaitOneReturns, Fatalf, FatalfSetting, Proceed
  <1>15. ASSUME NEW sig \in {"INT", "KILL"}, KillAll(sig) PROVE UpdatesInv'
    BY <1>15 DEF KillAll, Line, Outcome, Proceed, Fatalf, FatalfSetting
  <1>16. ASSUME KillUnknown PROVE UpdatesInv'
    BY <1>16 DEF KillUnknown, Line, Fatalf, FatalfSetting
  <1>17. ASSUME NEW i \in 1 .. Len(background), NEW sig \in {"INT", "KILL"},
               KillOne(i, sig)
        PROVE UpdatesInv'
    BY <1>17 DEF KillOne, Line, Outcome, Proceed, Fatalf, FatalfSetting
  <1>18. ASSUME Stop PROVE UpdatesInv'
    BY <1>18 DEF Stop, Line
  <1>19. ASSUME Stdin PROVE UpdatesInv'
    BY <1>19 DEF Stdin, Line, Outcome, Proceed, Fatalf, FatalfSetting
  <1>20. ASSUME CmpUpdates PROVE UpdatesInv'
    BY <1>20 DEF CmpUpdates, Line, Proceed
  <1>21. ASSUME NEW useStdin \in BOOLEAN, NEW empty \in BOOLEAN, Ttyin(useStdin, empty)
        PROVE UpdatesInv'
    BY <1>21 DEF Ttyin, Line, Outcome, Proceed, Fatalf, FatalfSetting
  <1>22. ASSUME NEW ok \in BOOLEAN, Custom(ok) PROVE UpdatesInv'
    BY <1>22 DEF Custom, Line, Outcome, Proceed, Fatalf, FatalfSetting
  <1>23. ASSUME NEW ok \in BOOLEAN, Other(ok) PROVE UpdatesInv'
    BY <1>23 DEF Other, Line, Outcome, Proceed, Fatalf, FatalfSetting
  <1>24. ASSUME NEW ok \in BOOLEAN, Setup(ok) PROVE UpdatesInv'
    BY <1>24 DEF Setup
  <1>25. ASSUME PhaseComment PROVE UpdatesInv'
    BY <1>25 DEF PhaseComment, Rewound
  <1>26. ASSUME EndOfScript PROVE UpdatesInv'
    BY <1>26 DEF EndOfScript
  <1>27. ASSUME End PROVE UpdatesInv'
    BY <1>27 DEF End, EndInterrupting, WaitAll, Interrupt
  <1>28. ASSUME EndReturns PROVE UpdatesInv'
    BY <1>28 DEF EndReturns, WaitedAll, EndVerdict, Rewound
  <1>29. ASSUME ApplyScriptUpdates PROVE UpdatesInv'
    BY <1>29 DEF ApplyScriptUpdates
  <1>30. ASSUME Cleanup PROVE UpdatesInv'
    BY <1>30 DEF Cleanup, WaitAll, Interrupt
  <1>31. ASSUME CleanupReturns PROVE UpdatesInv'
    BY <1>31 DEF CleanupReturns, WaitedAll
  <1>32. ASSUME Flush PROVE UpdatesInv'
    BY <1>32 DEF Flush
  <1>33. ASSUME NEW p \in Procs, Exit(p) PROVE UpdatesInv'
    BY <1>33 DEF Exit
  <1>34. ASSUME NEW p \in Procs, Reap(p) PROVE UpdatesInv'
    BY <1>34 DEF Reap
  <1>35. ASSUME NEW p \in Procs, DeadlineSignal(p) PROVE UpdatesInv'
    BY <1>35 DEF DeadlineSignal
  <1>36. ASSUME Deadline PROVE UpdatesInv'
    BY <1>36 DEF Deadline
  <1>37. CASE UNCHANGED vars
    BY <1>37 DEF vars
  <1> HIDE DEF UpdatesInv
  <1> QED
    <2>1. CASE Exec
      BY <2>1, <1>1, <1>2, <1>3 DEF Exec
    <2>2. CASE ExecBackground
      BY <2>2, <1>4, <1>5, <1>6 DEF ExecBackground
    <2>3. CASE Waits
      BY <2>3, <1>7, <1>8, <1>9, <1>10, <1>11, <1>12, <1>13, <1>14 DEF Waits
    <2>4. CASE Kills
      BY <2>4, <1>15, <1>16, <1>17 DEF Kills
    <2>5. CASE OtherCommands
      BY <2>5, <1>18, <1>19, <1>20, <1>21, <1>22, <1>23 DEF OtherCommands
    <2>6. CASE Run
      BY <2>6, <1>24, <1>25, <1>26, <1>27, <1>28, <1>29, <1>30, <1>31, <1>32 DEF Run
    <2>7. CASE Children
      BY <2>7, <1>33, <1>34, <1>35 DEF Children
    <2> QED
      BY <1>36, <1>37, <2>1, <2>2, <2>3, <2>4, <2>5, <2>6, <2>7
      DEF Next, ScriptGoroutine, Finished

\* Updates are written, or the failure to do so is reported, however the script ends.
THEOREM UpdatesAreNotLost == Spec => []UpdatesNotLost
  <1>1. Init => UpdatesInv
    BY DEF Init, UpdatesInv, Updated
  <1>2. UpdatesInv => UpdatesNotLost
    BY DEF UpdatesInv, Updated, UpdatesNotLost
  <1> QED
    BY TypeInvariance, LogVerdictInvariance, UpdatesStep, <1>1, <1>2, PTL DEF Spec

-----------------------------------------------------------------------------
(* Quiet phases: a run that is not verbose becomes loud only in a phase    *)
(* that failed; the current phase is kept only by the flush; and a script  *)
(* that passes has its log rewound and nothing written to it after.        *)

PhasesInv ==
  ~params.verbose =>
    /\ kept \subseteq 0 .. phase
    /\ kept \ {phase} \subseteq failedIn
    /\ phase \in kept => pc = "finished" /\ dirty
    /\ loud \/ lastBlockFailed => phase \in failedIn
    /\ verdict = "pass" => failedIn = {} /\ ~dirty

\* Phases stay quiet.
LEMMA PhasesStep == TypeInv /\ LogInv /\ VerdictInv /\ PhasesInv /\ [Next]_vars => PhasesInv'
  <1> SUFFICES ASSUME TypeInv /\ LogInv /\ VerdictInv /\ PhasesInv, [Next]_vars PROVE PhasesInv'
    OBVIOUS
  <1> USE ParamsType
      DEF TypeInv, TypeOK, ControlTypes, LogTypes, ControlInv, controlVars, ioVars, failVars, logVars,
          NoCommand, Blocked, BlockedStates, Unwinding, PhasesInv, LogInv, VerdictInv, Silent
  <1>1. ASSUME NEW neg \in BOOLEAN, ExecFails(neg) PROVE PhasesInv'
    BY <1>1 DEF ExecFails, Line, Outcome, Proceed, Fatalf, FatalfSetting, AfterExec
  <1>2. ASSUME NEW p \in Procs, NEW neg \in BOOLEAN, ExecStarts(p, neg)
        PROVE PhasesInv'
    BY <1>2 DEF ExecStarts, Line, Start
  <1>3. ASSUME ExecReturns PROVE PhasesInv'
    BY <1>3 DEF ExecReturns, Outcome, Proceed, Fatalf, FatalfSetting, AfterExec
  <1>4. ASSUME NEW n \in Names \cup {Unnamed}, BackgroundRefused(n) PROVE PhasesInv'
    BY <1>4 DEF BackgroundRefused, Line, Fatalf, FatalfSetting
  <1>5. ASSUME NEW n \in Names \cup {Unnamed}, NEW neg \in BOOLEAN,
               BackgroundFails(n, neg)
        PROVE PhasesInv'
    BY <1>5 DEF BackgroundFails, Line, Outcome, Proceed, Fatalf, FatalfSetting
  <1>6. ASSUME NEW p \in Procs, NEW n \in Names \cup {Unnamed}, NEW neg \in BOOLEAN,
               BackgroundStarts(p, n, neg)
        PROVE PhasesInv'
    BY <1>6 DEF BackgroundStarts, Line, Start, Proceed, Background
  <1>7. ASSUME Wait PROVE PhasesInv'
    BY <1>7 DEF Wait, WaitAll, Line, Interrupt
  <1>8. ASSUME Skip PROVE PhasesInv'
    BY <1>8 DEF Skip, WaitAll, Line, Interrupt
  <1>9. ASSUME WaitNext PROVE PhasesInv'
    BY <1>9 DEF WaitNext, Fatalf, FatalfSetting
  <1>10. ASSUME WaitReturns PROVE PhasesInv'
    BY <1>10 DEF WaitReturns, WaitedAll, Proceed
  <1>11. ASSUME SkipReturns PROVE PhasesInv'
    BY <1>11 DEF SkipReturns, WaitedAll
  <1>12. ASSUME WaitUnknown PROVE PhasesInv'
    BY <1>12 DEF WaitUnknown, Line, Fatalf, FatalfSetting
  <1>13. ASSUME NEW i \in 1 .. Len(background), WaitOne(i) PROVE PhasesInv'
    BY <1>13 DEF WaitOne, Line
  <1>14. ASSUME WaitOneReturns PROVE PhasesInv'
    BY <1>14 DEF WaitOneReturns, Fatalf, FatalfSetting, Proceed
  <1>15. ASSUME NEW sig \in {"INT", "KILL"}, KillAll(sig) PROVE PhasesInv'
    BY <1>15 DEF KillAll, Line, Outcome, Proceed, Fatalf, FatalfSetting
  <1>16. ASSUME KillUnknown PROVE PhasesInv'
    BY <1>16 DEF KillUnknown, Line, Fatalf, FatalfSetting
  <1>17. ASSUME NEW i \in 1 .. Len(background), NEW sig \in {"INT", "KILL"},
               KillOne(i, sig)
        PROVE PhasesInv'
    BY <1>17 DEF KillOne, Line, Outcome, Proceed, Fatalf, FatalfSetting
  <1>18. ASSUME Stop PROVE PhasesInv'
    BY <1>18 DEF Stop, Line
  <1>19. ASSUME Stdin PROVE PhasesInv'
    BY <1>19 DEF Stdin, Line, Outcome, Proceed, Fatalf, FatalfSetting
  <1>20. ASSUME CmpUpdates PROVE PhasesInv'
    BY <1>20 DEF CmpUpdates, Line, Proceed
  <1>21. ASSUME NEW useStdin \in BOOLEAN, NEW empty \in BOOLEAN, Ttyin(useStdin, empty)
        PROVE PhasesInv'
    BY <1>21 DEF Ttyin, Line, Outcome, Proceed, Fatalf, FatalfSetting
  <1>22. ASSUME NEW ok \in BOOLEAN, Custom(ok) PROVE PhasesInv'
    BY <1>22 DEF Custom, Line, Outcome, Proceed, Fatalf, FatalfSetting
  <1>23. ASSUME NEW ok \in BOOLEAN, Other(ok) PROVE PhasesInv'
    BY <1>23 DEF Other, Line, Outcome, Proceed, Fatalf, FatalfSetting
  <1>24. ASSUME NEW ok \in BOOLEAN, Setup(ok) PROVE PhasesInv'
    BY <1>24 DEF Setup
  <1>25. ASSUME PhaseComment PROVE PhasesInv'
    BY <1>25 DEF PhaseComment, Rewound
  <1>26. ASSUME EndOfScript PROVE PhasesInv'
    BY <1>26 DEF EndOfScript
  <1>27. ASSUME End PROVE PhasesInv'
    BY <1>27 DEF End, EndInterrupting, WaitAll, Interrupt
  <1>28. ASSUME EndReturns PROVE PhasesInv'
    BY <1>28 DEF EndReturns, WaitedAll, EndVerdict, Rewound
  <1>29. ASSUME ApplyScriptUpdates PROVE PhasesInv'
    BY <1>29 DEF ApplyScriptUpdates
  <1>30. ASSUME Cleanup PROVE PhasesInv'
    BY <1>30 DEF Cleanup, WaitAll, Interrupt
  <1>31. ASSUME CleanupReturns PROVE PhasesInv'
    BY <1>31 DEF CleanupReturns, WaitedAll
  <1>32. ASSUME Flush PROVE PhasesInv'
    BY <1>32 DEF Flush
  <1>33. ASSUME NEW p \in Procs, Exit(p) PROVE PhasesInv'
    BY <1>33 DEF Exit
  <1>34. ASSUME NEW p \in Procs, Reap(p) PROVE PhasesInv'
    BY <1>34 DEF Reap
  <1>35. ASSUME NEW p \in Procs, DeadlineSignal(p) PROVE PhasesInv'
    BY <1>35 DEF DeadlineSignal
  <1>36. ASSUME Deadline PROVE PhasesInv'
    BY <1>36 DEF Deadline
  <1>37. CASE UNCHANGED vars
    BY <1>37 DEF vars
  <1> HIDE DEF PhasesInv
  <1> QED
    <2>1. CASE Exec
      BY <2>1, <1>1, <1>2, <1>3 DEF Exec
    <2>2. CASE ExecBackground
      BY <2>2, <1>4, <1>5, <1>6 DEF ExecBackground
    <2>3. CASE Waits
      BY <2>3, <1>7, <1>8, <1>9, <1>10, <1>11, <1>12, <1>13, <1>14 DEF Waits
    <2>4. CASE Kills
      BY <2>4, <1>15, <1>16, <1>17 DEF Kills
    <2>5. CASE OtherCommands
      BY <2>5, <1>18, <1>19, <1>20, <1>21, <1>22, <1>23 DEF OtherCommands
    <2>6. CASE Run
      BY <2>6, <1>24, <1>25, <1>26, <1>27, <1>28, <1>29, <1>30, <1>31, <1>32 DEF Run
    <2>7. CASE Children
      BY <2>7, <1>33, <1>34, <1>35 DEF Children
    <2> QED
      BY <1>36, <1>37, <2>1, <2>2, <2>3, <2>4, <2>5, <2>6, <2>7
      DEF Next, ScriptGoroutine, Finished

\* The log holds only phases that failed, whatever fails before or after.
THEOREM PhasesAreQuiet == Spec => []QuietPhases
  <1>1. Init => PhasesInv
    BY DEF Init, PhasesInv
  <1>2. PhasesInv => QuietPhases
    BY DEF PhasesInv, QuietPhases
  <1> QED
    BY TypeInvariance, LogVerdictInvariance, PhasesStep, <1>1, <1>2, PTL DEF Spec

-----------------------------------------------------------------------------
(* What the remaining invariants have in common: most steps leave the      *)
(* processes alone.                                                        *)

\* The script has not come to its end.
Checking == verdict = "none" /\ pc # "end" /\ ~(pc = "wait" /\ current.then = "end")

\* Which process did what, and what was asked of it, stays.
CalmChildren ==
  /\ UNCHANGED <<state, success, expectFail, background, fed>>
  /\ expired => expired'
  /\ \A p \in Procs : "QUIT" \in signals'[p] => "QUIT" \in signals[p] \/ expired

\* The goroutine does not start or stop waiting for a command, but for a wait
\* for all, and does not come back from the end of the script.
CalmControl ==
  /\ pc = "exec" => UNCHANGED <<pc, current, stdin, tty>>
  /\ pc' = "exec" => pc = "exec"
  /\ pc' = "wait" => \/ UNCHANGED <<pc, current>>
                     \/ current'.index = 1
                        /\ (current'.then \in {"wait", "skip"} => current'.check)
  /\ Checking' => Checking
  /\ failedIn \subseteq failedIn'
  /\ verdict' = "skip" => verdict = "skip"

\* Input is dropped, or the line being read sets it.
CalmInput ==
  /\ lines' \in {lines, lines + 1}
  /\ \/ stdin' \in {stdin, 0} /\ tty' = tty
     \/ stdin' = 0 /\ tty'.in = 0 /\ ~tty'.stdin
     \/ stdin' \in {0, lines + 1} /\ tty' = tty /\ ~tty.stdin /\ lines' = lines + 1
     \/ /\ stdin' = stdin /\ tty'.in \in {tty.in, 0, lines + 1} /\ lines' = lines + 1
        /\ stdin # 0 /\ tty'.stdin => tty.stdin

\* Output is dropped, or comes from no process.
CalmOutput == stdout' \in {stdout, <<>>, <<0>>}

Calm == CalmChildren /\ CalmControl /\ CalmInput /\ CalmOutput

\* The steps that are not calm.
Striking ==
  \/ \E p \in Procs, neg \in BOOLEAN : ExecStarts(p, neg)
  \/ ExecReturns
  \/ \E p \in Procs, n \in Names \cup {Unnamed}, neg \in BOOLEAN : BackgroundStarts(p, n, neg)
  \/ WaitNext \/ WaitReturns \/ SkipReturns \/ EndReturns \/ CleanupReturns \/ WaitOneReturns
  \/ \E p \in Procs : Exit(p) \/ Reap(p)

\* Every step is one or the other.
LEMMA CalmOrStriking == TypeInv /\ [Next]_vars => Calm \/ Striking
  <1> SUFFICES ASSUME TypeInv, [Next]_vars PROVE Calm \/ Striking
    OBVIOUS
  <1> USE DEF TypeInv, TypeOK, ControlTypes, ControlInv, controlVars, childVars, ioVars, failVars, logVars,
          NoCommand, Blocked
  <1>1. ASSUME NEW neg \in BOOLEAN, ExecFails(neg) PROVE Calm
    BY <1>1 DEF ExecFails, Line, Outcome, Proceed, Fatalf, FatalfSetting, AfterExec, Calm, CalmChildren,
      CalmControl, CalmInput, CalmOutput, Checking
  <1>2. ASSUME NEW p \in Procs, NEW neg \in BOOLEAN, ExecStarts(p, neg) PROVE Striking
    BY <1>2 DEF Striking
  <1>3. ASSUME ExecReturns PROVE Striking
    BY <1>3 DEF Striking
  <1>4. ASSUME NEW n \in Names \cup {Unnamed}, BackgroundRefused(n) PROVE Calm
    BY <1>4 DEF BackgroundRefused, Line, Fatalf, FatalfSetting, Calm, CalmChildren,
      CalmControl, CalmInput, CalmOutput, Checking
  <1>5. ASSUME NEW n \in Names \cup {Unnamed}, NEW neg \in BOOLEAN,
               BackgroundFails(n, neg)
        PROVE Calm
    BY <1>5 DEF BackgroundFails, Line, Outcome, Proceed, Fatalf, FatalfSetting, Calm, CalmChildren,
      CalmControl, CalmInput, CalmOutput, Checking
  <1>6. ASSUME NEW p \in Procs, NEW n \in Names \cup {Unnamed}, NEW neg \in BOOLEAN,
               BackgroundStarts(p, n, neg)
        PROVE Striking
    BY <1>6 DEF Striking
  <1>7. ASSUME Wait PROVE Calm
    BY <1>7 DEF Wait, WaitAll, Line, Interrupt, Calm, CalmChildren,
      CalmControl, CalmInput, CalmOutput, Checking
  <1>8. ASSUME Skip PROVE Calm
    BY <1>8 DEF Skip, WaitAll, Line, Interrupt, Calm, CalmChildren,
      CalmControl, CalmInput, CalmOutput, Checking
  <1>9. ASSUME WaitNext PROVE Striking
    BY <1>9 DEF Striking
  <1>10. ASSUME WaitReturns PROVE Striking
    BY <1>10 DEF Striking
  <1>11. ASSUME SkipReturns PROVE Striking
    BY <1>11 DEF Striking
  <1>12. ASSUME WaitUnknown PROVE Calm
    BY <1>12 DEF WaitUnknown, Line, Fatalf, FatalfSetting, Calm, CalmChildren,
      CalmControl, CalmInput, CalmOutput, Checking
  <1>13. ASSUME NEW i \in 1 .. Len(background), WaitOne(i) PROVE Calm
    BY <1>13 DEF WaitOne, Line, Calm, CalmChildren,
      CalmControl, CalmInput, CalmOutput, Checking
  <1>14. ASSUME WaitOneReturns PROVE Striking
    BY <1>14 DEF Striking
  <1>15. ASSUME NEW sig \in {"INT", "KILL"}, KillAll(sig) PROVE Calm
    BY <1>15 DEF KillAll, Line, Outcome, Proceed, Fatalf, FatalfSetting, Calm, CalmChildren,
      CalmControl, CalmInput, CalmOutput, Checking
  <1>16. ASSUME KillUnknown PROVE Calm
    BY <1>16 DEF KillUnknown, Line, Fatalf, FatalfSetting, Calm, CalmChildren,
      CalmControl, CalmInput, CalmOutput, Checking
  <1>17. ASSUME NEW i \in 1 .. Len(background), NEW sig \in {"INT", "KILL"},
               KillOne(i, sig)
        PROVE Calm
    BY <1>17 DEF KillOne, Line, Outcome, Proceed, Fatalf, FatalfSetting, Calm, CalmChildren,
      CalmControl, CalmInput, CalmOutput, Checking
  <1>18. ASSUME Stop PROVE Calm
    BY <1>18 DEF Stop, Line, Calm, CalmChildren,
      CalmControl, CalmInput, CalmOutput, Checking
  <1>19. ASSUME Stdin PROVE Calm
    BY <1>19 DEF Stdin, Line, Outcome, Proceed, Fatalf, FatalfSetting, Calm, CalmChildren,
      CalmControl, CalmInput, CalmOutput, Checking
  <1>20. ASSUME CmpUpdates PROVE Calm
    BY <1>20 DEF CmpUpdates, Line, Proceed, Calm, CalmChildren,
      CalmControl, CalmInput, CalmOutput, Checking
  <1>21. ASSUME NEW useStdin \in BOOLEAN, NEW empty \in BOOLEAN, Ttyin(useStdin, empty)
        PROVE Calm
    <2>1. CalmInput
      <3>1. lines' = lines + 1 /\ stdin' = stdin
        BY <1>21 DEF Ttyin, Line
      <3>2. tty \in TtyStates
        BY DEF IOTypes, TtyStates
      <3>3. CASE tty' = tty
        BY <3>1, <3>3 DEF CalmInput
      <3>4. CASE tty' # tty
        <4>1. /\ ~(useStdin /\ stdin # 0)
              /\ \/ tty' = [tty EXCEPT !.in = IF empty THEN 0 ELSE lines + 1,
                                       !.stdin = @ \/ useStdin]
                 \/ tty' = [tty EXCEPT !.stdin = @ \/ useStdin]
          BY <1>21, <3>4 DEF Ttyin
        <4>2. tty'.in \in {tty.in, 0, lines + 1} /\ (tty'.stdin => tty.stdin \/ useStdin)
          BY <3>2, <4>1 DEF TtyStates
        <4> QED BY <3>1, <4>1, <4>2 DEF CalmInput
      <3> QED BY <3>3, <3>4
    <2>2. CalmChildren /\ CalmControl /\ CalmOutput
      BY <1>21 DEF Ttyin, Line, Outcome, Proceed, Fatalf, FatalfSetting, CalmChildren,
                   CalmControl, CalmOutput, Checking
    <2> QED BY <2>1, <2>2 DEF Calm
  <1>22. ASSUME NEW ok \in BOOLEAN, Custom(ok) PROVE Calm
    BY <1>22 DEF Custom, Line, Outcome, Proceed, Fatalf, FatalfSetting, Calm, CalmChildren,
      CalmControl, CalmInput, CalmOutput, Checking
  <1>23. ASSUME NEW ok \in BOOLEAN, Other(ok) PROVE Calm
    BY <1>23 DEF Other, Line, Outcome, Proceed, Fatalf, FatalfSetting, Calm, CalmChildren,
      CalmControl, CalmInput, CalmOutput, Checking
  <1>24. ASSUME NEW ok \in BOOLEAN, Setup(ok) PROVE Calm
    BY <1>24 DEF Setup, Calm, CalmChildren,
      CalmControl, CalmInput, CalmOutput, Checking
  <1>25. ASSUME PhaseComment PROVE Calm
    BY <1>25 DEF PhaseComment, Rewound, Calm, CalmChildren,
      CalmControl, CalmInput, CalmOutput, Checking
  <1>26. ASSUME EndOfScript PROVE Calm
    BY <1>26 DEF EndOfScript, Calm, CalmChildren,
      CalmControl, CalmInput, CalmOutput, Checking
  <1>27. ASSUME End PROVE Calm
    BY <1>27 DEF End, EndInterrupting, WaitAll, Interrupt, Calm, CalmChildren,
      CalmControl, CalmInput, CalmOutput, Checking
  <1>28. ASSUME EndReturns PROVE Striking
    BY <1>28 DEF Striking
  <1>29. ASSUME ApplyScriptUpdates PROVE Calm
    BY <1>29 DEF ApplyScriptUpdates, Calm, CalmChildren,
      CalmControl, CalmInput, CalmOutput, Checking
  <1>30. ASSUME Cleanup PROVE Calm
    BY <1>30 DEF Cleanup, WaitAll, Interrupt, Calm, CalmChildren,
      CalmControl, CalmInput, CalmOutput, Checking
  <1>31. ASSUME CleanupReturns PROVE Striking
    BY <1>31 DEF Striking
  <1>32. ASSUME Flush PROVE Calm
    BY <1>32 DEF Flush, Calm, CalmChildren,
      CalmControl, CalmInput, CalmOutput, Checking
  <1>33. ASSUME NEW p \in Procs, Exit(p) PROVE Striking
    BY <1>33 DEF Striking
  <1>34. ASSUME NEW p \in Procs, Reap(p) PROVE Striking
    BY <1>34 DEF Striking
  <1>35. ASSUME NEW p \in Procs, DeadlineSignal(p) PROVE Calm
    <2>1. /\ expired /\ signals \in [Procs -> SUBSET Signals]
          /\ UNCHANGED <<pc, current, lines, verdict, failedIn, state, success, expectFail,
                         background, fed, stdin, tty, stdout, expired>>
      BY <1>35 DEF DeadlineSignal, Overdue, ChildTypes
    <2> QED BY <2>1 DEF Calm, CalmChildren, CalmControl, CalmInput, CalmOutput, Checking
  <1>36. ASSUME Deadline PROVE Calm
    BY <1>36 DEF Deadline, Calm, CalmChildren,
      CalmControl, CalmInput, CalmOutput, Checking
  <1>37. CASE UNCHANGED vars
    BY <1>37 DEF vars, Calm, CalmChildren,
      CalmControl, CalmInput, CalmOutput, Checking
  <1> QED
    <2>1. CASE Exec
      BY <2>1, <1>1, <1>2, <1>3 DEF Exec
    <2>2. CASE ExecBackground
      BY <2>2, <1>4, <1>5, <1>6 DEF ExecBackground
    <2>3. CASE Waits
      BY <2>3, <1>7, <1>8, <1>9, <1>10, <1>11, <1>12, <1>13, <1>14 DEF Waits
    <2>4. CASE Kills
      BY <2>4, <1>15, <1>16, <1>17 DEF Kills
    <2>5. CASE OtherCommands
      BY <2>5, <1>18, <1>19, <1>20, <1>21, <1>22, <1>23 DEF OtherCommands
    <2>6. CASE Run
      BY <2>6, <1>24, <1>25, <1>26, <1>27, <1>28, <1>29, <1>30, <1>31, <1>32 DEF Run
    <2>7. CASE Children
      BY <2>7, <1>33, <1>34, <1>35 DEF Children
    <2> QED
      BY <1>36, <1>37, <2>1, <2>2, <2>3, <2>4, <2>5, <2>6, <2>7
      DEF Next, ScriptGoroutine, Finished

-----------------------------------------------------------------------------
(* ts.background as & and wait name change it.                             *)

\* A command started with & is the last of the list.
LEMMA AppendDoes ==
  ASSUME ChildTypes, NEW b \in Background, background' = Append(background, b)
  PROVE  /\ Len(background) \in Nat /\ Len(background') = Len(background) + 1
         /\ \A i \in 1 .. Len(background) : background'[i] = background[i]
         /\ background'[Len(background) + 1] = b
         /\ BackgroundProcs' = BackgroundProcs \cup {b.proc}
  <1>1. /\ Len(background) \in Nat /\ Len(background') = Len(background) + 1
        /\ \A i \in 1 .. Len(background) : background'[i] = background[i]
        /\ background'[Len(background) + 1] = b
    BY DEF ChildTypes
  <1>2. ASSUME NEW q, q \in BackgroundProcs
        PROVE  q \in BackgroundProcs'
    <2>1. PICK i \in 1 .. Len(background) : background[i].proc = q
      BY <1>2 DEF BackgroundProcs
    <2>2. i \in 1 .. Len(background') /\ background'[i].proc = q
      BY <1>1, <2>1
    <2> QED BY <2>2 DEF BackgroundProcs
  <1>3. b.proc \in BackgroundProcs'
    <2>1. Len(background) + 1 \in 1 .. Len(background')
      BY <1>1
    <2> QED BY <1>1, <2>1 DEF BackgroundProcs
  <1>4. ASSUME NEW q, q \in BackgroundProcs', q # b.proc
        PROVE  q \in BackgroundProcs
    <2>1. PICK i \in 1 .. Len(background') : background'[i].proc = q
      BY <1>4 DEF BackgroundProcs
    <2>2. i \in 1 .. Len(background)
      BY <1>1, <1>4, <2>1
    <2> QED BY <1>1, <2>1, <2>2 DEF BackgroundProcs
  <1> QED BY <1>1, <1>2, <1>3, <1>4

\* A command that wait name has waited for leaves the list.
LEMMA RemoveDoes ==
  ASSUME ChildTypes, NEW k \in 1 .. Len(background), background' = RemoveAt(background, k)
  PROVE  /\ \A j \in 1 .. Len(background') :
              \E i \in 1 .. Len(background) :
                background'[j] = background[i] /\ i = IF j < k THEN j ELSE j + 1
         /\ \A q \in BackgroundProcs : q # background[k].proc => q \in BackgroundProcs'
  <1>a. background \in Seq(Background) /\ Len(background) \in Nat
    BY DEF ChildTypes
  <1>b. /\ Len(RemoveAt(background, k)) = Len(background) - 1
        /\ \A j \in 1 .. Len(background) - 1 :
             RemoveAt(background, k)[j] = IF j < k THEN background[j] ELSE background[j + 1]
    BY <1>a, RemoveAtElements, Zenon
  <1>1. /\ Len(background) \in Nat /\ Len(background') = Len(background) - 1
        /\ \A j \in 1 .. Len(background) - 1 :
             background'[j] = IF j < k THEN background[j] ELSE background[j + 1]
    BY <1>a, <1>b, Zenon
  <1>2. \A j \in 1 .. Len(background') :
          \E i \in 1 .. Len(background) :
            background'[j] = background[i] /\ i = IF j < k THEN j ELSE j + 1
    BY <1>1
  <1>3. ASSUME NEW q \in BackgroundProcs, q # background[k].proc
        PROVE  q \in BackgroundProcs'
    <2>1. PICK i \in 1 .. Len(background) : background[i].proc = q
      BY DEF BackgroundProcs
    <2>2. i # k
      BY <1>3, <2>1
    <2>3. \E j \in 1 .. Len(background') : background'[j] = background[i]
      <3>1. CASE i < k
        <4>1. i \in 1 .. Len(background') /\ background'[i] = background[i]
          BY <1>1, <3>1
        <4> QED BY <4>1
      <3>2. CASE i > k
        <4>1. i - 1 \in 1 .. Len(background') /\ ~(i - 1 < k) /\ (i - 1) + 1 = i
          BY <1>1, <3>2
        <4> QED BY <1>1, <4>1
      <3> QED BY <2>2, <3>1, <3>2
    <2> QED BY <2>1, <2>3 DEF BackgroundProcs
  <1> QED BY <1>2, <1>3

\* waitBackground has waited for every process of the list.
LEMMA ListReaped ==
  ASSUME TrackInv, NEW then, WaitedAll(then)
  PROVE  /\ \A i \in 1 .. Len(background) : i < current.index /\ state[background[i].proc] = "reaped"
         /\ background' = <<>> /\ BackgroundProcs' = {} /\ UNCHANGED childVars
         /\ pc = "wait" /\ current.then = then
  <1>1. /\ pc = "wait" /\ current.then = then /\ current.index > Len(background)
        /\ current.index \in Nat /\ Len(background) \in Nat
    BY DEF WaitedAll, TrackInv, TypeInv, TypeOK, ControlTypes, BlockedStates, ChildTypes
  <1>2. \A i \in 1 .. Len(background) : i < current.index /\ state[background[i].proc] = "reaped"
    BY <1>1 DEF TrackInv, WaitedFor
  <1>3. background' = <<>> /\ UNCHANGED childVars
    BY DEF WaitedAll
  <1>4. BackgroundProcs' = {}
    BY <1>3 DEF BackgroundProcs
  <1> QED BY <1>1, <1>2, <1>3, <1>4

\* What WaitNext does, but to the log.
LEMMA WaitNextDoes ==
  ASSUME TypeInv, WaitNext
  PROVE  /\ pc = "wait" /\ UNCHANGED <<childVars, expired, background, ioVars, lines>>
         /\ current.index \in 1 .. Len(background)
         /\ \/ /\ pc' = "wait" /\ UNCHANGED <<verdict, failedIn>>
               /\ current' = [current EXCEPT !.index = @ + 1]
               /\ current'.index = current.index + 1 /\ current'.then = current.then
               /\ current'.check = current.check
               /\ current.check => ~Unexpected(background[current.index])
            \/ pc' \in {"loop", "updates"} /\ verdict' \in {verdict, "fail"} /\ phase \in failedIn'
  <1>1. current \in BlockedStates /\ Len(background) \in Nat
    BY DEF TypeInv, TypeOK, ControlTypes, ChildTypes
  <1>2. /\ pc = "wait" /\ UNCHANGED <<childVars, expired, background, ioVars, lines>>
        /\ current.index \in 1 .. Len(background)
    BY <1>1 DEF WaitNext, TypeInv, ControlInv, BlockedStates
  <1>3. CASE current.check /\ Unexpected(background[current.index])
    <2>1. Fatalf
      BY <1>3 DEF WaitNext
    <2> QED BY <1>2, <2>1 DEF Fatalf, FatalfSetting
  <1>4. CASE ~(current.check /\ Unexpected(background[current.index]))
    <2>1. pc' = pc /\ UNCHANGED <<verdict, failVars>> /\ current' = [current EXCEPT !.index = @ + 1]
      BY <1>4 DEF WaitNext
    <2>2. /\ current'.index = current.index + 1 /\ current'.then = current.then
          /\ current'.check = current.check
      BY <1>1, <2>1 DEF BlockedStates
    <2> QED BY <1>2, <1>4, <2>1, <2>2 DEF failVars
  <1> QED BY <1>3, <1>4

-----------------------------------------------------------------------------
(* Output: processes are in ts.background in the order they were started.  *)

InOrder ==
  /\ \A p, q \in Procs : q < p /\ state[p] # "unused" => state[q] # "unused"
  /\ \A i, j \in 1 .. Len(background) : i < j => background[i].proc < background[j].proc

OutputInv == InOrder /\ OutputComplete

\* A process that is started is the last one.
LEMMA StartedLast ==
  ASSUME InOrder, NEW p \in Procs, Fresh(p), NEW q \in Procs, state[q] # "unused"
  PROVE  q < p
  <1>1. p \in Nat /\ q \in Nat /\ state[p] = "unused"
    BY ScriptAssumption DEF Procs, Fresh
  <1>2. ~(p < q)
    BY <1>1 DEF InOrder
  <1> QED BY <1>1, <1>2

\* Processes are started in order, and stay so in ts.background.
LEMMA InOrderStep == TrackInv /\ InOrder /\ [Next]_vars => InOrder'
  <1> SUFFICES ASSUME TrackInv, InOrder, Calm \/ Striking PROVE InOrder'
    BY CalmOrStriking DEF TrackInv
  <1>a. ChildTypes /\ Len(background) \in Nat /\ state \in [Procs -> {"unused", "alive", "zombie", "reaped"}]
    BY DEF TrackInv, TypeInv, TypeOK, ChildTypes
  <1>b. \A i \in 1 .. Len(background) :
          background[i].proc \in Procs /\ state[background[i].proc] # "unused"
    BY <1>a, BackgroundType DEF TrackInv, Started
  <1>1. ASSUME UNCHANGED <<state, background>> PROVE InOrder'
    BY <1>1 DEF InOrder
  <1>2. ASSUME UNCHANGED state, background' = <<>> PROVE InOrder'
    BY <1>2 DEF InOrder
  <1>3. ASSUME NEW p \in Procs, Fresh(p), state' = [state EXCEPT ![p] = "alive"]
        PROVE  \A r, q \in Procs : q < r /\ state'[r] # "unused" => state'[q] # "unused"
    BY <1>3, <1>a DEF InOrder, Fresh
  <1>4. CASE Calm
    BY <1>1, <1>4 DEF Calm, CalmChildren
  <1>5. ASSUME NEW p \in Procs, NEW neg \in BOOLEAN, ExecStarts(p, neg) PROVE InOrder'
    <2>1. Fresh(p) /\ state' = [state EXCEPT ![p] = "alive"] /\ background' = background
      BY <1>5 DEF ExecStarts, Start
    <2> QED BY <1>3, <2>1 DEF InOrder
  <1>6. ASSUME NEW p \in Procs, NEW n \in Names \cup {Unnamed}, NEW neg \in BOOLEAN,
               BackgroundStarts(p, n, neg)
        PROVE  InOrder'
    <2> DEFINE b == [name |-> n, proc |-> p, neg |-> neg]
    <2>1. Fresh(p) /\ state' = [state EXCEPT ![p] = "alive"] /\ background' = Append(background, b)
      BY <1>6 DEF BackgroundStarts, Start
    <2>2. b \in Background /\ b.proc = p
      BY DEF Background
    <2> HIDE DEF b
    <2>3. /\ Len(background') = Len(background) + 1
          /\ \A i \in 1 .. Len(background) : background'[i] = background[i]
          /\ background'[Len(background) + 1] = b
      BY <1>a, <2>1, <2>2, AppendDoes
    <2>4. \A i \in 1 .. Len(background) : background[i].proc < p
      BY <1>b, <2>1, StartedLast
    <2>5. \A i, j \in 1 .. Len(background') : i < j => background'[i].proc < background'[j].proc
      <3> SUFFICES ASSUME NEW i \in 1 .. Len(background'), NEW j \in 1 .. Len(background'), i < j
                   PROVE  background'[i].proc < background'[j].proc
        OBVIOUS
      <3>1. i \in 1 .. Len(background) /\ background'[i] = background[i]
        BY <1>a, <2>3
      <3>2. CASE j = Len(background) + 1
        BY <2>2, <2>3, <2>4, <3>1, <3>2
      <3>3. CASE j # Len(background) + 1
        <4>1. j \in 1 .. Len(background) /\ background'[j] = background[j]
          BY <1>a, <2>3, <3>3
        <4> QED BY <3>1, <4>1 DEF InOrder
      <3> QED BY <3>2, <3>3
    <2> QED BY <1>3, <2>1, <2>5 DEF InOrder
  <1>7. CASE ExecReturns
    BY <1>1, <1>7 DEF ExecReturns, childVars
  <1>8. CASE WaitNext
    BY <1>1, <1>8, WaitNextDoes DEF TrackInv, childVars
  <1>9. ASSUME NEW then, WaitedAll(then) PROVE InOrder'
    BY <1>2, <1>9, ListReaped DEF childVars
  <1>10. CASE WaitReturns \/ SkipReturns \/ EndReturns \/ CleanupReturns
    BY <1>9, <1>10 DEF WaitReturns, SkipReturns, EndReturns, CleanupReturns
  <1>11. CASE WaitOneReturns
    <2>1. UNCHANGED state /\ current.index \in 1 .. Len(background)
      BY <1>11 DEF WaitOneReturns, childVars, TrackInv, TypeInv, ControlInv
    <2>2. background' \in {background, RemoveAt(background, current.index)}
      BY <1>11 DEF WaitOneReturns
    <2>3. CASE background' = RemoveAt(background, current.index)
      <3> DEFINE k == current.index
      <3>1. k \in 1 .. Len(background)
        BY <2>1
      <3> HIDE DEF k
      <3>2. \A j \in 1 .. Len(background') :
              \E i \in 1 .. Len(background) :
                background'[j] = background[i] /\ i = IF j < k THEN j ELSE j + 1
        BY <1>a, <2>3, <3>1, RemoveDoes DEF k
      <3>3. ASSUME NEW i \in 1 .. Len(background'), NEW j \in 1 .. Len(background'), i < j
            PROVE  background'[i].proc < background'[j].proc
        <4>1. PICK x \in 1 .. Len(background) :
                background'[i] = background[x] /\ x = IF i < k THEN i ELSE i + 1
          BY <3>2
        <4>2. PICK y \in 1 .. Len(background) :
                background'[j] = background[y] /\ y = IF j < k THEN j ELSE j + 1
          BY <3>2
        <4>3. i \in Int /\ j \in Int /\ k \in Int
          BY <3>1
        <4>4. x < y
          BY <3>3, <4>1, <4>2, <4>3
        <4> QED BY <4>1, <4>2, <4>4 DEF InOrder
      <3> QED BY <2>1, <3>3 DEF InOrder
    <2> QED BY <1>1, <2>1, <2>2, <2>3
  <1>12. ASSUME NEW p \in Procs, Exit(p) \/ Reap(p) PROVE InOrder'
    <2>1. /\ UNCHANGED background /\ state[p] # "unused" /\ state'[p] # "unused"
          /\ \A q \in Procs : q # p => state'[q] = state[q]
      BY <1>12, <1>a DEF Exit, Reap
    <2> QED BY <2>1 DEF InOrder
  <1> QED
    BY <1>4, <1>5, <1>6, <1>7, <1>8, <1>10, <1>11, <1>12 DEF Striking

\* Output stays that of processes that are done, in their order.
LEMMA OutputStep == TrackInv /\ OutputInv /\ [Next]_vars => OutputComplete'
  <1> SUFFICES ASSUME TrackInv, OutputInv, Calm \/ Striking PROVE OutputComplete'
    BY CalmOrStriking DEF TrackInv
  <1> USE DEF OutputInv
  <1>a. /\ ChildTypes /\ Len(background) \in Nat /\ Len(stdout) \in Nat
        /\ state \in [Procs -> {"unused", "alive", "zombie", "reaped"}]
        /\ stdout \in Seq(0 .. MaxProcs)
    BY DEF TrackInv, TypeInv, TypeOK, ChildTypes, IOTypes
  <1>b. \A i \in 1 .. Len(stdout) : stdout[i] = 0 \/ (stdout[i] \in Procs /\ state[stdout[i]] = "reaped")
    BY <1>a, ScriptAssumption DEF OutputComplete, Procs
  <1>1. ASSUME UNCHANGED stdout,
               \A p \in Procs : state[p] = "reaped" => state'[p] = "reaped"
        PROVE  OutputComplete'
    BY <1>1, <1>b DEF OutputComplete
  <1>2. ASSUME stdout' = <<>> PROVE OutputComplete'
    BY <1>2 DEF OutputComplete
  <1>3. ASSUME NEW p, stdout' = <<p>>, p = 0 \/ state'[p] = "reaped" PROVE OutputComplete'
    <2>1. Len(stdout') = 1 /\ stdout'[1] = p
      BY <1>3
    <2>2. ASSUME NEW i \in 1 .. Len(stdout') PROVE i = 1
      BY <2>1
    <2> QED BY <1>3, <2>1, <2>2 DEF OutputComplete
  <1>4. CASE Calm
    BY <1>1, <1>2, <1>3, <1>4 DEF Calm, CalmChildren, CalmOutput
  <1>5. ASSUME NEW p \in Procs, NEW neg \in BOOLEAN, ExecStarts(p, neg) PROVE OutputComplete'
    <2>1. state[p] = "unused" /\ state' = [state EXCEPT ![p] = "alive"] /\ UNCHANGED stdout
      BY <1>5 DEF ExecStarts, Start, Fresh
    <2> QED BY <1>a, <1>1, <2>1
  <1>6. ASSUME NEW p \in Procs, NEW n \in Names \cup {Unnamed}, NEW neg \in BOOLEAN,
               BackgroundStarts(p, n, neg)
        PROVE  OutputComplete'
    BY <1>2, <1>6 DEF BackgroundStarts
  <1>7. CASE ExecReturns
    BY <1>3, <1>7 DEF ExecReturns, childVars
  <1>8. CASE WaitNext
    BY <1>1, <1>8, WaitNextDoes DEF TrackInv, childVars, ioVars
  <1>9. ASSUME NEW then, WaitedAll(then) PROVE OutputComplete'
    <2>1. /\ \A i \in 1 .. Len(background) : state[background[i].proc] = "reaped"
          /\ UNCHANGED state
      BY <1>9, ListReaped DEF childVars
    <2>2. stdout' = stdout \/ stdout' = [i \in 1 .. Len(background) |-> background[i].proc]
      BY <1>9 DEF WaitedAll
    <2>3. CASE stdout' = [i \in 1 .. Len(background) |-> background[i].proc]
      <3>1. Len(stdout') = Len(background) /\ \A i \in 1 .. Len(background) : stdout'[i] = background[i].proc
        BY <1>a, <2>3
      <3> QED BY <2>1, <3>1 DEF OutputComplete, InOrder
    <2> QED BY <1>1, <2>1, <2>2, <2>3
  <1>10. CASE WaitReturns \/ SkipReturns \/ EndReturns \/ CleanupReturns
    BY <1>9, <1>10 DEF WaitReturns, SkipReturns, EndReturns, CleanupReturns
  <1>11. CASE WaitOneReturns
    BY <1>3, <1>11 DEF WaitOneReturns, Done, childVars
  <1>12. ASSUME NEW p \in Procs, Exit(p) \/ Reap(p) PROVE OutputComplete'
    <2>1. /\ UNCHANGED stdout
          /\ \A q \in Procs : state[q] = "reaped" => state'[q] = "reaped"
      BY <1>12, <1>a DEF Exit, Reap, ioVars
    <2> QED BY <1>1, <2>1
  <1> QED
    BY <1>4, <1>5, <1>6, <1>7, <1>8, <1>10, <1>11, <1>12 DEF Striking

\* The output of a running process is never looked at, and that of several is in
\* the order in which they were started.
THEOREM OutputIsComplete == Spec => []OutputComplete
  <1>1. Init => OutputInv
    BY DEF Init, OutputInv, InOrder, OutputComplete
  <1>2. TrackInv /\ OutputInv /\ [Next]_vars => OutputInv'
    BY InOrderStep, OutputStep DEF OutputInv
  <1>3. OutputInv => OutputComplete
    BY DEF OutputInv
  <1> QED
    BY TrackInvariance, <1>1, <1>2, <1>3, PTL DEF Spec

-----------------------------------------------------------------------------
(* Input: what is pending was not given to anybody yet, but to the process *)
(* in the foreground, which leaves it set until it is done.                *)

Pending(n) == n # 0 /\ n \in {stdin, tty.in}

InputInv ==
  /\ stdin <= lines /\ tty.in <= lines
  /\ stdin # 0 => ~tty.stdin
  /\ \A p \in Procs : /\ fed[p] <= lines
                      /\ state[p] = "unused" => fed[p] = 0
                      /\ Pending(fed[p]) => Foreground(p)
  /\ \A p, q \in Procs : fed[p] = fed[q] /\ fed[p] # 0 => p = q

\* Pending input stays with who has it while the processes stay as they are.
LEMMA InputStays ==
  ASSUME TypeInv, InputInv, UNCHANGED <<state, fed>>, CalmInput,
         \/ pc # "exec"
         \/ UNCHANGED <<pc, current, stdin, tty>>
  PROVE  InputInv'
  <1>a. /\ lines \in Nat /\ stdin \in Nat /\ tty \in TtyStates /\ tty.in \in Nat
        /\ tty.stdin \in BOOLEAN /\ \A p \in Procs : fed[p] \in Nat
    BY ScriptAssumption DEF TypeInv, TypeOK, ControlTypes, IOTypes, TtyStates
  <1>b. /\ \A p \in Procs : fed[p] <= lines /\ (state[p] = "unused" => fed[p] = 0)
        /\ \A p, q \in Procs : fed[p] = fed[q] /\ fed[p] # 0 => p = q
        /\ \A p \in Procs : Pending(fed[p]) => Foreground(p)
        /\ stdin <= lines /\ tty.in <= lines /\ (stdin # 0 => ~tty.stdin)
    BY DEF InputInv
  <1>1. lines' \in {lines, lines + 1} /\ \A p \in Procs : fed'[p] = fed[p] /\ state'[p] = state[p]
    BY DEF CalmInput
  <1>2. stdin' <= lines' /\ tty'.in <= lines' /\ (stdin' # 0 => ~tty'.stdin)
    BY <1>a, <1>b DEF CalmInput
  <1>3. \A p \in Procs : fed'[p] <= lines'
    BY <1>a, <1>b, <1>1
  <1>4. ASSUME NEW p \in Procs, Pending(fed[p])'
        PROVE  Foreground(p)'
    <2>1. CASE pc # "exec"
      <3>1. ~Pending(fed[p]) /\ fed[p] <= lines /\ fed'[p] = fed[p]
        BY <1>b, <1>1, <2>1 DEF Foreground
      <3>2. fed[p] # 0 /\ (stdin' = fed[p] \/ tty'.in = fed[p])
        BY <1>4, <3>1 DEF Pending
      <3>3. stdin # fed[p] /\ tty.in # fed[p]
        BY <3>1, <3>2 DEF Pending
      <3>4. fed[p] # lines + 1
        BY <1>a, <3>1
      <3> QED BY <3>2, <3>3, <3>4 DEF CalmInput
    <2>2. CASE UNCHANGED <<pc, current, stdin, tty>>
      <3>1. Pending(fed[p])
        BY <1>1, <1>4, <2>2 DEF Pending
      <3> QED BY <1>b, <2>2, <3>1 DEF Foreground
    <2> QED BY <2>1, <2>2
  <1> QED BY <1>b, <1>1, <1>2, <1>3, <1>4 DEF InputInv

\* A process that is started gets what is pending, which nobody had before.
LEMMA InputGiven ==
  ASSUME TypeInv, InputInv, pc = "loop", NEW p \in Procs, NEW n \in Nat,
         state[p] = "unused", state' = [state EXCEPT ![p] = "alive"],
         fed' = [fed EXCEPT ![p] = n], n = 0 \/ Pending(n)
  PROVE  /\ \A q \in Procs : q # p => /\ fed'[q] = fed[q] /\ ~Pending(fed[q])
                                      /\ state'[q] = state[q]
         /\ fed'[p] = n /\ state'[p] = "alive" /\ n <= lines
         /\ \A r, q \in Procs : fed'[r] = fed'[q] /\ fed'[r] # 0 => r = q
  <1>1. /\ \A q \in Procs : q # p => fed'[q] = fed[q] /\ state'[q] = state[q]
        /\ fed'[p] = n /\ state'[p] = "alive"
    BY DEF TypeInv, TypeOK, IOTypes, ChildTypes
  <1>2. \A q \in Procs : ~Pending(fed[q])
    BY DEF InputInv, Foreground
  <1>3. n <= lines
    BY ScriptAssumption DEF InputInv, Pending, TypeInv, TypeOK, ControlTypes
  <1>4. \A q \in Procs : fed[q] = n => n = 0
    BY <1>2
  <1>5. \A r, q \in Procs : fed'[r] = fed'[q] /\ fed'[r] # 0 => r = q
    <2> SUFFICES ASSUME NEW r \in Procs, NEW q \in Procs, fed'[r] = fed'[q], fed'[r] # 0
                 PROVE  r = q
      OBVIOUS
    <2>1. CASE r = p
      BY <1>1, <1>4, <2>1
    <2>2. CASE q = p
      BY <1>1, <1>4, <2>2
    <2>3. CASE r # p /\ q # p
      <3>1. fed[r] = fed[q] /\ fed[r] # 0
        BY <1>1, <2>3
      <3> QED BY <3>1 DEF InputInv
    <2> QED BY <2>1, <2>2, <2>3
  <1> QED BY <1>1, <1>2, <1>3, <1>5

\* No input is pending twice.
LEMMA InputStep == TypeInv /\ InputInv /\ [Next]_vars => InputInv'
  <1> SUFFICES ASSUME TypeInv, InputInv, Calm \/ Striking PROVE InputInv'
    BY CalmOrStriking
  <1>a. /\ lines \in Nat /\ stdin \in Nat /\ tty \in TtyStates /\ tty.in \in Nat
        /\ tty.stdin \in BOOLEAN /\ \A p \in Procs : fed[p] \in Nat
        /\ state \in [Procs -> {"unused", "alive", "zombie", "reaped"}]
    BY ScriptAssumption DEF TypeInv, TypeOK, ControlTypes, ChildTypes, IOTypes, TtyStates
  <1>b. /\ \A p \in Procs : fed[p] <= lines /\ (state[p] = "unused" => fed[p] = 0)
        /\ \A p, q \in Procs : fed[p] = fed[q] /\ fed[p] # 0 => p = q
        /\ \A p \in Procs : Pending(fed[p]) => Foreground(p)
        /\ stdin <= lines /\ tty.in <= lines /\ (stdin # 0 => ~tty.stdin)
    BY DEF InputInv
  <1>1. ASSUME UNCHANGED <<state, fed, lines, stdin, tty>>, pc # "exec"
        PROVE  InputInv'
    <2>1. CalmInput
      BY <1>1 DEF CalmInput
    <2> QED BY <1>1, <2>1, InputStays
  <1>2. CASE Calm
    BY <1>2, InputStays DEF Calm, CalmChildren, CalmControl
  <1>3. ASSUME NEW p \in Procs, NEW neg \in BOOLEAN, ExecStarts(p, neg) PROVE InputInv'
    <2> DEFINE n == IF tty.in # 0 /\ tty.stdin THEN tty.in ELSE stdin
    <2>1. /\ pc = "loop" /\ pc' = "exec" /\ current'.proc = p /\ lines' = lines + 1
          /\ state[p] = "unused" /\ state' = [state EXCEPT ![p] = "alive"]
          /\ fed' = [fed EXCEPT ![p] = n] /\ UNCHANGED <<stdin, tty>>
      BY <1>3 DEF ExecStarts, Start, Fresh, Line, Blocked
    <2>2. n \in Nat /\ (n = 0 \/ Pending(n))
      BY <1>a DEF Pending
    <2> HIDE DEF n
    <2>3. /\ \A q \in Procs : q # p => fed'[q] = fed[q] /\ ~Pending(fed[q]) /\ state'[q] = state[q]
          /\ fed'[p] = n /\ state'[p] = "alive" /\ n <= lines
          /\ \A r, q \in Procs : fed'[r] = fed'[q] /\ fed'[r] # 0 => r = q
      BY <2>1, <2>2, InputGiven
    <2>4. Foreground(p)'
      BY <2>1 DEF Foreground
    <2>5. \A q \in Procs : Pending(fed[q])' => Foreground(q)'
      BY <2>1, <2>3, <2>4 DEF Pending
    <2>6. \A q \in Procs : fed'[q] <= lines' /\ (state'[q] = "unused" => fed'[q] = 0)
      BY <1>a, <1>b, <2>1, <2>2, <2>3
    <2>7. stdin' <= lines' /\ tty'.in <= lines' /\ (stdin' # 0 => ~tty'.stdin)
      BY <1>a, <1>b, <2>1
    <2> QED BY <2>3, <2>5, <2>6, <2>7 DEF InputInv
  <1>4. ASSUME NEW p \in Procs, NEW n \in Names \cup {Unnamed}, NEW neg \in BOOLEAN,
               BackgroundStarts(p, n, neg)
        PROVE  InputInv'
    <2>1. /\ pc = "loop" /\ lines' = lines + 1 /\ tty.in = 0 /\ tty' = tty /\ stdin' = 0
          /\ state[p] = "unused" /\ state' = [state EXCEPT ![p] = "alive"]
          /\ fed' = [fed EXCEPT ![p] = stdin]
      BY <1>4 DEF BackgroundStarts, Start, Fresh, Line
    <2>2. stdin = 0 \/ Pending(stdin)
      BY DEF Pending
    <2>3. /\ \A q \in Procs : q # p => fed'[q] = fed[q] /\ ~Pending(fed[q]) /\ state'[q] = state[q]
          /\ fed'[p] = stdin /\ state'[p] = "alive"
          /\ \A r, q \in Procs : fed'[r] = fed'[q] /\ fed'[r] # 0 => r = q
      BY <1>a, <2>1, <2>2, InputGiven
    <2>4. \A q \in Procs : ~Pending(fed[q])'
      BY <2>1 DEF Pending
    <2>5. \A q \in Procs : fed'[q] <= lines' /\ (state'[q] = "unused" => fed'[q] = 0)
      BY <1>a, <1>b, <2>1, <2>3
    <2>6. stdin' <= lines' /\ tty'.in <= lines' /\ (stdin' # 0 => ~tty'.stdin)
      BY <1>a, <1>b, <2>1
    <2> QED BY <2>3, <2>4, <2>5, <2>6 DEF InputInv
  <1>5. CASE ExecReturns
    <2>1. /\ stdin' = 0 /\ tty'.in = 0 /\ ~tty'.stdin /\ UNCHANGED <<lines, state, fed>>
      BY <1>5 DEF ExecReturns, AfterExec, childVars
    <2>2. \A q \in Procs : ~Pending(fed[q])'
      BY <2>1 DEF Pending
    <2> QED BY <1>a, <1>b, <2>1, <2>2 DEF InputInv
  <1>6. CASE WaitNext
    BY <1>1, <1>6, WaitNextDoes DEF childVars, ioVars
  <1>7. ASSUME NEW then, WaitedAll(then) PROVE InputInv'
    BY <1>1, <1>7 DEF WaitedAll, childVars
  <1>8. CASE WaitReturns \/ SkipReturns \/ EndReturns \/ CleanupReturns
    BY <1>7, <1>8 DEF WaitReturns, SkipReturns, EndReturns, CleanupReturns
  <1>9. CASE WaitOneReturns
    BY <1>1, <1>9 DEF WaitOneReturns, childVars
  <1>10. ASSUME NEW p \in Procs, Exit(p) \/ Reap(p) PROVE InputInv'
    <2>1. /\ UNCHANGED <<pc, current, lines, stdin, tty, fed>> /\ state[p] # "unused"
          /\ \A q \in Procs : q # p => state'[q] = state[q]
      BY <1>10, <1>a DEF Exit, Reap, controlVars, ioVars
    <2>2. \A q \in Procs : Pending(fed[q])' => Foreground(q)'
      BY <1>b, <2>1 DEF Pending, Foreground
    <2>3. \A q \in Procs : state'[q] = "unused" => fed'[q] = 0
      BY <1>a, <1>b, <1>10, <2>1 DEF Exit, Reap
    <2> QED BY <1>b, <2>1, <2>2, <2>3 DEF InputInv
  <1> QED
    BY <1>2, <1>3, <1>4, <1>5, <1>6, <1>8, <1>9, <1>10 DEF Striking

\* What stdin or ttyin -stdin provides reaches one process at most.
THEOREM InputReachesOnce == Spec => []InputOnce
  <1>1. Init => InputInv
    BY DEF Init, InputInv, Pending
  <1>2. InputInv => InputOnce
    BY DEF InputInv, InputOnce, Pending
  <1> QED
    BY TypeInvariance, InputStep, <1>1, <1>2, PTL DEF Spec

-----------------------------------------------------------------------------
(* Status: until the end of the script begins, a process that is neither   *)
(* in ts.background nor in the foreground ended as its line asked, or a    *)
(* line failed.                                                            *)

\* The process ended as its line asked.
AsAsked(p) == success[p] = ~expectFail[p]

\* The processes that are neither in ts.background nor in the foreground.
Gone(p) == state[p] # "unused" /\ p \notin BackgroundProcs /\ ~Foreground(p)

StatusInv ==
  /\ \A i \in 1 .. Len(background) : background[i].neg = expectFail[background[i].proc]
  /\ pc = "exec" => current.neg = expectFail[current.proc]
  /\ \A p \in Procs : "QUIT" \in signals[p] => expired
  /\ pc = "wait" /\ current.then \in {"wait", "skip"} =>
       /\ current.check
       /\ \A i \in 1 .. Len(background) : i < current.index => AsAsked(background[i].proc)
  /\ verdict = "skip" => background = <<>> /\ pc # "exec"
  /\ (Checking \/ verdict = "skip") /\ failedIn = {} => \A p \in Procs : Gone(p) => AsAsked(p)

\* A calm step disturbs no process that is gone, and no wait.
LEMMA StatusCalm == TrackInv /\ StatusInv /\ Calm => StatusInv'
  <1> SUFFICES ASSUME TrackInv, StatusInv, Calm PROVE StatusInv'
    OBVIOUS
  <1>1. /\ UNCHANGED <<state, success, expectFail, background>>
        /\ expired => expired'
        /\ \A p \in Procs : "QUIT" \in signals'[p] => "QUIT" \in signals[p] \/ expired
    BY DEF Calm, CalmChildren
  <1>2. CalmControl
    BY DEF Calm
  <1>3. /\ \A i \in 1 .. Len(background') : background'[i].neg = expectFail'[background'[i].proc]
        /\ \A p \in Procs : "QUIT" \in signals'[p] => expired'
    BY <1>1 DEF StatusInv
  <1>4. pc' = "exec" => current'.neg = expectFail'[current'.proc]
    BY <1>1, <1>2 DEF StatusInv, CalmControl
  <1>5. ASSUME pc' = "wait", current'.then \in {"wait", "skip"}
        PROVE  /\ current'.check
               /\ \A i \in 1 .. Len(background') : i < current'.index => AsAsked(background[i].proc)'
    <2>1. CASE UNCHANGED <<pc, current>>
      BY <1>1, <1>5, <2>1 DEF StatusInv, AsAsked
    <2>2. CASE current'.index = 1 /\ current'.check
      <3>1. \A i \in 1 .. Len(background') : ~(i < current'.index)
        BY <2>2
      <3> QED BY <2>2, <3>1
    <2> QED BY <1>2, <1>5, <2>1, <2>2 DEF CalmControl
  <1>6. verdict' = "skip" => background' = <<>> /\ pc' # "exec"
    BY <1>1, <1>2 DEF StatusInv, CalmControl
  <1>7. ASSUME (Checking \/ verdict = "skip")', failedIn' = {}, NEW p \in Procs, Gone(p)'
        PROVE  AsAsked(p)'
    <2>1. (Checking \/ verdict = "skip") /\ failedIn = {}
      BY <1>2, <1>7 DEF CalmControl
    <2>2. Foreground(p) => Foreground(p)'
      BY <1>2 DEF Foreground, CalmControl
    <2>3. Gone(p)
      BY <1>1, <1>7, <2>2 DEF Gone, BackgroundProcs
    <2>4. AsAsked(p)
      BY <2>1, <2>3 DEF StatusInv
    <2> QED BY <1>1, <2>4 DEF AsAsked
  <1> QED BY <1>3, <1>4, <1>5, <1>6, <1>7 DEF StatusInv

\* A script that is running commands has not skipped.
LEMMA RunningIsNotOver ==
  ASSUME VerdictInv, pc \in {"loop", "exec", "waitOne"} \/ (pc = "wait" /\ current.then # "cleanup")
  PROVE  verdict = "none"
  BY DEF VerdictInv, Unwinding

\* A status that is not unexpected is as asked.
LEMMA ExpectedAsAsked ==
  ASSUME TrackInv, StatusInv, NEW i \in 1 .. Len(background), ~Unexpected(background[i])
  PROVE  AsAsked(background[i].proc)
  <1>1. /\ background[i].neg = expectFail[background[i].proc] /\ background[i].neg \in BOOLEAN
        /\ success[background[i].proc] \in BOOLEAN
    BY BackgroundType DEF StatusInv, TrackInv, TypeInv, TypeOK, ChildTypes
  <1> QED BY <1>1 DEF Unexpected, AsAsked

\* A process that is started is neither gone nor makes another one so.
LEMMA StatusStarts ==
  ASSUME TrackInv, NEW p \in Procs, NEW neg \in BOOLEAN, Start(p, neg)
  PROVE  /\ \A q \in Procs : q # p => /\ state'[q] = state[q] /\ expectFail'[q] = expectFail[q]
                                      /\ AsAsked(q)' = AsAsked(q)
         /\ expectFail'[p] = neg /\ UNCHANGED signals
         /\ \A i \in 1 .. Len(background) : background[i].proc \in Procs /\ background[i].proc # p
  <1>1. /\ state[p] = "unused" /\ state' = [state EXCEPT ![p] = "alive"]
        /\ expectFail' = [expectFail EXCEPT ![p] = neg] /\ UNCHANGED <<success, signals>>
    BY DEF Start, Fresh
  <1>2. ChildTypes
    BY DEF TrackInv, TypeInv, TypeOK
  <1>3. \A q \in Procs : q # p => state'[q] = state[q] /\ expectFail'[q] = expectFail[q]
    BY <1>1, <1>2 DEF ChildTypes
  <1>4. expectFail'[p] = neg
    BY <1>1, <1>2 DEF ChildTypes
  <1>5. \A i \in 1 .. Len(background) : background[i].proc \in Procs /\ background[i].proc # p
    BY <1>1, <1>2, BackgroundType DEF TrackInv, Started
  <1>6. \A q \in Procs : q # p => AsAsked(q)' = AsAsked(q)
    BY <1>1, <1>3 DEF AsAsked
  <1> QED BY <1>1, <1>3, <1>4, <1>5, <1>6

\* A process that leaves ts.background by wait or skip was checked.
LEMMA StatusWaited ==
  ASSUME TrackInv, StatusInv, NEW then \in {"wait", "skip"}, WaitedAll(then),
         pc' \notin {"exec", "wait"}, UNCHANGED failedIn,
         VerdictInv
  PROVE  StatusInv'
  <1>1. /\ \A i \in 1 .. Len(background) : i < current.index /\ state[background[i].proc] = "reaped"
        /\ background' = <<>> /\ BackgroundProcs' = {} /\ UNCHANGED <<state, success, signals, expectFail>>
        /\ pc = "wait" /\ current.then = then
    BY ListReaped DEF childVars
  <1>2. expired' = expired /\ verdict = "none" /\ Checking
    BY <1>1, RunningIsNotOver DEF WaitedAll, Checking
  <1>3. \A i \in 1 .. Len(background) : AsAsked(background[i].proc)
    BY <1>1 DEF StatusInv
  <1>4. ASSUME failedIn = {}, NEW p \in Procs, Gone(p)'
        PROVE  AsAsked(p)'
    <2>1. state[p] # "unused" /\ ~Foreground(p)
      BY <1>1, <1>4 DEF Gone, Foreground
    <2>2. CASE p \in BackgroundProcs
      <3>1. AsAsked(p)
        BY <1>3, <2>2 DEF BackgroundProcs
      <3> QED BY <1>1, <3>1 DEF AsAsked
    <2>3. CASE p \notin BackgroundProcs
      <3>1. AsAsked(p)
        BY <1>2, <1>4, <2>1, <2>3 DEF StatusInv, Gone
      <3> QED BY <1>1, <3>1 DEF AsAsked
    <2> QED BY <2>2, <2>3
  <1>5. \A i \in 1 .. Len(background') : FALSE
    BY <1>1
  <1>6. \A p \in Procs : "QUIT" \in signals'[p] => expired'
    BY <1>1, <1>2 DEF StatusInv
  <1> QED BY <1>1, <1>4, <1>5, <1>6 DEF StatusInv

\* No process escapes the check of its status before a skip.
LEMMA StatusStep ==
  TypeInv /\ TrackInv /\ LogInv /\ VerdictInv /\ StatusInv /\ [Next]_vars => StatusInv'
  <1> SUFFICES ASSUME TrackInv, LogInv, VerdictInv, StatusInv, Calm \/ Striking
               PROVE  StatusInv'
    BY CalmOrStriking
  <1>a. /\ ChildTypes /\ Len(background) \in Nat /\ phase \in Nat
        /\ state \in [Procs -> {"unused", "alive", "zombie", "reaped"}]
        /\ success \in [Procs -> BOOLEAN] /\ expectFail \in [Procs -> BOOLEAN]
        /\ \A i \in 1 .. Len(background) : background[i].proc \in Procs
    BY BackgroundType DEF TrackInv, TypeInv, TypeOK, ChildTypes, LogTypes
  <1>b. /\ \A i \in 1 .. Len(background) : background[i].neg = expectFail[background[i].proc]
        /\ \A p \in Procs : "QUIT" \in signals[p] => expired
        /\ \A p \in Procs : Checking /\ failedIn = {} /\ Gone(p) => AsAsked(p)
    BY DEF StatusInv
  <1>1. CASE Calm
    BY <1>1, StatusCalm
  <1>2. ASSUME NEW p \in Procs, NEW neg \in BOOLEAN, ExecStarts(p, neg) PROVE StatusInv'
    <2>1. /\ pc = "loop" /\ pc' = "exec" /\ current'.proc = p /\ current'.neg = neg
          /\ UNCHANGED <<verdict, failedIn, background, expired>> /\ Start(p, neg)
      BY <1>2 DEF ExecStarts, Line, Blocked, failVars
    <2>2. /\ \A q \in Procs : q # p => /\ state'[q] = state[q] /\ expectFail'[q] = expectFail[q]
                                       /\ AsAsked(q)' = AsAsked(q)
          /\ expectFail'[p] = neg /\ UNCHANGED signals
          /\ \A i \in 1 .. Len(background) : background[i].proc \in Procs /\ background[i].proc # p
      BY <2>1, StatusStarts
    <2>3. verdict = "none" /\ Checking
      BY <2>1, RunningIsNotOver DEF Checking
    <2>4. ASSUME failedIn = {}, NEW q \in Procs, Gone(q)'
          PROVE  AsAsked(q)'
      <3>1. q # p
        BY <2>1, <2>4 DEF Gone, Foreground
      <3>2. Gone(q)
        BY <2>1, <2>2, <2>4, <3>1 DEF Gone, Foreground, BackgroundProcs
      <3> QED BY <1>b, <2>2, <2>3, <2>4, <3>1, <3>2
    <2>5. \A i \in 1 .. Len(background') : background'[i].neg = expectFail'[background'[i].proc]
      BY <1>b, <2>1, <2>2
    <2> QED BY <1>b, <2>1, <2>2, <2>3, <2>4, <2>5 DEF StatusInv
  <1>3. CASE ExecReturns
    <2> DEFINE p == current.proc
               ok == IF ~success[p] \/ "QUIT" \in signals[p] THEN current.neg /\ ~expired
                                                             ELSE ~current.neg
    <2>1. /\ pc = "exec" /\ state[p] = "reaped" /\ Outcome(ok)
          /\ UNCHANGED <<state, success, signals, expectFail, background, expired>>
      BY <1>3 DEF ExecReturns, childVars
    <2>2. p \in Procs /\ current.neg = expectFail[p]
      BY <2>1 DEF StatusInv, TrackInv, TypeInv, ControlInv
    <2>3. ok => AsAsked(p)
      BY <1>a, <1>b, <2>2 DEF AsAsked
    <2> HIDE DEF p
    <2>4. verdict = "none" /\ Checking
      BY <2>1, RunningIsNotOver DEF Checking
    <2>5. /\ pc' \in {"loop", "updates"} /\ verdict' \in {verdict, "fail"}
          /\ failedIn' = {} => ok /\ failedIn = {}
      BY <2>1 DEF Outcome, Proceed, Fatalf, FatalfSetting, failVars
    <2> HIDE DEF ok
    <2>6. ASSUME failedIn' = {}, NEW q \in Procs, Gone(q)'
          PROVE  AsAsked(q)'
      <3>1. q # p => Gone(q)
        BY <2>1, <2>6 DEF Gone, Foreground, BackgroundProcs, p
      <3>2. AsAsked(q)
        BY <1>b, <2>3, <2>4, <2>5, <2>6, <3>1
      <3> QED BY <2>1, <3>2 DEF AsAsked
    <2> QED BY <1>b, <2>1, <2>4, <2>5, <2>6 DEF StatusInv
  <1>4. ASSUME NEW p \in Procs, NEW n \in Names \cup {Unnamed}, NEW neg \in BOOLEAN,
               BackgroundStarts(p, n, neg)
        PROVE  StatusInv'
    <2> DEFINE b == [name |-> n, proc |-> p, neg |-> neg]
    <2>1. /\ pc = "loop" /\ pc' = "loop" /\ background' = Append(background, b)
          /\ UNCHANGED <<verdict, failedIn, expired>> /\ Start(p, neg)
      BY <1>4 DEF BackgroundStarts, Line, Proceed, failVars
    <2>2. b \in Background /\ b.proc = p /\ b.neg = neg
      BY DEF Background
    <2> HIDE DEF b
    <2>3. /\ \A q \in Procs : q # p => /\ state'[q] = state[q] /\ expectFail'[q] = expectFail[q]
                                       /\ AsAsked(q)' = AsAsked(q)
          /\ expectFail'[p] = neg /\ UNCHANGED signals
          /\ \A i \in 1 .. Len(background) : background[i].proc \in Procs /\ background[i].proc # p
      BY <2>1, StatusStarts
    <2>4. /\ Len(background') = Len(background) + 1
          /\ \A i \in 1 .. Len(background) : background'[i] = background[i]
          /\ background'[Len(background) + 1] = b
          /\ BackgroundProcs' = BackgroundProcs \cup {p}
      BY <1>a, <2>1, <2>2, AppendDoes
    <2>5. verdict = "none" /\ Checking
      BY <2>1, RunningIsNotOver DEF Checking
    <2>6. ASSUME failedIn = {}, NEW q \in Procs, Gone(q)'
          PROVE  AsAsked(q)'
      <3>1. q # p /\ q \notin BackgroundProcs
        BY <2>4, <2>6 DEF Gone
      <3>2. Gone(q)
        BY <2>1, <2>3, <2>6, <3>1 DEF Gone, Foreground
      <3> QED BY <1>b, <2>3, <2>5, <2>6, <3>1, <3>2
    <2>7. \A i \in 1 .. Len(background') : background'[i].neg = expectFail'[background'[i].proc]
      <3> SUFFICES ASSUME NEW i \in 1 .. Len(background')
                   PROVE  background'[i].neg = expectFail'[background'[i].proc]
        OBVIOUS
      <3>1. CASE i = Len(background) + 1
        BY <2>2, <2>3, <2>4, <3>1
      <3>2. CASE i # Len(background) + 1
        <4>1. i \in 1 .. Len(background)
          BY <1>a, <2>4, <3>2
        <4> QED BY <1>b, <2>3, <2>4, <4>1
      <3> QED BY <3>1, <3>2
    <2> QED BY <1>b, <2>1, <2>3, <2>5, <2>6, <2>7 DEF StatusInv
  <1>5. CASE WaitNext
    <2> DEFINE k == current.index
    <2>1. /\ pc = "wait" /\ k \in 1 .. Len(background)
          /\ UNCHANGED <<state, success, signals, expectFail, background, expired>>
      BY <1>5, WaitNextDoes DEF TrackInv, childVars
    <2> HIDE DEF k
    <2>3. CASE pc' \in {"loop", "updates"} /\ verdict' \in {verdict, "fail"} /\ phase \in failedIn'
      <3>1. verdict # "skip"
        <4>1. verdict = "skip" => background = <<>>
          BY DEF StatusInv
        <4> QED BY <2>1, <4>1
      <3> QED BY <1>b, <2>1, <2>3, <3>1 DEF StatusInv
    <2>4. CASE /\ pc' = "wait" /\ UNCHANGED <<verdict, failedIn>>
               /\ current'.index = k + 1 /\ current'.then = current.then
               /\ current'.check = current.check
               /\ current.check => ~Unexpected(background[k])
      <3>1. ASSUME current'.then \in {"wait", "skip"}
            PROVE  /\ current'.check
                   /\ \A i \in 1 .. Len(background') : i < current'.index => AsAsked(background[i].proc)'
        <4>1. current.check /\ \A i \in 1 .. Len(background) : i < k => AsAsked(background[i].proc)
          BY <2>1, <2>4, <3>1 DEF StatusInv, k
        <4>2. AsAsked(background[k].proc)
          BY <2>1, <2>4, <4>1, ExpectedAsAsked
        <4>3. ASSUME NEW i \in 1 .. Len(background), i < k + 1
              PROVE  AsAsked(background[i].proc)
          <5>1. i < k \/ i = k
            BY <2>1, <4>3
          <5> QED BY <4>1, <4>2, <5>1
        <4> QED BY <2>1, <2>4, <4>1, <4>3 DEF AsAsked
      <3>2. verdict' = "skip" => background' = <<>> /\ pc' # "exec"
        BY <2>1, <2>4 DEF StatusInv
      <3>3. (Checking' => Checking) /\ \A q \in Procs : Gone(q)' => Gone(q)
        BY <2>1, <2>4 DEF Checking, Gone, Foreground, BackgroundProcs
      <3>4. ASSUME (Checking \/ verdict = "skip")', failedIn' = {}, NEW q \in Procs, Gone(q)'
            PROVE  AsAsked(q)'
        BY <2>1, <2>4, <3>3, <3>4 DEF StatusInv, AsAsked
      <3> QED BY <1>b, <2>1, <2>4, <3>1, <3>2, <3>4 DEF StatusInv
    <2> QED BY <1>5, <2>3, <2>4, WaitNextDoes DEF TrackInv, k
  <1>6. CASE WaitReturns
    BY <1>6, StatusWaited DEF WaitReturns, Proceed, failVars
  <1>7. CASE SkipReturns
    BY <1>7, StatusWaited DEF SkipReturns, failVars
  <1>8. CASE EndReturns
    <2>1. /\ background' = <<>> /\ UNCHANGED <<signals, expired>> /\ pc' = "updates"
          /\ verdict' \in {"pass", "fail"}
      BY <1>8 DEF EndReturns, WaitedAll, EndVerdict, childVars
    <2> QED BY <1>b, <2>1 DEF StatusInv, Checking
  <1>9. CASE CleanupReturns
    <2>1. /\ background' = <<>> /\ UNCHANGED <<state, success, expectFail, signals, expired>>
          /\ pc = "wait" /\ current.then = "cleanup" /\ pc' = "flush" /\ UNCHANGED <<verdict, failedIn>>
      BY <1>9 DEF CleanupReturns, WaitedAll, childVars, failVars
    <2>2. verdict # "none"
      BY <2>1 DEF VerdictInv, Unwinding
    <2>3. ASSUME verdict = "skip", failedIn = {}, NEW q \in Procs, Gone(q)'
          PROVE  AsAsked(q)'
      <3>1. Gone(q)
        BY <2>1, <2>3 DEF Gone, Foreground, BackgroundProcs, StatusInv
      <3>2. AsAsked(q)
        BY <2>3, <3>1 DEF StatusInv
      <3> QED BY <2>1, <3>2 DEF AsAsked
    <2> QED BY <1>b, <2>1, <2>2, <2>3 DEF StatusInv, Checking
  <1>10. CASE WaitOneReturns
    <2> DEFINE k == current.index
    <2>1. /\ pc = "waitOne" /\ k \in 1 .. Len(background)
          /\ UNCHANGED <<state, success, signals, expectFail, expired>>
      BY <1>10 DEF WaitOneReturns, childVars, TrackInv, TypeInv, ControlInv
    <2>2. verdict = "none" /\ Checking
      BY <2>1, RunningIsNotOver DEF Checking
    <2>3. \A q \in Procs : AsAsked(q)' = AsAsked(q)
      BY <2>1 DEF AsAsked
    <2>4. CASE Unexpected(background[k])
      <3>1. Fatalf /\ UNCHANGED background
        BY <1>10, <2>4 DEF WaitOneReturns
      <3>2. pc' \in {"loop", "updates"} /\ verdict' \in {"none", "fail"} /\ phase \in failedIn'
        BY <2>2, <3>1 DEF Fatalf, FatalfSetting
      <3> QED BY <1>b, <2>1, <3>1, <3>2 DEF StatusInv
    <2>5. CASE ~Unexpected(background[k])
      <3>1. Proceed /\ background' = RemoveAt(background, k)
        BY <1>10, <2>5 DEF WaitOneReturns
      <3>2. pc' = "loop" /\ UNCHANGED <<verdict, failedIn>>
        BY <3>1 DEF Proceed, failVars
      <3>3. AsAsked(background[k].proc)
        BY <2>1, <2>5, ExpectedAsAsked
      <3> HIDE DEF k
      <3>4. /\ \A j \in 1 .. Len(background') :
                 \E i \in 1 .. Len(background) :
                   background'[j] = background[i] /\ i = IF j < k THEN j ELSE j + 1
            /\ \A q \in BackgroundProcs : q # background[k].proc => q \in BackgroundProcs'
        BY <1>a, <2>1, <3>1, RemoveDoes
      <3>5. \A j \in 1 .. Len(background') : background'[j].neg = expectFail'[background'[j].proc]
        BY <1>b, <2>1, <3>4
      <3>6. ASSUME failedIn = {}, NEW q \in Procs, Gone(q)'
            PROVE  AsAsked(q)'
        <4>1. CASE q = background[k].proc
          BY <2>3, <3>3, <4>1
        <4>2. CASE q # background[k].proc
          <5>1. Gone(q)
            BY <2>1, <3>4, <3>6, <4>2 DEF Gone, Foreground
          <5> QED BY <1>b, <2>2, <2>3, <3>6, <5>1
        <4> QED BY <4>1, <4>2
      <3> QED BY <1>b, <2>1, <2>2, <3>2, <3>5, <3>6 DEF StatusInv
    <2> QED BY <2>4, <2>5
  <1>11. ASSUME NEW p \in Procs, Exit(p) \/ Reap(p) PROVE StatusInv'
    <2>1. /\ UNCHANGED <<pc, current, verdict, failedIn, background, signals, expectFail, expired>>
          /\ \A q \in Procs : q # p => state'[q] = state[q] /\ success'[q] = success[q]
          /\ Uncollected(p) /\ state'[p] # "unused"
      BY <1>11, <1>a DEF Exit, Reap, controlVars, failVars, Uncollected
    <2>2. \A q \in Procs : q # p => AsAsked(q)' = AsAsked(q)
      BY <2>1 DEF AsAsked
    <2>3. Foreground(p) \/ p \in BackgroundProcs
      BY <2>1 DEF TrackInv, NoOrphans
    <2>4. ASSUME NEW q \in Procs, Gone(q)'
          PROVE  q # p /\ Gone(q)
      BY <2>1, <2>3, <2>4 DEF Gone, Foreground, BackgroundProcs
    <2>5. ASSUME pc = "wait", NEW i \in 1 .. Len(background), i < current.index
          PROVE  background[i].proc # p
      <3>1. state[background[i].proc] = "reaped"
        BY <2>5 DEF TrackInv, WaitedFor
      <3> QED BY <2>1, <3>1 DEF Uncollected
    <2>6. ASSUME pc' = "wait", current'.then \in {"wait", "skip"}
          PROVE  /\ current'.check
                 /\ \A i \in 1 .. Len(background') : i < current'.index => AsAsked(background[i].proc)'
      BY <1>a, <2>1, <2>2, <2>5, <2>6 DEF StatusInv
    <2>7. ASSUME (Checking \/ verdict = "skip")', failedIn' = {}, NEW q \in Procs, Gone(q)'
          PROVE  AsAsked(q)'
      <3>1. (Checking \/ verdict = "skip") /\ failedIn = {}
        BY <2>1, <2>7 DEF Checking
      <3>2. AsAsked(q)
        BY <2>4, <2>7, <3>1 DEF StatusInv
      <3> QED BY <2>2, <2>4, <2>7, <3>2
    <2> QED BY <1>b, <2>1, <2>6, <2>7 DEF StatusInv
  <1> QED
    BY <1>1, <1>2, <1>3, <1>4, <1>5, <1>6, <1>7, <1>8, <1>9, <1>10, <1>11 DEF Striking

\* A script is skipped only if every process it started ended as its line asked, or a
\* line failed.
THEOREM SkipHasChecked == Spec => []SkipChecksStatus
  <1>1. Init => StatusInv
    BY DEF Init, StatusInv, Gone
  <1>2. TrackInv /\ StatusInv => SkipChecksStatus
    <2> SUFFICES ASSUME StatusInv, verdict = "skip", failedIn = {}, NEW p \in Procs, state[p] # "unused"
                 PROVE  AsAsked(p)
      BY DEF SkipChecksStatus, AsAsked
    <2>1. background = <<>> /\ pc # "exec"
      BY DEF StatusInv
    <2>2. Gone(p)
      BY <2>1 DEF Gone, BackgroundProcs, Foreground
    <2> QED BY <2>2 DEF StatusInv
  <1> QED
    BY TypeInvariance, TrackInvariance, LogVerdictInvariance, StatusStep, <1>1, <1>2, PTL DEF Spec
=============================================================================
