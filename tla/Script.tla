------------------------------- MODULE Script -------------------------------
(***************************************************************************)
(* testscript.TestScript.run: one goroutine reads a script line by line,   *)
(* runs its commands, and on any exit (end, stop, failure, skip) unwinds   *)
(* its deferred functions; the commands start child processes, in the      *)
(* foreground or in the background, that proceed on their own and that a   *)
(* deadline interrupts.  The script's text is the environment's choice:    *)
(* any command of its vocabulary may be the next line, with any outcome.   *)
(***************************************************************************)
EXTENDS Naturals, SequencesExt

CONSTANTS
  MaxLines,   \* bound: command lines and phase comments in a script
  MaxProcs,   \* bound: child processes a script starts
  Names,      \* names a background command may be given
  Runs        \* the runs considered: Params, the script's vocabulary and length

Procs == 1 .. MaxProcs    \* child processes, in the order they are started
Unnamed == ""             \* the name of a command started with a bare &
AllCommands == {"#", "exec", "exec&", "wait", "waitName", "kill", "killName",
                "skip", "stop", "stdin", "ttyin", "cmp", "custom", "other"}
AllRuns == [continueOnError : BOOLEAN, updateScripts : BOOLEAN, verbose : BOOLEAN,
            deadline : BOOLEAN, commands : SUBSET AllCommands, length : 0 .. MaxLines]

ASSUME ScriptAssumption ==
  /\ MaxLines \in Nat /\ MaxProcs \in Nat
  /\ Unnamed \notin Names
  /\ Runs \subseteq AllRuns

VARIABLES
  params,     \* Params of the run and bounds on its script, chosen once
  \* the script goroutine
  pc,         \* where it is
  lines,      \* lines read so far
  current,    \* the command it is blocked in
  stopped,    \* ts.stopped
  verdict,    \* what it told testing.T: "none", "pass", "fail", "skip"
  panicked,   \* a panic nothing recovered
  \* child processes
  state,      \* "unused", "alive", "zombie", "reaped" (and its wait channel closed)
  success,    \* ProcessState.Success()
  signals,    \* signals sent to the process
  expectFail, \* the command that started it was negated
  expired,    \* ts.ctxt.Err() # nil
  background, \* ts.background
  \* what commands leave for later ones
  stdout,     \* ts.stdout (and ts.stderr): whose output it is
  stdin,      \* ts.stdin: the line whose stdin command set it, 0 when ""
  tty,        \* [in: ts.ttyin, likewise; stdin: ts.stdinPty; out: whose ts.ttyout]
  fed,        \* the standard input each process got, as for stdin
  updates,    \* ts.scriptUpdates: "none", "pending", then "written" or "refused"
  \* the log, by phase
  phase,      \* phases started so far
  dirty,      \* ts.log.Len() > ts.mark
  kept,       \* earlier phases whose details are in the log
  loud,       \* the variable verbose of run
  lastBlockFailed,
  failedIn    \* phases in which a line failed; failed is failedIn # {}

controlVars == <<pc, lines, current, stopped, verdict, panicked>>
childVars == <<state, success, signals, expectFail>>
ioVars == <<stdout, stdin, tty, fed, updates>>
failVars == <<loud, lastBlockFailed, failedIn>>
logVars == <<phase, dirty, kept>>
vars == <<params, controlVars, childVars, expired, background, ioVars, failVars, logVars>>

Signals == {"INT", "QUIT", "KILL"}

\* What the script's goroutine is blocked in: the process of a foreground exec
\* and whether it should fail; or a position in ts.background, and for a wait
\* for all whether their status is checked and what called it.
Blocked(p, neg, i, check, then) ==
  [proc |-> p, neg |-> neg, index |-> i, check |-> check, then |-> then]
BlockedStates ==
  [proc : 0 .. MaxProcs, neg : BOOLEAN, index : Nat, check : BOOLEAN,
   then : {"none", "wait", "skip", "end", "cleanup"}]
NoCommand == Blocked(0, FALSE, 0, FALSE, "none")
Background == [name : Names \cup {Unnamed}, proc : Procs, neg : BOOLEAN]

ControlTypes ==
  /\ params \in Runs
  /\ pc \in {"setup", "loop", "exec", "wait", "waitOne", "end", "updates",
             "cleanup", "flush", "finished"}
  /\ lines \in 0 .. MaxLines
  /\ current \in BlockedStates
  /\ stopped \in BOOLEAN /\ panicked \in BOOLEAN
  /\ verdict \in {"none", "pass", "fail", "skip"}

ChildTypes ==
  /\ state \in [Procs -> {"unused", "alive", "zombie", "reaped"}]
  /\ success \in [Procs -> BOOLEAN]
  /\ signals \in [Procs -> SUBSET Signals]
  /\ expectFail \in [Procs -> BOOLEAN]
  /\ expired \in BOOLEAN
  /\ background \in Seq(Background)

IOTypes ==
  /\ stdout \in Seq(0 .. MaxProcs)
  /\ stdin \in 0 .. MaxLines
  /\ tty \in [in : 0 .. MaxLines, stdin : BOOLEAN, out : 0 .. MaxProcs]
  /\ fed \in [Procs -> 0 .. MaxLines]
  /\ updates \in {"none", "pending", "written", "refused"}

LogTypes ==
  /\ phase \in 0 .. MaxLines
  /\ dirty \in BOOLEAN /\ loud \in BOOLEAN /\ lastBlockFailed \in BOOLEAN
  /\ kept \subseteq 0 .. MaxLines
  /\ failedIn \subseteq 0 .. MaxLines

\* What each variable holds (testscript.go:341-417, cmd.go:245-255).
TypeOK == ControlTypes /\ ChildTypes /\ IOTypes /\ LogTypes

Init ==
  /\ params \in Runs
  /\ pc = "setup" /\ lines = 0 /\ current = NoCommand
  /\ stopped = FALSE /\ verdict = "none" /\ panicked = FALSE
  /\ state = [p \in Procs |-> "unused"]
  /\ success = [p \in Procs |-> FALSE]
  /\ signals = [p \in Procs |-> {}]
  /\ expectFail = [p \in Procs |-> FALSE]
  /\ expired = FALSE
  /\ background = <<>>
  /\ stdout = <<>> /\ stdin = 0 /\ tty = [in |-> 0, stdin |-> FALSE, out |-> 0]
  /\ fed = [p \in Procs |-> 0] /\ updates = "none"
  /\ phase = 0 /\ dirty = FALSE /\ kept = {}
  /\ loud = params.verbose /\ lastBlockFailed = FALSE /\ failedIn = {}

-----------------------------------------------------------------------------
(* The child processes, each with the goroutine that runs waitOrStop for   *)
(* it (module WaitOrStop), and the context's deadline.                     *)

Uncollected(p) == state[p] \in {"alive", "zombie"}

Deadline ==
  /\ params.deadline /\ ~expired
  /\ expired' = TRUE
  /\ UNCHANGED <<params, controlVars, childVars, background, ioVars, failVars, logVars>>

Exit(p) ==
  /\ state[p] = "alive"
  /\ state' = [state EXCEPT ![p] = "zombie"]
  /\ \E ok \in IF "KILL" \in signals[p] THEN {FALSE} ELSE BOOLEAN :
       success' = [success EXCEPT ![p] = ok]
  /\ UNCHANGED <<params, controlVars, signals, expectFail, expired, background,
                 ioVars, failVars, logVars>>

Reap(p) ==
  /\ state[p] = "zombie"
  /\ state' = [state EXCEPT ![p] = "reaped"]
  /\ UNCHANGED <<params, controlVars, success, signals, expectFail, expired, background,
                 ioVars, failVars, logVars>>

\* Only a foreground command has a positive killDelay, hence a KILL.
Foreground(p) == pc = "exec" /\ current.proc = p

\* A defect: the context is not passed to waitOrStop for background commands.
OverdueInForeground(p) == expired /\ Uncollected(p) /\ Foreground(p)

\* The helper goroutine of p's waitOrStop sees the context done.
Overdue(p) == expired /\ Uncollected(p)

DeadlineSignal(p) ==
  /\ Overdue(p)
  /\ \/ "QUIT" \notin signals[p] /\ signals' = [signals EXCEPT ![p] = @ \cup {"QUIT"}]
     \/ /\ Foreground(p) /\ "QUIT" \in signals[p] /\ "KILL" \notin signals[p]
        /\ signals' = [signals EXCEPT ![p] = @ \cup {"KILL"}]
  /\ UNCHANGED <<params, controlVars, state, success, expectFail, expired, background,
                 ioVars, failVars, logVars>>

\* interruptProcess for each of a set of processes: INT, and KILL should that
\* fail; a process already collected gets neither.
Interrupt(S) ==
  signals' = [p \in Procs |-> IF p \in S /\ Uncollected(p)
                                THEN signals[p] \cup {"INT"} ELSE signals[p]]

BackgroundProcs == {background[i].proc : i \in 1 .. Len(background)}

-----------------------------------------------------------------------------
(* How a line ends, for the command line being run.                        *)

\* The script goes on with the next line.
Proceed == pc' = "loop" /\ UNCHANGED <<verdict, failVars>>

\* Fatalf panics; runLine recovers it, and run goes on or calls t.FailNow.
FatalfSetting(verboseAfter) ==
  /\ failedIn' = failedIn \cup {phase}
  /\ lastBlockFailed' = TRUE
  /\ IF params.continueOnError
       THEN pc' = "loop" /\ loud' = verboseAfter /\ UNCHANGED verdict
       ELSE pc' = "updates" /\ verdict' = "fail" /\ UNCHANGED loud

\* A defect: the next rewind drops the details of the failure.
FatalfQuietly == FatalfSetting(loud)

Fatalf == FatalfSetting(TRUE)

\* A command that fails or does not.
Outcome(ok) == IF ok THEN Proceed ELSE Fatalf

\* The next line is command c; runLine echoes it to the log.
Line(c) ==
  /\ pc = "loop" /\ lines < params.length /\ c \in params.commands
  /\ lines' = lines + 1
  /\ dirty' = TRUE
  /\ UNCHANGED <<params, panicked, expired, phase, kept>>

-----------------------------------------------------------------------------
(* exec                                                                    *)

\* Processes are numbered in the order they are started.
Fresh(p) == state[p] = "unused" /\ \A q \in Procs : q < p => state[q] # "unused"

Start(p, neg) ==
  /\ Fresh(p)
  /\ state' = [state EXCEPT ![p] = "alive"]
  /\ expectFail' = [expectFail EXCEPT ![p] = neg]
  /\ UNCHANGED <<success, signals>>

\* A defect: the input stays for the next command.
AfterExecInputStays(out) ==
  /\ UNCHANGED stdin
  /\ tty' = [in |-> 0, stdin |-> FALSE, out |-> IF tty.in # 0 THEN out ELSE tty.out]

\* What an exec that got as far as starting its program leaves behind.
AfterExec(out) ==
  /\ stdin' = 0
  /\ tty' = [in |-> 0, stdin |-> FALSE, out |-> IF tty.in # 0 THEN out ELSE tty.out]

\* The program is not found or no terminal can be opened, and the input set
\* for it stays; or cmd.Start fails, and it does not.
ExecFails(neg) ==
  /\ Line("exec")
  /\ UNCHANGED <<stdin, tty>> \/ AfterExec(0)
  /\ stdout' = <<>>
  /\ Outcome(neg /\ ~expired)
  /\ UNCHANGED <<current, stopped, childVars, background, fed, updates>>

ExecStarts(p, neg) ==
  /\ Line("exec")
  /\ Start(p, neg)
  /\ fed' = [fed EXCEPT ![p] = IF tty.in # 0 /\ tty.stdin THEN tty.in ELSE stdin]
  /\ pc' = "exec" /\ current' = Blocked(p, neg, 0, FALSE, "none")
  /\ UNCHANGED <<stopped, verdict, background, stdout, stdin, tty, updates, failVars>>

\* waitOrStop returned: an error if the program failed or was interrupted.
ExecReturns ==
  /\ pc = "exec" /\ state[current.proc] = "reaped"
  /\ stdout' = <<current.proc>>
  /\ AfterExec(current.proc)
  /\ LET err == ~success[current.proc] \/ "QUIT" \in signals[current.proc]
     IN  Outcome(IF err THEN current.neg /\ ~expired ELSE ~current.neg)
  /\ current' = NoCommand
  /\ UNCHANGED <<params, lines, stopped, panicked, childVars, expired, background,
                 fed, updates, logVars>>

\* A defect: duplicates are not looked for.
NameNeverUsed(n) == FALSE

NameUsed(n) == n # Unnamed /\ \E i \in 1 .. Len(background) : background[i].name = n

BackgroundRefused(n) ==
  /\ Line("exec&") /\ NameUsed(n)
  /\ Fatalf
  /\ UNCHANGED <<current, stopped, childVars, background, ioVars>>

\* As ExecFails; a terminal input that was set is refused.
BackgroundFails(n, neg) ==
  /\ Line("exec&") /\ ~NameUsed(n)
  /\ stdin' = stdin \/ (tty.in = 0 /\ stdin' = 0)
  /\ stdout' = <<>>
  /\ Outcome(neg /\ ~expired)
  /\ UNCHANGED <<current, stopped, childVars, background, tty, fed, updates>>

BackgroundStarts(p, n, neg) ==
  /\ Line("exec&") /\ ~NameUsed(n) /\ tty.in = 0
  /\ Start(p, neg)
  /\ fed' = [fed EXCEPT ![p] = stdin] /\ stdin' = 0
  /\ background' = Append(background, [name |-> n, proc |-> p, neg |-> neg])
  /\ stdout' = <<>>
  /\ Proceed
  /\ UNCHANGED <<current, stopped, tty, updates>>

-----------------------------------------------------------------------------
(* wait, skip and the waits at the end of a run                            *)

\* A defect: the wait channel is closed as soon as the process was started.
DoneAtOnce(p) == state[p] # "unused"

\* <-bg.wait does not block: waitOrStop returned for p.
Done(p) == state[p] = "reaped"

\* The status of a background process is not the one its line asked for.
Unexpected(b) == IF success[b.proc] THEN b.neg ELSE expired \/ ~b.neg

\* waitBackground is called, after the processes of S were interrupted.
WaitAll(check, then, S) ==
  /\ Interrupt(S)
  /\ pc' = "wait"
  /\ current' = Blocked(0, FALSE, 1, check, then)
  /\ UNCHANGED <<state, success, expectFail, background, ioVars, failVars, verdict>>

Wait == Line("wait") /\ WaitAll(TRUE, "wait", {}) /\ UNCHANGED stopped

\* A defect: the status is ignored, as at the end of a run.
SkipUnchecked == Line("skip") /\ WaitAll(FALSE, "skip", BackgroundProcs) /\ UNCHANGED stopped

Skip == Line("skip") /\ WaitAll(TRUE, "skip", BackgroundProcs) /\ UNCHANGED stopped

\* The deferred wait of a run that did not fail is silent.
Silent == current.then = "cleanup" /\ ~params.verbose /\ failedIn = {}

\* The process at current.index is done, and its status as it should be.
WaitNext ==
  /\ pc = "wait" /\ current.index <= Len(background)
  /\ LET b == background[current.index] IN
       /\ Done(b.proc)
       /\ IF current.check /\ Unexpected(b)
            THEN Fatalf /\ current' = NoCommand
            ELSE /\ current' = [current EXCEPT !.index = @ + 1]
                 /\ UNCHANGED <<pc, verdict, failVars>>
  /\ dirty' = (dirty \/ ~Silent)
  /\ UNCHANGED <<params, lines, stopped, panicked, childVars, expired, background,
                 ioVars, phase, kept>>

\* The end of waitBackground, common to its callers.
WaitedAll(then) ==
  /\ pc = "wait" /\ current.then = then /\ current.index > Len(background)
  /\ stdout' = IF Silent THEN stdout
               ELSE [i \in 1 .. Len(background) |-> background[i].proc]
  /\ background' = <<>>
  /\ current' = NoCommand
  /\ UNCHANGED <<params, lines, stopped, panicked, childVars, expired, stdin, tty, fed,
                 updates, phase, kept>>

WaitReturns == WaitedAll("wait") /\ Proceed /\ UNCHANGED dirty

\* t.Skip does not return: the deferred functions run.
SkipReturns ==
  /\ WaitedAll("skip")
  /\ pc' = "updates" /\ verdict' = "skip"
  /\ UNCHANGED <<dirty, failVars>>

WaitUnknown ==
  /\ Line("waitName") /\ \E n \in Names : ~NameUsed(n)
  /\ Fatalf
  /\ UNCHANGED <<current, stopped, childVars, background, ioVars>>

WaitOne(i) ==
  /\ Line("waitName") /\ background[i].name # Unnamed
  /\ pc' = "waitOne" /\ current' = Blocked(0, FALSE, i, FALSE, "none")
  /\ UNCHANGED <<stopped, verdict, childVars, background, ioVars, failVars>>

\* The process leaves the list only if its status is as it should be.
WaitOneReturns ==
  /\ pc = "waitOne"
  /\ LET b == background[current.index] IN
       /\ Done(b.proc)
       /\ stdout' = <<b.proc>>
       /\ IF Unexpected(b)
            THEN Fatalf /\ UNCHANGED background
            ELSE Proceed /\ background' = RemoveAt(background, current.index)
  /\ current' = NoCommand
  /\ UNCHANGED <<params, lines, stopped, panicked, childVars, expired, stdin, tty, fed,
                 updates, logVars>>

-----------------------------------------------------------------------------
(* kill                                                                    *)

\* Signalling a process that was already collected is an error.
KillOne(i, sig) ==
  /\ Line("killName") /\ background[i].name # Unnamed
  /\ LET p == background[i].proc IN
       /\ signals' = IF Uncollected(p) THEN [signals EXCEPT ![p] = @ \cup {sig}] ELSE signals
       /\ Outcome(Uncollected(p))
  /\ UNCHANGED <<current, stopped, state, success, expectFail, background, ioVars>>

KillUnknown ==
  /\ Line("killName") /\ \E n \in Names : ~NameUsed(n)
  /\ Fatalf
  /\ UNCHANGED <<current, stopped, childVars, background, ioVars>>

\* killBackground stops at the first process that cannot be signalled.
Signalled == {i \in 1 .. Len(background) :
                \A j \in 1 .. i : Uncollected(background[j].proc)}

KillAll(sig) ==
  /\ Line("kill")
  /\ signals' = [p \in Procs |-> IF \E i \in Signalled : background[i].proc = p
                                   THEN signals[p] \cup {sig} ELSE signals[p]]
  /\ Outcome(Signalled = 1 .. Len(background))
  /\ UNCHANGED <<current, stopped, state, success, expectFail, background, ioVars>>

-----------------------------------------------------------------------------
(* The other commands                                                      *)

Stop ==
  /\ Line("stop")
  /\ stopped' = TRUE /\ pc' = "end"
  /\ UNCHANGED <<current, verdict, childVars, background, ioVars, failVars>>

\* The file may be empty, which is no input.
Stdin ==
  /\ Line("stdin")
  /\ IF tty.stdin THEN UNCHANGED stdin ELSE stdin' \in {0, lines + 1}
  /\ Outcome(~tty.stdin)
  /\ UNCHANGED <<current, stopped, childVars, background, stdout, tty, fed, updates>>

\* A file that cannot be read leaves -stdin set, and the input as it was.
Ttyin(useStdin, empty) ==
  /\ Line("ttyin")
  /\ \/ useStdin /\ stdin # 0 /\ Fatalf /\ UNCHANGED tty
     \/ /\ ~(useStdin /\ stdin # 0)
        /\ \/ /\ tty' = [tty EXCEPT !.in = IF empty THEN 0 ELSE lines + 1,
                                    !.stdin = @ \/ useStdin]
              /\ Outcome(~empty)
           \/ tty' = [tty EXCEPT !.stdin = @ \/ useStdin] /\ Fatalf
  /\ UNCHANGED <<current, stopped, childVars, background, stdout, stdin, fed, updates>>

\* A cmp whose files differ, when the second is in the archive.
CmpUpdates ==
  /\ Line("cmp") /\ params.updateScripts
  /\ updates' = "pending"
  /\ Proceed
  /\ UNCHANGED <<current, stopped, childVars, background, stdout, stdin, tty, fed>>

\* A command of Params.Cmds that asks for Stdout; 0 stands for its output.
Custom(ok) ==
  /\ Line("custom")
  /\ stdout' = <<0>>
  /\ Outcome(ok)
  /\ UNCHANGED <<current, stopped, childVars, background, stdin, tty, fed, updates>>

\* Any line that only succeeds or fails: a check of files or output, a change
\* of directory or environment, a condition that does not hold, a usage error.
Other(ok) ==
  /\ Line("other")
  /\ Outcome(ok)
  /\ UNCHANGED <<current, stopped, childVars, background, ioVars>>

-----------------------------------------------------------------------------
(* The run: setup, phases, the end of the script, deferred functions       *)

\* setup calls t.FailNow itself, before applyScriptUpdates is deferred.
Setup(ok) ==
  /\ pc = "setup"
  /\ IF ok THEN pc' = "loop" /\ UNCHANGED verdict
           ELSE pc' = "cleanup" /\ verdict' = "fail"
  /\ UNCHANGED <<params, lines, current, stopped, panicked, childVars, expired,
                 background, ioVars, failVars, logVars>>

\* A defect: nothing is ever rewound.
NotRewound == dirty

\* The log after its closure rewind ran: the details of this phase go unless
\* the run is verbose.
Rewound == dirty /\ loud

\* A comment starts a phase: the log of the one before is rewound.
PhaseComment ==
  /\ pc = "loop" /\ lines < params.length /\ "#" \in params.commands
  /\ lines' = lines + 1
  /\ kept' = IF Rewound THEN kept \cup {phase} ELSE kept
  /\ dirty' = FALSE
  /\ phase' = phase + 1
  /\ loud' = params.verbose /\ lastBlockFailed' = FALSE
  /\ UNCHANGED <<params, pc, current, stopped, verdict, panicked, childVars, expired,
                 background, ioVars, failedIn>>

EndOfScript ==
  /\ pc = "loop"
  /\ pc' = "end"
  /\ UNCHANGED <<params, lines, current, stopped, verdict, panicked, childVars, expired,
                 background, ioVars, failVars, logVars>>

\* After the loop: background processes are interrupted and waited for,
\* whatever their status.
EndInterrupting(S) ==
  /\ pc = "end"
  /\ WaitAll(FALSE, "end", S)
  /\ UNCHANGED <<params, lines, stopped, panicked, expired, logVars>>

\* A defect: background processes are waited for but not interrupted.
EndWithoutInterrupt == EndInterrupting({})

End == EndInterrupting(BackgroundProcs)

\* A defect: only the last phase counts.
VerdictOfLastPhase == IF lastBlockFailed THEN "fail" ELSE "pass"

EndVerdict == IF failedIn = {} THEN "pass" ELSE "fail"

\* The last phase is rewound unless it failed; an earlier failure counts.
EndReturns ==
  /\ WaitedAll("end")
  /\ dirty' = IF lastBlockFailed THEN dirty ELSE Rewound
  /\ verdict' = EndVerdict
  /\ pc' = "updates"
  /\ UNCHANGED failVars

\* A defect: a script that failed or was skipped is not updated.
HasUpdatesIfPassed == updates = "pending" /\ verdict = "pass"

HasUpdates == updates = "pending"

\* The deferred applyScriptUpdates: it writes the file, or t.Fatal reports
\* that it cannot, or a file that cannot be quoted makes Fatalf panic where
\* nothing recovers.
ApplyScriptUpdates ==
  /\ pc = "updates"
  /\ pc' = "cleanup"
  /\ \/ ~HasUpdates /\ UNCHANGED <<updates, verdict, panicked>>
     \/ HasUpdates /\ updates' = "written" /\ UNCHANGED <<verdict, panicked>>
     \/ HasUpdates /\ updates' = "refused" /\ verdict' = "fail" /\ UNCHANGED panicked
     \/ HasUpdates /\ panicked' = TRUE /\ UNCHANGED <<updates, verdict>>
  /\ UNCHANGED <<params, lines, current, stopped, childVars, expired, background,
                 stdout, stdin, tty, fed, failVars, logVars>>

\* A defect: the deferred function interrupts and does not wait.
CleanupWithoutWait ==
  /\ pc = "cleanup"
  /\ Interrupt(BackgroundProcs)
  /\ pc' = "flush"
  /\ UNCHANGED <<params, lines, current, stopped, verdict, panicked, state, success,
                 expectFail, expired, background, ioVars, failVars, logVars>>

\* The first deferred function: interrupt what still runs and wait for it.
Cleanup ==
  /\ pc = "cleanup"
  /\ WaitAll(FALSE, "cleanup", BackgroundProcs)
  /\ UNCHANGED <<params, lines, stopped, panicked, expired, logVars>>

CleanupReturns ==
  /\ WaitedAll("cleanup")
  /\ pc' = "flush"
  /\ UNCHANGED <<verdict, dirty, failVars>>

\* t.Log gets the log as it stands.
Flush ==
  /\ pc = "flush"
  /\ kept' = IF dirty THEN kept \cup {phase} ELSE kept
  /\ pc' = "finished"
  /\ UNCHANGED <<params, lines, current, stopped, verdict, panicked, childVars, expired,
                 background, ioVars, phase, dirty, failVars>>

Finished == pc = "finished" /\ UNCHANGED vars

-----------------------------------------------------------------------------
Exec ==
  \/ \E neg \in BOOLEAN : ExecFails(neg)
  \/ \E p \in Procs, neg \in BOOLEAN : ExecStarts(p, neg)
  \/ ExecReturns

ExecBackground ==
  \E n \in Names \cup {Unnamed} :
    \/ BackgroundRefused(n)
    \/ \E neg \in BOOLEAN : \/ BackgroundFails(n, neg)
                            \/ \E p \in Procs : BackgroundStarts(p, n, neg)

Waits ==
  \/ Wait \/ WaitNext \/ WaitReturns
  \/ Skip \/ SkipReturns
  \/ WaitUnknown \/ (\E i \in 1 .. Len(background) : WaitOne(i)) \/ WaitOneReturns

Kills ==
  \E sig \in {"INT", "KILL"} :
    KillAll(sig) \/ KillUnknown \/ \E i \in 1 .. Len(background) : KillOne(i, sig)

OtherCommands ==
  \/ Stop \/ Stdin \/ CmpUpdates
  \/ \E useStdin, empty \in BOOLEAN : Ttyin(useStdin, empty)
  \/ \E ok \in BOOLEAN : Custom(ok) \/ Other(ok)

Run ==
  \/ \E ok \in BOOLEAN : Setup(ok)
  \/ PhaseComment \/ EndOfScript \/ End \/ EndReturns
  \/ ApplyScriptUpdates \/ Cleanup \/ CleanupReturns \/ Flush

ScriptGoroutine == Exec \/ ExecBackground \/ Waits \/ Kills \/ OtherCommands \/ Run

Children == \E p \in Procs : Exit(p) \/ Reap(p) \/ DeadlineSignal(p)

Next == ScriptGoroutine \/ Children \/ Deadline \/ Finished

Spec == Init /\ [][Next]_vars

\* The script's goroutine and those of waitOrStop are scheduled, and programs
\* end once signalled; nothing makes a program end by itself, or the deadline
\* come.
FairSpec ==
  /\ Spec
  /\ WF_vars(ScriptGoroutine)
  /\ \A p \in Procs : /\ WF_vars(signals[p] # {} /\ Exit(p))
                      /\ WF_vars(Reap(p))
                      /\ WF_vars(DeadlineSignal(p))

-----------------------------------------------------------------------------
(* Properties                                                              *)

\* No process is ever lost track of: one that was not collected is in
\* ts.background or is the command run is blocked in; so when run is over,
\* however it ended, none is left (testscript.go:564-580, 660-667, cmd.go:253,
\* 598-604, 656-658).
NoOrphans ==
  /\ \A p \in Procs : Uncollected(p) => p \in BackgroundProcs \/ Foreground(p)
  /\ pc = "finished" => background = <<>>

\* A name means one background command, also after a wait or skip that failed
\* in a run that continued (cmd.go:242-244, 598-604, 658).
UniqueNames ==
  \A i, j \in 1 .. Len(background) :
    /\ background[i].proc = background[j].proc => i = j
    /\ background[i].name = background[j].name /\ background[i].name # Unnamed => i = j

\* What stdin or ttyin -stdin provides reaches one process at most, and the two
\* are never both pending ("for the next exec command", doc.go:208-210, and the
\* conflicts cmd.go:392-394, 428-430 refuse).
InputOnce ==
  /\ \A p, q \in Procs : fed[p] = fed[q] /\ fed[p] # 0 => p = q
  /\ stdin # 0 => ~tty.stdin /\ \A p \in Procs : fed[p] = stdin => Foreground(p)

\* The output that later commands look at is that of processes that are done,
\* in the order they were started (doc.go:236-238): reading the buffer of a
\* running one would race with its writer (cmd.go:576, 623).
OutputComplete ==
  /\ \A i \in 1 .. Len(stdout) : stdout[i] = 0 \/ state[stdout[i]] = "reaped"
  /\ \A i, j \in 1 .. Len(stdout) : i < j => stdout[i] < stdout[j]

\* The details of every phase that failed are in the log that t.Log gets, through
\* all the rewinding of later phases (testscript.go:559-562, 621-624, 669-671).
FailedPhasesShown == pc = "finished" => failedIn \subseteq kept

\* Those of a phase that succeeded are not, unless verbose: neither an earlier
\* failure nor a later one brings them back (testscript.go:626-632).
QuietPhases ==
  ~params.verbose => /\ kept \ {phase} \subseteq failedIn
                     /\ pc = "finished" /\ verdict = "pass" => kept = {}

\* A script in which a line failed never passes; unless the run continued to a
\* skip, which hides the failure, it is reported as failed (testscript.go:641-650,
\* 673-677).
VerdictFaithful ==
  pc = "finished" =>
    /\ verdict # "none"
    /\ failedIn # {} => verdict = "fail" \/ (verdict = "skip" /\ params.continueOnError)

\* A skipped script's processes all ended as their lines asked, or a line of
\* it failed (cmd.go:372-377).
SkipChecksStatus ==
  verdict = "skip" /\ failedIn = {} =>
    \A p \in Procs : state[p] # "unused" => success[p] = ~expectFail[p]

\* What cmp recorded under UpdateScripts is written to the script's file even
\* when the script then fails or is skipped, or the failure to do so is reported
\* (testscript.go:598, 832-834, cmd.go:138-142).
UpdatesNotLost ==
  pc = "finished" => /\ updates = "pending" => panicked
                     /\ updates = "refused" => verdict = "fail"

\* Once a run is over it gets to its end, however long its background commands
\* would have run: each wait is for processes that were interrupted, provided
\* programs heed that (testscript.go:568-580, 660-667).
Unwinds == pc \in {"end", "updates", "cleanup"} ~> pc = "finished"

\* After the deadline no program blocks a script: the whole run ends.
DeadlineEnds == expired ~> pc = "finished"

\* doc.go:162-165: the exit status of a background command is checked by the
\* next wait, skip or stop or at the end of the test.  Not that of one which
\* ended by itself before the end of a script that stops or runs out of lines.
StatusChecked ==
  verdict = "pass" =>
    \A p \in Procs : state[p] # "unused" /\ signals[p] = {} => success[p] = ~expectFail[p]

\* testscript.go:194-196: once an error has occurred, the script continues as if
\* in verbose mode, that is without rewinding the log.
ContinuesVerbose ==
  [][failedIn # {} /\ dirty /\ phase' # phase => phase \in kept']_vars
=============================================================================
