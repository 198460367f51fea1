----------------------------- MODULE WaitOrStop -----------------------------
(***************************************************************************)
(* testscript.waitOrStop: the goroutine that runs a script waits for a     *)
(* child process while a helper goroutine watches the context; the two     *)
(* meet once on the unbuffered channel errc.  The operating system's part  *)
(* (the child, its output pipe, signal delivery) is modelled from the      *)
(* calls the code makes on exec.Cmd and os.Process.                        *)
(***************************************************************************)

CONSTANT Calls  \* the ways waitOrStop is called:
                \*   escalates: killDelay > 0, so for foreground commands
                \*     (TestScript.exec); background ones pass -1 (cmdExec)
                \*   windows: the interrupt is os.Kill there, SIGQUIT elsewhere

ASSUME CallsAssumption == Calls \subseteq [escalates : BOOLEAN, windows : BOOLEAN]

VARIABLES
  ctx,      \* ctx.Err() as a state: "live" or "expired"
  child,    \* "alive", "zombie" (exited, not collected), "reaped"
  status,   \* exit status of the child: "none" while it is alive
  killed,   \* did one of our signals end the child?
  pipe,     \* the output pipe that cmd.Wait drains: "open" or "closed"
  sent,     \* signals delivered to the child
  main,     \* control state of the caller
  helper,   \* control state of the helper goroutine
  err,      \* the helper's variable err
  result,   \* what waitOrStop returns ("none" before it does)
  program,  \* what kind of child it is
  call      \* how waitOrStop was called

\* What no step changes.
given == <<program, call>>
vars == <<ctx, child, status, killed, pipe, sent, main, helper, err, result, given>>

Errors == {"nil", "ctx", "other"}

\* A child may ignore SIGQUIT, may leave a descendant that holds its output
\* pipe open, or may be one the caller is not permitted to signal.
Programs == [heedsQuit : BOOLEAN, hasHeir : BOOLEAN, permitted : BOOLEAN]

Interrupt == IF call.windows THEN "KILL" ELSE "QUIT"

\* What each variable holds (testscript.go:1098-1160).
TypeOK ==
  /\ ctx \in {"live", "expired"}
  /\ child \in {"alive", "zombie", "reaped"}
  /\ status \in {"none", "ok", "fail"}
  /\ killed \in BOOLEAN
  /\ pipe \in {"open", "closed"}
  /\ sent \subseteq {"QUIT", "KILL"}
  /\ main \in {"wait", "receive", "returned"}
  /\ helper \in {"select", "signal", "grace", "send", "done"}
  /\ err \in Errors
  /\ result \in {"none", "ok", "fail"} \cup Errors
  /\ program \in Programs
  /\ call \in Calls

Init ==
  /\ ctx = "live"
  /\ child = "alive" /\ status = "none" /\ killed = FALSE
  /\ pipe = "open"
  /\ sent = {}
  /\ main = "wait" /\ helper = "select"
  /\ err = "nil" /\ result = "none"
  /\ program \in Programs
  /\ call \in Calls

-----------------------------------------------------------------------------
(* The operating system and the context.                                   *)

Expire ==
  /\ ctx = "live"
  /\ ctx' = "expired"
  /\ UNCHANGED <<child, status, killed, pipe, sent, main, helper, err, result, given>>

\* The pipe closes with the child unless a descendant inherited it.
Die(code, bySignal) ==
  /\ child = "alive"
  /\ child' = "zombie" /\ status' = code /\ killed' = bySignal
  /\ pipe' = IF program.hasHeir THEN pipe ELSE "closed"
  /\ UNCHANGED <<ctx, sent, main, helper, err, result, given>>

ExitByItself == \E code \in {"ok", "fail"} : Die(code, FALSE)

ExitBySignal ==
  /\ "KILL" \in sent \/ ("QUIT" \in sent /\ program.heedsQuit)
  /\ Die("fail", TRUE)

HeirExits ==
  /\ program.hasHeir /\ child # "alive" /\ pipe = "open"
  /\ pipe' = "closed"
  /\ UNCHANGED <<ctx, child, status, killed, sent, main, helper, err, result, given>>

-----------------------------------------------------------------------------
(* The caller: waitErr := cmd.Wait(), then a receive from errc.             *)

Reap ==
  /\ main = "wait" /\ child = "zombie"
  /\ child' = "reaped"
  /\ UNCHANGED <<ctx, status, killed, pipe, sent, main, helper, err, result, given>>

\* A defect: the caller returns without receiving from errc.
WaitReturnsAlone ==
  /\ main = "wait" /\ child = "reaped" /\ pipe = "closed"
  /\ main' = "returned" /\ result' = status
  /\ UNCHANGED <<ctx, child, status, killed, pipe, sent, helper, err, given>>

\* cmd.Wait also joins the goroutines that copy the child's output.
WaitReturns ==
  /\ main = "wait" /\ child = "reaped" /\ pipe = "closed"
  /\ main' = "receive"
  /\ UNCHANGED <<ctx, child, status, killed, pipe, sent, helper, err, result, given>>

\* The rendezvous on errc: the helper ends and the caller returns the
\* interrupt error if there is one, the error of cmd.Wait otherwise.
Meet(e) ==
  /\ main = "receive"
  /\ main' = "returned" /\ helper' = "done"
  /\ result' = IF e # "nil" THEN e ELSE status
  /\ UNCHANGED <<ctx, child, status, killed, pipe, sent, err, given>>

-----------------------------------------------------------------------------
(* The helper goroutine.                                                   *)

SelectNil == helper = "select" /\ Meet("nil")

SelectDone ==
  /\ helper = "select" /\ ctx = "expired"
  /\ helper' = "signal"
  /\ UNCHANGED <<ctx, child, status, killed, pipe, sent, main, err, result, given>>

\* os.Process.Signal reports ErrProcessDone once the child was collected;
\* any other failure is kept in err, and success makes err the context's.
SignalThen(doneErr, doneNext, sentErr) ==
  /\ helper = "signal"
  /\ \/ /\ child = "reaped"
        /\ err' = doneErr /\ helper' = doneNext
        /\ UNCHANGED sent
     \/ /\ child # "reaped"
        /\ IF program.permitted
             THEN err' = sentErr /\ sent' = sent \cup {Interrupt}
             ELSE err' = "other" /\ UNCHANGED sent
        /\ helper' = IF call.escalates THEN "grace" ELSE "send"
  /\ UNCHANGED <<ctx, child, status, killed, pipe, main, result, given>>

\* Defects: the cause is not recorded; ErrProcessDone is not told apart; the
\* helper ends without answering when the child is already gone.
SignalLosesCause == SignalThen("nil", "send", "nil")
SignalDoneIsError == SignalThen("other", "send", "ctx")
SignalDoneIsSilent == SignalThen("nil", "done", "ctx")

Signal == SignalThen("nil", "send", "ctx")

GraceMeet == helper = "grace" /\ Meet("ctx")

\* A defect: the stronger signal is never sent.
KillForgotten ==
  /\ helper = "grace"
  /\ helper' = "send"
  /\ UNCHANGED <<ctx, child, status, killed, pipe, sent, main, err, result, given>>

\* The grace timer fires: os.Kill, any error of which is ignored.
Kill ==
  /\ helper = "grace"
  /\ sent' = IF child # "reaped" /\ program.permitted THEN sent \cup {"KILL"} ELSE sent
  /\ helper' = "send"
  /\ UNCHANGED <<ctx, child, status, killed, pipe, main, err, result, given>>

Send == helper = "send" /\ Meet(err)

-----------------------------------------------------------------------------
\* waitOrStop has returned: nothing more happens.
Returned == main = "returned" /\ UNCHANGED vars

Caller == Reap \/ WaitReturns
Helper == SelectNil \/ SelectDone \/ Signal \/ GraceMeet \/ Kill \/ Send
Environment == Expire \/ ExitByItself \/ ExitBySignal \/ HeirExits

Next == Caller \/ Helper \/ Environment \/ Returned

Spec == Init /\ [][Next]_vars

\* Both goroutines are scheduled and a delivered deadly signal takes effect.
\* Nothing makes a child exit by itself, nor a descendant close the pipe.
FairSpec == Spec /\ WF_vars(Caller) /\ WF_vars(Helper) /\ WF_vars(ExitBySignal)

-----------------------------------------------------------------------------
(* Properties                                                              *)

\* A child ended by the deadline's signal is reported as timed out, never
\* under the exit status the signal gave it (testscript.go:1126, 1135, 1152).
Attribution == main = "returned" /\ killed => result = "ctx"

\* A command is reported as timed out only if the context had expired and the
\* child was interrupted (or could not be) before it was collected; a child
\* that had ended on its own keeps its own status (testscript.go:1124-1130).
HonestError ==
  /\ result = "ctx" => ctx = "expired" /\ (program.permitted => Interrupt \in sent)
  /\ result = "other" => ctx = "expired" /\ ~program.permitted

\* The helper goroutine never outlives the call, so no late signal can reach
\* a process number that was reused (testscript.go:1109-1156).
NoHelperLeak == main = "returned" => helper = "done" /\ child = "reaped"

\* Once the context expires the call returns if the child can be ended by the
\* signals this kind of call sends, is one we may signal, and no descendant
\* keeps its output open (testscript.go:1116-1149).
DeadlineEnforced ==
  (/\ ctx = "expired" /\ program.permitted /\ ~program.hasHeir
   /\ call.escalates \/ call.windows \/ program.heedsQuit) ~> main = "returned"

\* A child that ended and whose output is closed is always reported, with or
\* without a deadline: the two goroutines cannot miss each other on errc
\* (testscript.go:1108-1113, 1128-1130, 1152-1156).
ExitReported == (child # "alive" /\ pipe = "closed") ~> main = "returned"

\* What the comment at testscript.go:304-310 says of "commands that execute
\* subprocesses": once the first grace period is over they are killed.
\* Background commands are not (cmd.go:250 passes a negative killDelay).
EscalatesToKill ==
  (ctx = "expired" /\ program.permitted /\ ~program.hasHeir) ~> child # "alive"
=============================================================================
