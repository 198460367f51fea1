------------------------------ MODULE MCScript ------------------------------
(* Instances of Script for TLC. *)
EXTENDS Script

\* Runs of scripts of up to n lines with vocabulary C under the given Params.
RunsOf(C, n, continue, verbose, deadline) ==
  [continueOnError : continue, updateScripts : {FALSE}, verbose : verbose,
   deadline : deadline, commands : {C}, length : {n}]

\* Background commands waited for, by name or together, and the ends of a run.
WaitRuns ==
  RunsOf({"exec&", "wait", "waitName", "skip", "stop"}, 4, BOOLEAN, {FALSE}, {FALSE})

\* kill, racing with processes that end by themselves.
KillRuns == RunsOf({"exec&", "wait", "kill", "killName"}, 3, {TRUE}, {FALSE}, {FALSE})

\* A deadline that may come at any time.
DeadlineRuns == RunsOf({"exec", "exec&", "wait"}, 3, BOOLEAN, {FALSE}, {TRUE})

\* Standard input and the terminal, set for the next command.
InputRuns == RunsOf({"stdin", "ttyin", "exec", "exec&"}, 3, {TRUE}, {FALSE}, {FALSE})

\* Phases, and what of them stays in the log.
LogRuns ==
  RunsOf({"#", "other", "skip"}, 5, BOOLEAN, BOOLEAN, {FALSE})
    \cup RunsOf({"#", "other", "exec&"}, 3, BOOLEAN, BOOLEAN, {FALSE})

\* cmp under UpdateScripts.
UpdateRuns ==
  {[r EXCEPT !.updateScripts = TRUE] :
     r \in RunsOf({"cmp", "custom", "other", "skip", "stop"}, 4, BOOLEAN, {FALSE}, {FALSE})}

AllKindsOfRuns ==
  UNION {WaitRuns, KillRuns, DeadlineRuns, InputRuns, LogRuns, UpdateRuns}
=============================================================================
