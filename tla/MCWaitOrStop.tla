---------------------------- MODULE MCWaitOrStop ----------------------------
(* Instances of WaitOrStop for TLC. *)
EXTENDS WaitOrStop

\* Foreground and background calls, on Unix and on Windows.
AllCalls == [escalates : BOOLEAN, windows : BOOLEAN]

\* cmdExec's call for a background command, on Unix.
BackgroundCalls == [escalates : {FALSE}, windows : {FALSE}]
=============================================================================
