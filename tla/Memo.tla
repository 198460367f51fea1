------------------------------- MODULE Memo -------------------------------
(***************************************************************************)
(* What par.Cache promises: a function is run at most once for each key,   *)
(* every call of Do returns the value it gave and none returns before, and *)
(* Get returns what is there at some moment of the call, without waiting.  *)
(***************************************************************************)
CONSTANTS Callers, Keys, Values, Nil

VARIABLES
  table,    \* the value for each key, Nil until there is one
  started,  \* keys whose function was started
  running,  \* the callers running the function for each key
  call,     \* each caller's call: <<>>, or <<operation, key>>
  answer    \* what each caller's last call returned, Nil during a call

vars == <<table, started, running, call, answer>>

Init ==
  /\ table = [k \in Keys |-> Nil]
  /\ started = {} /\ running = [k \in Keys |-> {}]
  /\ call = [c \in Callers |-> <<>>]
  /\ answer = [c \in Callers |-> Nil]

Invoke(c, o, k) ==
  /\ call[c] = <<>>
  /\ call' = [call EXCEPT ![c] = <<o, k>>]
  /\ answer' = [answer EXCEPT ![c] = Nil]
  /\ UNCHANGED <<table, started, running>>

Start(c, k) ==
  /\ call[c] = <<"Do", k>> /\ k \notin started
  /\ started' = started \cup {k}
  /\ running' = [running EXCEPT ![k] = {c}]
  /\ UNCHANGED <<table, call, answer>>

Finish(c, k, v) ==
  /\ c \in running[k] /\ v \in Values
  /\ running' = [running EXCEPT ![k] = {}]
  /\ table' = [table EXCEPT ![k] = v]
  /\ UNCHANGED <<started, call, answer>>

Respond(c, v) ==
  /\ call' = [call EXCEPT ![c] = <<>>]
  /\ answer' = [answer EXCEPT ![c] = v]
  /\ UNCHANGED <<table, started>>

\* The function panics, and so does the call of Do that runs it.
Panic(c, k) ==
  /\ c \in running[k]
  /\ running' = [running EXCEPT ![k] = {}]
  /\ Respond(c, Nil)

Return(c, o, k) ==
  /\ call[c] = <<o, k>>
  /\ o = "Do" => table[k] # Nil
  /\ Respond(c, table[k])
  /\ UNCHANGED running

Next ==
  \E c \in Callers, k \in Keys :
    \/ \E o \in {"Do", "Get"} : Invoke(c, o, k) \/ Return(c, o, k)
    \/ Start(c, k) \/ (\E v \in Values : Finish(c, k, v)) \/ Panic(c, k)

Spec == Init /\ [][Next]_vars
===========================================================================
