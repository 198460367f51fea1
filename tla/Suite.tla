-------------------------------- MODULE Suite --------------------------------
(***************************************************************************)
(* RunT: the scripts it makes subtests of, their directories, and the      *)
(* count by which the last one cleans up; called under go test, where the  *)
(* subtests run in parallel once RunT has returned, or by cmd/testscript,  *)
(* which runs each at once.  One of the scripts may have a .gomodproxy     *)
(* directory, for which goproxytest.Setup runs a GoProxy.                  *)
(***************************************************************************)
EXTENDS GoProxy

CONSTANTS
  Plans,       \* the suites considered
  MaxFiles     \* the length of the longest

Runners == {"testing", "command"}
Outcomes == {"none", "pass", "fail", "skip", "panic"}

ASSUME SuiteAssumption ==
  /\ MaxFiles \in Nat
  /\ \A p \in Plans :
       /\ p.files \in Seq(Seq(Nat)) /\ Len(p.files) <= MaxFiles   \* names, without extension
       /\ p.runner \in Runners /\ p.parallel \in Nat \ {0}
       /\ p.run \subseteq DOMAIN p.files          \* what -run selects
       /\ p.keep \in BOOLEAN                      \* TestWork, -testwork or WorkdirRoot
       /\ p.deadline \in BOOLEAN
       /\ p.proxy \in 0 .. Len(p.files)           \* the script with a .gomodproxy, if any
       /\ p.disk \in [Versions \cup {Unknown} -> {"absent", "broken", "first"}]
       /\ p.disk[Unknown] = "absent"
       /\ p.ends \subseteq Outcomes \ {"none"}    \* how scripts end
       /\ p.requests \in Nat /\ p.kinds \subseteq Kinds   \* what go commands ask the proxy for
       /\ p.edits \subseteq Versions             \* the archives the script writes to
       /\ p.background \subseteq Clients          \* commands the script does not wait for

VARIABLES
  plan,       \* chosen once
  names,      \* those RunT gave to subtests so far
  at,         \* where each script is, see Init
  outcome,    \* how it ended
  refCount,
  dirs,       \* the work directories there are, by the name of the script
  tempDir,    \* is there one?
  context,    \* "live", "expired" or "cancelled"
  failed,     \* what the runner says in the end
  sent        \* requests sent

suiteVars == <<plan, names, at, outcome, refCount, dirs, tempDir, context, failed, sent>>
vars == <<proxyVars, suiteVars>>

Scripts == DOMAIN plan.files

\* new or filtered, paused in t.Parallel; in setup (mkdir, setup); in its lines; in the deferred
\* functions of run (defer, wait) and in that of RunT (end, count, last); done or dead.
Init ==
  /\ plan \in Plans
  /\ ProxyInit(plan.disk)
  /\ names = <<>>
  /\ at = [i \in Scripts |-> "new"]
  /\ outcome = [i \in Scripts |-> "none"]
  /\ refCount = Len(plan.files)
  /\ dirs = {} /\ tempDir = TRUE /\ context = "live"
  /\ failed = FALSE /\ sent = 0

Go(i, spot) == at' = [at EXCEPT ![i] = spot]

-----------------------------------------------------------------------------
(* RunT                                                                    *)

Taken(name) == \E i \in DOMAIN names : names[i] = name

\* A defect: a counter is added that is not checked.
NameUnchecked(prefix) ==
  IF ~Taken(prefix) THEN prefix
  ELSE Append(prefix, CHOOSE n \in 1 .. Len(names) : \A m \in 1 .. Len(names) : n <= m)

\* A counter is added to a name that is taken.
Name(prefix) ==
  LET free == {n \in 1 .. Len(names) : ~Taken(Append(prefix, n))} IN
  IF ~Taken(prefix) THEN prefix ELSE Append(prefix, CHOOSE n \in free : \A m \in free : n <= m)

\* t.Run of the next file: under go test the function runs as far as t.Parallel.
RunNext ==
  LET i == Len(names) + 1 IN
  /\ i \in Scripts /\ at[i] = "new"
  /\ plan.runner = "command" => \A j \in 1 .. Len(names) : at[j] = "done"
  /\ names' = Append(names, Name(plan.files[i]))
  /\ Go(i, IF plan.runner = "command" THEN "mkdir" ELSE IF i \in plan.run THEN "paused" ELSE "filtered")
  /\ UNCHANGED <<proxyVars, plan, outcome, refCount, dirs, tempDir, context, failed, sent>>

Running == {i \in Scripts : at[i] \notin {"new", "filtered", "paused", "done", "dead"}}

\* The parallel subtests go on when RunT has returned.
Resume(i) ==
  /\ at[i] = "paused" /\ Len(names) = Len(plan.files)
  /\ Cardinality(Running) < plan.parallel
  /\ Go(i, "mkdir")
  /\ UNCHANGED <<proxyVars, plan, names, outcome, refCount, dirs, tempDir, context, failed, sent>>

-----------------------------------------------------------------------------
(* A script                                                                *)

\* It ends, by a return, or by a panic or runtime.Goexit that runs the deferred functions.
Ends(i, how) == outcome' = [outcome EXCEPT ![i] = how] /\ Go(i, "defer")

\* setup: the directory is made and the archive is unpacked into it.
MakeDir(i) ==
  /\ at[i] = "mkdir"
  /\ dirs' = dirs \cup {names[i]} /\ tempDir' = TRUE
  /\ \/ Go(i, "setup") /\ UNCHANGED outcome
     \/ "fail" \in plan.ends /\ Ends(i, "fail")
  /\ UNCHANGED <<proxyVars, plan, names, refCount, context, failed, sent>>

\* Params.Setup: with a .gomodproxy there is a server, or an error.
Setup(i) ==
  /\ at[i] = "setup"
  /\ \/ i # plan.proxy /\ Go(i, "lines") /\ UNCHANGED <<proxyVars, outcome>>
     \/ i = plan.proxy /\ Go(i, "lines") /\ StartServer /\ UNCHANGED outcome
     \/ i = plan.proxy /\ "fail" \in plan.ends /\ Ends(i, "fail") /\ (StartServer \/ UNCHANGED proxyVars)
  /\ UNCHANGED <<plan, names, refCount, dirs, tempDir, context, failed, sent>>

Waits(i) == i = plan.proxy /\ \E c \in Clients \ plan.background : handler[c].open

\* A go command of the script, or one in the background, asks the proxy for something.
Send(c, kind, v, rev) ==
  /\ plan.proxy # 0 /\ sent < plan.requests /\ kind \in plan.kinds
  /\ at[plan.proxy] = "lines" \/ (at[plan.proxy] = "defer" /\ c \in plan.background)
  /\ sent' = sent + 1
  /\ Request(c, kind, v, rev)
  /\ UNCHANGED <<plan, names, at, outcome, refCount, dirs, tempDir, context, failed>>

\* The script writes to the directory of the proxy.
Edit(v) ==
  /\ plan.proxy # 0 /\ at[plan.proxy] = "lines" /\ ~Waits(plan.proxy)
  /\ v \in plan.edits /\ disk[v] # "second" /\ Rewrite(v)
  /\ UNCHANGED suiteVars

\* The last line, a failure, a skip or a panic; a line that waits ends when the context expires.
End(i) ==
  /\ at[i] = "lines"
  /\ \/ ~Waits(i) /\ \E how \in plan.ends : Ends(i, how)
     \/ Waits(i) /\ context = "expired" /\ Ends(i, "fail")
  /\ UNCHANGED <<proxyVars, plan, names, refCount, dirs, tempDir, context, failed, sent>>

\* ts.deferred, in which the server is closed.
Deferred(i) ==
  /\ at[i] = "defer"
  /\ IF i = plan.proxy THEN CloseServer ELSE UNCHANGED proxyVars
  /\ Go(i, "wait")
  /\ UNCHANGED <<plan, names, outcome, refCount, dirs, tempDir, context, failed, sent>>

\* The script is over; a panic that is not one of the runner's goes on and ends the process.
Over(i) ==
  /\ IF outcome[i] = "panic" THEN at' = [j \in Scripts |-> "dead"] ELSE Go(i, "done")
  /\ failed' = (failed \/ outcome[i] = "fail")

\* The background commands have ended, or were interrupted.
Collect(i) ==
  /\ at[i] = "wait"
  /\ IF plan.keep THEN Over(i) ELSE Go(i, "end") /\ UNCHANGED failed
  /\ UNCHANGED <<proxyVars, plan, names, outcome, refCount, dirs, tempDir, context, sent>>

\* removeAll of the work directory.
RemoveDir(i) ==
  /\ at[i] = "end"
  /\ dirs' = dirs \ {names[i]}
  /\ IF i = plan.proxy THEN DiskGone ELSE UNCHANGED proxyVars
  /\ Go(i, "count")
  /\ UNCHANGED <<plan, names, outcome, refCount, tempDir, context, failed, sent>>

\* A defect: the count is looked at before it is decremented.
CountBefore(i) ==
  /\ at[i] = "count"
  /\ refCount' = refCount - 1
  /\ IF refCount = 0 THEN Go(i, "last") /\ UNCHANGED failed ELSE Over(i)
  /\ UNCHANGED <<proxyVars, plan, names, outcome, dirs, tempDir, context, sent>>

\* atomic.AddInt32
Count(i) ==
  /\ at[i] = "count"
  /\ refCount' = refCount - 1
  /\ IF refCount' = 0 THEN Go(i, "last") /\ UNCHANGED failed ELSE Over(i)
  /\ UNCHANGED <<proxyVars, plan, names, outcome, dirs, tempDir, context, sent>>

\* The last one removes the parent directory, if that is empty, and cancels the context.
CleanUp(i) ==
  /\ at[i] = "last"
  /\ tempDir' = (dirs # {})
  /\ context' = IF plan.deadline THEN "cancelled" ELSE context
  /\ Over(i)
  /\ UNCHANGED <<proxyVars, plan, names, outcome, refCount, dirs, sent>>

Dead == \E i \in Scripts : at[i] = "dead"

Expire ==
  /\ ~Dead /\ plan.deadline /\ context = "live" /\ context' = "expired"
  /\ UNCHANGED <<proxyVars, plan, names, at, outcome, refCount, dirs, tempDir, failed, sent>>

-----------------------------------------------------------------------------
Step(i) ==
  \/ Resume(i) \/ MakeDir(i) \/ Setup(i) \/ End(i) \/ Deferred(i) \/ Collect(i) \/ RemoveDir(i)
  \/ Count(i) \/ CleanUp(i)

Serve(c) == ~Dead /\ Handle(c) /\ UNCHANGED suiteVars

Next ==
  \/ RunNext \/ Expire
  \/ \E i \in Scripts : Step(i)
  \/ \E c \in Clients :
       \/ Serve(c)
       \/ \E v \in Versions, kind \in {"info", "zip"} : Send(c, kind, v, <<>>)
       \/ Send(c, "latest", Unknown, <<>>)
       \/ \E rev \in Revisions : Send(c, "revision", Unknown, rev)
  \/ \E v \in Versions : Edit(v)

\* The runner goes on, and so do scripts and handlers that can; time passes.
Fairness ==
  /\ WF_vars(RunNext) /\ WF_vars(Expire)
  /\ \A i \in 1 .. MaxFiles : WF_vars(i \in Scripts /\ Step(i))
  /\ \A c \in Clients : WF_vars(Serve(c))

Spec == Init /\ [][Next]_vars /\ Fairness

-----------------------------------------------------------------------------
(* Properties                                                              *)

\* While a script runs its directory is there and no other script's, and neither the parent
\* directory nor the context is gone, whichever scripts end meanwhile (testscript.go:320-368).
StillThere ==
  \A i \in Scripts :
    at[i] \in {"setup", "lines", "defer", "wait"}
      => /\ names[i] \in dirs /\ tempDir /\ context # "cancelled"
         /\ \A j \in DOMAIN names : j # i => names[j] # names[i]

\* When all scripts are over nothing is left of them and the context is cancelled, unless the
\* directories are to be kept, and then all are.  A script that -run leaves out is never over,
\* and an empty Params.Files has none that could clean up.
Cleaned ==
  plan.files # <<>> /\ (\A i \in Scripts : at[i] = "done")
    => IF plan.keep THEN Cardinality(dirs) = Len(plan.files) /\ tempDir
                    ELSE dirs = {} /\ ~tempDir /\ context \in {"cancelled", IF plan.deadline THEN "" ELSE "live"}

\* Every script that is to run is over in the end, whatever becomes of the others, unless the
\* process dies: only a request for an archive that cannot be read keeps a script from ending,
\* and then the deadline ends it (proxy.go:382, cmd/testscript/main.go:193-206).
ScriptsEnd ==
  \A i \in 1 .. MaxFiles :
    i \in Scripts /\ (plan.deadline \/ \A v \in Versions : plan.disk[v] # "broken")
      ~> i \notin Scripts \/ at[i] \in {"filtered", "done", "dead"}
=============================================================================
