# TLA+ models of go-internal

This directory holds TLA+ specifications of `github.com/rogpeppe/go-internal`, TLC configurations that check them on small
instances, and proofs that TLAPS checks for every instance. A module's comments
cite the Go code by file and line; `PROJECT.json` maps each definition to the lines
it models and each property to a mutation of the model that breaks it.

## The system

| Component | State it keeps | Operations | What is hard |
|---|---|---|---|
| `testscript`: a run of a script (`testscript.go`, `cmd.go`) | position, `background`, buffered output and input, log and mark, verdict, updates | one per command; phases; deferred functions | child processes that proceed alone, panics and `FailNow` that unwind, continuing after errors |
| `testscript`: `waitOrStop` | context, child, helper goroutine, channel | wait, interrupt, kill | two goroutines, the child and a timer race |
| `testscript`: `RunT` | reference count, names, shared context | start and end of parallel subtests | who is last |
| `testscript`: parsing, conditions, file commands | none beyond the script's | `parse`, `expand`, `condition`, `cmp`, `grep`, ... | quoting, boundaries |
| `testscript.Main`, `cmd/testscript` | files and processes | start a program by name | start-up order |
| `par.Work` | `todo`, `added`, `waiting`, condition variable | `Add`, `Do` | lost wakeups, termination |
| `par.Cache` | map of entries, mutex and done flag each | `Do`, `Get` | double-checked locking, panics |
| `lockedfile`, `filelock` | file contents, POSIX or flock locks, per-inode queues | `Open`, `Close`, `Read`, `Write`, `Transform`, `Mutex` | hand-over between threads, locks owned by processes, partial writes |
| `cache` | index and output files, `trim.txt` | `Put`, `Get*`, `Trim` | processes that write, read, trim and die at once |
| `goproxytest` | module list, archive and zip caches | HTTP handlers | shared `par.Cache`, errors inside it |
| `txtar` and its commands, `imports`, `diff`, `fmtsort`, `misspell` | none | pure functions | boundaries, inputs that look like the format |
| `renameio`, `robustio`, `gotooltest`, `execpath`, forwarding packages | none | system calls | nothing to model |

How they meet: a script calls `exec.Cmd` through `waitOrStop`, one goroutine per
background command, which tells the script by closing a channel; `RunT` gives all
scripts one context and counts those that end; `condition` keeps what it looks up in
a `par.Cache`, and so do the handlers of `goproxytest`, whose server a script's set-up
starts and its deferred functions stop; `cache` keeps its trim time in
a `lockedfile`, which locks through `filelock`.

## The modules

| Module | Models | Correspondence |
|---|---|---|
| `WaitOrStop` | `waitOrStop`, `interruptProcess` | one action per step of the caller and of the helper between points where the other, the child or the timer can act; `Meet` is the exchange on `errc` |
| `Script` | `TestScript.run`, `runLine` and the commands | the goroutine of the script is a sequence of actions, one per command, split where it blocks (`exec`, `wait`, `wait name`, the waits of `skip` and of the end); children exit and are collected between them |
| `ParWork` | `par.Work` | one action per critical section of `w.mu`; `w.wait` is the set of runners that are `asleep` or `woken` |
| `WorkSet` | the comments on `Work`, `Add` and `Do` | the abstract specification `ParWork` implements |
| `ParCache` | `par.Cache` | one action per atomic operation on what is shared |
| `Memo` | the comments on `Cache`, `Do` and `Get` | the abstract specification `ParCache` implements |
| `BuildCache` | `cache.Cache` | one action per system call, or several of which only one matters to other processes; an output is a sequence of bytes that are right or not, an index file the output it names |
| `FileLock` | `filelock` on Unix, with `flock` and with POSIX locks | one action per critical section of the package's mutex, per system call and per hand-over between goroutines; the kernel's locks belong to descriptors or to processes |
| `LockedFile` | `lockedfile` on top of it | one action per system call of `Read`, `Write`, `Transform` and its rollback, and of `Mutex`; a byte is read or written at a time |
| `AtomicFile` | the package comment of `lockedfile` | the abstract specification `LockedFile` implements: a call takes effect at one moment, or fails |
| `GoProxy` | `goproxytest`'s server | one action per point where handlers meet: the two caches, the directory of archives, the answers |
| `Suite` | `RunT`, `runT` of `cmd/testscript`, `goproxytest.Setup`, with `GoProxy` | one action per step of a subtest that others can see: its name, its directory, its end, the count |
| `Txtar` | `txtar`, `txtar-c`, `txtar-x`, `unquote` | operators; a text is a sequence of lines, the last with its newline or not |
| `Diff` | `diff` | operators; a loop is a function of the number of its iterations |
| `Imports` | `imports` | operators; a file is its name in parts, the lines of its head and its tokens |
| `ScriptLine` | `parse`, `cmdSuggestions`, `misspell` | operators; `Scan` consumes a line by characters |
| `Texts` | the last four, applied to any input | one action per function, which takes an input and keeps it with the result |
| `MC*` | instances for TLC | only values of constants; `MCTexts` enumerates the inputs of `Texts` |
| `*Proof` | theorems and proofs about the module named | |

`Script` uses of `WaitOrStop` what its properties establish: a wait ends once the child
has been collected, the context interrupts it, and only a foreground command is
killed after the grace period (`DeadlineSignal`). It does not carry the helper's control
state along for each child.

What the script's text may be is left to the environment: any command of the
vocabulary of the run may be the next line and, where the outcome depends on data
the model leaves out (does the file match, does the program exist), it may have
either outcome. Processes exit when and how they like. Deferred functions run in the
order the code defers them: `applyScriptUpdates` (`updates`), the interruption and wait
for what is left (`cleanup`), then the log (`flush`). In a run under `ContinueOnError` a
failed line returns to the loop, otherwise it goes to `updates`.

Definitions whose comment begins with "A defect" are mutations: each is a plausible
mistake in the definition next to it and no behaviour uses it. `PROJECT.json` says
which property each breaks.

## The runs

| Run | Instance | Shows |
|---|---|---|
| `waitorstop` | both kinds of call on both kinds of system; every kind of child | who is blamed for the end of a child is right, no goroutine is left, the deadline is enforced where signals can |
| `script` | 1 name besides none, 2 processes, six vocabularies of up to 5 lines | no process is lost, inputs go to one command, outputs are complete, the log keeps the phases that failed, the verdict is right, updates are not lost, runs end |
| `work` | up to 3 runners, 3 items | once each, no early return, no lost wakeup, `WorkSet` is implemented, all return |
| `memo` | 3 callers, 1 key whose function may panic, 2 values | no racy read, `Memo` (one run for each key) is implemented, calls return |
| `cache` | 2 processes, 1 action, an output of two bytes and the empty one, seven kinds of use | an index entry names an output that is whole or was trimmed, a `Put` alone repairs what it finds, `Trim` spares what was used lately |
| `locks` | 2 goroutines of one process and 1 of another, both kinds of lock, 2 bytes, up to 2 system calls that fail and 1 death | writers exclude everybody, `AtomicFile` is implemented, every call returns |
| `suite` | up to 3 scripts whose names collide, in parallel or in turn, ending in four ways; or a script with a proxy, 2 clients, 3 versions, up to 3 requests | directories are there while they are needed and gone in the end, an archive is served as it was at one moment, scripts end |
| `texts` | texts of 3 lines, two files in a directory, sides of a diff of 5 lines, heads of two terms, lines of 6 characters | archives keep what is put in, diffs can be applied and are anchored, `*` includes every build, quotes mean what they say |
| `background_deadline` | `waitOrStop` as background commands call it | a violation: not killed after the grace period |
| `status_at_end` | the waits of `script` | a violation: exit statuses are not checked at the end |
| `continue_verbose` | the phases of `script` | a violation: after an error the log is not verbose |
| `cache_truncate` | reads beside writes that fail in `cache` | a violation: `GetFile` hands out wrong bytes |

### Why the bounds are enough

- `script`: vocabularies are separate because commands of different ones interact only
  through state that the vocabularies include (`exec&` is in all that need processes, a
  line that may fail in all). Four lines let two background commands start, be waited
  for and be followed by a stop or a skip; three phases with a failing line each take
  five. Two processes have all orders of exit between them. The theorems for `NoOrphans`,
  `UniqueNames`, `FailedPhasesShown` and `VerdictFaithful` lift these bounds.
- `work`: three runners are the fewest with one at work, one asleep and one woken, which
  the lost wakeup of `Add` needs; three items let one be added while another waits.
- `memo`: three callers let one run the function while a second waits for the mutex and
  a third comes late or calls `Get`. One key is enough because keys share nothing but
  the map, which the theorems show for any set of keys.

- `cache`: two bytes are the fewest with one before the last, which `copyFile` holds back.
  What is considered is split by what can go wrong (`Runs`): filling with deaths,
  a failing disk, earlier damage, verify mode, trimming as the clock goes, trimming while
  others put, spoiled trim times. The clock goes to 4 with intervals of 1 and 2, enough for a
  time that is older than the last use to reach the cutoff. Two processes are enough for
  each race in the code, which is between two system calls of one and one of another.

- `locks`: two goroutines of a process are needed for its queue, and one outside for
  what the kernel sees; with three a queue has an owner and two who wait, or one is handed
  over to while another comes. Two bytes let a write be torn, and let `Transform` shrink and
  grow what there is. The budgets of calls, failures and deaths are split because all at
  once are beyond TLC: three goroutines without failures; two of one process with one
  failure; two of two processes with two failures and a death; the `Mutex` with both.
- `suite`: names like `a`, `a` and `a#1` in both orders are the ones for which the number that
  makes a name unique must be tried again. A suite is either about directories, with every way a
  script may end and every runner, or about the proxy, with what its clients may ask. Three
  versions are two releases, one of which has no hash in its archive, and a
  pseudo-version. A background command that still asks when the server stops is among the plans.
- `texts`: three lines let a marker be first, last or between data; a line of a diff is one of
  four, which all occur once, or some twice. With `C = 1` two chunks need two equal lines
  between them and go on as one with fewer, so that five lines hold either, and a side that is
  empty; nothing in the code depends on 3. Six characters hold two arguments with quotes, or one with
  a doubled quote and a comment.

### Fairness

Goroutines that can go on eventually do: `Caller` and `Helper` of `waitOrStop`, the
script's goroutine, each runner and each caller of a cache. Processes get none of
their own: a child ends only if it wants to, except that one that received a signal it
heeds eventually dies (`ExitBySignal`, `Exit` of a signalled process). In `Script` every
program heeds its signals; one that does not makes `waitOrStop` block, which is what
`DeadlineEnforced` and the run `background_deadline` are about. The function given to
`par.Work` or `par.Cache` returns, or panics if it may. In `LockedFile` every goroutine whose
step is possible takes it, system calls that fail do not have to, and the kernel grants a lock
that stays free; calls are limited in number, so that nobody is overtaken for ever (without
that limit weak fairness would not be enough, as the kernel promises no order). In `Suite` the
runner, scripts and handlers go on and the deadline, if there is one, comes; clients need not ask.

## What the violations show

- **`EscalatesToKill`**. The comment in `RunT` says that after the first grace period "we'll
  escalate to os.Kill". `cmdExec` passes `-1` for the delay of a background command, so
  one that ignores `SIGQUIT` outlives the deadline, and a `wait` for it blocks.
- **`StatusChecked`**. `doc.go` says that the exit status of a background command is checked
  at the latest at `stop` or at the end of the test. `run` calls `waitBackground(false)`, so a
  background command that failed by itself goes unnoticed there.
- **`ContinuesVerbose`**. `Params.ContinueOnError` says that after an error the script
  "will continue as if in verbose mode". The next phase comment resets `verbose`, and
  the log of later phases is dropped.

- **`ServedRight`**. The doc of `cache.Open` says that processes that use one cache "will not
  corrupt" it. When the copy of an output fails in one process, it truncates the file
  while another writes it; that one goes on at its offset, and its last byte gives the
  file the right size with zeros in front. `Put` reports success and `GetFile` compares
  sizes only. `GetBytes`, which compares the hash, misses. Without failing reads or writes
  this does not happen (`IndexHonest`).

More things the models make explicit without stating a property against them: a
run that failed, continued and then reached `skip` is reported as skipped
(`VerdictFaithful` excepts it); a function that panics in `par.Cache.Do` leaves the
entry locked, so that later calls for its key never return (`CallsReturn` excepts it); a `Put` of an output that is there already
leaves its time alone, so that a `Trim` may remove it at once (`IndexHonest` excepts what
was removed). And:

- On POSIX locks, `closeFile` unlocks before it closes (`lockedfile_filelock.go:55-65`). Unlocking hands the
  lock to the next goroutine of the process, and closing the descriptor afterwards drops
  what the process has locked of the file, so that the new owner is not protected from
  other processes (`robbed` in `FileLock`; `Exclusive` and `Implements` except it).
- A `Transform` whose write failed and whose rollback fails too leaves a mixture
  (`spoiled` in `LockedFile`), as its comment admits.
- With `-run`, `refCount` never gets to zero (`testscript.go:320, 360`), the temporary directory
  stays and the context is never cancelled (`Cleaned` is about suites without a filter). Nor is there anything to remove it when
  `Params.Files` is given but empty: the last script does that, and there is none.
- An archive of the proxy that does not parse makes the handler panic inside `par.Cache.Do`; the next
  request for it blocks, and with it the server's `Close`, until the deadline (`ScriptsEnd`).
- An archive without a hash matches every revision asked for (`proxy.go:248`).
- `Parse` panics on the line `-- --`, whose two marks share their space (`archive.go:162-176`; the
  package comment says that there are no syntax errors), and `NeedsQuote` does too. A
  marker that is the last line without a newline needs no quoting according to
  `NeedsQuote`, but `Format` adds the newline; and one that ends in a carriage return but has
  no newline is not taken for one. `TxtarRight` names these exceptions; `txtar-c` adds the
  newline first and is not affected by the latter two.
- The comment of `MatchFile` says that files for linux are matched on android
  (`build.go:153`); only `matchTag` does that.

## What is proved

All theorems hold for every value of the constants under the modules' `ASSUME`s, which
only say that bounds are natural numbers, that the markers for "none" are not data, and that the
names used in properties exist.

Types are proved for each of these modules (in `SuiteProof` as `SuiteType` and `ProxyType`, parts of its invariants), and
the runs of `WaitOrStop`, `Script`, `ParWork`, `ParCache` and `Suite` do not check them again.

- `WaitOrStopProof`: `TypeOK`, `Attribution`, `HonestError`, `NoHelperLeak`. The invariant says
  what the helper knows at each of its places: that the context expired, which
  signals it sent, what `err` holds.
- `ScriptProof`: `TypeOK`, `NoOrphans`, `UniqueNames`, `FailedPhasesShown`, `VerdictFaithful`, for any number
  of lines, processes and names. `NoOrphans` needs that processes start in order, that
  what the goroutine is blocked in exists, and that a wait for all passes only over
  processes that were collected (`TrackInv`); steps are classified by what they touch, and
  quiet ones dispatched together. `FailedPhasesShown` needs that a failed phase is kept,
  or is the current one with `dirty` and either `loud` or about to be flushed (`LogInv`).
  Further `InputOnce`, `OutputComplete`, `QuietPhases`, `SkipChecksStatus`,
  `UpdatesNotLost`. Most steps leave the processes, what they were given and what is waited for alone
  (`CalmOrStriking`). `UpdatesInv`: an update is pending until the deferred function has had its
  turn (`Updated`). `PhasesInv`: a run that is not verbose becomes loud only in a phase that
  failed. `OutputInv`: processes are in `ts.background` in the order they were started.
  `InputInv`: pending input, for a terminal or not, was given to nobody, except the process in the foreground, which
  leaves it set until it is done. `StatusInv`: while statuses are checked, a process that is neither in
  `ts.background` nor in the foreground ended as its line asked, or a line failed.
- `ParWorkProof`: `TypeOK`, `AtMostOnce`, `NoEarlyReturn`, `NoLostWakeup`, and that `ParWork` implements
  `WorkSet`. The invariant counts: `waiting` is the number of runners asleep or woken, and
  once one has returned nobody is at work and nothing is left.
- `ParCacheProof`: `TypeOK`, `OneRun`, `NoRacyRead`, and that `ParCache` implements `Memo`. The
  invariant ties each caller's entry to the map, the holder of a mutex to its place in
  `Do`, `done` to a result, and a count of runs to its reason: done, still running, or
  panicked with the mutex locked.
- `LockedFileProof`: `Exclusive`, first of `FileLock` alone and then of `LockedFile`, each step of
  which is one of `FileLock` or leaves the locks alone (`UsesLocks`). The invariant (`LockInv`):
  beyond the queue a goroutine is the owner, queues hold goroutines of their process, who is
  inside and not robbed has its lock in the kernel, and the kernel's locks do not conflict.
  `QueuesServe` is the part of `CallsEnd` that safety can say: who is blocked in its send is
  in the queue, once, and behind an owner that has not yet handed over; the first of the
  queue is sending when it is handed the lock; and `unlock` never panics.
  Further `TypeOK`, and `Implements`: every step of `LockedFile` is one of `AtomicFile` or leaves it
  alone. For that `FileInv` says that a goroutine's lock and its function are in step (`Fits`), and,
  until something is spoiled, that who writes is alone, what it has made of the file at each
  of its places (`Edited`), what it goes by (`Planned`), and that readers have read a prefix of it.
- `BuildCacheProof`: `TypeOK`, `TrimSpares`, `IndexHonest` and `PutRepairs`, for any number of processes, actions
  and outputs; and of `ServedRight`, which the code violates, that it holds without faults and
  damage. `HonestInv`: without them output files only grow, by bytes of the output, so that a
  writer finds in the file at least what it has copied (`Grown`, `Reached`), who writes an entry
  has seen the file whole, or it was trimmed (`Ready`), and so it is with what entries name
  (`There`). `RepairInv`, about any disk: what a `Put` that runs alone has copied so far is right, and
  nothing that was there before is left behind it (`Alone`, `Mending`).
- `SuiteProof`: `StillThere`, `Cleaned` and `ServedRight`, for any scripts, runners, clients and versions.
  `SuiteInv`: names are given once, and the search for a free one ends because as many
  counters as there are names cannot all be taken (`NameIsFree`); the directories are those of the
  scripts that have made theirs and not removed it; `refCount` is the number of scripts that have not
  decremented it, so that the one that finds it zero is alone. `ProxyInv`: an archive is read by
  one handler, and once; what was read is an edition of the time the server was up, and does not
  change; a handler that goes through the list of versions knows the best so far, by hashes
  that can no longer change because their archives were read. That a version so found is the one
  `Resolved` defines, and that what `latestVersion` computes is the greatest, are inductions over the
  list, done as the absence of a least counterexample among the natural numbers (`Least`).
- `TextsProof`: `TxtarRight`, `DiffRight`, `BuildRight` and `LineRight`, for texts of any lines and any length, for
  directories of any files, for any amount of
  context, for files of any tokens and lines, and for lines, words and names of any characters. What a loop of the code computes is a function of the
  number of its iterations, and what holds after each is shown by the absence of a least
  counterexample.
  - `tgs`: the search for the place of a rank in `T` is right because `T` grows (`Table`); `L` is, for each place, the length
    of the longest subsequence that ends there: one of that length exists (`Follows`), and
    what comes later with a greater rank is longer (`Grows`). So what is chosen on the way back is in order
    on both sides (`Rises`), and what is still to be found has a place before (`Pending`). No other
    subsequence is longer, as `L` is different for all places of one (`NoneLonger`).
  - `Diff`: after each match the chunks printed patch the texts up to `done`, or up to where the
    chunk under construction begins (`Holds`, `PatchedTo`), that chunk is about the lines between, what
    matches is aligned, and a line that was removed is none of those that occur once in both texts and
    were matched (`Lost`, `Aligned`).
  - `Parse`: how the parser stands after each character says on which side of a quote it is (`Inside`),
    that what it collects is the meaning of a run of characters without a blank (`Growing`), and that
    the arguments so far are those that were over before (`ArgsTo`); a quote that is the second of two
    is skipped with no effect on either. For words between quotes, that the scanner is at the
    beginning of a word with the words before as its arguments (`Fresh`), and within it with what
    was written so far (`InWord`), wherever the text was laid down (`Laid`).
  - `AlmostEqual`: from the first place where two names differ (`Parting`), what remains is compared with one
    shift; whatever character the names are near by (`OneMore`, `OneOther`, `Exchanged`), it is this one or leads
    to the same result.
  - `txtar`: `FindFileMarker`, of the text after some line, finds the next marker (`NextMark`), so that `Parse` cuts a text at
    its markers, wherever they are (`Unpacked`), and none is left in its parts (`ParseClean`). `Format` puts a
    marker where each file begins (`Archived`); if no other line is one (`CleanArchives`) these are the
    next markers of each other, and `Parse` finds the same archive (`RoundTrip`). That `Parse` gives only
    such archives is also why what has a marker in it is not found again, and so needs quoting
    (`NeedsQuoteIs`); a quoted line is no marker (`QuoteIs`). After each entry the archive of `txtar-c` is clean and has exactly the files of
    the entries so far, with a note on each that is quoted (`Saved`); as `filepath.Walk` comes to each entry once
    (`Walks`), names are different, so that nothing stops `Write`, and a note speaks of one file only.
  - `MatchFile` and `ScanDir`: evaluation is monotone in what `*` makes true, so that a file that some tags build is
    matched under `*`; the tags that a file wants by itself (`Wanted`) show that nothing more is.

## What is only model-checked

Every invariant of a passing run is stated by a theorem. Left to TLC are:

- All liveness properties (`DeadlineEnforced`, `ExitReported`, `Unwinds`, `DeadlineEnds`, `AllReturn`, `CallsReturn`,
  `CallsEnd`, `ScriptsEnd`), since TLAPS does not do fairness.

## What is not modelled

See `components` in `PROJECT.json` for each part. In `Script`: the text of scripts, files,
environment, expansion and conditions (a line runs or it does not), and the contents
of output (whose it is, not what it says). `Process.Kill` after a failed interrupt
succeeds. In `ParWork`, `Add` from outside while `Do` runs, which the comments do not
provide for, and a function that panics. In `ParCache`, a function that calls `Do` for its own key.
In `BuildCache`: an index entry is read and written in one step; `used` looks and sets
in one step; a file is hashed in one step; the file given to `Put` does not change
meanwhile, as `Put` demands; a machine does not lose what was written. What fails
without a change is `Crash`.

In `FileLock`: `EINTR` and `EDEADLK`, which only repeat the call; an unlocking that fails. In
`LockedFile`: opening fails or succeeds as a whole, and nothing else writes to the file. The build
for Plan 9 has no locks, and that for Windows those of `flock`. In `Suite`: paths and the text
of scripts; that two archives of different modules may have one name in the directory (`a_b`,
`a/b`); flags and standard input of `cmd/testscript`. In `GoProxy`: the order of versions in the directory's
listing is that of their names, which the model takes to be any; one module, whose answers are the
edition of the archive they come from, which is read and rewritten in one step: of an archive
that is a directory the code reads file by file (`proxy.go:350-381`), and a rewrite meanwhile would
give it a mixture, of which `ServedRight` says nothing; a missing `.mod` is like a missing `.info`. In `Txtar`: names
are whole, so that spaces at their ends, which `Parse` strips, and a file where a directory
should be are left out. In `Imports`: tokens are given, and the value of a literal comes with it. Not at all:
`fmtsort`, whose order is that of reflected values; `condition`, which asks the machine; the
commands of scripts that read, compare and copy files; `pty`, hashing, and the packages that
forward to others.

## What comes next

1. `fmtsort`: that its comparison orders, for values without NaN and with.
2. Conditions and the file commands of scripts, as operators on a small tree of files.
