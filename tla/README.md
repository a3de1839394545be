# BitBake: a verification project

TLA+ models of BitBake's own core logic, the TLC runs that check them on small
instances, and theorems about them that TLAPS proves. The reference is the source
(`src/`), read with its tests and manual; `PROJECT.json` maps every definition to the
lines it models and lists components, runs, mutants, hazards and findings.

    cd tla
    tlc -workers 2 -config MCFork.cfg MCRunQueue     # a run
    tlapm FetchProofs.tla                            # proofs, one of eight such modules

## 1. Inventory

BitBake is a server process (the *cooker*) with an idle thread that calls whatever work
is registered, a UI process that sends it commands, parser processes, and a worker
process per multiconfig that forks one process per task. Beside them run, locally or
elsewhere, a hash equivalence server and a PR server.

| Component | State it keeps | Operations | What is hard | What makes it correct |
|---|---|---|---|---|
| **Run queue** (`bb/runqueue.py`, `RunQueue`, `RunQueueExecute`) | task sets `runq_buildable/running/complete/tasksrun`; scene queue sets; `sq_deferred`, `build_stamps`, `stats`, unihashes | one turn of `execute()`: read pipes, migrate, pick a setscene task, `update_holdofftasks`, pick a task, conclude; `finish`, `finish_now` | reports of workers arrive between any two steps; rehashes reopen what was decided; a dozen sets kept in step by hand | dependency order; nothing runs under a restore; what runs has its inputs; slots and stamps respected; the build ends, and with the right result |
| **Scene queue construction** (`build_scenequeue_data`) | squashed reverse dependencies, end points of a round | peel a point, next round | order of a dictionary; recursion | the graph collapsed onto its setscene tasks |
| Run queue preparation (`RunQueueData.prepare`) | `runtaskentries`, weights | expand dependencies, weights, find cycles | recursive dependencies | acyclic; weights follow the graph |
| Schedulers | priority map, buildable set | `next_buildable_task`, `newbuildable` | priorities against limits | only runnable tasks |
| **Task workers** (`bin/bitbake-worker`, `runQueuePipe`) | byte queues, `build_pids`, `build_pipes` | fork a task, read its pipe, reap it, `finishnow`, `quit` | partial messages, death of either side | no report lost, events before the exit code, the teardown ends |
| **Cooker server** (`bb/server/process.py`, `bb/main.py`) | controller socket, UI connection, idle functions, `bitbake.lock`, `bitbake.sock` | accept, disconnect, command, idle loop, start, exit | two threads, 30 s time-outs, servers handing over a lock file | one UI, one asynchronous command, one server per build directory |
| **Commands and cooker state** (`bb/command.py`, `bb/cooker.py`) | `currentAsyncCommand`, `State`, parser | run, finish, shut down, reset | a stop or a disconnect during a command | every command answered; a clean cooker for each client |
| **Recipe parsers** (`Parser`, `CookerParser`) | shared job counter, result queue | take a job, put a result, read it, shut down | a full queue against join; two threads shutting down | a parse that ends well has every recipe; shutdown ends |
| **Hash equivalence server** (`hashserv`) | tables of output hashes and unihashes, backfill queue | report, get, stream, mark, sweep, remove | requests sent again, an upstream server, crashes between transactions | what was answered is recorded; equal outputs share a unihash |
| **PR server** (`prserv`) | table of checksums and values | get-pr with and without history | the same, and revisions that are texts | a value told is kept; values do not go down |
| **asyncrpc** | connections | a call, its retries; a handler's end | a retry of a call already carried out | every call ends |
| **Fetcher** (`bb/fetch2`) | the file, its partial download, its done stamp, its lock | `do_fetch`, `do_unpack`, `do_cleanall` | kills between any two files; sources that serve something else | what is unpacked was verified; a right source is found |
| **Lock files** (`bb/utils.lockfile`) | file, inode, `flock` | lock, unlock | the file is removed while another waits on it | mutual exclusion |
| Events (`bb/event.py`) | handlers, UI handlers, `ui_queue` | fire, register, unregister | UI not ready, two threads | none lost, in order |
| Stamps, task execution (`bb/build.py`); signatures (`bb/siggen.py`) | stamp files; unihashes | `make_stamp`; `get_unihash`, `report_unihash` | stamps of several kinds and hashes | hash of a restored task kept |
| Data store, providers, task data, caches, disk monitor, parsing | dictionaries | sequential functions | aliasing in copy on write, stale cache entries | equal to a reference definition |
| UIs, tinfoil, toaster, layer tools, bitbake-setup, vendored code | - | - | - | left out: presentation, separate programs or third-party |

How they meet. A client finds or starts a server through `bitbake.lock` and
`bitbake.sock` (`ServerLock`), and sends it commands; the main thread hands the
asynchronous ones to the idle thread (`CookerServer`), which parses (`CookerParser`) and
builds: every turn of its loop calls the run queue (`RunQueue`), which turns a stop
requested by the UI into `finish_runqueue`. The run queue writes to the workers and
reads events and exit codes from their pipes (`WorkerPipe`); tasks fetch (`Fetch`) under
lock files (`Lockfile`), and report output hashes and ask for revisions (`HashEquiv`,
`PRServer`) over asyncrpc. Where two modules share something, one models the other's
part by all it can do: to `CookerServer` a build is a thing that ends or raises; to
`RunQueue` a worker is what it reports, and `WorkerPipe` is about how that arrives; to
`ServerLock` a server may end at any time, and `CookerServer` is about when it does;
`Fetch` is given the lock that `Lockfile`, in `ServerLock`, takes apart step by step.

## 2. Plan

| Order | Module | What | State |
|---|---|---|---|
| 1 | `SceneQueueData`, `SceneQueueBuild` | the collapsed graph as operators; the peeling algorithm against it | done |
| 2 | `TaskGraph`, `RunQueue` | what a build promises; the run queue, which implements it | done |
| 3 | `RunQueueProofs` | types, attribution of exit codes, order, refinement; nothing runs under a restore, slots, stamps, both covered and not, good ends | done, see section 6 for what is left |
| 4 | `WorkerPipe`, `WorkerPipeProofs` | events and exit codes through two pipes, teardown, death of the worker | done |
| 5 | `CookerServer`, `CookerServerProofs` | clients, idle thread, one asynchronous command, stops | done |
| 6 | `Lockfile`, `ServerLock`, `ServerLockProofs` | the lock file with its inode check; one server per build directory | done |
| 7 | `CookerParser`, `CookerParserProofs` | jobs, result queue, shutdown by either thread | done |
| 8 | `HashEquiv`, `PRServer`, `HashEquivProofs`, `PRServerProofs` | the two servers with their clients, upstream, retries, crashes | done |
| 9 | `Fetch`, `FetchProofs` | file, partial download, done stamp, mirrors, kills; what is unpacked was verified, a right upstream source is found | done |
| 10 | `EventQueue` | handlers and the queue of events kept for a UI | |
| 11 | `Schedulers`, `Prepare`, `CowDict`, `Providers` | algorithms against reference definitions | |
| 12 | shared and blocking `lockfile()` | added to `Lockfile` | |

Worth proving next: under which deferrals the setscene half of `RunsApart` holds, and the
end of a build under BB_SETSCENE_ENFORCE.

## 3. Modules

### `SceneQueueData` and `SceneQueueBuild`

`build_scenequeue_data()` collapses the task graph onto its setscene tasks.
`SceneQueueData` says what the result is: `sq_revdeps` (setscene tasks joined by a path
of plain tasks), `sq_covered_tasks`, `unskippable`, `cantskip`. `SceneQueueBuild` is the
algorithm: `endpoints`, `newendpoints`, `sq_revdeps` and `sq_revdeps_squash` are the
dictionaries of the code, `ProcessPoint` is one iteration of `process_endpoints`,
`NextRound` its recursive call. The order of iteration is free; the graph and the set of
setscene tasks are inputs chosen in `Init`. The step that computes `unskippable` is a
plain fixpoint and is used as defined in `SceneQueueData`.

### `RunQueue`

State. The sets of `RunQueueExecute` keep their names. The record `sq` groups those of
the scene queue (`sq.covered` is `scenequeue_covered`, `sq.done` is
`tasks_scenequeue_done`, `sq.outrightfail` is `sqdata.outrightfail`). `active` is
`stats.active`. `build_stamps` maps a task to the name of the stamp its process will
write (`StampName`: the kind, what `Stamp` gives the task, the unihash of the moment);
`scene_stamps` has the hashes in `sqdata.stamps`. The names the scheduler looks for are
those of `InitHash`, since it computes them once (161-164).
`worker` is what the task processes are doing, `stamps` what is on disk, `updates` which
tasks have reported a unihash.

Control. One call of `execute()` is a turn; the variable `stage` is the program counter
between the places where the code reads a pipe or may return.

| Stage | Actions | Code |
|---|---|---|
| turn | `BeginTurn`, `CleanUp`, `Teardown`; `Stop`, `ForceStop` by the user | `_execute_runqueue`, `finish`, `finish_now`, `buildTargetsIdle` |
| read, wait | `Exit` (`SetsceneExit`, `TaskComplete`, `TaskFail`), `UniHashUpdate`, `EndRead` | `runQueuePipe.read`, `runqueue_process_waitpid` |
| migrate | `ApplyUpdate` (one each), `Migrate` (`Rejudge` or `HaltOnRerun`), `NothingToMigrate` | `process_possible_migrations` |
| scene | `SceneNotNeeded`, `SceneNeedHardDeps`, `SceneSettle`, `SceneStart`, `SceneNone` | lines 2211-2333 |
| holdoff | `Holdoff` | `update_holdofftasks`, 2337-2353 |
| sched | `SchedUnexpected`, `SchedSkip`, `SchedNoExec`, `SchedStart`, `SchedNone` | 2355-2433 |
| end | `EndWait`, `EndForceDeferred`, `Conclude` | 2435-2468 |

What a handler calls is part of its action: an exit code of a task that others were
deferred until releases the first of them and judges it again (`update_scenequeue_data`)
in the same step; a failed setscene task fails those with a hard dependency on it
(`HardFailures`, the least set closed under the recursive calls of `sq_task_failoutright`
and `update_scenequeue_data`).

Abstractions, each wider than the code unless said otherwise.

- The priorities of a scheduler: `Sched` takes any runnable task. The scan of setscene
  tasks goes round from where it stopped: any candidate may be met first, and those it
  may have put aside on the way are any subset of `PassedOver`.
- BB_HASHCHECK_FUNCTION, BB_SETSCENE_DEPVALID and the hash server are any answer in
  `MayBeValid`, `DepValid`, `Hash`. `HashAssumption` and the like say no more.
- The graph has no circle (`AcyclicAssumption`): `calculate_task_weights()` finds the
  tasks that depend on each other in a circle, and ends the build before it begins
  (lines 638-656). Nothing looks for circles of hard dependencies.
- Memory, IO and CPU pressure: with a task active, nothing may be started.
- Timestamps of stamps: a stamp is `real` (left by an earlier build), `rebuilt` (by this
  one) or `scene`. That is all `check_stamp_task` tells apart in a build whose earlier
  stamps are in order. Its cache is left out.
- A task's stamp and its exit code are one step; the code writes the stamp in the task's
  process just before.
- The setscene stamps of noexec tasks are made, at the start and in a migration, before
  any of the tasks is judged; the code makes them in the order of tids.
- "Halting build" returns half way through a loop over a set: any part of the loop may
  have been done.

### `TaskGraph`

The promise of a build: tasks are started, or skipped, with all they depend on complete;
a started task is completed at most once; nothing happens after the end. `RunQueue`
implements it with `started <- runq_running`, `done <- runq_complete`, `over <- (stage =
"done")`.

### `WorkerPipe`

How reports arrive. A task's process writes events to its pipe (`child_pipe`);
`bitbake-worker` reads these pipes (`ReadChild`, `build_pipes`), puts whole messages and
the exit codes of the children it reaps (`Waitpid`) into `worker_queue`, and its writer
thread (`Collect`, `Write`) writes them to `worker_pipe`, which `runQueuePipe.read`
(`Read`, `TeardownRead`) takes apart. A pipe is a sequence of pieces and holds
`PipeSize` of them; a message is two pieces and may be written and read between them.
`Whole` and `Rest` are the search for the end tag. The messages to the worker are in
`stdin`; `HandleFinishnow`, `Kill`, `Reap`, `KillEnds`, `FlushChild` and `FinishNowEnds`
are the steps of `handle_finishnow`, in which the worker reads nothing until, in the end,
it reads each pipe once. `Gone` includes what the kernel
does then (PR_SET_PDEATHSIG). The worker may die between any two steps. The run queue is
reduced to what it does to the pipe: starts tasks in any order, concludes, is stopped at
once, tears the worker down (`_teardown_worker`).

### `CookerServer`

`ProcessServer.main()` and its idle thread as two program counters, `main` and `idle`.
Shared are `idlefuns`, `currentAsyncCommand` (both under `_idlefuncsLock`; a wait on
`idle_cond` is a step that needs `IdleCheck`), and, under no lock, `state` and the
parser. A wait of 30 seconds may end at any time: `SetAsyncCmdTimeout`,
`DisconnectTimeout`. `RunAsyncCommand` to `FireCompletion` follow `runAsyncCommand`,
`updateCache`, the command, and `finishAsyncCommand` with its three separate effects
(`finishcommand`, `clear_async_cmd`, `fire`). A build is the idle function
`buildTargetsIdle`, which ends or raises. Clients (`Connect`, `Request`, `Close`) are
outside and do as they please, except that they wait for a reply before the next
request. `awaiting` counts the commands each client has to be told the end of; only an
end of its own command counts (`ended` remembers whose it was).

### `Lockfile` and `ServerLock`

`Lockfile` is `lockfile()` and `unlockfile()` system call by system call: `path` is the
inode the name leads to, `fd` what each process has open, `flock` who holds the lock of
each inode, `granted` who was returned a file. `Verified` is the comparison of inodes
after `flock`. A lock belongs to the open file, so `HandOver` gives it to a process
started with the descriptor, and the end of a process releases it.

`ServerLock` puts it to use: clients in `setup_bitbake()` (take the lock and start a
server, or look for the socket and connect, or wait for the lock of a server that is
leaving; `retries` and `tries`), servers from `execServer()` to the end of `main()`
(`RemoveStaleSocket`, `Bind`, `CreateCooker`, ..., `CloseLock`, and the loop that takes
the lock again to remove the file), and one process left behind by a server with the
lock file open, when it exits or is killed (`LetGo`). Everyone may be killed. Time limits are a choice to give up.

### `CookerParser`

Parser processes take recipes from a shared counter (`todo`), and send results through
one queue: a buffer in each sender, which its feeder thread moves to a pipe of few
results (`Feed`), and a process that closes the queue ends only with an empty buffer
(`End`). The idle thread is `reader`: `Check`, `Get`, `GetTimeout` are one turn of
`parse_generator()`. `shutdown()` runs step by step (`Drain`, `Drained`, `Interrupt`,
`Terminate`), called by the reader or by the main thread (`Stop`) on the same queue and
processes. Parsers may be killed, except in the middle of a write to the pipe, which
would leave its lock taken.

### `HashEquiv`

The tables of the server (`outhashes`, each row with the time it was created by `clock`;
`unihashes` with their marks; the current mark), a handler per connection with its position between two
transactions or requests to upstream, and the loop: on sqlite a handler keeps it
(`loop`) until it asks upstream; on the sqlalchemy backend every transaction lets others
in (`Backend`). `Insert` to `Record` follow `handle_report`, `Find` to `UpstreamFails`
`get_unihash` and the stream, `GcMark`, `CheckMark` and `Sweep` garbage collection;
`Backfill` is the worker that copies from upstream. A client sends again over a new
connection when its own breaks, while the first handler goes on (`_send_wrapper`);
`Crash` loses the handlers and keeps the tables. Upstream is a server that knows some
hashes and does not change.

### `PRServer`

One version of one package. A revision is a sequence of numbers; `TextLess` is the order
of the texts the code compares in one place, `revision_greater` the order it compares in
the others. `rows` is the table, `find_value` and the like its queries.
`extremum_value` is the loop over the rows in the order of the index: it is given by the
rows whose value the loop takes, of which the last one counts. A handler runs from one question to upstream to the next
(`Begin`, `KnownHistory`, `Known`, `KnownBelow`, `KnownFails`, `Package`, `NewUpstream`,
`NewHere` go by the branches of `handle_get_pr`). The upstream server is a PR server
without upstream which others use too (`UpstreamGets`), and may fail to answer, which ends
the handler (`UpstreamFails`). Retries and crashes are as in
`HashEquiv`. An answer is recorded as told when it is sent, whether it arrives or not.

### `Fetch`

Recipes that name the same file. `localpath`, `tmp` (the partial download of wget),
`donestamp` (which may be `Torn`: opened and not yet written) and `lock` are what they
share. `pc` follows `Fetch.download()`, `try_mirrors`, `verify_donestamp` and
`update_donestamp`, `unpack()` and `clean()` between any two changes of these files. A
source serves its bytes; wget continues what is there, and continuing another source's
download gives `Mixed`. Each recipe gives a checksum or none. A task may be killed
anywhere and is started again by a later build.

## 4. Runs

Every constant is in the `.cfg`; the graphs are in `MCRunQueue`, the sources and
requests in `MCFetch` and `MCHashEquiv`.

| Run | Shows | States |
|---|---|---|
| `scene_queue_build` | every acyclic graph on 5 tasks, every set of setscene tasks, every order of points: the result is exact, nothing is left behind, the recursion ends | 431 395 |
| `fork` | a package used by two others, one with a hard dependency, one task noexec; any of three stamps of earlier builds, one of them under another hash (none of the dependent task's own, see section 5); with and without `--continue`, `--setscene-only`; any failures; two unihash changes: order, inputs, no real task under a restore, hashes kept, counters exact, right result, exit codes attributed, none both covered and not, implements `TaskGraph` | 481 874 |
| `twins` | two recipes in two multiconfigs with a failing restore, interrupts, a `number_threads` limit, halting or under BB_SETSCENE_ENFORCE: two processes share a stamp only if a task was rehashed, limits hold, the sanity checks never trip, tasks deferred in a circle are forced, the build ends | 198 865 |
| `worker_pipe` | two tasks, full pipes, a stop at once, a worker that may die: exit codes come last and are right, nothing is lost by a teardown, the teardown ends | 335 809 |
| `cooker_server` | two clients, any two requests each of seven, any disconnects: one command, a clean cooker, each client told the end of each command, the server ends | 96 553 |
| `server_lock` | two clients, two servers, a process left behind by one that exits or is killed, one kill: one server, which can be reached, and clients that end | 657 700 |
| `cooker_parser` | two parsers, three recipes of which one may fail, a kill, a stop at any time: a good end has every recipe, no false alarm, no result lost, no one left waiting | 564 028 |
| `hash_equiv` | two clients with nine kinds of request, with and without upstream, a broken connection or crash: answers are in the table, equal outputs unified, rows stable, sweeps keep what is marked, requests end | 602 351 |
| `pr_server` | two clients, two checksums, with and without an upstream that others use and that may fail: answers kept, and repeated without upstream, no decrease without upstream, requests end | 267 469 |
| `fetch` | two recipes, one without a checksum, a bad premirror, kills everywhere: what is unpacked and stamped was verified, a right source is found, the lock is given up, who waits is served unless overtaken again and again | 45 070 |

Two more runs expect a violation: see section 5. What varies between the behaviours of
one run is chosen in `Init`: for the run queue `configuration` (`Configurations` is the
set it is taken from), the stamps left by earlier builds and the answer of the hash
check; for the servers, whether there is an upstream.

Bounds, and why they are enough for what a run is after.

- Run queue. `MaxUpdates` 2: a task reports once per run, and two reports are needed to
  reopen a task that was reopened. `Hash` has two values: what matters is equal or not.
  `NumberTasks` 2, so that a real and a setscene process compete. `ActiveFloor` stops
  `stats.active` from being counted down for ever, as the code does when it refuses
  tasks under BB_SETSCENE_ENFORCE; it is -2 in `twins`, where a halting build refuses
  one task at most, and never reached.
- Pipes. `PipeSize` 2 is one message in the pipe, `MaxEvents` 1 an event before the exit
  code; with two tasks two messages meet in every queue. In `cooker_parser` the pipe
  holds two results of three recipes, so that a sender can be left waiting.
- `MaxDeaths`, `MaxKills`, `MaxFaults` are 1: each run is about recovery from one; in
  `fetch` kills are not bounded.
- `MaxTries` is 1 where the code has 3, `Retries` and `Patience` are 2 where it has 8
  and 50: one and the last are the cases the code tells apart. `Inode` has one for every
  file that can be open.
- `MaxRequests`: 2 of each client in `cooker_server`, 3 in all in `hash_equiv` (a
  report, a second of the same output, and an administrator's between), 2 in all in
  `pr_server` besides those of others upstream (`MaxUpstream`).

Deadlock is checked in the runs of the run queue, the scene queue and the fetcher, whose
end is a step or can be started again. The others may stop, when every client has gone
or every request was made, and say so with CHECK_DEADLOCK FALSE; that nobody is left
waiting is a liveness property there (`TornDown`, `CommandsAnswered`, `ServerEnds`,
`ClientsEnd`, `ParserEnds`, `RequestsEnd`).

Each property has a mutant in `PROJECT.json`: a change of one definition, of the kind a
slip in that code would be, under which TLC finds the property violated. The mutated
operators stand beside the originals, marked `Mutant:`.

### Fairness

- `RunQueue`: `WF(Turn)`, `SF(WorkerExit)`. The idle loop (`server/process.py:403`)
  calls the run queue again as long as it returns something, so a turn that can go on
  does. A task process is assumed to end, and its exit code to be read: it can be read
  only in the stages "read" and "wait", again and again, hence strong fairness. No task,
  order or answer is fair; interrupts and reports need not happen.
- `SceneQueueBuild`: `WF(Next)`, a sequential algorithm.
- `WorkerPipe`: weak fairness of each process and thread, so a task ends or is killed.
  Neither a death of the worker nor a stop has to happen.
- `CookerServer`: the idle thread and the main thread go on. `Accept` and `Serve` are
  strongly fair, since a turn of the main loop looks at every descriptor but is not
  always at that place. A time limit that is waited for expires. Parsing and builds come
  to an end (strong, as they are turns of one function among others). Clients need do
  nothing, except that one that got no reply gives up.
- `ServerLock`: clients go on; they have a time limit for each wait. Servers need not.
- `CookerParser`: parsers, feeders, reader and the shutting thread go on.
- `HashEquiv`, `PRServer`: handlers that are ready run, upstream answers or fails,
  clients try again or give up, the backfill worker works. Connections need not break.
- `Fetch`: a task that is not killed goes on, since wget has a time limit, and takes the
  lock if it stays free (weak). It need not be served in turn: `lockfile()` says of itself
  that "the last person to request the lock is the most likely to win it"
  (`utils.py:561`), and who waited on a file that was removed starts over (569-573). So
  `FetchEnds` says that the lock is always given up, and that nobody waits for ever unless
  others take it again and again; that everybody gets it is false (section 5).

## 5. Findings

Runs that expect a violation; the sources are quoted in `PROJECT.json`.

| Run | What the code does |
|---|---|
| `fetch_mirror` | Upstream serves a file with a wrong checksum: the fetcher removes the file but not `<file>.tmp`, and continues it from the mirror. wget has nothing to do, the wrong bytes take the file's place, and the fetch fails although the mirror has the right file (`fetch2/__init__.py:1976`). |
| `pr_server_ten` | `_get_value()` compares revisions as texts: once a package has reached 10, a request without history for the checksum of 9 is told 9 again (`prserv/db.py:184`). |

Observed as well, without a run of their own. Those marked (TLC) are counterexamples TLC
gave for instances or properties not kept here; the others were met while reading the
code that is modelled.

Run queue
- A `--setscene-only` build without setscene tasks fails with nothing failed: `sqdone` is
  set at once (1625), so the early return at 2344 is never reached, no task is run (2355),
  and the sanity checks call every task "never ran!" (2457).
- "marked as completed but now needing to rerun? Halting build." (2694) is never reached
  while `FailsAlone` (section 6) holds: what a task was passed over for stays covered, and
  what is covered does not migrate (`MigrateInOrder`).
- With `--continue` a failed task keeps its `number_threads` slot, and tasks of its name
  are never run (`runqueue.py:262`; TLC).
- With BB_SETSCENE_ENFORCE and `--continue`, a refused task is picked again in every
  turn, for ever (2364; TLC). Refusing one takes from `stats.active` what was never
  added, so that `finish()` may not wait for a running process (TLC). A setscene task
  that fails under BB_SETSCENE_ENFORCE sets CLEAN_UP (2831) but puts nothing in
  `failed_tids`: the build ends as COMPLETE with tasks that never ran. `EndIsRight` is
  therefore not claimed there.
- "No task should end up in both covered and uncovered, that is a bug." says 2175. A
  setscene task that another's failure fails can. `process_possible_migrations()`
  collects those that lack a hard dependency (2729) before `update_scenequeue_data()`
  covers those with a current stamp, and fails them all the same (2757; TLC, in `fork`
  with the stamp of `b_pkg`'s other hash on disk). A deferred one stays in
  `sq_deferred` when it is failed: its real task runs and leaves a stamp, and when the
  task it waited for completes, `task_completeoutright()` (2103) judges it again and
  covers it (TLC, with a twin of a task that has a hard dependency on a failed one;
  `HashesKept` is violated there as well). `FailsAlone` in `RunQueueProofs`, and
  `fork` with `CoveredXorNotCovered`, are about builds with neither.
- The name of a stamp has the unihash in it (`siggen.py:507`). The scheduler computes the
  names of all tasks when the build begins (161-164), and looks for these (278-280,
  295-297) among the names that tasks had when they started (2428). Once a task is
  rehashed it looks in vain, and two tasks that write one stamp can run at once (TLC: both
  images of `twins` rehashed). `RunsApart` is therefore about tasks that keep their hash.
- The check that keeps setscene tasks with one stamp apart compares names of different
  kinds (2224, 2327): only deferral does, which needs equal hashes (TLC). Deferred tasks
  that should be rehashed with the task they wait for were released before and are not
  (2574; TLC). `pending_hash_index` has the literal `"taskname"` (87): different tasks
  of a recipe with one hash are deferred against each other.

Workers
- When a worker dies, `finish_runqueue(True)` is called inside `read()`, and the state
  becomes COMPLETE, "all succeeded", if nothing had failed (3340, 1648).
  `CompleteMeansReported` is claimed of builds whose worker lived.
- `read()` asserts one `<event>` per message, while line 3358 provides for tags inside a
  payload. `handle_finishnow` does not reach children that have not called `setsid()`.

Cooker server
- `updateCache()` looks at the state and later assigns PARSING and RUNNING: a stop in
  between is overwritten (`cooker.py:1678`, 1689).
- `finishAsyncCommand()` clears the command before it fires its end: a client whose
  predecessor disconnected meanwhile can be told the end of a command it never sent
  (`command.py:106`; TLC). `FreshClient` leaves this event out, `CommandsAnswered` does
  not count it as an answer.
- `get_async_cmd()[0]` raises when the command ended meanwhile: no reply
  (`command.py:106`).
- `cooker.shutdown(True, idle=False)` (`process.py:340`): there is no such parameter;
  the TypeError is swallowed with the notifiers that should have been stopped.
- `startswith([list])` (`process.py:380`) raises TypeError, and the stale lock file
  stays. A client that gave up has closed the ready pipe: the server's "r" raises, and
  its socket stays.
- `event.py`: events kept for a UI are sent in reverse when the next one comes through
  `fire_ui_handlers` (222), which tests and pops without the lock: two threads can both
  find one event, and it appends and pops for ever if the UI is unregistered while the
  queue is not empty.

Hash equivalence server
- With an upstream that does not know the output, a second report of it may run while the
  first waits for upstream: both find no other, and get two unihashes (TLC:
  `EquivalentUnified` without `upstream = None`, an upstream that knows `t1` only).
- On the sqlalchemy backend two reports of one output can interleave and get two
  unihashes (`server.py:500`; TLC: `EquivalentUnified` with `Backend = "sqlalchemy"`),
  and after a crash between output hash and unihash a resent report is answered with a
  unihash that is not in the table (TLC: `AnswerIsRecorded`).
- `lastrowid != prevrowid` is always true (`sqlite.py:454`, 467). `clean_unused`
  subtracts a negative age (`server.py:659`). An exception in the backfill worker ends
  the whole server (`asyncrpc/serv.py:337`). The check of `gc_sweep` and its deletion
  are two transactions.

PR server
- With an upstream server (TLC): two handlers (of a request sent again, say) give one
  checksum two values, and history then answers the lower; two checksums may get one
  value, and values go down, as `KnownBelow` uses the local maximum read before the
  wait. By reading: a request without history for a checksum known here and a package
  upstream does not know compares with None and ends the connection (`serv.py:108`); a
  revision and its continuation are each greater than the other (`__init__.py:39`), so
  that a value goes from 0.0 back to 0.

Fetcher
- A recipe with a wrong checksum renames the file in `verify_donestamp` between
  another's `do_fetch` and `do_unpack` (TLC); hence `OneChecksum`. `do_cleanall` of
  another recipe, a bad premirror and a kill let unverified bytes be unpacked (TLC);
  hence `MayClean \subseteq {f}`.
- Of two recipes that fetch again and again, one may never get the lock (TLC, without
  strong fairness of `TakeLock`).
- A `.tmp` with bytes of two sources makes later fetches fail for ever without a mirror,
  and `do_cleanall` does not remove it. A mirror with a wrong checksum ends the fetch,
  later mirrors are not tried.

## 6. Proofs

`RunQueueProofs` proves, for every finite graph, every set of setscene tasks, hashes,
stamps, limits and flags that satisfy the assumptions of `RunQueue` (`GraphAssumption`,
`AcyclicAssumption`, `ThreadsAssumption`, `HashAssumption`, `RankAssumption`,
`ConfigAssumption`; TLC evaluates them in each run):

- `TypeCorrect`: `Spec => []TypeOK`. The lemmas before it say that each operator on the
  scene queue's record returns such a record, and that none but `Unsettle` takes a task
  out of `sq.running`.
- `ExitCodesAttributed`: `Spec => []WorkerInv`. An exit code names a task and nothing
  else; `sq_live` decides whose it is. The process left must belong to a task started or
  in `sq_live`, though migrations take setscene tasks back.
- `DependencyOrder`: `Spec => []DepsComplete`.
- `Refinement`: `Spec => RefinesTaskGraph`.

The inductive invariant is `IInv == TypeOK /\ OrderInv /\ WorkerInv`. The order alone is
not inductive: an exit code completes whatever task it names, so a step keeps the order
only if that task was started, which is `WorkerInv`; and a task may be completed only if
it was started with its dependencies complete, which is `OrderInv` on `runq_running`.
`InvStep` has one case per action. `WorkerInv` survives `Migrate` because a task in
`sq_live` or `runq_running` never migrates (`TooLate`). `StepRefines` shows from `IInv`
and the order that each action is a step of `TaskGraph` or none: `SchedStart` is
`Start`, `SchedSkip` and `SchedNoExec` are `Skip`, an exit code of a task is `Complete`,
`CleanUp`, `Teardown` and `ForceStop` are `End`.

The second part of the module goes on from there, with twelve theorems and a corollary.

- `NoRunUnderRestoreTheorem`: `Spec /\ []HardApart => []NoRunUnderRestore`, through
  restores, failures, deferrals, hash changes and stops.
- `CoveredXorTheorem`: `Spec /\ []FailsAlone => []CoveredXorNotCovered`.
- `HashesKeptTheorem`: `Spec /\ []FailsAlone => []HashesKept`: no task is rehashed while
  its process runs, and what was restored keeps its hash and a stamp under it.
- `InputsPresentTheorem`: `Spec /\ []FailsAlone => []InputsPresent`: what a running task
  depends on was run, found run or restored.
- `NoHardDependenciesTheorem`: these four without `HardApart` and `FailsAlone`, if no
  setscene task has a hard dependency.
- `ActiveCountedTheorem` and `NumberTasksTheorem`: until the build ends `stats.active` is
  the number of real processes, and never more than BB_NUMBER_THREADS run, real and
  setscene together, although the code counts the two apart. `CompleteTheorem`: a build
  that ends as COMPLETE completed every task, unless it was stopped or was to restore
  only, and left no process. These three also assume `NotEnforced`.
- `RealStampsTheorem` (under `HardApart`) and `NumberThreadsTheorem`: the real half of
  `StampExclusive`, which excepts rehashed tasks (section 5), and `number_threads`, both
  parts of `RunsApart`.
- `ActiveExactTheorem`: `Spec /\ []FailsAlone => []ActiveExact`: the count is exact, and a
  build that is over, for whatever reason, has left no process.
- `NoSpuriousFailureTheorem`: `Spec /\ []FailsAlone => []NoSpuriousFailure`: neither the
  checks on the scene queue nor those at the end of a build find anything; a build fails
  only because a task did.
- `EndIsRightTheorem`: `Spec /\ []FailsAlone => []EndIsRight`: what is complete is
  complete, and with `--continue` a build that ends by itself has started every task all
  of whose dependencies completed.

What they assume. `HardApart` is where a hash change and a hard dependency do not meet:
no hash changes, or the setscene tasks that have hard dependencies were not built before
and none of them is deferred. It is sufficient, and perhaps more than necessary: a task
that has its own stamp is not failed with what it depends on, and the invariant below
loses it; TLC finds no run under a restore in `fork` with such stamps. `FailsAlone` is
needed as far as TLC shows (section 5): no task with a hard dependency is deferred, nor
has it a stamp of an earlier build if hashes change. `fork` and `twins` satisfy both in
every state; `fork` has hard dependencies and hash changes together. `NotEnforced` is
BB_SETSCENE_ENFORCE off; with it on `stats.active` is wrong (section 5); the last three
theorems assume it. The last two also assume `HardDepsAcyclic`, that setscene tasks do not
wait for each other in a circle; nothing in the code checks it, and each would wait for
ever. `SceneOnlyHasScene`, for `NoSpuriousFailure`, excludes the build that restores only
and has nothing to restore (section 5). For `EndIsRight` `NoThreadLimits` excludes the
failed tasks that keep their slot (section 5), and `SceneOnlyHalts` the use of `--continue`
with `--setscene-only`, which starts no task. `fork` satisfies all of them.

`NoRunUnderRestore` is a long way from inductive. `SInv == LiveInv /\ QuietInv /\
ProcessInv /\ Apart /\ TurnInv` says where the processes stand (`ProcessInv`), what a
restore is (`LiveInv`), and that nothing in progress is covered by it (`Apart`). To keep
`Apart` a task that is started must be decided, with all that covers it; and that hangs
on `holdoff_tasks`, which is computed once a turn and goes stale: `TurnInv` says, stage
by stage, what is still fresh. It also has the one exception TLC showed: a migration
that halts the build leaves undecided tasks that nothing holds off, and it is
`can_start_task` that then keeps the scheduler from starting one. `HardInv` is about
what a migration may fail: an undecided task with hard dependencies was never started
(`Settled`), so has left no stamp of its own (`RanStamped`) and has something to restore
(`Awaited`), so it failed already if what it depends on had. It needs in turn that only
started tasks report a hash (`UpdatesRan`). The other theorems add `ActiveInv`,
`SlotsInv`, `StampsInv`, `ThreadsInv`, `EndInv`, `XorInv`, `RestoredOnly`, each with a
lemma that a step keeps it. `HardFailures` is the least closed set rather than a
recursion, so `HardFailuresBound` and `FailuresClosed` can be proved without induction.

`HashesKept` adds two invariants, which TLC checked first. `QueueInv`: an update that
waits, or was just applied, is of a task nothing started depends on. The task was in
progress when it reported, so what depends on it was not started; once it completes, the
update is applied before the scheduler's next turn, and the stage says how near that is.
`Dependants` is a least closed set as well, so `DependantsFree` follows from the order
without induction: what is rehashed was not started. `RefusedInv`: a setscene task that
is run had failed, hence what reports an update is not covered (`XorInv`) and cannot take
the hash from what was restored; nor is anything still deferred until it when it is
applied. Then a stamp only goes when its task gets another under the same hash.

`InputsPresent` is about the tasks that were passed over as covered: a setscene task that
was to make one unnecessary may fail or be found stale afterwards. `SkippedInv` says that
everything that could need a passed over task is covered, and what is covered stays so
(`JudgesOn`: only what is not covered migrates). It rests on `JudgedInv`, that
`tasks_covered` and `tasks_notcovered` agree with the scene queue unless
`holdoff_need_update` says that they are to be computed again, and on `NeedInv`, that a
setscene task found not needed has only restored ones above it. TLC checked the three
first. `WalkDown` is a least closed set too, so that what an uncovered task depends on is
uncovered (`UncoveredNeeds`) takes no induction over the graph.

`NoSpuriousFailure` says that the scene queue comes to its end, and the code's own checks
list what that means. `RecordInv` (`InOrder`, `KeptBut`) is what holds of the scene queue's
sets between any two calls: what is decided was buildable, marked running and is done; a
task whose reverse dependencies are decided is buildable; a plain task whose reverse
dependencies are done is done; what waits for a hard dependency waits for an undecided one
that was asked for. Every call only decides more (`Advances`), but for a migration, which
takes tasks out and judges them again at once (`ResettleKeeps`). `TablesInv` says that the
tables the scheduler reads are those of the scene queue unless `holdoff_need_update`, so
that with everything decided nothing is held off and each task is judged; that every task
is then in one of the tables is induction over the graph, done as a least counterexample
(`AllDone`, `PlainBelow`: `AcyclicAssumption` gives any set of tasks a first and a last).
`SqdoneInv`: `sqdone` means that. `OverInv` is the end: only with no process left.
`WorkInv` says that what is in progress has a process or failed, and what holds a stamp
has a process. `LastInv` follows one turn from the look at the scene queue to its end:
with nothing running, restored or deferred (`Idle`) the look that finds nothing to pick
finds everything decided (`LookFindsAll`), the tables are then up to date, no update is
left in the queue, and the scheduler finds nothing only if all that could be started was
(`NothingRunnable`). A build that concludes without a failure has therefore run every task
(`ConcludeFindsNone`), and one that may not stop early has gone as far as it could
(`WentOn`). TLC checked these invariants on `fork` and `twins` before they were proved.
`DoneBelow` is a least closed set, as `HardFailures` is.

`ServerLockProofs` proves `OneServerTheorem`, `ServersExclude` and `ReachableTheorem`, for any
number of clients, servers, retries and kills (`ProcAssumption`, `InodeAssumption`). The
invariant is `TypeOK /\ LockInv /\ InHand /\ SocketIsThere`. `LockInv` is about
`Lockfile` alone and is kept by each of its operations whoever uses it: a process that
was returned the file has locked the inode the path leads to. `InHand` says by program
counter who has the file open and who was returned it; `SocketIsThere` that a server's
socket is the one on disk from `bind()` to its own unlink, which holds because both are
done by the owner of the lock.

`CookerServerProofs` proves `OneCommandTheorem` and `FreshClientTheorem` (an action property)
for any clients and numbers of requests. The invariant is `TypeOK /\ OneRequest /\
MainInv /\ IdleInv /\ StateInv /\ Fresh`: for each place of the idle thread, `IdleInv`
says which functions are registered and whose command is in progress. `OneCommand` fails
without it where `finishAsyncCommand()` has cleared the command but the function has not
been removed yet.

`CookerParserProofs` proves all three safety properties of `CookerParser`, for any parsers,
recipes and size of the pipe. The invariant follows each recipe: it is in one place at
most (`OnePlace`), nowhere only if a parser was killed or someone shut down
(`RecipesSomewhere`), and counted once (`Counted`). `NothingMore` is the order of two
looks that the code depends on: the reader asks which processes are left before it waits
for a result, so the empty queue it finds afterwards stays empty.

`HashEquivProofs` proves `UnihashStable` and `SweepKeepsMarked` on either backend, and
`AnswerIsRecorded` and `EquivalentUnified` on the sqlite backend; on sqlalchemy they are
false (section 5), hence `Backend = "sqlite"` in the theorems. `RequestAssumption` is the
form of the requests. `Base` is the invariant of both backends. For sqlite, `LoopInv`
says that a report holds the event loop from its row in `outhashes` to its row in
`unihashes`, `AnswerInv` what its handler knows at each place, and `UnifyInv` that each
report took over the unihash of the oldest row of its output hash (`FollowsOldest`); the
oldest row exists by well-founded induction on `clock`.

`PRServerProofs` proves `AnswersKeptTheorem`: `Spec => []AnswersKept`, and
`NoHistoryGrowsTheorem`: `Spec => [](ValuesBelowTen => NoHistoryGrows)`, for any clients,
checksums, connections, requests and upstream (`PRServerAssumption`). `IInv` says that
what was told is in the table; it needs that a client listens only to a connection whose
handler serves its request, though requests are sent again and connections are used again
(`ListenInv`). `TypeInv` gives the rows their types, through everything upstream may
answer. Without upstream a handler never waits (`NoWaiting`), values are single numbers,
and what history told is the least value of its checksum (`NumberInv`); so, without upstream,
a request with history is told the same whenever it is repeated.
`ValuesBelowTen`, no row with a value of two digits, is the limit of the second theorem
and not a weakness of its proof: the run `pr_server_ten` is the counterexample at ten.
That `extremum_value` is defined, and is the greatest or the smallest number, takes an
induction on the size of the table, done as a least counterexample (`TakenExists`,
`ExtremumOfNumbers`).

`WorkerPipeProofs` proves both safety properties of `WorkerPipe`, `ExitCodeComesLast` and
`NothingLost`, for any tasks, numbers of events and of deaths, and any size of the pipes
(`WorkerPipeAssumption`). `Stream` is all that is under way from the worker's queue to
the cooker's, put together again; `Held` what is under way from a child. The writer only
moves pieces inside the stream, the worker only adds whole messages at its end, the
cooker takes whole messages off its front and keeps at most one piece (`ReadBuffer`,
`TakeEffect`). `Counted` says that what an event's task has written is fired, in the
stream or held: all of it unless the worker died, never more. `ExitLast` is the order:
where an exit code stands in the stream, the events fired and those before it are all
that its task has written. `ReadToTheEnd` is what `close()` and the reads at the end of
`handle_finishnow` are for: a collected child leaves at most a part of a message behind.
`Course` follows the build from its start to the teardown. The lemmas before count pieces
in sequences (`BeforeConcat`), and show what `Whole`, `Messages` and `Rest` return for a
buffer that begins with a message (`WholeIs`, `ReadBuffer`).

`FetchProofs` proves `Verified`: `Spec => []FetchVerified`, for any recipes, sources,
contents, mirrors and checksums (`SourcesAssumption`, `ContentAssumption`,
`ExpectedAssumption`), and any number of kills. Its inductive invariant adds to the
parts of `FetchVerified` two things. `Places` says where the holder of the lock finds
what: from the removal of the stamp until the new one is written there is none, so a
kill there leaves nothing that vouches for other bytes. `AcceptedKept` is what
`UnpacksVerified` rests on: from the moment a recipe has accepted its file, through the
time in which it does not have the lock, the file stays. `HolderStep` does the steps of
the holder (only one task is past `lockfile()`, so the others' part of the invariant is
undisturbed, `Alone`), `StampSteps`, `SourceSteps`, `CleanSteps` and `QuietStep` those
that write the stamp, the file, remove either, and none of these.

`OtherSourcesTheorem` proves `OtherSourcesTried` under two hypotheses on the constants.
`UpstreamServes`: no recipe wants what only a premirror or a mirror has. Without it the
property is false: what was wrongly downloaded is still there when the mirrors are tried
(the run `fetch_mirror`), and a part of it, left by a kill, when a premirror is. `MirrorsAgree`: there is a
premirror, or the mirrors serve what the upstream source does. Without it a fetch killed
at a mirror can leave a part of another file, which the next fetch resumes from the
upstream source. The constants of the run `fetch` satisfy both. The argument is that a
fetch that no source has failed reaches the upstream source with nothing to resume, or
with a part of the same file: a premirror's download is moved in place before it is found
wrong, and takes the partial download with it (`OnCourse`); without premirrors all there
ever is to download is one file (`OwnBytes`). So it does not matter what a killed fetch
left, nor what the premirrors serve.

Only model-checked, and why:

- Liveness, in every module: it needs fairness and ENABLED.
- `SceneQueueExact`: it compares the peeling of the graph, round by round, with what is
  reached in it.
- The setscene half of `StampExclusive`: only the deferral of tasks of one hash index
  keeps two restores off one stamp. No assumption ties stamps to indexes, and a task
  that is forced or rehashed is no longer deferred: TLC checks it on `twins`, no proof.
- What the theorems leave out by their hypotheses: `twins` has BB_SETSCENE_ENFORCE in
  one configuration, and a `number_threads` limit.

## 7. Not modelled

- Run queue: preparation (`prepare()`), the schedulers' priorities, a fakeroot worker
  that cannot be spawned, exceptions thrown by event handlers, `nostamp` tasks, dry
  runs, dumps of signatures, the message that hands new task hashes to the workers. The
  death of a worker is modelled in `WorkerPipe`, not in `RunQueue`. Stamps on disk are
  kept by task, not by the file they are in: that a task finds the stamp its twin in
  another multiconfig has written (2286, 2372-2377) is left out. Exit codes read while the
  workers are torn down after a stop at once are dropped, with what they would still change
  in a build that is over.
- Cooker server: the XMLRPC server, heartbeats, `--server-only`, synchronous commands
  other than the stops. Events beyond the end of a command.
- Recipe parsers: results from the cache, the thread that saves the caches. A parser is
  not killed while it holds the lock of `next_job_id`: nobody would release it, and the
  parse would hang. That `haveshutdown` is looked at and set (`cooker.py:2216-2218`) is one
  step; two threads that both come between would both shut down.
- Hash equivalence server: users, read-only servers, statistics, look-ups by output
  hash. PR server: read-only servers, import and export, the daemon's start and stop.
  asyncrpc: chunks, headers, kinds of sockets.
- Fetcher: all methods but a file over http, mirror tarballs and links, BB_NO_NETWORK
  and its like, `checkstatus`. Lock files: shared, and those that wait with a signal or
  retry.
- Data store, providers, caches, recipe parsing: sequential functions of text and
  dictionaries, whose state machine would say nothing; the copy-on-write containers and
  the choice of providers are planned as pure functions.
- Disk monitor, user interfaces, tinfoil, toaster, layer tools, bitbake-setup, vendored
  code: presentation, separate programs, third-party code.
