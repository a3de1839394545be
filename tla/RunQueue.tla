------------------------------ MODULE RunQueue ------------------------------
(***************************************************************************)
(* The run queue of lib/bb/runqueue.py: RunQueueExecute driving the tasks  *)
(* of a build and, beside them, the setscene tasks that may restore their  *)
(* output from shared state instead.                                       *)
(*                                                                         *)
(* One process, the cooker, runs execute() over and over ("a turn").  A    *)
(* turn is a fixed sequence of stages and returns from many of them; stage *)
(* says where the turn is.  The workers run the tasks started; what they   *)
(* report is seen only where the code reads their pipes, in the stages     *)
(* "read" and "wait".                                                      *)
(***************************************************************************)
EXTENDS Integers, FiniteSets, Sequences, Functions, SceneQueueData

CONSTANTS
    HardDepsRev,    \* sqdata.sq_harddeps_rev: [depends] between setscene tasks
    Hash,           \* the unihashes
    InitHash,       \* runtaskentries[t].unihash when the build starts
    Recipe,         \* the recipe file (fn) of a task
    TaskName,       \* taskname_from_tid(t)
    PN,             \* pkg_fn: the recipe's name, shared across multiconfigs
    Stamp,          \* what stampfile() names a task's stamp by besides its kind
                    \* and its hash: stampbase and task name
    Rank,           \* position in the order "sorted by multiconfig, then tid"
    NumberThreads,  \* the number_threads flag of a task name, 0 when not set
    NumberTasks,    \* BB_NUMBER_THREADS
    NoExec,         \* tasks flagged noexec
    InitStamps,     \* stamps that may be on disk when the build starts
    MayBeValid,     \* setscene tasks BB_HASHCHECK_FUNCTION may find available
    DepValid,       \* the answers BB_SETSCENE_DEPVALID may give
    MayFail,        \* <<kind, task>> whose process may exit non-zero
    Configurations, \* the configurations considered: halt, force,
                    \* skipsetscene, setsceneonly (command line) and
                    \* setscene_enforce (BB_SETSCENE_ENFORCE)
    IgnoreTasks,    \* tasks BB_SETSCENE_ENFORCE_IGNORE_TASKS matches
    MayInterrupt,   \* the user's requests considered, of {"stop", "force"}
    MaxUpdates,     \* bound: how many tasks report a changed unihash
    ActiveFloor     \* bound: below it, stats.active is not counted down

Kind == {"real", "scene"}

ASSUME GraphAssumption ==
    /\ IsFiniteSet(Task) /\ Task # {}
    /\ Depends \in [Task -> SUBSET Task]
    /\ Setscene \subseteq Task
    /\ HardDepsRev \in [Setscene -> SUBSET Setscene]

\* No task waits for itself: prepare() ends a build whose tasks depend on each other
\* in a circle (calculate_task_weights()), so that any tasks have a last and a first.
ASSUME AcyclicAssumption == \A S \in SUBSET Task : S # {} =>
    /\ \E t \in S : RevDeps(t) \cap S = {}
    /\ \E t \in S : Depends[t] \cap S = {}

ASSUME ThreadsAssumption ==
    /\ NumberTasks \in Nat \ {0} /\ ActiveFloor \in Int
    /\ \A n \in DOMAIN NumberThreads : NumberThreads[n] \in Nat
    /\ \A t \in Task : TaskName[t] \in DOMAIN NumberThreads

ASSUME HashAssumption ==
    /\ InitHash \in [Task -> Hash]
    /\ MaxUpdates \in Nat

\* The order on tasks picks a first one of any.
ASSUME RankAssumption ==
    \A S \in SUBSET Setscene : S # {} => \E t \in S : \A u \in S : Rank[t] <= Rank[u]

ASSUME ConfigAssumption ==
    /\ NoExec \subseteq Task /\ IgnoreTasks \subseteq Task
    /\ MayBeValid \subseteq Setscene
    /\ DepValid \subseteq BOOLEAN /\ DepValid # {}
    /\ MayFail \subseteq Kind \X Task
    /\ InitStamps \subseteq {"real", "scene"} \X Task \X Hash
    /\ Configurations \subseteq
          [halt: BOOLEAN, force: BOOLEAN, skipsetscene: BOOLEAN,
           setsceneonly: BOOLEAN, setscene_enforce: BOOLEAN]

VARIABLES
    configuration,  \* rigid: one of Configurations
    state,      \* rq.state, of RunQueueState
    stage,      \* where the turn of the cooker is
    runq_buildable, runq_running, runq_complete, runq_tasksrun,
    active,     \* stats.active
    failed_tids,
    sq,         \* the scene queue's sets, see SceneRecord
    sq_live, sq_deferred, sq_needed_harddeps, sqdone,
    holdoff_tasks, holdoff_need_update, tasks_covered, tasks_notcovered,
    build_stamps,   \* task |-> name of the stamp its process will write
    unihash, updated_taskhash_queue, pending_migrations,
    scene_stamps,   \* sqdata.stamps: of a setscene task, the hash in that name
    toprocess,  \* tasks the updates taken from the queue have rehashed
    worker,     \* <<kind, task, hash>> the workers were asked to run
    stamps,     \* the stamps on disk: kind ("real", "scene", or "rebuilt",
                \* a real stamp of this build), task, hash
    updates     \* tasks that reported a changed unihash

runqVars == <<runq_buildable, runq_running, runq_complete, runq_tasksrun,
              active, failed_tids>>
sceneVars == <<sq, sq_live, sq_deferred, sq_needed_harddeps, sqdone>>
holdoffVars == <<holdoff_tasks, holdoff_need_update, tasks_covered,
                 tasks_notcovered>>
hashVars == <<unihash, updated_taskhash_queue, pending_migrations, scene_stamps,
              toprocess>>
workerVars == <<worker, stamps, updates, build_stamps>>

buildVars == <<configuration, runqVars, sceneVars, holdoffVars, hashVars, workerVars>>

vars == <<state, stage, buildVars>>

SceneRecord == [buildable: SUBSET Setscene, running: SUBSET Setscene,
                covered: SUBSET Setscene, notcovered: SUBSET Setscene,
                notneeded: SUBSET Setscene, done: SUBSET Task,
                harddep_deferred: SUBSET Setscene,
                outrightfail: SUBSET Setscene]

Disk == {"real", "scene", "rebuilt"} \X Task \X Hash

\* SignatureGeneratorBasicHash.stampfile(): the name of a stamp has the unihash.
StampName(kind, t, h) == <<kind, Stamp[t], h>>

StampNames == {StampName(kind, t, h) : kind \in Kind, t \in Task, h \in Hash}

\* Types: the sets hold tasks or setscene tasks, deferral maps setscene tasks
\* to setscene tasks, stamps and processes name a kind, a task and a hash.
TypeOK ==
    /\ configuration \in Configurations
    /\ state \in {"RUNNING", "CLEAN_UP", "FAILED", "COMPLETE"}
    /\ stage \in {"turn", "read", "migrate", "scene", "holdoff", "sched",
                  "end", "wait", "done"}
    /\ runq_buildable \subseteq Task /\ runq_running \subseteq Task
    /\ runq_complete \subseteq Task /\ runq_tasksrun \subseteq Task
    /\ active \in Int /\ failed_tids \subseteq Task
    /\ sq \in SceneRecord
    /\ sq_live \subseteq Setscene
    /\ DOMAIN sq_deferred \subseteq Setscene
    /\ \A t \in DOMAIN sq_deferred : sq_deferred[t] \in Setscene
    /\ sq_needed_harddeps \subseteq Setscene /\ sqdone \in BOOLEAN
    /\ holdoff_tasks \subseteq Task /\ holdoff_need_update \in BOOLEAN
    /\ tasks_covered \subseteq Task /\ tasks_notcovered \subseteq Task
    /\ DOMAIN build_stamps \subseteq Task
    /\ \A t \in DOMAIN build_stamps : build_stamps[t] \in StampNames
    /\ unihash \in [Task -> Hash]
    /\ updated_taskhash_queue \in Seq(Task \X Hash)
    /\ pending_migrations \subseteq Setscene /\ toprocess \subseteq Task
    /\ scene_stamps \in [Setscene -> Hash]
    /\ worker \subseteq Kind \X Task \X Hash
    /\ stamps \subseteq Disk
    /\ updates \subseteq Task

-----------------------------------------------------------------------------
(* Stamps.                                                                 *)

\* check_stamp_task(t, t_setscene)
SceneStampCurrent(t, h, disk) == <<"scene", t, h[t]>> \in disk

OwnStampCurrent(t, h, disk) == {<<"real", t, h[t]>>, <<"rebuilt", t, h[t]>>} \cap disk # {}

\* check_stamp_task(t, recurse=True): t's own stamp, and those of the recipe's
\* tasks below it unless they were restored rather than run; and no stamp is older
\* than the one it depends on.
RealStampCurrent(t, h, disk) ==
    LET older(x, d) == {<<"real", x, h[x]>>, <<"rebuilt", d, h[d]>>} \subseteq disk
        current[x \in Task] ==
            /\ OwnStampCurrent(x, h, disk)
            /\ \A d \in Depends[x] : Recipe[d] = Recipe[x] =>
                   SceneStampCurrent(d, h, disk) \/ (current[d] /\ ~older(x, d))
    IN  OwnStampCurrent(t, h, disk) /\ current[t]

\* check_stamp_task(t, t): one level, and older than what this build remade.
StampCurrent(t) ==
    /\ <<"real", t, unihash[t]>> \in stamps
    /\ \A d \in Depends[t] : Recipe[d] = Recipe[t] =>
           \/ SceneStampCurrent(d, unihash, stamps)
           \/ <<"real", d, unihash[d]>> \in stamps

\* Mutant: kind and task swapped.
WithStamp_swapped(disk, kind, t, h) == disk \cup {<<t, kind, h>>}

\* make_stamp(): the task's older stamps go, whatever their hash, with those of
\* its setscene variant; but a setscene stamp replaces setscene stamps only.
WithStamp(disk, kind, t, h) ==
    {s \in disk : s[2] # t \/ (kind = "scene" /\ s[1] # "scene")} \cup {<<kind, t, h>>}

\* check_setscene_stamps() makes the setscene stamp of a noexec task.
NoExecStamped(disk, tids, h) ==
    LET made == tids \cap NoExec
    IN  {s \in disk : s[1] # "scene" \/ s[2] \notin made}
           \cup {<<"scene", t, h[t]>> : t \in made}

\* check_setscene_stamps(): there is nothing to restore.
NothingToRestore(t, h, disk) ==
    \/ t \in NoExec
    \/ SceneStampCurrent(t, h, disk)
    \/ RealStampCurrent(t, h, disk)

-----------------------------------------------------------------------------
(* The scene queue's bookkeeping, on its record of sets.                   *)

Decided(q) == q.covered \cup q.notcovered

\* sqdata.sq_harddeps, the other direction
HardDeps(t) == {d \in Setscene : t \in HardDepsRev[d]}

\* scenequeue_updatecounters(fail=True) fails what has a hard dependency on a
\* failed task, and so on up, unless decided already or in need of nothing.
HardFailures(q, S, h, disk) ==
    LET exposed == {d \in Setscene \ Decided(q) : ~NothingToRestore(d, h, disk)}
        Closed(X) == /\ S \subseteq X
                     /\ \A d \in exposed : HardDepsRev[d] \cap X # {} => d \in X
    IN  {d \in Setscene : \A X \in SUBSET Setscene : Closed(X) => d \in X}

\* The walk of scenequeue_updatecounters() down from the tasks S just decided:
\* a plain task is done once everything that depends on it is.
DoneBelow(S, done) ==
    LET Closed(X) ==
            /\ S \subseteq X
            /\ \A d \in Plain \ done :
                  RevDeps(d) \cap X # {} /\ RevDeps(d) \subseteq done \cup X => d \in X
    IN  done \cup {d \in Task : \A X \in SUBSET Task : Closed(X) => d \in X}

\* The rest of scenequeue_updatecounters(), for the tasks S just decided.
UpdateCounters(q, S) ==
    [q EXCEPT
        !.buildable = @ \cup {d \in Setscene : /\ sq_revdeps[d] \cap S # {}
                                               /\ sq_revdeps[d] \subseteq Decided(q)},
        !.done = DoneBelow(S, @),
        !.harddep_deferred =
            IF \A t \in S : HardDeps(t) = {} THEN @
            ELSE {d \in @ : ~(HardDepsRev[d] \subseteq Decided(q))}]

\* sq_task_completeoutright() and sq_task_skip()
sq_task_completeoutright(q, S) ==
    UpdateCounters([q EXCEPT !.covered = @ \cup S], S)

sq_task_skip(q, S) ==
    sq_task_completeoutright([q EXCEPT !.running = @ \cup S,
                                       !.buildable = @ \cup S], S)

\* sq_task_failoutright()
sq_task_failoutright(q, S, h, disk) ==
    LET lost == HardFailures(q, S, h, disk)
    IN  UpdateCounters([q EXCEPT !.running = @ \cup lost,
                                 !.buildable = @ \cup lost,
                                 !.notcovered = @ \cup lost], lost)

\* update_scenequeue_data(tids): tids with nothing to restore are skipped, the
\* others fail when their turn comes unless valid, the hash check's answer.
update_scenequeue_data(q, tids, valid, deferred, h, disk) ==
    LET skipped == {t \in tids : NothingToRestore(t, h, disk)}
        q1 == sq_task_skip(q, skipped)
    IN  [q1 EXCEPT !.outrightfail =
            (@ \ tids) \cup ((tids \ skipped) \ (valid \cup Decided(q1)
                                                    \cup DOMAIN deferred))]

-----------------------------------------------------------------------------
(* Initial state: RunQueueExecute.__init__ and the SCENE_INIT state.       *)

\* pending_hash_index(): what makes two setscene tasks of different
\* multiconfigs the same piece of work.
pending_hash_index(t, h) == <<PN[t], h[t]>>

\* sqdata.hashes: the first task with an index; never updated afterwards.
hashes ==
    [k \in {pending_hash_index(t, InitHash) : t \in Setscene} |->
        CHOOSE t \in Setscene :
            /\ pending_hash_index(t, InitHash) = k
            /\ \A u \in Setscene :
                   pending_hash_index(u, InitHash) = k => Rank[t] <= Rank[u]]

\* The later ones wait for the first.
InitDeferred ==
    [t \in {u \in Setscene : hashes[pending_hash_index(u, InitHash)] # u} |->
        hashes[pending_hash_index(t, InitHash)]]

InitScene(valid, disk) ==
    update_scenequeue_data(
        [buildable |-> {t \in Setscene : sq_revdeps[t] = {}},
         running |-> {}, covered |-> {}, notcovered |-> {}, notneeded |-> {},
         done |-> unskippable \cap Plain,
         harddep_deferred |-> {}, outrightfail |-> {}],
        Setscene, valid, InitDeferred, InitHash, disk)

Init ==
    /\ configuration \in Configurations
    /\ state = "RUNNING" /\ stage = "turn"
    /\ runq_buildable = {t \in Task : /\ Depends[t] = {}
                                      /\ t \in unskippable \cap Plain}
    /\ runq_running = {} /\ runq_complete = {} /\ runq_tasksrun = {}
    /\ active = 0 /\ failed_tids = {}
    /\ \E left \in SUBSET InitStamps :
          stamps = NoExecStamped(left, Setscene, InitHash)
    /\ \E valid \in SUBSET MayBeValid : sq = InitScene(valid, stamps)
    /\ sq_live = {} /\ sq_deferred = InitDeferred /\ sq_needed_harddeps = {}
    /\ sqdone = (Setscene = {})
    /\ holdoff_tasks = {} /\ holdoff_need_update = TRUE
    /\ tasks_covered = {}
    /\ tasks_notcovered = IF Setscene = {} THEN Task ELSE {}
    /\ build_stamps = << >>
    /\ unihash = InitHash /\ updated_taskhash_queue = << >>
    /\ pending_migrations = {} /\ toprocess = {}
    /\ scene_stamps = [t \in Setscene |-> InitHash[t]]
    /\ worker = {} /\ updates = {}

-----------------------------------------------------------------------------
(* What the workers report, where the cooker reads it.                     *)

Reading == stage \in {"read", "wait"}

Inflight(kind) == {t \in Task : \E h \in Hash : <<kind, t, h>> \in worker}

can_start_task == active + Cardinality(sq_live) < NumberTasks

\* Mutant: one complete dependency is enough.
Freed_by_any(t, complete) ==
    {r \in RevDeps(t) \ runq_running : Depends[r] \cap complete # {}}

Freed(t, complete) ==
    {r \in RevDeps(t) \ runq_running : Depends[r] \subseteq complete}

\* task_completeoutright(t), the stamps being those of disk: dependants whose
\* dependencies are all complete become buildable; of the setscene tasks
\* deferred until t the first is released and the rest deferred until that one.
task_completeoutright(t, disk) ==
    LET complete == runq_complete \cup {t}
        waiting  == {d \in DOMAIN sq_deferred : sq_deferred[d] = t}
    IN  /\ runq_complete' = complete
        /\ runq_buildable' = runq_buildable \cup Freed(t, complete)
        /\ IF waiting = {}
           THEN stamps' = disk /\ UNCHANGED <<sq, sq_deferred, holdoff_need_update>>
           ELSE \E found \in waiting :
                \E valid \in SUBSET ({found} \cap MayBeValid) :
                  LET kept == Restrict(sq_deferred,
                                       DOMAIN sq_deferred \ {found})
                      deferred == [d \in DOMAIN kept |->
                                     IF d \in waiting THEN found ELSE kept[d]]
                  IN /\ \A d \in waiting : Rank[found] <= Rank[d]
                     /\ sq_deferred' = deferred
                     /\ stamps' = NoExecStamped(disk, {found}, unihash)
                     /\ sq' = update_scenequeue_data(sq, {found}, valid, kept,
                                                     unihash, stamps')
                     /\ holdoff_need_update' =
                            (holdoff_need_update \/
                               NothingToRestore(found, unihash, stamps'))

\* runqueue_process_waitpid(t, status) first forgets t's stamp, whichever kind.
ForgetStamp(t) == build_stamps' = Restrict(build_stamps, DOMAIN build_stamps \ {t})

\* A task in sq_live is taken for its setscene variant, any other for the task.
SetsceneExit(t, ok, disk) ==
    /\ t \in sq_live
    /\ stamps' = disk
    /\ sq_live' = sq_live \ {t}
    /\ sq' = IF ok THEN sq_task_completeoutright(sq, {t})
             ELSE LET failed == [sq EXCEPT !.notcovered = @ \cup {t}]
                      lost == HardFailures(failed, {t}, unihash, disk) \ {t}
                  IN  UpdateCounters([failed EXCEPT !.running = @ \cup lost,
                                                    !.buildable = @ \cup lost,
                                                    !.notcovered = @ \cup lost],
                                     lost \cup {t})
    /\ state' = IF ~ok /\ configuration.setscene_enforce /\ t \notin IgnoreTasks
                THEN "CLEAN_UP" ELSE state
    /\ holdoff_need_update' = TRUE
    /\ UNCHANGED <<runqVars, sq_deferred>>

TaskComplete(t, disk) ==
    /\ t \notin sq_live
    /\ active' = active - 1
    /\ runq_tasksrun' = runq_tasksrun \cup {t}
    /\ task_completeoutright(t, disk)
    /\ UNCHANGED <<state, runq_running, failed_tids, sq_live>>

\* A failure ends the build, unless --continue was given.
HaltState == IF configuration.halt THEN "CLEAN_UP" ELSE state

TaskFail(t) ==
    /\ t \notin sq_live
    /\ active' = active - 1
    /\ failed_tids' = failed_tids \cup {t}
    /\ state' = HaltState
    /\ UNCHANGED <<runq_buildable, runq_running, runq_complete, runq_tasksrun,
                   sq, sq_live, sq_deferred, holdoff_need_update, stamps>>

\* The process of a successful task has left its stamp (a dry run, as real tasks
\* are under BB_SETSCENE_ENFORCE, leaves none).
StampsLeft(kind, t, h, ok) ==
    IF ~ok \/ (kind = "real" /\ configuration.setscene_enforce) THEN stamps
    ELSE WithStamp(stamps, IF kind = "real" THEN "rebuilt" ELSE kind, t, h)

\* An exit code arrives.
Exit(kind, t, h, ok) ==
    /\ Reading
    /\ <<kind, t, h>> \in worker
    /\ ok \/ <<kind, t>> \in MayFail
    /\ worker' = worker \ {<<kind, t, h>>}
    /\ ForgetStamp(t)
    /\ \/ SetsceneExit(t, ok, StampsLeft(kind, t, h, ok))
       \/ ok /\ TaskComplete(t, StampsLeft(kind, t, h, ok))
       \/ ~ok /\ TaskFail(t)
    /\ UNCHANGED <<configuration, stage, sq_needed_harddeps, sqdone,
                   holdoff_tasks, tasks_covered, tasks_notcovered, hashVars,
                   updates>>

\* taskUniHashUpdate: a running task that has a setscene variant reported its
\* output and the hash equivalence server knows it under another hash.
UniHashUpdate(t, h) ==
    /\ Reading
    /\ t \in Setscene \ updates /\ t \in Inflight("real")
    /\ <<"real", t, h>> \notin worker
    /\ Cardinality(updates) < MaxUpdates
    /\ updates' = updates \cup {t}
    /\ updated_taskhash_queue' = Append(updated_taskhash_queue, <<t, h>>)
    /\ UNCHANGED <<configuration, state, stage, runqVars, sceneVars,
                   holdoffVars, unihash, pending_migrations, scene_stamps,
                   toprocess, worker, stamps, build_stamps>>

-----------------------------------------------------------------------------
(* The turn: buildTargetsIdle(), _execute_runqueue(), finish().            *)

\* Mutant: finish() does not look at failed_tids.
FinishedState_always_complete == "COMPLETE"

\* Mutant: finish() does not wait for setscene processes.
StillActive_real_only == active

StillActive == active + Cardinality(sq_live)

\* finish(): with nothing active the build is over, otherwise it waits.
FinishedState == IF failed_tids # {} THEN "FAILED" ELSE "COMPLETE"

BeginTurn ==
    /\ stage = "turn" /\ state = "RUNNING"
    /\ stage' = "read"
    /\ UNCHANGED <<state, buildVars>>

CleanUp ==
    /\ stage = "turn" /\ state = "CLEAN_UP"
    /\ IF StillActive > 0
       THEN stage' = "wait" /\ UNCHANGED state
       ELSE stage' = "done" /\ state' = FinishedState
    /\ UNCHANGED buildVars

\* The user asks the build to stop: finish_runqueue(False).
Stop ==
    /\ "stop" \in MayInterrupt
    /\ stage = "turn" /\ state = "RUNNING"
    /\ state' = "CLEAN_UP"
    /\ UNCHANGED <<stage, buildVars>>

\* ... or to stop at once: finish_runqueue(True), finish_now(), which has the
\* workers kill what they run.  Exit codes that the teardown reads are dropped.
ForceStop ==
    /\ "force" \in MayInterrupt
    /\ stage = "turn" /\ state \in {"RUNNING", "CLEAN_UP"}
    /\ stage' = "done" /\ state' = FinishedState
    /\ worker' = {}
    /\ UNCHANGED <<configuration, runqVars, sceneVars, holdoffVars, hashVars,
                   stamps, updates, build_stamps>>

EndRead ==
    /\ Reading
    /\ stage' = IF stage = "read" THEN "migrate" ELSE "turn"
    /\ UNCHANGED <<state, buildVars>>

-----------------------------------------------------------------------------
(* Stage "migrate": process_possible_migrations().                         *)

InProgress == runq_running \ runq_complete

Without(s, i) == SubSeq(s, 1, i - 1) \o SubSeq(s, i + 1, Len(s))

\* Mutant: updates of tasks in progress are applied at once.
Applicable_at_once == DOMAIN updated_taskhash_queue

\* The updates that are taken from the queue: not those of tasks in progress.
Applicable == {i \in DOMAIN updated_taskhash_queue :
                  updated_taskhash_queue[i][1] \notin InProgress}

\* One update, in order.  Tasks deferred until the one updated share its hash.
ApplyUpdate(i) ==
    LET t == updated_taskhash_queue[i][1]
        h == updated_taskhash_queue[i][2]
        torehash == {t} \cup {d \in DOMAIN sq_deferred : sq_deferred[d] = t}
    IN  /\ stage = "migrate"
        /\ i \in Applicable /\ \A j \in Applicable : i <= j
        /\ updated_taskhash_queue' = Without(updated_taskhash_queue, i)
        /\ IF h = unihash[t] THEN UNCHANGED <<unihash, toprocess>>
           ELSE /\ unihash' = [x \in Task |-> IF x \in torehash THEN h
                                             ELSE unihash[x]]
                /\ toprocess' = toprocess \cup torehash
        /\ UNCHANGED <<configuration, state, stage, runqVars, sceneVars,
                       holdoffVars, pending_migrations, scene_stamps, workerVars>>

\* Everything that depends on S, directly or not.
Dependants(S) ==
    LET Closed(X) == \A t \in Task : Depends[t] \cap (S \cup X) # {} => t \in X
    IN  {t \in Task : \A X \in SUBSET Task : Closed(X) => t \in X}

\* A setscene task that was restored, or is being restored, keeps its hash:
\* the server is told instead.
Rehashed(newhash, oldhash) ==
    {t \in DOMAIN newhash : /\ newhash[t] # oldhash[t]
                            /\ t \notin sq.covered /\ t \notin sq_live}

\* Too late to restore a task that was started ...
TooLate(pend) == {t \in pend : t \in runq_running \/ t \in sq_live}

\* ... and too early while something it covers is running.
Blocked(pend) ==
    {t \in pend \ TooLate(pend) : sq_covered_tasks[t] \cap InProgress # {}}

\* Mutant: scenequeue_notcovered is not reset.
Unsettle_keeps_notcovered(mig) ==
    [sq EXCEPT !.buildable = @ \ mig, !.running = @ \ mig,
               !.outrightfail = @ \ mig, !.covered = @ \ mig]

\* Mutant: sq_running is not reset, so that the tasks are never picked again.
Unsettle_keeps_running(mig) ==
    [sq EXCEPT !.buildable = @ \ mig, !.outrightfail = @ \ mig,
               !.covered = @ \ mig, !.notcovered = @ \ mig]

\* The setscene tasks mig are put back as if never looked at.
Unsettle(mig) ==
    [sq EXCEPT !.buildable = @ \ mig, !.running = @ \ mig,
               !.outrightfail = @ \ mig, !.covered = @ \ mig,
               !.notcovered = @ \ mig, !.notneeded = @ \ mig,
               !.done = @ \ (mig \cup
                   {d \in UNION {sq_covered_tasks[t] : t \in mig} :
                       d \notin runq_complete /\ d \notin unskippable})]

\* ... and are judged again: those with an unavailable hard dependency fail.
MissingHardDep(q, t) == HardDepsRev[t] \cap q.notcovered # {}

Resettle(mig, h, deferred, valid, disk) ==
    LET q1 == Unsettle(mig)
        ready == {t \in mig : \/ sq_revdeps[t] = {}
                              \/ /\ ~MissingHardDep(q1, t)
                                 /\ sq_revdeps[t] \subseteq Decided(q1)}
        q2 == [q1 EXCEPT !.buildable = @ \cup ready]
        q3 == update_scenequeue_data(q2, mig, valid, deferred, h, disk)
    IN  [sq_task_failoutright(q3, {t \in mig : MissingHardDep(q1, t)}, h, disk)
           EXCEPT !.harddep_deferred = {}]

\* Re-deferral looks the new hash up among the hashes of the initial graph.
Redefer(mig, h) ==
    LET twin(t) == hashes[pending_hash_index(t, h)]
        again == {t \in mig : /\ pending_hash_index(t, h) \in DOMAIN hashes
                              /\ twin(t) # t}
    IN  [t \in DOMAIN sq_deferred \cup again |->
            IF t \in again THEN twin(t) ELSE sq_deferred[t]]

NothingToMigrate ==
    /\ stage = "migrate"
    /\ updated_taskhash_queue = << >> /\ pending_migrations = {} /\ toprocess = {}
    /\ stage' = "scene"
    /\ UNCHANGED <<state, buildVars>>

\* Only the tasks that are put back get the name of their new stamp.
RenameStamps(mig, h) ==
    scene_stamps' = [t \in Setscene |-> IF t \in mig THEN h[t] ELSE scene_stamps[t]]

\* "marked as completed but now needing to rerun? Halting build.": the loop
\* over pending_migrations returns half way, at t.
HaltOnRerun(pend, mig, rerun, h) ==
    \E t \in rerun, before \in SUBSET (mig \ rerun), late \in SUBSET TooLate(pend) :
        /\ failed_tids' = failed_tids \cup {t}
        /\ state' = "CLEAN_UP"
        /\ \E gone \in SUBSET (sq_covered_tasks[t] \ (runq_complete \cup unskippable)) :
               sq' = [Unsettle(before) EXCEPT !.done = @ \ (gone \cup {t})]
        /\ pending_migrations' = pend \ ({t} \cup before \cup late)
        /\ RenameStamps(before, h)
        /\ build_stamps' = Restrict(build_stamps, DOMAIN build_stamps \ before)
        /\ UNCHANGED <<sq_deferred, sq_needed_harddeps, sqdone, holdoff_need_update,
                       stamps>>

\* Otherwise the migrating tasks mig are judged again, under the hashes h.
Rejudge(pend, mig, changed, h) ==
    /\ pending_migrations' = Blocked(pend)
    /\ RenameStamps(mig, h)
    /\ build_stamps' = Restrict(build_stamps, DOMAIN build_stamps \ mig)
    /\ stamps' = NoExecStamped(stamps, mig, h)
    /\ UNCHANGED <<state, failed_tids>>
    /\ IF mig = {}
       THEN /\ sq' = IF changed = {} THEN sq ELSE [sq EXCEPT !.harddep_deferred = {}]
            /\ UNCHANGED <<sq_deferred, sqdone>>
       ELSE /\ sq_deferred' = Redefer(mig, h)
            /\ sqdone' = FALSE
            /\ \E valid \in SUBSET (mig \cap MayBeValid) :
                 sq' = Resettle(mig, h, sq_deferred', valid, stamps')
    /\ IF changed = {} /\ mig = {}
       THEN UNCHANGED <<sq_needed_harddeps, holdoff_need_update>>
       ELSE sq_needed_harddeps' = {} /\ holdoff_need_update' = TRUE

\* newhash: what the hash server answers for the tasks above the updated ones.
Migrate ==
    /\ stage = "migrate"
    /\ Applicable = {}
    /\ updated_taskhash_queue # << >> \/ pending_migrations # {} \/ toprocess # {}
    /\ \E newhash \in [Dependants(toprocess) -> Hash] :
       LET changed == Rehashed(newhash, unihash)
           pend == pending_migrations \cup (changed \cap Setscene)
           mig == pend \ (TooLate(pend) \cup Blocked(pend))
           rerun == {t \in mig : sq_covered_tasks[t] \cap
                                    (runq_complete \ runq_tasksrun) # {}}
       IN  /\ unihash' = [t \in Task |-> IF t \in changed THEN newhash[t]
                                        ELSE unihash[t]]
           /\ IF rerun # {} THEN HaltOnRerun(pend, mig, rerun, unihash')
              ELSE Rejudge(pend, mig, changed, unihash')
    /\ toprocess' = {}
    /\ stage' = "scene"
    /\ UNCHANGED <<configuration, runq_buildable, runq_running,
                   runq_complete, runq_tasksrun, active, sq_live,
                   updated_taskhash_queue, holdoff_tasks, tasks_covered,
                   tasks_notcovered, worker, updates>>

-----------------------------------------------------------------------------
(* Stage "scene": the pick of the next setscene task.  The scan goes round *)
(* runq_setscene_tids from where it stopped, so any candidate may be met   *)
(* first; the ones met before the one that ends it are only deferred.      *)

\* build_stamps.values()
BusyStamps == {build_stamps[t] : t \in DOMAIN build_stamps}

SceneCandidates ==
    {t \in sq.buildable \ (sq.running \cup sq.harddep_deferred) :
        /\ StampName("real", t, scene_stamps[t]) \notin BusyStamps
        /\ t \in DOMAIN sq_deferred => sq_deferred[t] \in runq_complete}

\* Whether all that would use t was restored, the DepValid question aside.
MaybeNotNeeded(t) ==
    /\ t \notin unskippable /\ sq_revdeps[t] # {}
    /\ t \notin sq_needed_harddeps /\ t \notin Targets
    /\ sq_revdeps[t] \subseteq sq.covered

AwaitsHardDep(t) == ~(HardDepsRev[t] \subseteq Decided(sq))

\* Met by the scan, these are put aside and the scan goes on.
PassedOver ==
    {t \in SceneCandidates : /\ MaybeNotNeeded(t) => FALSE \in DepValid
                             /\ AwaitsHardDep(t)
                             /\ HardDepsRev[t] \subseteq sq_needed_harddeps}

PutAside(D) == [sq EXCEPT !.harddep_deferred = @ \cup D]

SceneTurn(t, D) ==
    /\ stage = "scene" /\ ~sqdone /\ can_start_task
    /\ t \in SceneCandidates /\ D \subseteq PassedOver \ {t}
    /\ UNCHANGED <<configuration, state, runqVars, sqdone, holdoff_tasks,
                   tasks_covered, tasks_notcovered, hashVars, stamps, updates>>

\* Nothing uses t any more: skipped without being restored.
SceneNotNeeded(t, D) ==
    /\ SceneTurn(t, D)
    /\ MaybeNotNeeded(t) /\ TRUE \in DepValid
    /\ sq' = [sq_task_skip(PutAside(D), {t}) EXCEPT !.notneeded = @ \cup {t}]
    /\ sq_deferred' = Restrict(sq_deferred, DOMAIN sq_deferred \ {t})
    /\ holdoff_need_update' = TRUE /\ stage' = "turn"
    /\ UNCHANGED <<sq_live, sq_needed_harddeps, worker, build_stamps>>

\* t's hard dependencies are made buildable and t waits for them.
SceneNeedHardDeps(t, D) ==
    /\ SceneTurn(t, D)
    /\ MaybeNotNeeded(t) => FALSE \in DepValid
    /\ AwaitsHardDep(t) /\ t \notin PassedOver
    /\ sq' = [PutAside(D \cup {t}) EXCEPT
                !.buildable = @ \cup (HardDepsRev[t] \ sq_needed_harddeps)]
    /\ sq_needed_harddeps' = sq_needed_harddeps \cup HardDepsRev[t]
    /\ stage' = "turn"
    /\ UNCHANGED <<sq_live, sq_deferred, holdoff_need_update, worker, build_stamps>>

\* t is the one to look at: failed outright, skipped, or started.
SceneChosen(t, D) ==
    /\ SceneTurn(t, D)
    /\ MaybeNotNeeded(t) => FALSE \in DepValid
    /\ ~AwaitsHardDep(t)
    /\ sq_deferred' = Restrict(sq_deferred, DOMAIN sq_deferred \ {t})
    /\ UNCHANGED sq_needed_harddeps

\* Not in shared state, remade already, or not wanted from there.
SceneUnavailable(t) ==
    \/ t \in sq.outrightfail
    \/ RealStampCurrent(t, unihash, stamps)
    \/ configuration.force /\ t \in Targets
    \/ configuration.skipsetscene /\ ~SceneStampCurrent(t, unihash, stamps)

\* validate_hashes(): a task that was deferred is looked up again.
Revalidated(t) == IF t \notin DOMAIN sq_deferred THEN {TRUE}
                  ELSE {FALSE} \cup {b \in {TRUE} : t \in MayBeValid}

\* No process is needed: t is failed outright, or skipped for its stamp.
SceneSettle(t, D) ==
    /\ SceneChosen(t, D)
    /\ \E valid \in Revalidated(t) :
       LET failed == ~valid \/ SceneUnavailable(t)
       IN  /\ failed \/ SceneStampCurrent(t, unihash, stamps)
           /\ sq' = IF failed
                    THEN sq_task_failoutright(PutAside(D), {t}, unihash, stamps)
                    ELSE sq_task_skip(PutAside(D), {t})
    /\ holdoff_need_update' = TRUE /\ stage' = "turn"
    /\ UNCHANGED <<sq_live, worker, build_stamps>>

\* Mutant: the started task is not marked running.
MarkRunning_missing(q, t) == q

MarkRunning(q, t) == [q EXCEPT !.running = @ \cup {t}]

SceneStart(t, D) ==
    /\ SceneChosen(t, D)
    /\ TRUE \in Revalidated(t)
    /\ ~SceneUnavailable(t) /\ ~SceneStampCurrent(t, unihash, stamps)
    /\ worker' = worker \cup {<<"scene", t, unihash[t]>>}
    /\ build_stamps' = [x \in DOMAIN build_stamps \cup {t} |->
                          IF x = t THEN StampName("scene", t, unihash[t])
                          ELSE build_stamps[x]]
    /\ sq' = MarkRunning(PutAside(D), t)
    /\ sq_live' = sq_live \cup {t}
    /\ stage' = IF active + Cardinality(sq_live') < NumberTasks
                THEN "turn" ELSE "holdoff"
    /\ UNCHANGED holdoff_need_update

\* Nothing to pick: the scene queue is done, no slot is free, or every
\* candidate was put aside.
SceneNone ==
    /\ stage = "scene"
    /\ sqdone \/ ~can_start_task \/ SceneCandidates = PassedOver
    /\ sq' = IF sqdone \/ ~can_start_task THEN sq ELSE PutAside(PassedOver)
    /\ stage' = "holdoff"
    /\ UNCHANGED <<configuration, state, runqVars, sq_live, sq_deferred,
                   sq_needed_harddeps, sqdone, holdoffVars, hashVars, workerVars>>

-----------------------------------------------------------------------------
(* Stage "holdoff": update_holdofftasks(), and the end of the scene queue. *)

Below(S) == UNION {sq_covered_tasks[t] : t \in S}

NotCoveredTasks ==
    (sq.notcovered \cup Below(sq.notcovered) \cup cantskip
        \cup (unskippable \ Setscene)) \cap sq.done

\* Mutant: what a task that is not covered needs is covered all the same.
CoveredTasks_shared == (sq.covered \cup Below(sq.covered)) \cap sq.done

CoveredTasks ==
    ((sq.covered \cup Below(sq.covered)) \ NotCoveredTasks) \cap sq.done

\* Mutant: only the setscene tasks themselves are held off.
HoldoffTasks_undecided_only == Setscene \ Decided(sq)

\* Undecided setscene tasks, and what they may yet make unnecessary.
HoldoffTasks ==
    LET undecided == Setscene \ Decided(sq)
    IN  undecided \cup (Below(undecided) \ runq_complete)

update_holdofftasks ==
    IF holdoff_need_update
    THEN /\ tasks_covered' = CoveredTasks
         /\ tasks_notcovered' = NotCoveredTasks
         /\ holdoff_tasks' = HoldoffTasks
         /\ runq_buildable' = runq_buildable \cup
               {t \in NotCoveredTasks \cup CoveredTasks :
                   Depends[t] \subseteq runq_complete}
         /\ holdoff_need_update' = FALSE
    ELSE UNCHANGED <<holdoffVars, runq_buildable>>

\* summarise_scenequeue_errors(): what counts as an error in the scene queue.
\* (A task both covered and not covered is logged there, not counted.)
SceneErrors(buildable, covered, notcovered, holdoff) ==
    \/ sq_deferred # << >> \/ updated_taskhash_queue # << >> \/ holdoff # {}
    \/ ~(Setscene \subseteq Decided(sq))
    \/ ~(Setscene \subseteq sq.buildable \cap sq.running)
    \/ Task # covered \cup notcovered
    \/ ~(Task \subseteq sq.done)
    \/ \E t \in Task : Depends[t] = {} /\ t \notin buildable

\* Nothing of the scene queue is left to happen.
SceneDrained(holdoff) ==
    /\ sq_live = {} /\ ~sqdone /\ sq_deferred = << >>
    /\ updated_taskhash_queue = << >> /\ holdoff = {}

Holdoff ==
    /\ stage = "holdoff"
    /\ update_holdofftasks
    /\ LET failed == SceneErrors(runq_buildable', tasks_covered',
                                 tasks_notcovered', holdoff_tasks')
       IN  IF ~SceneDrained(holdoff_tasks')
           THEN stage' = "sched" /\ UNCHANGED <<state, sqdone>>
           ELSE IF failed
           THEN stage' = "turn" /\ state' = "FAILED" /\ UNCHANGED sqdone
           ELSE IF configuration.setsceneonly
           THEN stage' = "turn" /\ state' = "COMPLETE" /\ UNCHANGED sqdone
           ELSE stage' = "sched" /\ sqdone' = TRUE /\ UNCHANGED state
    /\ UNCHANGED <<configuration, runq_running, runq_complete, runq_tasksrun,
                   active, failed_tids, sq, sq_live, sq_deferred,
                   sq_needed_harddeps, hashVars, workerVars>>

-----------------------------------------------------------------------------
(* Stage "sched": the scheduler's pick and what is done with it.           *)

\* next_buildable_task(): tasks of a name that is at its number_threads wait.
ThreadsTaken(name) == Cardinality({t \in InProgress : TaskName[t] = name})

\* Mutant: build_stamps is not looked at.
StampFree_always(t) == TRUE

\* RunQueueScheduler.stamps is filled when the build starts: a task that was
\* rehashed since is looked up under its first name.
StampFree(t) == StampName("real", t, InitHash[t]) \notin BusyStamps

Runnable ==
    {t \in runq_buildable \ (runq_running \cup holdoff_tasks) :
        /\ t \in tasks_covered \cup tasks_notcovered
        /\ NumberThreads[TaskName[t]] # 0 =>
               ThreadsTaken(TaskName[t]) < NumberThreads[TaskName[t]]
        /\ StampFree(t)}

\* Any scheduler: the priorities only order what is runnable.
Sched(t) ==
    /\ stage = "sched" /\ ~configuration.setsceneonly
    /\ can_start_task /\ t \in Runnable
    /\ UNCHANGED <<configuration, sq_live, sq_needed_harddeps, sqdone,
                   holdoff_tasks, tasks_covered, tasks_notcovered, hashVars, updates>>

\* BB_SETSCENE_ENFORCE: a task that had to be restored is about to run.
Unexpected(t) ==
    /\ configuration.setscene_enforce
    /\ t \notin tasks_covered \cup NoExec \cup IgnoreTasks
    /\ ~StampCurrent(t)

SchedUnexpected(t) ==
    /\ Sched(t) /\ Unexpected(t)
    /\ active' = IF active > ActiveFloor THEN active - 1 ELSE active
    /\ failed_tids' = failed_tids \cup {t}
    /\ state' = HaltState
    /\ stage' = "turn"
    /\ UNCHANGED <<runq_buildable, runq_running, runq_complete, runq_tasksrun,
                   sq, sq_deferred, holdoff_need_update, worker, stamps,
                   build_stamps>>

\* Covered by the scene queue, or its stamp is current: task_skip().
SchedSkip(t) ==
    /\ Sched(t) /\ ~Unexpected(t)
    /\ t \in tasks_covered \/ StampCurrent(t)
    /\ runq_running' = runq_running \cup {t}
    /\ runq_tasksrun' = IF t \in tasks_covered THEN runq_tasksrun
                        ELSE runq_tasksrun \cup {t}
    /\ task_completeoutright(t, stamps)
    /\ stage' = "turn"
    /\ UNCHANGED <<state, active, failed_tids, worker, build_stamps>>

\* A noexec task is run by marking it run.
SchedNoExec(t) ==
    /\ Sched(t) /\ ~Unexpected(t)
    /\ t \notin tasks_covered /\ ~StampCurrent(t) /\ t \in NoExec
    /\ runq_running' = runq_running \cup {t}
    /\ runq_tasksrun' = runq_tasksrun \cup {t}
    /\ task_completeoutright(t, StampsLeft("real", t, unihash[t], TRUE))
    /\ stage' = "turn"
    /\ UNCHANGED <<state, active, failed_tids, worker, build_stamps>>

SchedStart(t) ==
    /\ Sched(t) /\ ~Unexpected(t)
    /\ t \notin tasks_covered \cup NoExec /\ ~StampCurrent(t)
    /\ worker' = worker \cup {<<"real", t, unihash[t]>>}
    /\ build_stamps' = [x \in DOMAIN build_stamps \cup {t} |->
                          IF x = t THEN StampName("real", t, unihash[t])
                          ELSE build_stamps[x]]
    /\ runq_running' = runq_running \cup {t}
    /\ active' = active + 1
    /\ stage' = IF active' + Cardinality(sq_live) < NumberTasks
                THEN "turn" ELSE "end"
    /\ UNCHANGED <<state, runq_buildable, runq_complete, runq_tasksrun,
                   failed_tids, sq, sq_deferred, holdoff_need_update, stamps>>

\* No slot, nothing runnable, or (with something active) the machine is under
\* more pressure than BB_PRESSURE_MAX_* allow.
SchedNone ==
    /\ stage = "sched"
    /\ configuration.setsceneonly \/ ~can_start_task \/ Runnable = {} \/ active # 0
    /\ stage' = "end"
    /\ UNCHANGED <<state, buildVars>>

-----------------------------------------------------------------------------
(* Stage "end": wait, force a deferred task, or conclude.                  *)

\* Mutant: off by one.
EndWait_at_zero ==
    /\ stage = "end"
    /\ active >= 0 \/ sq_live # {}
    /\ stage' = "wait"
    /\ UNCHANGED <<state, buildVars>>

EndWait ==
    /\ stage = "end"
    /\ active > 0 \/ sq_live # {}
    /\ stage' = "wait"
    /\ UNCHANGED <<state, buildVars>>

\* "Runqueue deadlocked on deferred tasks, forcing task"
EndForceDeferred(t) ==
    /\ stage = "end"
    /\ active <= 0 /\ sq_live = {}
    /\ t \in DOMAIN sq_deferred
    /\ sq_deferred' = Restrict(sq_deferred, DOMAIN sq_deferred \ {t})
    /\ stage' = "turn"
    /\ UNCHANGED <<configuration, state, runqVars, sq, sq_live,
                   sq_needed_harddeps, sqdone, holdoffVars, hashVars, workerVars>>

\* The sanity checks before a build is called complete.
SanityErrors ==
    \/ SceneErrors(runq_buildable, tasks_covered, tasks_notcovered, holdoff_tasks)
    \/ ~(Task \subseteq runq_buildable \cap runq_running \cap runq_complete)

Conclude ==
    /\ stage = "end"
    /\ active <= 0 /\ sq_live = {} /\ sq_deferred = << >>
    /\ state' = IF failed_tids # {} \/ SanityErrors THEN "FAILED" ELSE "COMPLETE"
    /\ stage' = "turn"
    /\ UNCHANGED buildVars

\* The run queue is done: the workers are torn down.
Teardown ==
    /\ stage = "turn" /\ state \in {"FAILED", "COMPLETE"}
    /\ stage' = "done"
    /\ UNCHANGED <<state, buildVars>>

-----------------------------------------------------------------------------

Turn ==
    \/ BeginTurn \/ CleanUp \/ EndRead \/ Teardown
    \/ \E i \in DOMAIN updated_taskhash_queue : ApplyUpdate(i)
    \/ NothingToMigrate \/ Migrate
    \/ \E t \in Setscene : \E D \in SUBSET PassedOver :
          \/ SceneNotNeeded(t, D) \/ SceneNeedHardDeps(t, D)
          \/ SceneSettle(t, D) \/ SceneStart(t, D)
    \/ SceneNone \/ Holdoff
    \/ \E t \in Task :
          SchedUnexpected(t) \/ SchedSkip(t) \/ SchedNoExec(t) \/ SchedStart(t)
    \/ SchedNone \/ EndWait
    \/ \E t \in Setscene : EndForceDeferred(t)
    \/ Conclude

WorkerExit == \E kind \in Kind, t \in Task, h \in Hash, ok \in BOOLEAN :
                  Exit(kind, t, h, ok)

WorkerEvent == \E t \in Task, h \in Hash : UniHashUpdate(t, h)

\* The build is over; nothing of the run queue happens any more.
Over == stage = "done" /\ UNCHANGED vars

Next == Turn \/ WorkerExit \/ WorkerEvent \/ Stop \/ ForceStop \/ Over

\* The cooker's idle loop calls the run queue again and again, and a read
\* drains the pipes: while processes end, exit codes keep arriving.
Fairness == WF_vars(Turn) /\ SF_vars(WorkerExit)

Spec == Init /\ [][Next]_vars /\ Fairness

-----------------------------------------------------------------------------
(* Properties.                                                             *)

\* Nothing is started, skipped or called buildable before all it depends on
\* is complete, however the queue came to look at it.
DepsComplete ==
    \A t \in runq_buildable \cup runq_running \cup runq_complete :
        Depends[t] \subseteq runq_complete

\* An exit code names a task, and whether it is the task's or its setscene
\* variant's the cooker decides by sq_live: so whatever process is left belongs
\* to a task that was started, also once a rehash has put setscene tasks back.
WorkerInv ==
    /\ \A t \in Task, h \in Hash :
          <<"real", t, h>> \in worker => t \in runq_running
    /\ \A t \in Task, h \in Hash :
          <<"scene", t, h>> \in worker => t \in runq_running \cup sq_live
    /\ \A t \in Task, h \in Hash :
          <<"scene", t, h>> \in worker => t \in sq.running
    /\ \A t \in Task, g, h \in Hash :
          <<"scene", t, g>> \in worker /\ <<"scene", t, h>> \in worker => g = h

\* stats.active is the number of real tasks the workers are running, on every path
\* that starts, ends or refuses one; so finish(), which waits for active and
\* sq_live, never calls a build over while a worker is running a task.
ActiveExact ==
    IF stage = "done"
    THEN worker = {}
    ELSE active = Cardinality({w \in worker : w[1] = "real"})

\* What a real task uses was either built, found built, or restored: none of
\* the dependencies of a task handed to a worker was only promised by a
\* setscene task that was skipped, failed, or is still to be decided.
InputsPresent ==
    \A t \in Inflight("real") : \A d \in Depends[t] :
        d \in runq_tasksrun \/ d \in sq.covered \ sq.notneeded

\* A task never runs while the setscene queue may yet make it unnecessary:
\* not while a setscene task that covers it is being restored.
NoRunUnderRestore ==
    \A s \in Inflight("scene") :
        (sq_covered_tasks[s] \cup {s}) \cap Inflight("real") = {}

\* A task is never rehashed under its own process: the hash a worker was given,
\* which names the output it leaves, is the one the run queue has for the task.
HashKeptWhileRunning ==
    \A w \in worker : w[3] = unihash[w[2]]

\* What was restored is what its dependants were told they use: a restored
\* task keeps the hash under which it was restored.
RestoredHashKept ==
    \A t \in sq.covered \ sq.notneeded :
        \E kind \in {"scene", "real", "rebuilt"} : <<kind, t, unihash[t]>> \in stamps

\* A hash stays what a process, or what it left, was made under.
HashesKept == HashKeptWhileRunning /\ RestoredHashKept

\* summarise_scenequeue_errors(): "No task should end up in both covered and
\* uncovered, that is a bug."
CoveredXorNotCovered == sq.covered \cap sq.notcovered = {}

StampOf(w) == StampName(w[1], w[2], w[3])

\* Two processes do not make the same stamp, unless it is one of a task that was
\* rehashed: build_stamps has the name of the moment, the scheduler looks for the
\* first one.
StampExclusive ==
    \A v, w \in worker : v # w /\ StampOf(v) = StampOf(w) =>
        \E p \in {v, w} : p[3] # InitHash[p[2]]

\* A build called complete without being interrupted ran or skipped every task.
CompleteIsComplete ==
    state = "COMPLETE" => \/ runq_complete = Task
                          \/ stage = "done" /\ MayInterrupt # {}
                          \/ configuration.setsceneonly

\* The sanity checks never trip: a build fails only because a task failed.
NoSpuriousFailure == state = "FAILED" => failed_tids # {}

\* The number_threads flag of a task name bounds its processes.
NumberThreadsRespected ==
    \A n \in DOMAIN NumberThreads : NumberThreads[n] # 0 =>
        Cardinality({w \in worker : w[1] = "real" /\ TaskName[w[2]] = n})
            <= NumberThreads[n]

\* What the scheduler keeps apart stays apart, through deferral and rehashing.
RunsApart == StampExclusive /\ NumberThreadsRespected

\* --continue: when the build stops by itself, every task all of whose
\* dependencies were completed has been run.
ContinuesAsFarAsPossible ==
    (stage = "done" /\ ~configuration.halt /\ MayInterrupt = {}) =>
        \A t \in Task : Depends[t] \subseteq runq_complete => t \in runq_running

\* What is left undone when a build ends is what a failure or the user left.
EndIsRight == CompleteIsComplete /\ ContinuesAsFarAsPossible

\* The run queue is an implementation of the task graph: tasks are started,
\* skipped and completed in dependency order and once only, through failures,
\* restores and rehashes, and nothing happens once the build is over.
Graph == INSTANCE TaskGraph
           WITH started <- runq_running, done <- runq_complete,
                over <- (stage = "done")

\* Spec implements TaskGraph under that mapping.
RefinesTaskGraph == Graph!Spec

\* Every build ends, if the processes it waits for end.
Ends == <>(stage = "done")

=============================================================================
