----------------------------- MODULE WorkerPipe -----------------------------
(***************************************************************************)
(* The way of a task's events and of its exit code: from the task's        *)
(* process through its pipe to bitbake-worker, through the worker's queue  *)
(* and writer thread to the worker's pipe, to the cooker's runQueuePipe    *)
(* (bin/bitbake-worker, lib/bb/runqueue.py).  The pipes are byte streams:  *)
(* a message is written and read in pieces, here two for each message.     *)
(*                                                                         *)
(* The cooker starts tasks, reads what comes back and, when all is done or *)
(* the user stops the build, tears the worker down while it keeps reading. *)
(* The worker may die.                                                     *)
(***************************************************************************)
EXTENDS Integers, Sequences, SequencesExt, FiniteSets, FiniteSetsExt

CONSTANTS
    Task,
    MaxEvents,      \* bound: events a task fires
    PipeSize,       \* pieces a pipe holds
    MaxDeaths,      \* bound: deaths of the worker
    None

ASSUME WorkerPipeAssumption ==
    /\ MaxEvents \in Nat /\ PipeSize \in Nat \ {0} /\ MaxDeaths \in Nat
    /\ None \notin BOOLEAN

VARIABLES
    state,          \* RunQueue.state
    teardown,       \* RunQueue.teardown: "no", "reading", or "done"
    todo,           \* tasks not started yet
    live,           \* tasks started that have not reported
    reported,       \* the exit code each task reported
    fired,          \* how many events of each task the cooker has fired
    queue,          \* runQueuePipe.queue: pieces read and not understood yet
    worker,         \* where the worker's main thread is
    stdin,          \* messages on their way to the worker
    build_pids,     \* the worker's children
    build_pipes,    \* runQueueWorkerPipe.queue of each
    to_kill,        \* handle_finishnow: children it has still to kill, then to read
    worker_queue,   \* whole messages for the writer thread
    worker_queue_int, \* the writer's pieces
    worker_pipe,    \* the pipe to the cooker
    child,          \* each task's process
    child_pipe,     \* its pipe to the worker
    sigterm,        \* processes SIGTERM was sent to
    emitted,        \* events each task has written completely
    status,         \* exit code of each process
    stopped,        \* the build was stopped at once, or ended by an exception
    deaths

cooker_vars == <<state, teardown, todo, live, reported, fired, queue>>
worker_vars == <<worker, build_pids, build_pipes, to_kill>>
writer_vars == <<worker_queue, worker_queue_int, worker_pipe>>
child_vars == <<child, child_pipe, sigterm, emitted, status>>
vars == <<cooker_vars, worker_vars, writer_vars, child_vars, stdin, stopped, deaths>>
-----------------------------------------------------------------------------
Event(t) == [kind |-> "event", task |-> t, status |-> None]
ExitCode(t) == [kind |-> "exitcode", task |-> t, status |-> status[t]]
Pieces(m) == <<[msg |-> m, part |-> 1], [msg |-> m, part |-> 2]>>

\* The number of whole messages at the front of a buffer, and these messages
Whole(q) ==
    Max({n \in 0 .. Len(q) \div 2 :
           \A i \in 1 .. n : SubSeq(q, 2 * i - 1, 2 * i) = Pieces(q[2 * i].msg)})
Messages(q) == [i \in 1 .. Whole(q) |-> q[2 * i].msg]
Rest(q) == SubSeq(q, 2 * Whole(q) + 1, Len(q))

Alive(t) == child[t] \in {"forked", "running", "writing"}

Init ==
    /\ state = "RUNNING" /\ teardown = "no"
    /\ todo = Task /\ live = {}
    /\ reported = [t \in Task |-> None]
    /\ fired = [t \in Task |-> 0]
    /\ queue = <<>>
    /\ worker = "serving" /\ stdin = <<>>
    /\ build_pids = {} /\ build_pipes = [t \in Task |-> <<>>] /\ to_kill = {}
    /\ worker_queue = <<>> /\ worker_queue_int = <<>> /\ worker_pipe = <<>>
    /\ child = [t \in Task |-> "none"]
    /\ child_pipe = [t \in Task |-> <<>>]
    /\ sigterm = {}
    /\ emitted = [t \in Task |-> 0]
    /\ status = [t \in Task |-> None]
    /\ stopped = FALSE /\ deaths = 0
-----------------------------------------------------------------------------
(* The cooker. *)

\* runQueuePipe.read on what the pipe holds: fires events and takes exit codes
\* in the order of the stream.
Take ==
    LET q == queue \o worker_pipe
        exits == {m \in ToSet(Messages(q)) : m.kind = "exitcode"}
        Code(t) == {m.status : m \in {m \in exits : m.task = t}}
    IN
    /\ queue' = Rest(q)
    /\ worker_pipe' = <<>>
    /\ fired' = [t \in Task |->
                   fired[t] + Quantify(DOMAIN Messages(q), LAMBDA i : Messages(q)[i] = Event(t))]
    /\ reported' = [t \in Task |-> IF Code(t) = {} THEN reported[t]
                                   ELSE CHOOSE s \in Code(t) : TRUE]
    /\ live' = live \ {m.task : m \in exits}

Failed == \E t \in Task : reported[t] = FALSE
Finished == IF Failed THEN "FAILED" ELSE "COMPLETE"

\* A turn reads the worker; one that has died ends the build first:
\* finish_runqueue(True).
Read ==
    /\ state = "RUNNING"
    /\ worker_pipe # <<>> \/ worker = "gone"
    /\ state' = IF worker = "gone" THEN Finished ELSE state
    /\ Take
    /\ UNCHANGED <<teardown, todo, worker_vars, worker_queue, worker_queue_int, child_vars,
                   stdin, stopped, deaths>>

StartTask(t) ==
    /\ state = "RUNNING"
    /\ worker # "gone"
    /\ t \in todo
    /\ todo' = todo \ {t}
    /\ live' = live \cup {t}
    /\ stdin' = Append(stdin, <<"runtask", t>>)
    /\ UNCHANGED <<state, teardown, reported, fired, queue, worker_vars, writer_vars,
                   child_vars, stopped, deaths>>

\* The pipe to a dead worker is broken: the exception ends the build.
StartFails ==
    /\ state = "RUNNING" /\ todo # {}
    /\ worker = "gone"
    /\ state' = "COMPLETE"
    /\ stopped' = TRUE
    /\ UNCHANGED <<teardown, todo, live, reported, fired, queue, worker_vars, writer_vars,
                   child_vars, stdin, deaths>>

Conclude ==
    /\ state = "RUNNING" /\ todo = {} /\ live = {}
    /\ state' = Finished
    /\ UNCHANGED <<teardown, todo, live, reported, fired, queue, worker_vars, writer_vars,
                   child_vars, stdin, stopped, deaths>>

\* finish_now
ForceStop ==
    /\ state = "RUNNING"
    /\ state' = Finished
    /\ stdin' = Append(stdin, <<"finishnow">>)
    /\ stopped' = TRUE
    /\ UNCHANGED <<teardown, todo, live, reported, fired, queue, worker_vars, writer_vars,
                   child_vars, deaths>>

\* _teardown_worker: asks the worker to quit ...
Teardown ==
    /\ state # "RUNNING" /\ teardown = "no"
    /\ teardown' = "reading"
    /\ stdin' = Append(stdin, <<"quit">>)
    /\ UNCHANGED <<state, todo, live, reported, fired, queue, worker_vars, writer_vars,
                   child_vars, stopped, deaths>>

\* Mutant: waits for the worker to exit before it reads.
TeardownRead_after_exit ==
    /\ teardown = "reading" /\ worker = "gone"
    /\ worker_pipe # <<>>
    /\ Take
    /\ UNCHANGED <<state, teardown, todo, worker_vars, worker_queue, worker_queue_int,
                   child_vars, stdin, stopped, deaths>>

\* ... reads until it has exited ...
TeardownRead ==
    /\ teardown = "reading"
    /\ worker_pipe # <<>>
    /\ Take
    /\ UNCHANGED <<state, teardown, todo, worker_vars, worker_queue, worker_queue_int,
                   child_vars, stdin, stopped, deaths>>

\* ... and closes the pipe once it is empty.
TeardownEnd ==
    /\ teardown = "reading"
    /\ worker = "gone" /\ worker_pipe = <<>>
    /\ teardown' = "done"
    /\ UNCHANGED <<state, todo, live, reported, fired, queue, worker_vars, writer_vars,
                   child_vars, stdin, stopped, deaths>>

Cooker ==
    \/ Read \/ StartFails \/ Conclude \/ Teardown \/ TeardownRead \/ TeardownEnd
    \/ \E t \in Task : StartTask(t)
-----------------------------------------------------------------------------
(* The worker's main thread. *)

Received(m) == worker = "serving" /\ stdin # <<>> /\ Head(stdin) = m /\ stdin' = Tail(stdin)

\* fork_off_task
HandleRuntask(t) ==
    /\ Received(<<"runtask", t>>)
    /\ build_pids' = build_pids \cup {t}
    /\ child' = [child EXCEPT ![t] = "forked"]
    /\ UNCHANGED <<cooker_vars, worker, build_pipes, to_kill, writer_vars, child_pipe, sigterm,
                   emitted, status, stopped, deaths>>

\* runQueueWorkerPipe.read of a child's pipe: passes the whole messages on and
\* keeps a part for later.
ReadPipe(t) ==
    LET q == build_pipes[t] \o child_pipe[t] IN
    /\ build_pipes' = [build_pipes EXCEPT ![t] = Rest(q)]
    /\ child_pipe' = [child_pipe EXCEPT ![t] = <<>>]
    /\ worker_queue' = worker_queue \o Messages(q)

ReadChild(t) ==
    /\ worker = "serving"
    /\ t \in build_pids /\ child_pipe[t] # <<>>
    /\ ReadPipe(t)
    /\ UNCHANGED <<cooker_vars, worker, build_pids, to_kill, worker_queue_int, worker_pipe, child,
                   sigterm, emitted, status, stdin, stopped, deaths>>

\* Mutant: sends the exit code before it closes the pipe.
Waitpid_before_close(t) ==
    LET q == build_pipes[t] \o child_pipe[t] IN
    /\ worker = "serving"
    /\ t \in build_pids /\ child[t] = "dead"
    /\ child' = [child EXCEPT ![t] = "reaped"]
    /\ build_pids' = build_pids \ {t}
    /\ build_pipes' = [build_pipes EXCEPT ![t] = <<>>]
    /\ child_pipe' = [child_pipe EXCEPT ![t] = <<>>]
    /\ worker_queue' = worker_queue \o <<ExitCode(t)>> \o Messages(q)
    /\ UNCHANGED <<cooker_vars, worker, to_kill, worker_queue_int, worker_pipe, sigterm, emitted,
                   status, stdin, stopped, deaths>>

\* process_waitpid: close() reads the pipe to its end, then the exit code
\* follows; a part of a message left there is dropped.
Waitpid(t) ==
    LET q == build_pipes[t] \o child_pipe[t] IN
    /\ worker = "serving"
    /\ t \in build_pids /\ child[t] = "dead"
    /\ child' = [child EXCEPT ![t] = "reaped"]
    /\ build_pids' = build_pids \ {t}
    /\ build_pipes' = [build_pipes EXCEPT ![t] = <<>>]
    /\ child_pipe' = [child_pipe EXCEPT ![t] = <<>>]
    /\ worker_queue' = worker_queue \o Messages(q) \o <<ExitCode(t)>>
    /\ UNCHANGED <<cooker_vars, worker, to_kill, worker_queue_int, worker_pipe, sigterm, emitted,
                   status, stdin, stopped, deaths>>

HandleFinishnow ==
    /\ Received(<<"finishnow">>)
    /\ worker' = "killing"
    /\ to_kill' = build_pids
    /\ UNCHANGED <<cooker_vars, build_pids, build_pipes, writer_vars, child_vars, stopped, deaths>>

\* os.kill(-k, SIGTERM) fails for a child that has not called setsid() yet, or
\* has been reaped; otherwise the worker then waits for any child.
Kill(t) ==
    /\ worker = "killing" /\ t \in to_kill
    /\ to_kill' = to_kill \ {t}
    /\ \/ /\ child[t] \in {"running", "writing", "dead"}
          /\ sigterm' = IF Alive(t) THEN sigterm \cup {t} ELSE sigterm
          /\ worker' = "waiting"
       \/ /\ child[t] \in {"forked", "reaped"}
          /\ UNCHANGED <<sigterm, worker>>
    /\ UNCHANGED <<cooker_vars, build_pids, build_pipes, writer_vars, child, child_pipe, emitted,
                   status, stdin, stopped, deaths>>

\* os.waitpid(-1, 0): the exit code is not reported
Reap(t) ==
    /\ worker = "waiting"
    /\ child[t] = "dead"
    /\ child' = [child EXCEPT ![t] = "reaped"]
    /\ worker' = "killing"
    /\ UNCHANGED <<cooker_vars, build_pids, build_pipes, to_kill, writer_vars, child_pipe, sigterm,
                   emitted, status, stdin, stopped, deaths>>

KillEnds ==
    /\ worker = "killing" /\ to_kill = {}
    /\ worker' = "flushing"
    /\ to_kill' = build_pids
    /\ UNCHANGED <<cooker_vars, build_pids, build_pipes, writer_vars, child_vars, stdin, stopped,
                   deaths>>

\* ... and reads the pipe of each child, one after the other.
FlushChild(t) ==
    /\ worker = "flushing" /\ t \in to_kill
    /\ to_kill' = to_kill \ {t}
    /\ ReadPipe(t)
    /\ UNCHANGED <<cooker_vars, worker, build_pids, worker_queue_int, worker_pipe, child, sigterm,
                   emitted, status, stdin, stopped, deaths>>

FinishNowEnds ==
    /\ worker = "flushing" /\ to_kill = {}
    /\ worker' = "serving"
    /\ UNCHANGED <<cooker_vars, build_pids, build_pipes, to_kill, writer_vars, child_vars, stdin,
                   stopped, deaths>>

\* sys.exit(0); the main thread joins the writer.
HandleQuit ==
    /\ Received(<<"quit">>)
    /\ worker' = "exiting"
    /\ UNCHANGED <<cooker_vars, build_pids, build_pipes, to_kill, writer_vars, child_vars, stopped,
                   deaths>>

\* The children that asked for it (prctl) get SIGTERM when the worker is gone.
Gone ==
    /\ worker' = "gone"
    /\ sigterm' = sigterm \cup {t \in Task : child[t] \in {"running", "writing"}}

\* Mutant: the writer returns when the queue is empty, whatever it still holds.
WorkerExit_early ==
    /\ worker = "exiting" /\ worker_queue = <<>>
    /\ Gone
    /\ UNCHANGED <<cooker_vars, build_pids, build_pipes, to_kill, writer_vars, child, child_pipe,
                   emitted, status, stdin, stopped, deaths>>

\* worker_flush returns when nothing is left to write.
WorkerExit ==
    /\ worker = "exiting" /\ worker_queue = <<>> /\ worker_queue_int = <<>>
    /\ Gone
    /\ UNCHANGED <<cooker_vars, build_pids, build_pipes, to_kill, writer_vars, child, child_pipe,
                   emitted, status, stdin, stopped, deaths>>

\* Killed, or ended by an exception or by sigterm_exception: the writer with it
WorkerDies ==
    /\ worker # "gone" /\ deaths < MaxDeaths
    /\ deaths' = deaths + 1
    /\ Gone
    /\ worker_queue' = <<>> /\ worker_queue_int' = <<>>
    /\ UNCHANGED <<cooker_vars, build_pids, build_pipes, to_kill, worker_pipe, child, child_pipe,
                   emitted, status, stdin, stopped>>

Worker ==
    \/ \E t \in Task : HandleRuntask(t) \/ ReadChild(t) \/ Waitpid(t) \/ Kill(t) \/ Reap(t)
                    \/ FlushChild(t)
    \/ HandleFinishnow \/ KillEnds \/ FinishNowEnds \/ HandleQuit \/ WorkerExit
-----------------------------------------------------------------------------
(* The writer thread, worker_flush. *)

Collect ==
    /\ worker # "gone"
    /\ worker_queue # <<>>
    /\ worker_queue_int' = worker_queue_int \o Pieces(Head(worker_queue))
    /\ worker_queue' = Tail(worker_queue)
    /\ UNCHANGED <<cooker_vars, worker_vars, worker_pipe, child_vars, stdin, stopped, deaths>>

\* os.write takes as much as the pipe has room for, or less.
Write ==
    /\ worker # "gone"
    /\ \E n \in 1 .. Len(worker_queue_int) :
          /\ Len(worker_pipe) + n <= PipeSize
          /\ worker_pipe' = worker_pipe \o SubSeq(worker_queue_int, 1, n)
          /\ worker_queue_int' = SubSeq(worker_queue_int, n + 1, Len(worker_queue_int))
    /\ UNCHANGED <<cooker_vars, worker_vars, worker_queue, child_vars, stdin, stopped, deaths>>

Writer == Collect \/ Write
-----------------------------------------------------------------------------
(* A task's process. *)

others == <<cooker_vars, worker_vars, writer_vars, stdin, stopped, deaths>>

\* signal_on_parent_exit and setsid
Setup(t) ==
    /\ child[t] = "forked"
    /\ child' = [child EXCEPT ![t] = "running"]
    /\ UNCHANGED <<child_pipe, sigterm, emitted, status, others>>

\* worker_child_fire: an event goes into the pipe in pieces.
Fire(t) ==
    /\ Len(child_pipe[t]) < PipeSize
    /\ \/ /\ child[t] = "running" /\ emitted[t] < MaxEvents
          /\ child' = [child EXCEPT ![t] = "writing"]
          /\ child_pipe' = [child_pipe EXCEPT ![t] = Append(@, Pieces(Event(t))[1])]
          /\ UNCHANGED emitted
       \/ /\ child[t] = "writing"
          /\ child' = [child EXCEPT ![t] = "running"]
          /\ child_pipe' = [child_pipe EXCEPT ![t] = Append(@, Pieces(Event(t))[2])]
          /\ emitted' = [emitted EXCEPT ![t] = @ + 1]
    /\ UNCHANGED <<sigterm, status, others>>

Ends(t, ok) ==
    /\ child' = [child EXCEPT ![t] = "dead"]
    /\ status' = [status EXCEPT ![t] = ok]
    /\ UNCHANGED <<child_pipe, sigterm, emitted, others>>

ChildExit(t) == child[t] = "running" /\ \E ok \in BOOLEAN : Ends(t, ok)
ChildKilled(t) == t \in sigterm /\ Alive(t) /\ Ends(t, FALSE)

Child(t) == Setup(t) \/ Fire(t) \/ ChildExit(t) \/ ChildKilled(t)

Next ==
    \/ Cooker
    \/ ForceStop
    \/ Worker
    \/ WorkerDies
    \/ Writer
    \/ \E t \in Task : Child(t)

\* The processes run; a task's process ends.
Fairness ==
    /\ WF_vars(Cooker) /\ WF_vars(Worker) /\ WF_vars(Writer)
    /\ \A t \in Task : WF_vars(Child(t))

Spec == Init /\ [][Next]_vars /\ Fairness
-----------------------------------------------------------------------------
\* Types: a pipe holds no more than it has room for, and a task is started once.
TypeOK ==
    /\ state \in {"RUNNING", "COMPLETE", "FAILED"}
    /\ teardown \in {"no", "reading", "done"}
    /\ worker \in {"serving", "killing", "waiting", "flushing", "exiting", "gone"}
    /\ \A t \in Task : /\ reported[t] \in BOOLEAN \cup {None}
                       /\ fired[t] \in 0 .. MaxEvents /\ emitted[t] \in 0 .. MaxEvents
    /\ Len(worker_pipe) <= PipeSize
    /\ live \cap todo = {}

\* The exit code of a task comes last, and is the right one: when the cooker
\* takes it, every event of the task has been fired, so the hash updates and
\* the log a task sent are there before it counts as done
\* (bitbake-worker:507-533, runqueue.py:3350-3382).
ExitCodeComesLast ==
    \A t \in Task : reported[t] # None => reported[t] = status[t] /\ fired[t] = emitted[t]

\* A worker that was asked to quit loses nothing: when it has been torn down,
\* the cooker has fired every event of each child the worker collected, also
\* of those killed by finishnow, and no part of a message is left over
\* (bitbake-worker:97-120, runqueue.py:1415-1430, 3385-3390).
EventsDelivered ==
    (teardown = "done" /\ deaths = 0) =>
        /\ queue = <<>>
        /\ \A t \in Task : child[t] = "reaped" => fired[t] = emitted[t]

\* "all succeeded" is true of a build that nobody stopped and whose worker lived:
\* COMPLETE means a good exit code of every task (runqueue.py:1643-1655).
CompleteMeansReported ==
    (teardown = "done" /\ state = "COMPLETE" /\ ~ stopped /\ deaths = 0) =>
        \A t \in Task : reported[t] = TRUE

\* Nothing is lost between the pipes and the queues, which stay within their
\* bounds, and the build knows it.
NothingLost == TypeOK /\ EventsDelivered /\ CompleteMeansReported

\* The cooker always gets through: whatever the tasks write, however full the
\* pipes are and whether the worker quits, is killed, or waits for the children
\* it killed, the build ends and the worker is torn down
\* (runqueue.py:1415-1430, bitbake-worker:535-545).
TornDown == <>(teardown = "done")

=============================================================================
