--------------------------- MODULE SceneQueueData ---------------------------
(***************************************************************************)
(* The graph the scene queue works on.  build_scenequeue_data() collapses  *)
(* the task graph onto its setscene tasks, the ones whose output may be    *)
(* restored from shared state.  The code does so by peeling end points     *)
(* off the graph (module SceneQueueBuild is that algorithm, step by step); *)
(* this module states what the result is, and is what RunQueue uses.       *)
(***************************************************************************)
EXTENDS FiniteSets

CONSTANTS
    Task,       \* the tasks of the run queue (rqdata.runtaskentries)
    Depends,    \* runtaskentries[t].depends
    Setscene,   \* runq_setscene_tids: the tasks that have a setscene variant
    Targets     \* target_tids: the tasks the user asked for

Plain == Task \ Setscene

RevDeps(t) == {r \in Task : t \in Depends[r]}

\* Everything reached from S, walking down through plain tasks only: the first
\* setscene task met on a path ends it.
WalkDown(S) ==
    LET Closed(X) == S \subseteq X /\ \A t \in X \cap Plain : Depends[t] \subseteq X
    IN  {t \in Task : \A X \in SUBSET Task : Closed(X) => t \in X}

\* The plain tasks below t that are of use to t alone once t's output has
\* been restored: those reached without passing another setscene task.
sq_covered_tasks == [t \in Setscene |-> WalkDown(Depends[t]) \cap Plain]

\* The setscene tasks that reach t through plain tasks only ...
sq_revdeps == [t \in Setscene |->
                 {s \in Setscene : t \in WalkDown(Depends[s])}]

\* ... and the ones t reaches.
sq_deps == [t \in Setscene |-> {d \in Setscene : t \in sq_revdeps[d]}]

\* A target that has no setscene variant has to be run.
cantskip == Targets \cap Plain

\* The end points of the graph and the targets, with everything below them
\* down to and including the first setscene task on each path.
unskippable == WalkDown({t \in Task : RevDeps(t) = {}} \cup cantskip)

=============================================================================
