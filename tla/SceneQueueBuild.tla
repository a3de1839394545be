--------------------------- MODULE SceneQueueBuild --------------------------
(***************************************************************************)
(* build_scenequeue_data() of lib/bb/runqueue.py: the task graph is peeled *)
(* from its end points, each end point handing the setscene tasks above it *)
(* down to its dependencies.  process_endpoints() walks a dictionary whose *)
(* order is an accident of insertion, so a step here takes any point of    *)
(* the round; the graph itself is an input, any acyclic one.               *)
(***************************************************************************)
EXTENDS Integers, FiniteSets, Functions

CONSTANT Task

ASSUME TaskAssumption == IsFiniteSet(Task) /\ Task \subseteq Nat

VARIABLES
    depends,    \* the input: runtaskentries[t].depends ...
    setscene,   \* ... and runq_setscene_tids
    sq_revdeps,         \* reverse dependencies not walked yet
    sq_revdeps_squash,  \* setscene tasks collected at a point
    sq_collated_deps,   \* plain tasks below a setscene task
    endpoints,          \* the round: point |-> setscene tasks handed to it
    newendpoints,       \* the next round
    phase

vars == <<depends, setscene, sq_revdeps, sq_revdeps_squash, sq_collated_deps,
          endpoints, newendpoints, phase>>

input == <<depends, setscene>>

\* Types: the end points of both rounds and the two tables of reverse
\* dependencies hold tasks, and only setscene tasks are handed down.
TypeOK ==
    /\ depends \in [Task -> SUBSET Task]
    /\ setscene \subseteq Task
    /\ sq_revdeps \in [Task -> SUBSET Task]
    /\ sq_revdeps_squash \in [Task -> SUBSET setscene]
    /\ sq_collated_deps \in [setscene -> SUBSET Task]
    /\ DOMAIN endpoints \subseteq Task /\ DOMAIN newendpoints \subseteq Task
    /\ phase \in {"peel", "done"}

-----------------------------------------------------------------------------

revdeps(t) == {r \in Task : t \in depends[r]}

\* Every acyclic graph: a task depends on lower ones.
Graphs == {[t \in Task |-> {d \in Task : <<t, d>> \in edges}] :
              edges \in SUBSET {e \in Task \X Task : e[2] < e[1]}}

\* Mutant: setscene tasks do not end the search from their own reverse
\* dependencies.
FirstPoints_tops_only == {p \in Task \ setscene : revdeps(p) = {}}

FirstPoints ==
    {p \in Task : \/ revdeps(p) = {} /\ p \notin setscene
                  \/ revdeps(p) \cap setscene # {}}

\* The two loops before process_endpoints(): tasks nothing depends on, and
\* the dependencies of every setscene task, whose reverse dependency on it is
\* cut at once.
Init ==
    /\ depends \in Graphs
    /\ setscene \in SUBSET Task
    /\ sq_revdeps = [t \in Task |-> revdeps(t) \ setscene]
    /\ sq_revdeps_squash = [t \in Task |-> {}]
    /\ sq_collated_deps = [t \in setscene |-> {}]
    /\ endpoints = [t \in FirstPoints |-> revdeps(t) \cap setscene]
    /\ newendpoints = << >>
    /\ phase = "peel"

FreedBy(below, left) == {d \in below \ setscene : left[d] = {}}

Collected(point) == endpoints[point] \cup sq_revdeps_squash[point]

\* One iteration of the loop over endpoints.items().
ProcessPoint(point) ==
    /\ point \in DOMAIN endpoints
    /\ LET task  == endpoints[point]
           tasks == Collected(point)
           below == depends[point]
           left  == [d \in Task |-> IF d \in below THEN sq_revdeps[d] \ {point}
                                    ELSE sq_revdeps[d]]
           freed == FreedBy(below, left)
       IN  IF point \in setscene
           THEN /\ sq_revdeps_squash' = [sq_revdeps_squash EXCEPT ![point] = tasks]
                /\ UNCHANGED <<sq_revdeps, sq_collated_deps, newendpoints>>
           ELSE /\ sq_collated_deps' = [t \in setscene |->
                      IF t \in tasks THEN sq_collated_deps[t] \cup {point}
                      ELSE sq_collated_deps[t]]
                /\ sq_revdeps_squash' = [t \in Task |->
                      CASE t = point   -> {}
                        [] t \in below -> sq_revdeps_squash[t] \cup tasks
                        [] OTHER       -> sq_revdeps_squash[t]]
                /\ sq_revdeps' = left
                /\ newendpoints' = [d \in DOMAIN newendpoints \cup freed |->
                      IF d \in freed THEN task ELSE newendpoints[d]]
    /\ endpoints' = Restrict(endpoints, DOMAIN endpoints \ {point})
    /\ UNCHANGED <<phase, input>>

\* Mutant: the new round is not emptied.
NextRound_kept ==
    /\ endpoints = << >> /\ newendpoints # << >>
    /\ endpoints' = newendpoints
    /\ UNCHANGED <<newendpoints, sq_revdeps, sq_revdeps_squash, sq_collated_deps,
                   phase, input>>

\* The recursive call, when the round found new end points.
NextRound ==
    /\ endpoints = << >> /\ newendpoints # << >>
    /\ endpoints' = newendpoints
    /\ newendpoints' = << >>
    /\ UNCHANGED <<sq_revdeps, sq_revdeps_squash, sq_collated_deps, phase, input>>

Finish ==
    /\ phase = "peel"
    /\ endpoints = << >> /\ newendpoints = << >>
    /\ phase' = "done"
    /\ UNCHANGED <<sq_revdeps, sq_revdeps_squash, sq_collated_deps, endpoints,
                   newendpoints, input>>

Done == phase = "done" /\ UNCHANGED vars

Next == (\E point \in Task : ProcessPoint(point)) \/ NextRound \/ Finish \/ Done

Spec == Init /\ [][Next]_vars /\ WF_vars(Next)

-----------------------------------------------------------------------------

Collapsed == INSTANCE SceneQueueData
               WITH Depends <- depends, Setscene <- setscene, Targets <- {}

\* Whatever the order of the points, the peeling ends with the collapsed graph:
\* two setscene tasks are linked exactly when a path of plain tasks joins them
\* (sqdata.sq_revdeps).
RevDepsExact ==
    phase = "done" =>
        \A t \in setscene : sq_revdeps_squash[t] = Collapsed!sq_revdeps[t]

\* ... and a setscene task covers exactly the plain tasks below it that it
\* reaches without passing another setscene task (sqdata.sq_covered_tasks).
CoveredTasksExact ==
    phase = "done" => sq_collated_deps = Collapsed!sq_covered_tasks

\* The sanity check of the code, "Something went badly wrong during scenequeue
\* generation": no plain task is left holding setscene tasks.
NothingLeftBehind ==
    phase = "done" => \A t \in Task \ setscene : sq_revdeps_squash[t] = {}

\* What build_scenequeue_data() hands on is exact, and all that it found.
SceneQueueExact == TypeOK /\ RevDepsExact /\ CoveredTasksExact /\ NothingLeftBehind

\* The recursion over rounds of end points ends.
Terminates == <>(phase = "done")

=============================================================================
