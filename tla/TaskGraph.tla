------------------------------ MODULE TaskGraph ------------------------------
(***************************************************************************)
(* What a run queue promises whoever asked for a build, with nothing of    *)
(* how: tasks are started in dependency order, one that is not needed is   *)
(* skipped in the same order, each is completed at most once, none that    *)
(* failed is completed, and when the build is over nothing is started.     *)
(***************************************************************************)
CONSTANTS Task, Depends

VARIABLES started,  \* the tasks started or skipped
          done,     \* those of them that are complete
          over      \* the build has stopped

vars == <<started, done, over>>

Init == started = {} /\ done = {} /\ over = FALSE

Ready(t) == ~over /\ t \in Task \ started /\ Depends[t] \subseteq done

Start(t) ==
    /\ Ready(t)
    /\ started' = started \cup {t}
    /\ UNCHANGED <<done, over>>

\* A started task that never completes is one that failed.
Complete(t) ==
    /\ ~over /\ t \in started \ done
    /\ done' = done \cup {t}
    /\ UNCHANGED <<started, over>>

\* Its output exists already: an earlier build, or shared state, has it.
Skip(t) ==
    /\ Ready(t)
    /\ started' = started \cup {t}
    /\ done' = done \cup {t}
    /\ UNCHANGED over

End ==
    /\ ~over
    /\ over' = TRUE
    /\ UNCHANGED <<started, done>>

Next == (\E t \in Task : Start(t) \/ Complete(t) \/ Skip(t)) \/ End

Spec == Init /\ [][Next]_vars
=============================================================================
