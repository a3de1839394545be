---------------------------- MODULE MCHashEquiv ----------------------------
(* Instances of HashEquiv for TLC. *)
EXTENDS HashEquiv, TLC
CONSTANTS t1, t2, o1, o2, m1, c1, c2

Report(t, o) == [op |-> "report", t |-> t, o |-> o]

\* A build, and a build whose owner also administers the server.  One task
\* has two outputs, one output comes from two tasks.
MCRequests ==
    c1 :> {Report(t2, o1), [op |-> "get", t |-> t1],
           [op |-> "stream", t |-> t1], [op |-> "equivreport", t |-> t1, u |-> "u0"]}
    @@ c2 :> {Report(t1, o1), Report(t2, o2), [op |-> "mark", m |-> m1, t |-> t1],
              [op |-> "sweep", m |-> m1], [op |-> "remove", t |-> t1], [op |-> "clean"],
              [op |-> "wait"]}

\* No upstream, or one that knows one task and one output hash
MCUpstreams ==
    {None,
     [x \in {t1, t2, o1, o2} |-> IF x \in {t1, o1} THEN "u0" ELSE None]}
=============================================================================
