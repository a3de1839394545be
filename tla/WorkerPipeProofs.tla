-------------------------- MODULE WorkerPipeProofs --------------------------
(***************************************************************************)
(* Proofs about WorkerPipe: what a task sends and its exit code reach the  *)
(* cooker whole, once, and in the order they were sent.                    *)
(***************************************************************************)
EXTENDS WorkerPipe, FiniteSetTheorems, SequenceTheorems, TLAPS

Message == [kind : {"event", "exitcode"}, task : Task, status : BOOLEAN \cup {None}]
Piece == [msg : Message, part : {1, 2}]

Begin(m) == [msg |-> m, part |-> 1]
End(m) == [msg |-> m, part |-> 2]

\* A buffer that starts where a message starts
Aligned(s) ==
    /\ \A j \in Nat : 1 <= j /\ 2 * j <= Len(s) =>
          s[2 * j - 1] = Begin(s[2 * j].msg) /\ s[2 * j] = End(s[2 * j].msg)
    /\ \A j \in Nat : 2 * j + 1 <= Len(s) => s[2 * j + 1] = Begin(s[2 * j + 1].msg)
Even(s) == \E h \in Nat : Len(s) = 2 * h
Odd(s) == \E h \in Nat : Len(s) = 2 * h + 1

\* The pieces of whole messages
Flat(ms) == [i \in 1 .. 2 * Len(ms) |->
                [msg |-> ms[(i + 1) \div 2], part |-> IF i % 2 = 1 THEN 1 ELSE 2]]

\* How often v is in s, up to position p
Before(s, p, v) == Cardinality({i \in 1 .. Len(s) : i <= p /\ s[i] = v})
CountIn(s, v) == Before(s, Len(s), v)

\* All that is on its way from the worker to the cooker, in its order, and what
\* the worker has or can read of a task
Arrived == queue \o worker_pipe
Stream == (Arrived \o worker_queue_int) \o Flat(worker_queue)
Held(t) == build_pipes[t] \o child_pipe[t]

\* No message has been lost yet.
Intact == worker # "gone" \/ deaths = 0

Command == {<<"runtask", t>> : t \in Task} \cup {<<"finishnow">>, <<"quit">>}

Types ==
    /\ state \in {"RUNNING", "COMPLETE", "FAILED"}
    /\ teardown \in {"no", "reading", "done"}
    /\ worker \in {"serving", "killing", "waiting", "flushing", "exiting", "gone"}
    /\ todo \in SUBSET Task /\ live \in SUBSET Task
    /\ build_pids \in SUBSET Task /\ to_kill \in SUBSET Task /\ sigterm \in SUBSET Task
    /\ reported \in [Task -> BOOLEAN \cup {None}]
    /\ status \in [Task -> BOOLEAN \cup {None}]
    /\ fired \in [Task -> Nat] /\ emitted \in [Task -> Nat]
    /\ child \in [Task -> {"none", "forked", "running", "writing", "dead", "reaped"}]
    /\ queue \in Seq(Piece) /\ worker_pipe \in Seq(Piece) /\ worker_queue_int \in Seq(Piece)
    /\ worker_queue \in Seq(Message)
    /\ build_pipes \in [Task -> Seq(Piece)] /\ child_pipe \in [Task -> Seq(Piece)]
    /\ stdin \in Seq(Command)
    /\ stopped \in BOOLEAN
    /\ deaths \in Nat

\* A task is started once, the worker has each process among its children until
\* it has read the process's pipe to the end.
StartedOnce ==
    /\ \A t \in Task : t \in todo => child[t] = "none"
    /\ \A i \in 1 .. Len(stdin), t \in Task :
          stdin[i] = <<"runtask", t>> => t \notin todo /\ child[t] = "none"
    /\ \A i, j \in 1 .. Len(stdin), t \in Task :
          stdin[i] = <<"runtask", t>> /\ stdin[j] = <<"runtask", t>> => i = j
    /\ live \cap todo = {}

ChildAt(t) ==
    /\ child[t] \in {"none", "forked"} => Held(t) = <<>>
    /\ child[t] = "running" => Even(Held(t))
    /\ child[t] = "writing" => Odd(Held(t)) /\ emitted[t] < MaxEvents
    /\ emitted[t] <= MaxEvents
    /\ child[t] \in {"dead", "reaped"} => status[t] \in BOOLEAN
    /\ child[t] \in {"forked", "running", "writing", "dead"} => t \in build_pids
    /\ child[t] = "reaped" /\ t \notin build_pids => Held(t) = <<>>
    /\ Aligned(Held(t))
    /\ \A i \in 1 .. Len(Held(t)) : Held(t)[i].msg = Event(t)

\* What is left of a child that was collected is at most a part of a message.
ReadToTheEnd ==
    \A t \in Task :
        /\ child[t] = "reaped"
        /\ \/ worker \in {"serving", "exiting"}
           \/ worker = "gone" /\ deaths = 0
           \/ worker = "flushing" /\ t \notin to_kill
        => Len(Held(t)) <= 1

\* A message of a task, given what its process did and how it ended
Proper(m, did, ended) ==
    /\ m.kind = "event" => m = Event(m.task)
    /\ m.kind = "exitcode" => did[m.task] = "reaped" /\ m.status = ended[m.task]

StreamInv ==
    /\ Aligned(Stream)
    /\ Intact => Even(Stream)
    /\ Len(queue) <= 1
    /\ Len(worker_pipe) <= PipeSize
    /\ worker = "gone" => worker_queue = <<>> /\ worker_queue_int = <<>>
    /\ \A i \in 1 .. Len(Stream) : Proper(Stream[i].msg, child, status)

\* Every event is in one place, unless the worker died.
Known(t) == (fired[t] + CountIn(Stream, End(Event(t)))) + CountIn(Held(t), End(Event(t)))
Counted ==
    \A t \in Task : Known(t) <= emitted[t] /\ (Intact => Known(t) = emitted[t])

\* Where an exit code is in the stream, no event of its task follows.
ExitLast ==
    \A p \in 1 .. Len(Stream) :
        (Stream[p].part = 2 /\ Stream[p].msg.kind = "exitcode") =>
            LET t == Stream[p].msg.task IN
            fired[t] + Before(Stream, p, End(Event(t))) = emitted[t]

Reported ==
    \A t \in Task :
        /\ reported[t] # None => /\ child[t] = "reaped" /\ reported[t] = status[t]
                                 /\ fired[t] = emitted[t]
        /\ t \notin todo \cup live => reported[t] # None

Course ==
    /\ state = "RUNNING" => teardown = "no"
    /\ teardown = "no" => /\ worker # "exiting" /\ (worker = "gone" => deaths > 0)
                          /\ \A i \in 1 .. Len(stdin) : stdin[i] # <<"quit">>
    /\ teardown = "done" => worker = "gone" /\ worker_pipe = <<>>
    /\ state = "COMPLETE" /\ ~ stopped /\ deaths = 0 => \A t \in Task : reported[t] = TRUE

IInv == /\ Types /\ StartedOnce /\ (\A t \in Task : ChildAt(t)) /\ ReadToTheEnd
        /\ StreamInv /\ Counted /\ ExitLast /\ Reported /\ Course
-----------------------------------------------------------------------------
(* Counting in sequences. *)

\* A count is a number, of a finite set of positions.
LEMMA BeforeType ==
    ASSUME NEW S, NEW s \in Seq(S), NEW p \in Int, NEW v
    PROVE  /\ IsFiniteSet({i \in 1 .. Len(s) : i <= p /\ s[i] = v})
           /\ Before(s, p, v) \in Nat
<1> DEFINE P == {i \in 1 .. Len(s) : i <= p /\ s[i] = v}
<1>1. IsFiniteSet(1 .. Len(s))
  BY FS_Interval, Len(s) \in Nat, 1 \in Int, Len(s) \in Int
<1>2. P \in SUBSET (1 .. Len(s))
  OBVIOUS
<1>3. IsFiniteSet(P)
  BY <1>1, <1>2, FS_Subset
<1> QED
  BY <1>3, FS_CardinalityType DEF Before

\* What is counted up to a position of two sequences is counted in the one and in
\* what of the other lies before it.
LEMMA BeforeConcat ==
    ASSUME NEW S, NEW s \in Seq(S), NEW r \in Seq(S), NEW p \in Int, NEW v
    PROVE  Before(s \o r, p, v) = Before(s, p, v) + Before(r, p - Len(s), v)
<1> DEFINE n == Len(s)
           A == {i \in 1 .. n : i <= p /\ s[i] = v}
           B == {i \in 1 .. Len(r) : i <= p - n /\ r[i] = v}
           C == {i \in 1 .. Len(s \o r) : i <= p /\ (s \o r)[i] = v}
           D == {i \in C : i > n}
           f == [i \in B |-> i + n]
<1>0. n \in Nat /\ Len(r) \in Nat /\ p - n \in Int /\ s \o r \in Seq(S)
      /\ Len(s \o r) = n + Len(r)
  BY ConcatProperties
<1>1. IsFiniteSet(A) /\ IsFiniteSet(B) /\ IsFiniteSet(C)
  <2>1. IsFiniteSet(A)
    BY BeforeType
  <2>2. IsFiniteSet(B)
    BY <1>0, BeforeType
  <2>3. IsFiniteSet(C)
    BY <1>0, BeforeType
  <2> QED
    BY <2>1, <2>2, <2>3
<1>2. \A i \in 1 .. n : (s \o r)[i] = s[i]
  BY <1>0
<1>3. \A i \in 1 .. Len(r) : (s \o r)[i + n] = r[i]
  BY <1>0
<1>4. \A i \in Nat : 1 <= i /\ i <= n => (i \in A <=> i \in C)
  BY <1>0, <1>2
<1>5. \A i : i \in A => i \in Nat /\ 1 <= i /\ i <= n
  BY <1>0
<1>6. \A i : i \in C => i \in Nat /\ 1 <= i /\ i <= n + Len(r)
  BY <1>0
<1>7. C = A \cup D
  <2>1. \A i : i \in C => i \in A \/ i \in D
    BY <1>4, <1>6, <1>0
  <2>2. \A i : i \in A \/ i \in D => i \in C
    BY <1>4, <1>5
  <2> QED
    BY <2>1, <2>2
<1>8. A \cap D = {}
  BY <1>5, <1>0
<1>9. D \in SUBSET C
  OBVIOUS
<1>10. IsFiniteSet(D)
  BY <1>9, <1>1, FS_Subset
<1>11. f \in Bijection(B, D)
  <2>1. \A i \in B : i \in Nat /\ 1 <= i /\ i <= Len(r) /\ i <= p - n /\ r[i] = v
    BY <1>0
  <2>2. \A i \in B : i + n \in D
    BY <2>1, <1>3, <1>0
  <2>3. \A k \in D : k - n \in B /\ (k - n) + n = k
    <3> SUFFICES ASSUME NEW k \in D PROVE k - n \in B /\ (k - n) + n = k
      OBVIOUS
    <3>1. k \in Nat /\ k > n /\ k <= n + Len(r) /\ k <= p /\ (s \o r)[k] = v
      BY <1>6, <1>0
    <3>2. k - n \in 1 .. Len(r) /\ (k - n) + n = k
      BY <3>1, <1>0
    <3>3. r[k - n] = v
      BY <3>1, <3>2, <1>3
    <3> QED
      BY <3>1, <3>2, <3>3, <1>0
  <2>4. \A i, j \in B : i + n = j + n => i = j
    BY <2>1, <1>0
  <2> HIDE DEF B, D
  <2>5. f \in [B -> D] /\ \A i \in B : f[i] = i + n
    BY <2>2
  <2>6. \A k \in D : \E i \in B : f[i] = k
    BY <2>3, <2>5
  <2>7. \A i, j \in B : f[i] = f[j] => i = j
    BY <2>4, <2>5
  <2> HIDE DEF f
  <2> QED
    BY <2>5, <2>6, <2>7 DEF Bijection, Injection, Surjection, IsInjective
<1>12. Cardinality(D) = Cardinality(B)
  <2>1. ExistsBijection(B, D)
    BY <1>11 DEF ExistsBijection
  <2> HIDE DEF B, D
  <2> QED
    BY <2>1, <1>1, FS_Bijection
<1>13. Cardinality(C) = Cardinality(A) + Cardinality(D)
  <2> HIDE DEF A, C, D
  <2>1. Cardinality(A \cup D) = Cardinality(A) + Cardinality(D) - Cardinality(A \cap D)
    BY <1>1, <1>10, FS_Union
  <2>2. Cardinality(A) \in Nat /\ Cardinality(D) \in Nat
    BY <1>1, <1>10, FS_CardinalityType
  <2>3. Cardinality(A \cap D) = 0
    BY <1>8, FS_EmptySet
  <2> QED
    BY <2>1, <2>2, <2>3, <1>7
<1> QED
  BY <1>12, <1>13 DEF Before

\* What a count does not depend on
LEMMA BeforeSame ==
    ASSUME NEW S, NEW s \in Seq(S), NEW p \in Int, NEW q \in Int, NEW v,
           \A i \in 1 .. Len(s) : s[i] = v => (i <= p <=> i <= q)
    PROVE  Before(s, p, v) = Before(s, q, v)
<1>1. {i \in 1 .. Len(s) : i <= p /\ s[i] = v} = {i \in 1 .. Len(s) : i <= q /\ s[i] = v}
  OBVIOUS
<1> QED
  BY <1>1 DEF Before

\* Up to the end, all are counted.
LEMMA BeforeAll ==
    ASSUME NEW S, NEW s \in Seq(S), NEW p \in Int, NEW v, p >= Len(s)
    PROVE  Before(s, p, v) = CountIn(s, v)
<1>1. Len(s) \in Int /\ \A i \in 1 .. Len(s) : s[i] = v => (i <= p <=> i <= Len(s))
  OBVIOUS
<1> QED
  BY <1>1, BeforeSame DEF CountIn

\* Nothing is counted where nothing is.
LEMMA BeforeNone ==
    ASSUME NEW S, NEW s \in Seq(S), NEW p \in Int, NEW v,
           \A i \in 1 .. Len(s) : ~ (i <= p /\ s[i] = v)
    PROVE  Before(s, p, v) = 0
<1>1. {i \in 1 .. Len(s) : i <= p /\ s[i] = v} = {}
  OBVIOUS
<1> QED
  BY <1>1, FS_EmptySet DEF Before

LEMMA BeforeLeast ==
    ASSUME NEW S, NEW s \in Seq(S), NEW p \in Int, NEW v
    PROVE  /\ Before(s, p, v) <= CountIn(s, v)
           /\ CountIn(s, v) \in Nat
<1> DEFINE A == {i \in 1 .. Len(s) : i <= p /\ s[i] = v}
           B == {i \in 1 .. Len(s) : i <= Len(s) /\ s[i] = v}
<1>1. IsFiniteSet(B) /\ CountIn(s, v) \in Nat
  BY BeforeType, Len(s) \in Int DEF CountIn
<1>2. A \in SUBSET B
  OBVIOUS
<1> QED
  BY <1>1, <1>2, FS_Subset DEF Before, CountIn

LEMMA CountConcat ==
    ASSUME NEW S, NEW s \in Seq(S), NEW r \in Seq(S), NEW v
    PROVE  CountIn(s \o r, v) = CountIn(s, v) + CountIn(r, v)
<1>1. s \o r \in Seq(S) /\ Len(s \o r) = Len(s) + Len(r) /\ Len(s) \in Nat /\ Len(r) \in Nat
  BY ConcatProperties
<1>2. CountIn(s \o r, v) = Before(s, Len(s) + Len(r), v) + Before(r, Len(r), v)
  <2>1. Len(s) + Len(r) \in Int /\ (Len(s) + Len(r)) - Len(s) = Len(r)
    BY <1>1
  <2>2. Before(s \o r, Len(s) + Len(r), v)
            = Before(s, Len(s) + Len(r), v) + Before(r, (Len(s) + Len(r)) - Len(s), v)
    BY <2>1, BeforeConcat
  <2> QED
    BY <1>1, <2>1, <2>2 DEF CountIn
<1>3. Before(s, Len(s) + Len(r), v) = CountIn(s, v)
  BY <1>1, BeforeAll
<1> QED
  BY <1>2, <1>3 DEF CountIn

LEMMA CountOne ==
    ASSUME NEW S, NEW x \in S, NEW v
    PROVE  CountIn(<<x>>, v) = IF x = v THEN 1 ELSE 0
<1>1. Len(<<x>>) = 1 /\ <<x>>[1] = x /\ <<x>> \in Seq(S)
  OBVIOUS
<1>2. CASE x = v
  <2>1. {i \in 1 .. Len(<<x>>) : i <= Len(<<x>>) /\ <<x>>[i] = v} = {1}
    BY <1>1, <1>2
  <2> QED
    BY <2>1, <1>2, FS_Singleton DEF CountIn, Before
<1>3. CASE x # v
  <2>1. {i \in 1 .. Len(<<x>>) : i <= Len(<<x>>) /\ <<x>>[i] = v} = {}
    BY <1>1, <1>3
  <2> QED
    BY <2>1, <1>3, FS_EmptySet DEF CountIn, Before
<1> QED
  BY <1>2, <1>3

LEMMA CountEmpty == \A v : CountIn(<<>>, v) = 0
<1> SUFFICES ASSUME NEW v PROVE CountIn(<<>>, v) = 0
  OBVIOUS
<1>1. {i \in 1 .. Len(<<>>) : i <= Len(<<>>) /\ <<>>[i] = v} = {}
  OBVIOUS
<1> QED
  BY <1>1, FS_EmptySet DEF CountIn, Before

LEMMA ConcatSecond ==
    ASSUME NEW S, NEW s \in Seq(S), NEW r \in Seq(S)
    PROVE  /\ \A i \in Nat : 1 <= i /\ i <= Len(s) => (s \o r)[i] = s[i]
           /\ \A i \in Nat : 1 <= i /\ i <= Len(r) => (s \o r)[i + Len(s)] = r[i]
OBVIOUS

-----------------------------------------------------------------------------
(* Buffers of pieces. *)

LEMMA PieceTypes ==
    /\ \A t \in Task : Event(t) \in Message /\ Event(t).kind = "event" /\ Event(t).task = t
    /\ \A m \in Message : /\ Begin(m) \in Piece /\ End(m) \in Piece
                          /\ Begin(m) # End(m)
                          /\ Begin(m).msg = m /\ End(m).msg = m
                          /\ Begin(m).part = 1 /\ End(m).part = 2
    /\ \A x \in Piece : x.msg \in Message /\ x.part \in {1, 2}
    /\ \A m : Pieces(m) = <<Begin(m), End(m)>>
BY DEF Event, Message, Begin, End, Piece, Pieces

\* A position is the first or the second of a pair.
LEMMA Halves ==
    \A i \in Nat : i >= 1 => \E j \in Nat : j >= 1 /\ (i = 2 * j \/ i = 2 * j - 1)
<1> SUFFICES ASSUME NEW i \in Nat, i >= 1
             PROVE  \E j \in Nat : j >= 1 /\ (i = 2 * j \/ i = 2 * j - 1)
  OBVIOUS
<1>1. (i + 1) \div 2 \in Nat /\ (i + 1) \div 2 >= 1
      /\ (i = 2 * ((i + 1) \div 2) \/ i = 2 * ((i + 1) \div 2) - 1)
  OBVIOUS
<1> QED
  BY <1>1

LEMMA FlatAt ==
    ASSUME NEW ms \in Seq(Message)
    PROVE  /\ Flat(ms) \in Seq(Piece)
           /\ Len(Flat(ms)) = 2 * Len(ms)
           /\ \A j \in Nat : 1 <= j /\ j <= Len(ms) =>
                 Flat(ms)[2 * j - 1] = Begin(ms[j]) /\ Flat(ms)[2 * j] = End(ms[j])
<1> DEFINE n == Len(ms)
<1>0. n \in Nat /\ 2 * n \in Nat
  OBVIOUS
<1>1. \A i \in 1 .. 2 * n : (i + 1) \div 2 \in 1 .. n
  BY <1>0
<1>2. \A i \in 1 .. 2 * n : ms[(i + 1) \div 2] \in Message
  BY <1>1
<1>3. \A i \in 1 .. 2 * n : [msg |-> ms[(i + 1) \div 2], part |-> IF i % 2 = 1 THEN 1 ELSE 2]
                            \in Piece
  BY <1>2 DEF Piece
<1>4. Flat(ms) \in [1 .. 2 * n -> Piece]
  BY <1>3 DEF Flat
<1>5. Flat(ms) \in Seq(Piece) /\ Len(Flat(ms)) = 2 * n
  BY <1>4, <1>0
<1>6. ASSUME NEW j \in Nat, 1 <= j, j <= n
      PROVE  Flat(ms)[2 * j - 1] = Begin(ms[j]) /\ Flat(ms)[2 * j] = End(ms[j])
  <2>1. 2 * j - 1 \in 1 .. 2 * n /\ 2 * j \in 1 .. 2 * n
    BY <1>0, <1>6
  <2>2. ((2 * j - 1) + 1) \div 2 = j /\ (2 * j - 1) % 2 = 1
    OBVIOUS
  <2>3. (2 * j + 1) \div 2 = j /\ (2 * j) % 2 # 1
    OBVIOUS
  <2>4. Flat(ms)[2 * j - 1] = [msg |-> ms[j], part |-> 1]
    BY <2>1, <2>2 DEF Flat
  <2>5. Flat(ms)[2 * j] = [msg |-> ms[j], part |-> 2]
    BY <2>1, <2>3 DEF Flat
  <2> QED
    BY <2>4, <2>5 DEF Begin, End
<1> QED
  BY <1>5, <1>6

LEMMA FlatAligned ==
    ASSUME NEW ms \in Seq(Message)
    PROVE  Aligned(Flat(ms)) /\ Even(Flat(ms))
<1> DEFINE s == Flat(ms)
<1>0. Len(ms) \in Nat /\ Len(s) = 2 * Len(ms)
  BY FlatAt
<1>1. ASSUME NEW j \in Nat, 1 <= j, 2 * j <= Len(s)
      PROVE  s[2 * j - 1] = Begin(s[2 * j].msg) /\ s[2 * j] = End(s[2 * j].msg)
  <2>1. j <= Len(ms)
    BY <1>0, <1>1
  <2>2. s[2 * j - 1] = Begin(ms[j]) /\ s[2 * j] = End(ms[j])
    BY <2>1, <1>1, FlatAt
  <2> QED
    BY <2>2 DEF End
<1>2. \A j \in Nat : ~ (2 * j + 1 <= Len(s)) \/ 2 * (j + 1) <= Len(s)
  BY <1>0
<1>3. ASSUME NEW j \in Nat, 2 * j + 1 <= Len(s)
      PROVE  s[2 * j + 1] = Begin(s[2 * j + 1].msg)
  <2>1. j + 1 \in Nat /\ 1 <= j + 1 /\ 2 * (j + 1) <= Len(s) /\ 2 * (j + 1) - 1 = 2 * j + 1
    BY <1>2, <1>3
  <2>2. s[2 * (j + 1) - 1] = Begin(s[2 * (j + 1)].msg)
    BY <1>1, <2>1
  <2> QED
    BY <2>1, <2>2 DEF Begin
<1> QED
  BY <1>0, <1>1, <1>3 DEF Aligned, Even

\* The second pieces tell what an aligned buffer of whole messages holds.
LEMMA SameAligned ==
    ASSUME NEW s \in Seq(Piece), NEW r \in Seq(Piece), Aligned(s), Aligned(r), Even(s),
           Len(s) = Len(r),
           \A j \in Nat : 1 <= j /\ 2 * j <= Len(s) => s[2 * j].msg = r[2 * j].msg
    PROVE  s = r
<1>1. ASSUME NEW i \in 1 .. Len(s) PROVE s[i] = r[i]
  <2>0. Len(s) \in Nat /\ i \in Nat /\ i >= 1 /\ i <= Len(s)
    OBVIOUS
  <2>1. PICK j \in Nat : j >= 1 /\ (i = 2 * j \/ i = 2 * j - 1)
    BY <2>0, Halves
  <2>2. PICK h \in Nat : Len(s) = 2 * h
    BY DEF Even
  <2>3. 2 * j <= Len(s)
    BY <2>0, <2>1, <2>2
  <2>4. s[2 * j - 1] = Begin(s[2 * j].msg) /\ s[2 * j] = End(s[2 * j].msg)
    BY <2>1, <2>3 DEF Aligned
  <2>5. r[2 * j - 1] = Begin(r[2 * j].msg) /\ r[2 * j] = End(r[2 * j].msg)
    BY <2>1, <2>3 DEF Aligned
  <2> QED
    BY <2>1, <2>3, <2>4, <2>5
<1> QED
  BY <1>1, SeqEqual

\* The front of an aligned buffer is aligned, wherever it is cut.
LEMMA AlignedFront ==
    ASSUME NEW s \in Seq(Piece), NEW r \in Seq(Piece), Aligned(s \o r)
    PROVE  Aligned(s)
<1>0. /\ s \o r \in Seq(Piece) /\ Len(s \o r) = Len(s) + Len(r)
      /\ Len(s) \in Nat /\ Len(r) \in Nat
  BY ConcatProperties
<1>2. \A i \in Nat : 1 <= i /\ i <= Len(s) => (s \o r)[i] = s[i]
  BY <1>0
<1>3. ASSUME NEW j \in Nat, 1 <= j, 2 * j <= Len(s)
      PROVE  s[2 * j - 1] = Begin(s[2 * j].msg) /\ s[2 * j] = End(s[2 * j].msg)
  <2>1. 2 * j <= Len(s \o r) /\ 2 * j - 1 \in Nat /\ 1 <= 2 * j - 1 /\ 2 * j - 1 <= Len(s)
        /\ 2 * j \in Nat /\ 1 <= 2 * j
    BY <1>0, <1>3
  <2>2. /\ (s \o r)[2 * j - 1] = Begin((s \o r)[2 * j].msg)
        /\ (s \o r)[2 * j] = End((s \o r)[2 * j].msg)
    BY <1>3, <2>1 DEF Aligned
  <2> QED
    BY <2>1, <2>2, <1>2, <1>3
<1>4. ASSUME NEW j \in Nat, 2 * j + 1 <= Len(s) PROVE s[2 * j + 1] = Begin(s[2 * j + 1].msg)
  <2>1. 2 * j + 1 <= Len(s \o r) /\ 2 * j + 1 \in Nat /\ 1 <= 2 * j + 1
    BY <1>0, <1>4
  <2>2. (s \o r)[2 * j + 1] = Begin((s \o r)[2 * j + 1].msg)
    BY <2>1 DEF Aligned
  <2> QED
    BY <2>1, <2>2, <1>2, <1>4
<1> QED
  BY <1>3, <1>4 DEF Aligned

\* What follows whole messages starts a message.
LEMMA AlignedConcat ==
    ASSUME NEW s \in Seq(Piece), NEW r \in Seq(Piece), Even(s)
    PROVE  Aligned(s \o r) <=> Aligned(s) /\ Aligned(r)
<1>0. /\ s \o r \in Seq(Piece) /\ Len(s \o r) = Len(s) + Len(r)
      /\ Len(s) \in Nat /\ Len(r) \in Nat
  BY ConcatProperties
<1>1. PICK h \in Nat : Len(s) = 2 * h
  BY DEF Even
<1>2. \A i \in Nat : 1 <= i /\ i <= Len(s) => (s \o r)[i] = s[i]
  BY <1>0
<1>3. \A i \in Nat : 1 <= i /\ i <= Len(r) => (s \o r)[i + Len(s)] = r[i]
  BY <1>0
<1>4. ASSUME Aligned(s), Aligned(r) PROVE Aligned(s \o r)
  <2>1. ASSUME NEW j \in Nat, 1 <= j, 2 * j <= Len(s \o r)
        PROVE  /\ (s \o r)[2 * j - 1] = Begin((s \o r)[2 * j].msg)
               /\ (s \o r)[2 * j] = End((s \o r)[2 * j].msg)
    <3>1. CASE j <= h
      <4>1. /\ s[2 * j - 1] = Begin(s[2 * j].msg) /\ s[2 * j] = End(s[2 * j].msg)
            /\ 2 * j - 1 \in Nat /\ 2 * j \in Nat
            /\ 1 <= 2 * j - 1 /\ 2 * j <= Len(s)
        BY <1>1, <1>4, <2>1, <3>1 DEF Aligned
      <4> QED
        BY <4>1, <1>2, <1>0
    <3>2. CASE j > h
      <4>1. /\ j - h \in Nat /\ 1 <= j - h /\ 2 * (j - h) <= Len(r)
            /\ (2 * (j - h) - 1) + Len(s) = 2 * j - 1 /\ 2 * (j - h) + Len(s) = 2 * j
            /\ 2 * (j - h) - 1 \in Nat /\ 1 <= 2 * (j - h) - 1 /\ 2 * (j - h) - 1 <= Len(r)
            /\ 2 * (j - h) \in Nat /\ 1 <= 2 * (j - h)
        BY <1>0, <1>1, <2>1, <3>2
      <4>2. /\ r[2 * (j - h) - 1] = Begin(r[2 * (j - h)].msg)
            /\ r[2 * (j - h)] = End(r[2 * (j - h)].msg)
        BY <4>1, <1>4 DEF Aligned
      <4>3. (s \o r)[2 * j - 1] = r[2 * (j - h) - 1] /\ (s \o r)[2 * j] = r[2 * (j - h)]
        BY <4>1, <1>3
      <4> QED
        BY <4>2, <4>3
    <3> QED
      BY <3>1, <3>2, <2>1
  <2>2. ASSUME NEW j \in Nat, 2 * j + 1 <= Len(s \o r)
        PROVE  (s \o r)[2 * j + 1] = Begin((s \o r)[2 * j + 1].msg)
    <3>1. CASE j < h
      <4>1. 2 * (j + 1) <= Len(s) /\ 2 * (j + 1) - 1 = 2 * j + 1 /\ j + 1 \in Nat /\ 1 <= j + 1
            /\ 2 * j + 1 \in Nat /\ 1 <= 2 * j + 1 /\ 2 * j + 1 <= Len(s)
        BY <1>1, <3>1
      <4>2. s[2 * (j + 1) - 1] = Begin(s[2 * (j + 1)].msg)
        BY <4>1, <1>4 DEF Aligned
      <4>3. s[2 * j + 1] = Begin(s[2 * j + 1].msg)
        BY <4>1, <4>2 DEF Begin
      <4> QED
        BY <4>3, <4>1, <1>2
    <3>2. CASE j >= h
      <4>1. j - h \in Nat /\ 2 * (j - h) + 1 <= Len(r) /\ (2 * (j - h) + 1) + Len(s) = 2 * j + 1
            /\ 2 * (j - h) + 1 \in Nat /\ 1 <= 2 * (j - h) + 1
        BY <1>0, <1>1, <2>2, <3>2
      <4>2. r[2 * (j - h) + 1] = Begin(r[2 * (j - h) + 1].msg)
        BY <4>1, <1>4 DEF Aligned
      <4> QED
        BY <4>1, <4>2, <1>3
    <3> QED
      BY <3>1, <3>2, <1>1, <2>2
  <2> QED
    BY <2>1, <2>2 DEF Aligned
<1>5. Aligned(s \o r) => Aligned(s)
  BY AlignedFront
<1>6. ASSUME Aligned(s \o r) PROVE Aligned(r)
  <2>1. ASSUME NEW j \in Nat, 1 <= j, 2 * j <= Len(r)
        PROVE  r[2 * j - 1] = Begin(r[2 * j].msg) /\ r[2 * j] = End(r[2 * j].msg)
    <3>1. 2 * (j + h) <= Len(s \o r) /\ j + h \in Nat /\ 1 <= j + h
          /\ 2 * (j + h) - 1 = (2 * j - 1) + Len(s) /\ 2 * (j + h) = 2 * j + Len(s)
          /\ 2 * j - 1 \in Nat /\ 1 <= 2 * j - 1 /\ 2 * j - 1 <= Len(r)
          /\ 2 * j \in Nat /\ 1 <= 2 * j
      BY <1>0, <1>1, <2>1
    <3>2. /\ (s \o r)[2 * (j + h) - 1] = Begin((s \o r)[2 * (j + h)].msg)
          /\ (s \o r)[2 * (j + h)] = End((s \o r)[2 * (j + h)].msg)
      BY <1>6, <3>1 DEF Aligned
    <3>3. (s \o r)[2 * (j + h) - 1] = r[2 * j - 1] /\ (s \o r)[2 * (j + h)] = r[2 * j]
      BY <3>1, <1>3, <2>1
    <3> QED
      BY <3>2, <3>3
  <2>2. ASSUME NEW j \in Nat, 2 * j + 1 <= Len(r) PROVE r[2 * j + 1] = Begin(r[2 * j + 1].msg)
    <3>1. 2 * (j + h) + 1 <= Len(s \o r) /\ j + h \in Nat
          /\ 2 * (j + h) + 1 = (2 * j + 1) + Len(s) /\ 2 * j + 1 \in Nat /\ 1 <= 2 * j + 1
      BY <1>0, <1>1, <2>2
    <3>2. (s \o r)[2 * (j + h) + 1] = Begin((s \o r)[2 * (j + h) + 1].msg)
      BY <1>6, <3>1 DEF Aligned
    <3>3. (s \o r)[2 * (j + h) + 1] = r[2 * j + 1]
      BY <3>1, <1>3, <2>2
    <3> QED
      BY <3>2, <3>3
  <2> QED
    BY <2>1, <2>2 DEF Aligned
<1> QED
  BY <1>4, <1>5, <1>6

\* Flat follows concatenation.
LEMMA FlatConcat ==
    ASSUME NEW a \in Seq(Message), NEW b \in Seq(Message)
    PROVE  Flat(a \o b) = Flat(a) \o Flat(b)
<1> DEFINE s == Flat(a \o b)
           r == Flat(a) \o Flat(b)
<1>0. /\ a \o b \in Seq(Message) /\ Len(a \o b) = Len(a) + Len(b)
      /\ Len(a) \in Nat /\ Len(b) \in Nat
  BY ConcatProperties
<1>1. /\ Flat(a) \in Seq(Piece) /\ Flat(b) \in Seq(Piece)
      /\ Len(Flat(a)) = 2 * Len(a) /\ Len(Flat(b)) = 2 * Len(b)
      /\ s \in Seq(Piece) /\ Len(s) = 2 * (Len(a) + Len(b))
  BY <1>0, FlatAt
<1>2. r \in Seq(Piece) /\ Len(r) = 2 * Len(a) + 2 * Len(b)
  <2>1. r \in Seq(Piece) /\ Len(r) = Len(Flat(a)) + Len(Flat(b))
    <3> HIDE DEF s
    <3> QED
      BY <1>1, ConcatProperties
  <2> QED
    BY <2>1, <1>1
<1>3. Aligned(s) /\ Even(s)
  BY <1>0, FlatAligned
<1>4. Aligned(r)
  BY <1>1, FlatAligned, AlignedConcat
<1>5. ASSUME NEW j \in Nat, 1 <= j, 2 * j <= Len(s)
      PROVE  s[2 * j].msg = r[2 * j].msg
  <2>0. \A i \in Nat : 1 <= i /\ i <= Len(a \o b) =>
           s[2 * i - 1] = Begin((a \o b)[i]) /\ s[2 * i] = End((a \o b)[i])
    BY <1>0, FlatAt
  <2>1. j <= Len(a \o b) /\ s[2 * j] = End((a \o b)[j])
    <3>1. j <= Len(a \o b)
      BY <1>0, <1>1, <1>5
    <3> HIDE DEF s
    <3> QED
      BY <3>1, <1>5, <2>0
  <2>2. CASE j <= Len(a)
    <3>1. (a \o b)[j] = a[j] /\ Flat(a)[2 * j] = End(a[j])
      BY <1>0, <1>5, <2>2, FlatAt
    <3>2. 2 * j \in Nat /\ 1 <= 2 * j /\ 2 * j <= Len(Flat(a))
      BY <1>1, <1>5, <2>2
    <3>3. r[2 * j] = Flat(a)[2 * j]
      BY <1>1, <3>2
    <3> QED
      BY <2>1, <3>1, <3>3
  <2>3. CASE j > Len(a)
    <3> DEFINE k == j - Len(a)
    <3>1. k \in Nat /\ 1 <= k /\ k <= Len(b) /\ j = k + Len(a)
      BY <1>0, <1>5, <2>1, <2>3
    <3>2. (a \o b)[j] = b[k] /\ Flat(b)[2 * k] = End(b[k])
      BY <1>0, <3>1, FlatAt
    <3>3. /\ 2 * k \in Nat /\ 1 <= 2 * k /\ 2 * k <= Len(Flat(b))
          /\ 2 * j = 2 * k + Len(Flat(a))
      BY <1>0, <1>1, <3>1
    <3>4. \A i \in Nat : 1 <= i /\ i <= Len(Flat(b)) => r[i + Len(Flat(a))] = Flat(b)[i]
      BY <1>1, ConcatSecond
    <3>5. r[2 * k + Len(Flat(a))] = Flat(b)[2 * k]
      <4> HIDE DEF k, r
      <4> QED
        BY <3>3, <3>4
    <3> QED
      <4> HIDE DEF k, r, s
      <4>1. r[2 * j] = End(b[k]) /\ s[2 * j] = End(b[k])
        BY <2>1, <3>2, <3>3, <3>5
      <4> QED
        BY <4>1
  <2> HIDE DEF r, s
  <2> QED
    BY <1>0, <1>5, <2>2, <2>3
<1> HIDE DEF s, r
<1>6. Len(s) = Len(r)
  BY <1>0, <1>1, <1>2
<1>7. s = r
  BY <1>1, <1>2, <1>3, <1>4, <1>5, <1>6, SameAligned
<1> QED
  BY <1>7 DEF s, r

LEMMA FlatOne ==
    ASSUME NEW m \in Message
    PROVE  Flat(<<m>>) = <<Begin(m), End(m)>>
<1>1. <<m>> \in Seq(Message) /\ Len(<<m>>) = 1 /\ <<m>>[1] = m
  OBVIOUS
<1>2. /\ Flat(<<m>>) \in Seq(Piece) /\ Len(Flat(<<m>>)) = 2
      /\ Flat(<<m>>)[1] = Begin(m) /\ Flat(<<m>>)[2] = End(m)
  <2>1. /\ Flat(<<m>>) \in Seq(Piece) /\ Len(Flat(<<m>>)) = 2 * 1
        /\ Flat(<<m>>)[2 * 1 - 1] = Begin(<<m>>[1]) /\ Flat(<<m>>)[2 * 1] = End(<<m>>[1])
    <3>1. \A j \in Nat : 1 <= j /\ j <= Len(<<m>>) =>
             /\ Flat(<<m>>)[2 * j - 1] = Begin(<<m>>[j])
             /\ Flat(<<m>>)[2 * j] = End(<<m>>[j])
      BY <1>1, FlatAt
    <3>2. Flat(<<m>>) \in Seq(Piece) /\ Len(Flat(<<m>>)) = 2 * Len(<<m>>)
      BY <1>1, FlatAt
    <3> HIDE DEF Flat
    <3> QED
      BY <1>1, <3>1, <3>2, 1 \in Nat
  <2> QED
    BY <2>1, <1>1
<1>3. /\ <<Begin(m), End(m)>> \in Seq(Piece) /\ Len(<<Begin(m), End(m)>>) = 2
      /\ <<Begin(m), End(m)>>[1] = Begin(m) /\ <<Begin(m), End(m)>>[2] = End(m)
  BY PieceTypes
<1>4. \A i \in 1 .. 2 : i = 1 \/ i = 2
  OBVIOUS
<1> HIDE DEF Flat
<1> QED
  BY <1>2, <1>3, <1>4, SeqEqual

\* A message is in the queue as often as its end is among the pieces.
LEMMA FlatCount ==
    ASSUME NEW ms \in Seq(Message), NEW m \in Message
    PROVE  Quantify(DOMAIN ms, LAMBDA i : ms[i] = m) = CountIn(Flat(ms), End(m))
<1> DEFINE n == Len(ms)
           A == {i \in DOMAIN ms : ms[i] = m}
           B == {i \in 1 .. Len(Flat(ms)) : i <= Len(Flat(ms)) /\ Flat(ms)[i] = End(m)}
           f == [i \in A |-> 2 * i]
<1>0. n \in Nat /\ DOMAIN ms = 1 .. n
      /\ Flat(ms) \in Seq(Piece) /\ Len(Flat(ms)) = 2 * n
  BY FlatAt, LenProperties
<1>1. \A j \in Nat : 1 <= j /\ j <= n =>
         /\ Flat(ms)[2 * j - 1] = Begin(ms[j]) /\ Flat(ms)[2 * j] = End(ms[j])
         /\ ms[j] \in Message
  <2>1. \A j \in Nat : 1 <= j /\ j <= Len(ms) =>
           Flat(ms)[2 * j - 1] = Begin(ms[j]) /\ Flat(ms)[2 * j] = End(ms[j])
    BY FlatAt
  <2>2. \A j \in Nat : 1 <= j /\ j <= n => ms[j] \in Message
    OBVIOUS
  <2> QED
    BY <2>1, <2>2
<1>2. \A i \in A : i \in Nat /\ 1 <= i /\ i <= n /\ ms[i] = m
  BY <1>0
<1>3. \A i \in A : 2 * i \in B
  <2> SUFFICES ASSUME NEW i \in A PROVE 2 * i \in B
    OBVIOUS
  <2>1. Flat(ms)[2 * i] = End(m)
    BY <1>1, <1>2
  <2>2. 2 * i \in 1 .. 2 * n
    BY <1>2, <1>0
  <2> QED
    BY <2>1, <2>2, <1>0
<1>4. \A k \in B : \E i \in A : 2 * i = k
  <2> SUFFICES ASSUME NEW k \in B PROVE \E i \in A : 2 * i = k
    OBVIOUS
  <2>1. k \in Nat /\ k >= 1 /\ k <= 2 * n /\ Flat(ms)[k] = End(m)
    BY <1>0
  <2>2. PICK j \in Nat : j >= 1 /\ (k = 2 * j \/ k = 2 * j - 1)
    BY <2>1, Halves
  <2>3. j <= n
    BY <2>1, <2>2, <1>0
  <2>4. /\ Flat(ms)[2 * j - 1] = Begin(ms[j]) /\ Flat(ms)[2 * j] = End(ms[j])
        /\ ms[j] \in Message
    BY <2>2, <2>3, <1>1
  <2>5. k # 2 * j - 1
    BY <2>1, <2>4, PieceTypes
  <2>6. k = 2 * j /\ ms[j] = m
    BY <2>1, <2>2, <2>4, <2>5, PieceTypes
  <2>7. j \in A
    BY <2>2, <2>3, <2>6, <1>0
  <2> QED
    BY <2>6, <2>7
<1>5. IsFiniteSet(A)
  <2>1. IsFiniteSet(1 .. n) /\ A \in SUBSET (1 .. n)
    BY <1>0, FS_Interval, 1 \in Int, n \in Int
  <2> QED
    BY <2>1, FS_Subset
<1>6. ExistsBijection(A, B)
  <2>1. \A i, j \in A : 2 * i = 2 * j => i = j
    BY <1>2
  <2> HIDE DEF A, B
  <2>2. f \in [A -> B] /\ \A i \in A : f[i] = 2 * i
    BY <1>3
  <2> HIDE DEF f
  <2>3. \A k \in B : \E i \in A : f[i] = k
    BY <1>4, <2>2
  <2>4. \A i, j \in A : f[i] = f[j] => i = j
    BY <2>1, <2>2
  <2>5. f \in Bijection(A, B)
    BY <2>2, <2>3, <2>4 DEF Bijection, Injection, Surjection, IsInjective
  <2> QED
    BY <2>5 DEF ExistsBijection
<1>7. Cardinality(B) = Cardinality(A)
  <2> HIDE DEF A, B
  <2> QED
    BY <1>5, <1>6, FS_Bijection
<1> QED
  BY <1>7 DEF Quantify, CountIn, Before

-----------------------------------------------------------------------------
(* What a reader takes out of a buffer. *)

\* All pairs of an aligned buffer are whole messages.
LEMMA WholeIs ==
    ASSUME NEW q \in Seq(Piece), Aligned(q), NEW h \in Nat,
           Len(q) = 2 * h \/ Len(q) = 2 * h + 1
    PROVE  Whole(q) = h
<1> DEFINE W == {n \in 0 .. Len(q) \div 2 :
                   \A i \in 1 .. n : SubSeq(q, 2 * i - 1, 2 * i) = Pieces(q[2 * i].msg)}
<1>1. Len(q) \div 2 = h
  OBVIOUS
<1>2. ASSUME NEW i \in 1 .. h PROVE SubSeq(q, 2 * i - 1, 2 * i) = Pieces(q[2 * i].msg)
  <2>1. i \in Nat /\ 1 <= i /\ 2 * i <= Len(q) /\ 2 * i - 1 \in 1 .. Len(q)
        /\ 2 * i \in 1 .. Len(q)
    OBVIOUS
  <2>2. q[2 * i - 1] = Begin(q[2 * i].msg) /\ q[2 * i] = End(q[2 * i].msg)
    BY <2>1 DEF Aligned
  <2> DEFINE a == 2 * i - 1
             r == SubSeq(q, a, a + 1)
  <2>3. a \in Nat /\ a >= 1 /\ a + 1 <= Len(q) /\ a + 1 = 2 * i
    BY <2>1
  <2>4. q[a] \in Piece /\ q[a + 1] \in Piece
    BY <2>3
  <2> HIDE DEF a
  <2>5. r \in Seq(Piece) /\ Len(r) = 2 /\ r[1] = q[a] /\ r[2] = q[a + 1]
    BY <2>3, <2>4
  <2>6. r = <<q[a], q[a + 1]>>
    <3>1. <<q[a], q[a + 1]>> \in Seq(Piece) /\ Len(<<q[a], q[a + 1]>>) = 2
      BY <2>4
    <3> HIDE DEF r
    <3>2. \A k \in 1 .. 2 : r[k] = <<q[a], q[a + 1]>>[k]
      BY <2>5
    <3> QED
      BY <2>5, <3>1, <3>2, SeqEqual
  <2>7. r = <<Begin(q[2 * i].msg), End(q[2 * i].msg)>>
    BY <2>6, <2>2, <2>3 DEF a
  <2> QED
    BY <2>7, <2>3, PieceTypes DEF a
<1>3. h \in W
  BY <1>1, <1>2
<1>4. \A n \in W : h >= n /\ n \in Int
  BY <1>1
<1> HIDE DEF W
<1>5. Max(W) = h
  <2>1. \A n \in W : (\A k \in W : n >= k) => n = h
    BY <1>3, <1>4
  <2> QED
    BY <1>3, <1>4, <2>1 DEF Max
<1> QED
  BY <1>5 DEF Whole, W

\* The buffer is its messages and the rest, which ends no message.
LEMMA ReadBuffer ==
    ASSUME NEW q \in Seq(Piece), Aligned(q)
    PROVE  /\ Messages(q) \in Seq(Message)
           /\ Rest(q) \in Seq(Piece)
           /\ q = Flat(Messages(q)) \o Rest(q)
           /\ Len(Rest(q)) <= 1
           /\ Even(q) => Rest(q) = <<>>
           /\ \A m \in Message : CountIn(Rest(q), End(m)) = 0
           /\ \A j \in Nat : 1 <= j /\ j <= Len(Messages(q)) => 
                 2 * j <= Len(q) /\ Messages(q)[j] = q[2 * j].msg
<1> DEFINE h == Len(q) \div 2
           ms == Messages(q)
<1>0. Len(q) \in Nat /\ h \in Nat /\ (Len(q) = 2 * h \/ Len(q) = 2 * h + 1)
  OBVIOUS
<1> HIDE DEF h
<1>1. Whole(q) = h
  BY <1>0, WholeIs
<1>2. \A i \in 1 .. h : 2 * i \in 1 .. Len(q)
  BY <1>0
<1>3. \A i \in 1 .. h : q[2 * i].msg \in Message
  BY <1>2, PieceTypes
<1>4. ms \in [1 .. h -> Message] /\ \A i \in 1 .. h : ms[i] = q[2 * i].msg
  BY <1>1, <1>3 DEF Messages
<1> HIDE DEF ms
<1>5. ms \in Seq(Message) /\ Len(ms) = h
  BY <1>0, <1>4
<1> DEFINE F == SubSeq(q, 1, 2 * h)
           R == SubSeq(q, 2 * h + 1, Len(q))
<1>6. \A i \in 1 .. Len(q) : q[i] \in Piece
  OBVIOUS
<1>7. 2 * h \in Nat /\ 2 * h + 1 \in Nat /\ 2 * h <= Len(q)
  BY <1>0
<1>8. F \in Seq(Piece) /\ Len(F) = 2 * h /\ \A i \in 1 .. 2 * h : F[i] = q[i]
  <2>1. \A i \in 1 .. 2 * h : q[i] \in Piece
    BY <1>6, <1>7, <1>0
  <2> QED
    BY <2>1, <1>0, <1>7
<1>9. /\ R \in Seq(Piece) /\ Len(R) = Len(q) - 2 * h
      /\ \A i \in 1 .. Len(q) - 2 * h : R[i] = q[2 * h + i]
  <2> DEFINE a == 2 * h + 1
             L == Len(q)
  <2>0. a \in Int /\ L \in Int /\ L - a + 1 = L - 2 * h /\ a <= L + 1 /\ 1 <= a
    BY <1>0, <1>7
  <2>1. \A i \in a .. L : q[i] \in Piece
    BY <1>6, <2>0
  <2> HIDE DEF a, L
  <2>2. /\ SubSeq(q, a, L) \in Seq(Piece)
        /\ Len(SubSeq(q, a, L)) = IF a <= L THEN L - a + 1 ELSE 0
        /\ \A i \in 1 .. L - a + 1 : SubSeq(q, a, L)[i] = q[a + i - 1]
    BY <2>0, <2>1, SubSeqProperties
  <2>3. Len(SubSeq(q, a, L)) = L - 2 * h
    BY <2>0, <2>2
  <2>4. \A i \in 1 .. L - 2 * h : a + i - 1 = 2 * h + i
    BY <1>0 DEF a
  <2>5. \A i \in 1 .. L - 2 * h : SubSeq(q, a, L)[i] = q[2 * h + i]
    BY <2>0, <2>2, <2>4
  <2> QED
    BY <2>2, <2>3, <2>5 DEF a, L
<1>10. q = F \o R
  <2>1. F \o R = SubSeq(q, 1, Len(q))
    <3>1. /\ 1 \in 1 .. Len(q) + 1 /\ 2 * h \in 1 - 1 .. Len(q)
          /\ Len(q) \in 2 * h .. Len(q)
      BY <1>0, <1>7
    <3> QED
      BY <3>1, ConcatAdjacentSubSeq
  <2> QED
    BY <2>1, SubSeqFull
<1>11. Rest(q) = R
  BY <1>1 DEF Rest
<1> HIDE DEF F, R
<1>12. F = Flat(ms)
  <2>1. Aligned(F)
    BY <1>8, <1>9, <1>10, AlignedFront
  <2>2. Flat(ms) \in Seq(Piece) /\ Len(Flat(ms)) = 2 * h
    BY <1>5, FlatAt
  <2>3. Aligned(Flat(ms)) /\ Even(Flat(ms))
    BY <1>5, FlatAligned
  <2>4. ASSUME NEW j \in Nat, 1 <= j, 2 * j <= Len(F)
        PROVE  Flat(ms)[2 * j].msg = F[2 * j].msg
    <3>1. j \in 1 .. h /\ 2 * j \in 1 .. 2 * h
      BY <2>4, <1>8, <1>0
    <3>2. F[2 * j] = q[2 * j]
      BY <3>1, <1>8
    <3>3. ms[j] = q[2 * j].msg
      BY <3>1, <1>4
    <3>4. \A i \in Nat : 1 <= i /\ i <= Len(ms) =>
             Flat(ms)[2 * i - 1] = Begin(ms[i]) /\ Flat(ms)[2 * i] = End(ms[i])
      BY <1>5, FlatAt
    <3>5. Flat(ms)[2 * j] = End(ms[j])
      BY <3>4, <3>1, <1>5
    <3> QED
      BY <3>2, <3>3, <3>5 DEF End
  <2> QED
    BY <2>1, <2>2, <2>3, <2>4, <1>8, SameAligned
<1>13. Len(R) <= 1 /\ Len(R) \in Nat
  BY <1>9, <1>0
<1>14. Even(q) => R = <<>>
  <2>1. Even(q) => Len(q) = 2 * h
    BY <1>0 DEF Even
  <2>2. Even(q) => Len(R) = 0
    BY <2>1, <1>9, <1>0
  <2> QED
    BY <2>2, <1>9
<1>15. ASSUME NEW m \in Message PROVE CountIn(R, End(m)) = 0
  <2>1. CASE Len(R) = 0
    <3>1. R = <<>>
      BY <2>1, <1>9
    <3> QED
      BY <3>1, CountEmpty
  <2>2. CASE Len(R) = 1
    <3>0. 2 * h + 1 <= Len(q) /\ 1 \in 1 .. Len(q) - 2 * h
      <4>1. Len(q) - 2 * h = 1
        BY <2>2, <1>9
      <4> QED
        BY <4>1, <1>0, <1>7
    <3>1. R[1] = q[2 * h + 1] /\ 2 * h + 1 <= Len(q)
      BY <3>0, <1>9
    <3>2. q[2 * h + 1] = Begin(q[2 * h + 1].msg) /\ q[2 * h + 1] \in Piece
      BY <3>1, <1>0, <1>6, <1>7 DEF Aligned
    <3>3. R[1] # End(m)
      BY <3>1, <3>2 DEF Begin, End
    <3>4. \A i \in 1 .. Len(R) : ~ (i <= Len(R) /\ R[i] = End(m))
      BY <2>2, <3>3
    <3> QED
      BY <3>4, <1>9, BeforeNone, Len(R) \in Int DEF CountIn
  <2>3. Len(R) = 0 \/ Len(R) = 1
    <3>1. \A n \in Nat : n <= 1 => n = 0 \/ n = 1
      OBVIOUS
    <3> QED
      BY <3>1, <1>13
  <2> QED
    BY <2>1, <2>2, <2>3
<1>16. \A j \in Nat : 1 <= j /\ j <= Len(ms) => 2 * j <= Len(q) /\ ms[j] = q[2 * j].msg
  BY <1>5, <1>4, <1>0
<1> QED
  BY <1>5, <1>9, <1>10, <1>11, <1>12, <1>13, <1>14, <1>15, <1>16 DEF ms

Associates(s, r, u) == (s \o r) \o u = s \o (r \o u)

LEMMA PiecesType ==
    \A m \in Message : Pieces(m) \in Seq(Piece)
<1> SUFFICES ASSUME NEW m \in Message PROVE Pieces(m) \in Seq(Piece)
  OBVIOUS
<1>1. Begin(m) \in Piece /\ End(m) \in Piece /\ Pieces(m) = <<Begin(m), End(m)>>
  BY PieceTypes
<1> QED
  BY <1>1

LEMMA PieceConcat ==
    \A s, r, u \in Seq(Piece) : Associates(s, r, u) /\ s \o r \in Seq(Piece)
<1> SUFFICES ASSUME NEW s \in Seq(Piece), NEW r \in Seq(Piece), NEW u \in Seq(Piece)
             PROVE  Associates(s, r, u) /\ s \o r \in Seq(Piece)
  OBVIOUS
<1>1. (s \o r) \o u = s \o (r \o u)
  BY ConcatAssociative
<1>2. s \o r \in Seq(Piece)
  BY ConcatProperties
<1> QED
  BY <1>1, <1>2 DEF Associates

LEMMA MessageConcat ==
    \A s, r, u \in Seq(Message) : Associates(s, r, u)
<1> SUFFICES ASSUME NEW s \in Seq(Message), NEW r \in Seq(Message), NEW u \in Seq(Message)
             PROVE  Associates(s, r, u)
  OBVIOUS
<1>1. (s \o r) \o u = s \o (r \o u)
  BY ConcatAssociative
<1> QED
  BY <1>1 DEF Associates

\* The pieces of a queue are those of its first message and those of the others.
LEMMA FlatHead ==
    ASSUME NEW q \in Seq(Message), q # <<>>
    PROVE  Flat(q) = Pieces(Head(q)) \o Flat(Tail(q))
<1> DEFINE m == Head(q)
           ms == Tail(q)
<1>1. m \in Message /\ ms \in Seq(Message) /\ Len(ms) = Len(q) - 1
      /\ (\A i \in 1 .. Len(ms) : ms[i] = q[i + 1]) /\ m = q[1]
  BY HeadTailProperties
<1>2. <<m>> \in Seq(Message) /\ Len(<<m>>) = 1 /\ <<m>>[1] = m
  BY <1>1
<1>3. Len(q) \in Nat /\ Len(ms) \in Nat
  BY <1>1
<1> HIDE DEF m, ms
<1>4. <<m>> \o ms \in Seq(Message) /\ Len(<<m>> \o ms) = Len(<<m>>) + Len(ms)
  BY <1>1, <1>2, ConcatProperties
<1>5. ASSUME NEW i \in 1 .. Len(q) PROVE q[i] = (<<m>> \o ms)[i]
  <2>0. /\ \A k \in Nat : 1 <= k /\ k <= Len(<<m>>) => (<<m>> \o ms)[k] = <<m>>[k]
        /\ \A k \in Nat : 1 <= k /\ k <= Len(ms) => (<<m>> \o ms)[k + Len(<<m>>)] = ms[k]
    BY <1>1, <1>2, ConcatSecond
  <2>1. CASE i = 1
    BY <2>0, <2>1, <1>1, <1>2
  <2>2. CASE i > 1
    <3> DEFINE k == i - 1
    <3>1. k \in 1 .. Len(ms) /\ k \in Nat /\ 1 <= k /\ k <= Len(ms) /\ k + 1 = i
      BY <2>2, <1>1, <1>3
    <3> HIDE DEF k
    <3>2. ms[k] = q[k + 1]
      BY <3>1, <1>1
    <3>3. (<<m>> \o ms)[k + 1] = ms[k]
      BY <2>0, <3>1, <1>2
    <3> QED
      BY <3>1, <3>2, <3>3
  <2>3. i = 1 \/ i > 1
    BY <1>3
  <2> QED
    BY <2>1, <2>2, <2>3
<1>6. Len(q) = Len(<<m>> \o ms)
  BY <1>1, <1>2, <1>3, <1>4
<1>7. q = <<m>> \o ms
  BY <1>4, <1>5, <1>6, SeqEqual
<1>8. Flat(q) = Flat(<<m>>) \o Flat(ms)
  BY <1>1, <1>2, <1>7, FlatConcat
<1> QED
  BY <1>1, <1>8, FlatOne, PieceTypes DEF m, ms

-----------------------------------------------------------------------------
(* The stream and what a step does to it. *)

LEMMA StreamTypes ==
    ASSUME Types
    PROVE  /\ Arrived \in Seq(Piece) /\ Stream \in Seq(Piece)
           /\ Flat(worker_queue) \in Seq(Piece)
           /\ \A t \in Task : Held(t) \in Seq(Piece)
<1>1. Flat(worker_queue) \in Seq(Piece)
  BY FlatAt DEF Types
<1>2. Arrived \in Seq(Piece)
  BY ConcatProperties DEF Types, Arrived
<1>3. Arrived \o worker_queue_int \in Seq(Piece)
  BY <1>2, ConcatProperties DEF Types
<1>4. Stream \in Seq(Piece)
  BY <1>1, <1>3, ConcatProperties DEF Stream
<1>5. ASSUME NEW t \in Task PROVE Held(t) \in Seq(Piece)
  <2>1. build_pipes[t] \in Seq(Piece) /\ child_pipe[t] \in Seq(Piece)
    BY DEF Types
  <2> QED
    BY <2>1, ConcatProperties DEF Held
<1> QED
  BY <1>1, <1>2, <1>4, <1>5

\* The writer moves what is in the stream and changes nothing of it.
LEMMA WriterKeepsStream ==
    ASSUME Types, Writer
    PROVE  Stream' = Stream
<1>0. /\ Arrived \in Seq(Piece) /\ worker_queue_int \in Seq(Piece) /\ queue \in Seq(Piece)
      /\ worker_pipe \in Seq(Piece) /\ worker_queue \in Seq(Message)
      /\ Flat(worker_queue) \in Seq(Piece)
  BY StreamTypes DEF Types
<1>1. CASE Collect
  <2> DEFINE m == Head(worker_queue)
             ms == Tail(worker_queue)
  <2>1. worker_queue # <<>> /\ queue' = queue /\ worker_pipe' = worker_pipe
        /\ worker_queue_int' = worker_queue_int \o Pieces(m) /\ worker_queue' = ms
    BY <1>1 DEF Collect, cooker_vars
  <2>2. m \in Message /\ ms \in Seq(Message)
    BY <1>0, <2>1, HeadTailProperties
  <2>3. Flat(worker_queue) = Pieces(m) \o Flat(ms)
    BY <1>0, <2>1, FlatHead
  <2> HIDE DEF m, ms
  <2>4. Pieces(m) \in Seq(Piece) /\ Flat(ms) \in Seq(Piece)
    <3>1. Flat(ms) \in Seq(Piece)
      BY <2>2, FlatAt
    <3>2. Begin(m) \in Piece /\ End(m) \in Piece /\ Pieces(m) = <<Begin(m), End(m)>>
      BY <2>2, PieceTypes
    <3> QED
      BY <3>1, <3>2
  <2>5. Arrived' = Arrived
    BY <2>1 DEF Arrived
  <2>6. (Arrived \o (worker_queue_int \o Pieces(m))) \o Flat(ms)
            = (Arrived \o worker_queue_int) \o (Pieces(m) \o Flat(ms))
    <3>1. Arrived \o worker_queue_int \in Seq(Piece)
      BY <1>0, PieceConcat
    <3>2. Associates(Arrived, worker_queue_int, Pieces(m))
      BY <1>0, <2>4, PieceConcat
    <3>3. Associates(Arrived \o worker_queue_int, Pieces(m), Flat(ms))
      BY <3>1, <2>4, PieceConcat
    <3> QED
      BY <3>2, <3>3 DEF Associates
  <2> QED
    BY <2>1, <2>3, <2>5, <2>6 DEF Stream
<1>2. CASE Write
  <2>1. PICK n \in 1 .. Len(worker_queue_int) :
           /\ worker_pipe' = worker_pipe \o SubSeq(worker_queue_int, 1, n)
           /\ worker_queue_int' = SubSeq(worker_queue_int, n + 1, Len(worker_queue_int))
    BY <1>2 DEF Write
  <2> DEFINE a == SubSeq(worker_queue_int, 1, n)
             b == SubSeq(worker_queue_int, n + 1, Len(worker_queue_int))
  <2>2. queue' = queue /\ worker_queue' = worker_queue
    BY <1>2 DEF Write, cooker_vars
  <2>3. a \in Seq(Piece) /\ b \in Seq(Piece)
    BY <1>0
  <2>4. a \o b = worker_queue_int
    <3>1. 1 \in 1 .. Len(worker_queue_int) + 1 /\ n \in 1 - 1 .. Len(worker_queue_int)
          /\ Len(worker_queue_int) \in n .. Len(worker_queue_int)
      BY <1>0
    <3> QED
      BY <1>0, <3>1, ConcatAdjacentSubSeq, SubSeqFull
  <2> HIDE DEF a, b
  <2>5. worker_pipe' = worker_pipe \o a /\ worker_queue_int' = b
    BY <2>1 DEF a, b
  <2>6. (queue \o (worker_pipe \o a)) \o b = (queue \o worker_pipe) \o (a \o b)
    <3>1. queue \o worker_pipe \in Seq(Piece)
      BY <1>0, PieceConcat
    <3>2. Associates(queue, worker_pipe, a)
      BY <1>0, <2>3, PieceConcat
    <3>3. Associates(queue \o worker_pipe, a, b)
      BY <3>1, <2>3, PieceConcat
    <3> QED
      BY <3>2, <3>3 DEF Associates
  <2> QED
    BY <2>2, <2>4, <2>5, <2>6 DEF Stream, Arrived
<1> QED
  BY <1>1, <1>2 DEF Writer

\* What has arrived comes first in the stream.
LEMMA ArrivedFirst ==
    ASSUME Types
    PROVE  /\ Stream = Arrived \o (worker_queue_int \o Flat(worker_queue))
           /\ worker_queue_int \o Flat(worker_queue) \in Seq(Piece)
<1>1. /\ Arrived \in Seq(Piece) /\ worker_queue_int \in Seq(Piece)
      /\ Flat(worker_queue) \in Seq(Piece)
  BY StreamTypes DEF Types
<1>2. Associates(Arrived, worker_queue_int, Flat(worker_queue))
      /\ worker_queue_int \o Flat(worker_queue) \in Seq(Piece)
  BY <1>1, PieceConcat
<1> QED
  BY <1>2 DEF Associates, Stream

\* The cooker takes the whole messages off the front of the stream: it fires
\* the events and takes the exit codes among them.
LEMMA TakeEffect ==
    ASSUME Types, Aligned(Stream), Take, UNCHANGED <<worker_queue, worker_queue_int>>,
           NEW ms, ms = Messages(Arrived)
    PROVE  /\ ms \in Seq(Message)
           /\ Stream' \in Seq(Piece)
           /\ Stream = Flat(ms) \o Stream'
           /\ queue' \in Seq(Piece) /\ Len(queue') <= 1 /\ worker_pipe' = <<>>
           /\ Even(Arrived) => queue' = <<>>
           /\ fired' = [t \in Task |-> fired[t] + CountIn(Flat(ms), End(Event(t)))]
           /\ reported' \in [Task -> BOOLEAN \cup {None}]
           /\ live' \in SUBSET live
           /\ \A t \in Task :
                 \/ /\ t \notin live'
                    /\ \E j \in Nat : /\ 1 <= j /\ j <= Len(ms)
                                      /\ ms[j].kind = "exitcode" /\ ms[j].task = t
                                      /\ reported'[t] = ms[j].status
                 \/ reported'[t] = reported[t] /\ (t \in live <=> t \in live')
<1> DEFINE B == worker_queue_int \o Flat(worker_queue)
           R == Rest(Arrived)
<1>1. Arrived \in Seq(Piece) /\ B \in Seq(Piece) /\ Stream = Arrived \o B
  BY StreamTypes, ArrivedFirst
<1>2. Aligned(Arrived)
  <2> HIDE DEF B
  <2> QED
    BY <1>1, AlignedFront
<1>3. /\ ms \in Seq(Message) /\ R \in Seq(Piece) /\ Arrived = Flat(ms) \o R
      /\ Len(R) <= 1 /\ (Even(Arrived) => R = <<>>)
  BY <1>1, <1>2, ReadBuffer
<1>4. Flat(ms) \in Seq(Piece)
  BY <1>3, FlatAt
<1>5. queue' = R /\ worker_pipe' = <<>>
  BY DEF Take, Arrived
<1> HIDE DEF R
<1>6. Arrived' = R
  <2>1. R \o <<>> = R
    BY <1>3, ConcatEmptySeq
  <2> QED
    BY <1>5, <2>1 DEF Arrived
<1>7. Stream' = R \o B
  <2>1. Stream' = (R \o worker_queue_int) \o Flat(worker_queue)
    BY <1>6 DEF Stream
  <2>2. Associates(R, worker_queue_int, Flat(worker_queue))
    BY <1>3, StreamTypes, PieceConcat DEF Types
  <2> QED
    BY <2>1, <2>2 DEF Associates
<1> HIDE DEF B
<1>8. Stream' \in Seq(Piece)
  BY <1>1, <1>3, <1>7, PieceConcat
<1>9. Stream = Flat(ms) \o Stream'
  <2>1. Associates(Flat(ms), R, B)
    BY <1>1, <1>3, <1>4, PieceConcat
  <2> QED
    BY <1>1, <1>3, <1>7, <2>1 DEF Associates
<1>10. fired' = [t \in Task |-> fired[t] + CountIn(Flat(ms), End(Event(t)))]
  <2>1. fired' = [t \in Task |-> fired[t]
                     + Quantify(DOMAIN ms, LAMBDA i : ms[i] = Event(t))]
    BY DEF Take, Arrived
  <2>2. \A t \in Task : Quantify(DOMAIN ms, LAMBDA i : ms[i] = Event(t))
                          = CountIn(Flat(ms), End(Event(t)))
    <3> SUFFICES ASSUME NEW t \in Task
                 PROVE  Quantify(DOMAIN ms, LAMBDA i : ms[i] = Event(t))
                          = CountIn(Flat(ms), End(Event(t)))
      OBVIOUS
    <3>1. Event(t) \in Message
      BY PieceTypes
    <3> QED
      BY <3>1, <1>3, FlatCount
  <2> QED
    BY <2>1, <2>2
<1> DEFINE exits == {m \in ToSet(ms) : m.kind = "exitcode"}
           Code(t) == {m.status : m \in {m \in exits : m.task = t}}
<1>11. ms = Messages(queue \o worker_pipe)
  BY DEF Arrived
<1>12. /\ reported' = [t \in Task |-> IF Code(t) = {} THEN reported[t]
                                      ELSE CHOOSE s \in Code(t) : TRUE]
       /\ live' = live \ {m.task : m \in exits}
  BY <1>11 DEF Take
<1>13. \A m \in exits : /\ m \in Message /\ m.kind = "exitcode"
                        /\ \E j \in Nat : 1 <= j /\ j <= Len(ms) /\ ms[j] = m
  <2> SUFFICES ASSUME NEW m \in exits
               PROVE  /\ m \in Message /\ m.kind = "exitcode"
                      /\ \E j \in Nat : 1 <= j /\ j <= Len(ms) /\ ms[j] = m
    OBVIOUS
  <2>1. m \in ToSet(ms) /\ m.kind = "exitcode"
    OBVIOUS
  <2>2. PICK j \in DOMAIN ms : m = ms[j]
    BY <2>1 DEF ToSet
  <2>3. DOMAIN ms = 1 .. Len(ms) /\ Len(ms) \in Nat
    BY <1>3, LenProperties
  <2>4. j \in 1 .. Len(ms)
    BY <2>3
  <2>5. j \in Nat /\ 1 <= j /\ j <= Len(ms)
    BY <2>3, <2>4
  <2>6. ms[j] \in Message
    BY <1>3, <2>4
  <2> QED
    BY <2>1, <2>2, <2>5, <2>6
<1> HIDE DEF exits
<1>14. \A t \in Task : \A s \in Code(t) :
          \E m \in exits : m.task = t /\ m.status = s
  OBVIOUS
<1>15. ASSUME NEW t \in Task, Code(t) # {}
       PROVE  /\ t \notin live'
              /\ \E j \in Nat : /\ 1 <= j /\ j <= Len(ms)
                                /\ ms[j].kind = "exitcode" /\ ms[j].task = t
                                /\ reported'[t] = ms[j].status
              /\ reported'[t] \in BOOLEAN \cup {None}
  <2> DEFINE s == CHOOSE s \in Code(t) : TRUE
  <2>1. s \in Code(t) /\ reported'[t] = s
    BY <1>12, <1>15
  <2> HIDE DEF s
  <2>2. PICK m \in exits : m.task = t /\ m.status = s
    BY <1>14, <2>1
  <2>3. t \notin live'
    BY <1>12, <2>2
  <2>4. PICK j \in Nat : 1 <= j /\ j <= Len(ms) /\ ms[j] = m
    BY <1>13
  <2>5. m \in Message /\ m.kind = "exitcode"
    BY <1>13
  <2>6. m.status \in BOOLEAN \cup {None}
    BY <2>5 DEF Message
  <2> QED
    BY <2>1, <2>2, <2>3, <2>4, <2>5, <2>6
<1>16. ASSUME NEW t \in Task, Code(t) = {}
       PROVE  reported'[t] = reported[t] /\ (t \in live <=> t \in live')
  <2>1. reported'[t] = reported[t]
    BY <1>12, <1>16
  <2>2. \A m \in exits : m.task # t
    BY <1>16
  <2> QED
    BY <1>12, <2>1, <2>2
<1>17. live' \in SUBSET live
  BY <1>12
<1>18. reported' \in [Task -> BOOLEAN \cup {None}]
  <2> DEFINE g(t) == IF Code(t) = {} THEN reported[t] ELSE CHOOSE s \in Code(t) : TRUE
  <2>1. reported' = [t \in Task |-> g(t)]
    BY <1>12
  <2>2. \A t \in Task : g(t) = reported'[t]
    BY <2>1
  <2>3. \A t \in Task : reported[t] \in BOOLEAN \cup {None}
    BY DEF Types
  <2> HIDE DEF g, Code
  <2>4. \A t \in Task : reported'[t] \in BOOLEAN \cup {None}
    BY <1>15, <1>16, <2>3
  <2>5. \A t \in Task : g(t) \in BOOLEAN \cup {None}
    BY <2>2, <2>4
  <2> QED
    BY <2>1, <2>5
<1> HIDE DEF Code
<1> QED
  BY <1>3, <1>5, <1>8, <1>9, <1>10, <1>15, <1>16, <1>17, <1>18

\* What the worker has for the cooker goes to the end of the stream.
LEMMA StreamGrows ==
    ASSUME Types, NEW ms \in Seq(Message), worker_queue' = worker_queue \o ms,
           UNCHANGED <<queue, worker_pipe, worker_queue_int>>
    PROVE  Stream' = Stream \o Flat(ms)
<1> DEFINE A == Arrived \o worker_queue_int
<1>1. /\ Arrived \in Seq(Piece) /\ worker_queue_int \in Seq(Piece)
      /\ worker_queue \in Seq(Message) /\ Flat(worker_queue) \in Seq(Piece)
      /\ Flat(ms) \in Seq(Piece)
  BY StreamTypes, FlatAt DEF Types
<1>2. A \in Seq(Piece)
  BY <1>1, PieceConcat
<1>3. Stream' = A \o Flat(worker_queue \o ms)
  BY DEF Stream, Arrived
<1>4. Flat(worker_queue \o ms) = Flat(worker_queue) \o Flat(ms)
  BY <1>1, FlatConcat
<1>5. Stream = A \o Flat(worker_queue)
  BY DEF Stream
<1> HIDE DEF A
<1>6. Associates(A, Flat(worker_queue), Flat(ms))
  BY <1>1, <1>2, PieceConcat
<1> QED
  BY <1>3, <1>4, <1>5, <1>6 DEF Associates

\* A read of a child's pipe puts its whole messages there.
LEMMA ReadPipeEffect ==
    ASSUME Types, NEW t \in Task, Aligned(Held(t)), ReadPipe(t),
           UNCHANGED <<queue, worker_pipe, worker_queue_int>>,
           NEW ms, ms = Messages(Held(t))
    PROVE  /\ ms \in Seq(Message)
           /\ worker_queue' \in Seq(Message)
           /\ Stream' = Stream \o Flat(ms)
           /\ build_pipes' \in [Task -> Seq(Piece)] /\ child_pipe' \in [Task -> Seq(Piece)]
           /\ Held(t) = Flat(ms) \o Held(t)' /\ Held(t)' = Rest(Held(t))
           /\ \A u \in Task : u # t => Held(u)' = Held(u)
<1>1. /\ Held(t) \in Seq(Piece) /\ worker_queue \in Seq(Message)
      /\ Arrived \in Seq(Piece) /\ worker_queue_int \in Seq(Piece)
  BY StreamTypes DEF Types
<1>2. /\ ms \in Seq(Message) /\ Rest(Held(t)) \in Seq(Piece)
      /\ Held(t) = Flat(ms) \o Rest(Held(t))
  BY <1>1, ReadBuffer
<1>3. /\ build_pipes' = [build_pipes EXCEPT ![t] = Rest(Held(t))]
      /\ child_pipe' = [child_pipe EXCEPT ![t] = <<>>]
      /\ worker_queue' = worker_queue \o ms
  BY DEF ReadPipe, Held
<1>4. build_pipes \in [Task -> Seq(Piece)] /\ child_pipe \in [Task -> Seq(Piece)]
  BY DEF Types
<1>5. build_pipes' \in [Task -> Seq(Piece)] /\ child_pipe' \in [Task -> Seq(Piece)]
  BY <1>2, <1>3, <1>4
<1>6. Held(t)' = Rest(Held(t))
  <2>1. build_pipes'[t] = Rest(Held(t)) /\ child_pipe'[t] = <<>>
    BY <1>3, <1>4
  <2>2. Rest(Held(t)) \o <<>> = Rest(Held(t))
    BY <1>2, ConcatEmptySeq
  <2> QED
    BY <2>1, <2>2 DEF Held
<1>7. \A u \in Task : u # t => Held(u)' = Held(u)
  BY <1>3, <1>4 DEF Held
<1>8. worker_queue' \in Seq(Message)
  BY <1>1, <1>2, <1>3, ConcatProperties
<1>9. Stream' = Stream \o Flat(ms)
  BY <1>2, <1>3, StreamGrows
<1> QED
  BY <1>2, <1>5, <1>6, <1>7, <1>8, <1>9

\* process_waitpid puts them there and the exit code after them.
LEMMA WaitpidEffect ==
    ASSUME Types, NEW t \in Task, Aligned(Held(t)), Waitpid(t), status[t] \in BOOLEAN,
           NEW ms, ms = Messages(Held(t))
    PROVE  /\ ms \in Seq(Message) /\ ExitCode(t) \in Message
           /\ worker_queue' \in Seq(Message)
           /\ Stream' = Stream \o (Flat(ms) \o <<Begin(ExitCode(t)), End(ExitCode(t))>>)
           /\ build_pipes' \in [Task -> Seq(Piece)] /\ child_pipe' \in [Task -> Seq(Piece)]
           /\ Held(t) = Flat(ms) \o Rest(Held(t)) /\ Held(t)' = <<>>
           /\ \A u \in Task : u # t => Held(u)' = Held(u)
<1>1. /\ Held(t) \in Seq(Piece) /\ worker_queue \in Seq(Message)
      /\ Arrived \in Seq(Piece) /\ worker_queue_int \in Seq(Piece)
  BY StreamTypes DEF Types
<1>2. /\ ms \in Seq(Message) /\ Rest(Held(t)) \in Seq(Piece)
      /\ Held(t) = Flat(ms) \o Rest(Held(t))
  BY <1>1, ReadBuffer
<1>3. ExitCode(t) \in Message
  BY DEF ExitCode, Message
<1>4. /\ build_pipes' = [build_pipes EXCEPT ![t] = <<>>]
      /\ child_pipe' = [child_pipe EXCEPT ![t] = <<>>]
      /\ worker_queue' = (worker_queue \o ms) \o <<ExitCode(t)>>
      /\ UNCHANGED <<queue, worker_pipe, worker_queue_int>>
  BY DEF Waitpid, Held, cooker_vars
<1>5. build_pipes \in [Task -> Seq(Piece)] /\ child_pipe \in [Task -> Seq(Piece)]
  BY DEF Types
<1>6. build_pipes' \in [Task -> Seq(Piece)] /\ child_pipe' \in [Task -> Seq(Piece)]
  BY <1>4, <1>5, EmptySeq
<1>7. Held(t)' = <<>>
  <2>1. build_pipes'[t] = <<>> /\ child_pipe'[t] = <<>>
    BY <1>4, <1>5
  <2>2. <<>> \o <<>> = <<>>
    BY EmptySeq, ConcatEmptySeq
  <2> QED
    BY <2>1, <2>2 DEF Held
<1>8. \A u \in Task : u # t => Held(u)' = Held(u)
  BY <1>4, <1>5 DEF Held
<1> DEFINE e == <<ExitCode(t)>>
<1>9. e \in Seq(Message) /\ Flat(e) = <<Begin(ExitCode(t)), End(ExitCode(t))>>
  BY <1>3, FlatOne
<1> HIDE DEF e
<1>10. ms \o e \in Seq(Message) /\ worker_queue' = worker_queue \o (ms \o e)
  <2>1. ms \o e \in Seq(Message)
    BY <1>2, <1>9, ConcatProperties
  <2>2. Associates(worker_queue, ms, e)
    BY <1>1, <1>2, <1>9, MessageConcat
  <2>3. (worker_queue \o ms) \o e = worker_queue \o (ms \o e)
    BY <2>2 DEF Associates
  <2> QED
    BY <2>1, <2>3, <1>4 DEF e
<1>11. worker_queue' \in Seq(Message)
  BY <1>1, <1>10, ConcatProperties
<1>12. Stream' = Stream \o Flat(ms \o e)
  BY <1>4, <1>10, StreamGrows
<1>13. Flat(ms \o e) = Flat(ms) \o Flat(e)
  BY <1>2, <1>9, FlatConcat
<1> QED
  BY <1>2, <1>3, <1>6, <1>7, <1>8, <1>9, <1>11, <1>12, <1>13

-----------------------------------------------------------------------------
(* Types. *)

LEMMA InitTypes == Init => Types
<1> SUFFICES ASSUME Init PROVE Types
  OBVIOUS
<1>1. <<>> \in Seq(Piece) /\ <<>> \in Seq(Message) /\ <<>> \in Seq(Command)
  BY EmptySeq
<1> QED
  BY <1>1 DEF Init, Types

LEMMA CommandTypes ==
    /\ <<"finishnow">> \in Command /\ <<"quit">> \in Command
    /\ \A t \in Task : <<"runtask", t>> \in Command
BY DEF Command

LEMMA CookerTypes ==
    ASSUME IInv, Cooker \/ ForceStop
    PROVE  Types'
<1> USE DEF cooker_vars, worker_vars, writer_vars, child_vars
<1>0. Types /\ Aligned(Stream)
  BY DEF IInv, StreamInv
<1>1. ASSUME Take, UNCHANGED <<worker_queue, worker_queue_int>>
      PROVE  /\ queue' \in Seq(Piece) /\ worker_pipe' \in Seq(Piece)
             /\ fired' \in [Task -> Nat] /\ live' \in SUBSET Task
             /\ reported' \in [Task -> BOOLEAN \cup {None}]
  <2> DEFINE ms == Messages(Arrived)
  <2>1. /\ ms \in Seq(Message) /\ queue' \in Seq(Piece) /\ worker_pipe' = <<>>
        /\ fired' = [t \in Task |-> fired[t] + CountIn(Flat(ms), End(Event(t)))]
        /\ reported' \in [Task -> BOOLEAN \cup {None}]
        /\ live' \in SUBSET live
    BY <1>0, <1>1, TakeEffect
  <2>2. Flat(ms) \in Seq(Piece)
    BY <2>1, FlatAt
  <2>3. \A t \in Task : CountIn(Flat(ms), End(Event(t))) \in Nat
    BY <2>2, BeforeLeast, 1 \in Int
  <2> HIDE DEF ms
  <2>4. fired' \in [Task -> Nat]
    BY <2>1, <2>3, <1>0 DEF Types
  <2>5. live' \in SUBSET Task
    BY <2>1, <1>0 DEF Types
  <2> QED
    BY <2>1, <2>4, <2>5, EmptySeq
<1>2. CASE Read
  <2>1. /\ queue' \in Seq(Piece) /\ worker_pipe' \in Seq(Piece)
        /\ fired' \in [Task -> Nat] /\ live' \in SUBSET Task
        /\ reported' \in [Task -> BOOLEAN \cup {None}]
    BY <1>1, <1>2 DEF Read
  <2> QED
    BY <2>1, <1>0, <1>2 DEF Read, Types, Finished
<1>3. CASE TeardownRead
  <2>1. /\ queue' \in Seq(Piece) /\ worker_pipe' \in Seq(Piece)
        /\ fired' \in [Task -> Nat] /\ live' \in SUBSET Task
        /\ reported' \in [Task -> BOOLEAN \cup {None}]
    BY <1>1, <1>3 DEF TeardownRead
  <2> QED
    BY <2>1, <1>0, <1>3 DEF TeardownRead, Types
<1>4. ASSUME NEW t \in Task, StartTask(t) PROVE Types'
  <2>1. stdin' \in Seq(Command)
    BY <1>0, <1>4, CommandTypes, AppendProperties DEF StartTask, Types
  <2> QED
    BY <2>1, <1>0, <1>4 DEF StartTask, Types
<1>5. CASE StartFails
  BY <1>0, <1>5 DEF StartFails, Types
<1>6. CASE Conclude
  BY <1>0, <1>6 DEF Conclude, Types, Finished
<1>7. CASE ForceStop
  <2>1. stdin' \in Seq(Command)
    BY <1>0, <1>7, CommandTypes, AppendProperties DEF ForceStop, Types
  <2> QED
    BY <2>1, <1>0, <1>7 DEF ForceStop, Types, Finished
<1>8. CASE Teardown
  <2>1. stdin' \in Seq(Command)
    BY <1>0, <1>8, CommandTypes, AppendProperties DEF Teardown, Types
  <2> QED
    BY <2>1, <1>0, <1>8 DEF Teardown, Types
<1>9. CASE TeardownEnd
  BY <1>0, <1>9 DEF TeardownEnd, Types
<1> QED
  BY <1>2, <1>3, <1>4, <1>5, <1>6, <1>7, <1>8, <1>9 DEF Cooker

LEMMA ReceivedTypes ==
    ASSUME Types, NEW m, Received(m)
    PROVE  stdin' \in Seq(Command)
BY HeadTailProperties DEF Types, Received

LEMMA WorkerTypes ==
    ASSUME IInv, Worker \/ WorkerDies
    PROVE  Types'
<1> USE DEF cooker_vars, worker_vars, writer_vars, child_vars
<1>0. Types
  BY DEF IInv
<1>1. ASSUME NEW t \in Task, HandleRuntask(t) PROVE Types'
  <2>1. stdin' \in Seq(Command)
    BY <1>0, <1>1, ReceivedTypes DEF HandleRuntask
  <2> QED
    BY <2>1, <1>0, <1>1 DEF HandleRuntask, Types
<1>2. ASSUME NEW t \in Task, ReadChild(t) \/ FlushChild(t) PROVE Types'
  <2>1. ReadPipe(t) /\ UNCHANGED <<queue, worker_pipe, worker_queue_int>>
    BY <1>2 DEF ReadChild, FlushChild
  <2>2. Aligned(Held(t))
    BY DEF IInv, ChildAt
  <2>3. /\ worker_queue' \in Seq(Message)
        /\ build_pipes' \in [Task -> Seq(Piece)] /\ child_pipe' \in [Task -> Seq(Piece)]
    BY <1>0, <2>1, <2>2, ReadPipeEffect
  <2>4. to_kill' \in SUBSET Task
    BY <1>0, <1>2 DEF ReadChild, FlushChild, Types
  <2> QED
    BY <2>3, <2>4, <1>0, <1>2 DEF ReadChild, FlushChild, Types
<1>3. ASSUME NEW t \in Task, Waitpid(t) PROVE Types'
  <2>1. Aligned(Held(t)) /\ status[t] \in BOOLEAN
    BY <1>3 DEF IInv, ChildAt, Waitpid
  <2>2. /\ worker_queue' \in Seq(Message)
        /\ build_pipes' \in [Task -> Seq(Piece)] /\ child_pipe' \in [Task -> Seq(Piece)]
    BY <1>0, <1>3, <2>1, WaitpidEffect
  <2> QED
    BY <2>2, <1>0, <1>3 DEF Waitpid, Types
<1>4. ASSUME NEW t \in Task, Kill(t) PROVE Types'
  BY <1>0, <1>4 DEF Kill, Types
<1>5. ASSUME NEW t \in Task, Reap(t) PROVE Types'
  BY <1>0, <1>5 DEF Reap, Types
<1>6. CASE HandleFinishnow
  <2>1. stdin' \in Seq(Command)
    BY <1>0, <1>6, ReceivedTypes DEF HandleFinishnow
  <2> QED
    BY <2>1, <1>0, <1>6 DEF HandleFinishnow, Types
<1>7. CASE KillEnds
  BY <1>0, <1>7 DEF KillEnds, Types
<1>8. CASE FinishNowEnds
  BY <1>0, <1>8 DEF FinishNowEnds, Types
<1>9. CASE HandleQuit
  <2>1. stdin' \in Seq(Command)
    BY <1>0, <1>9, ReceivedTypes DEF HandleQuit
  <2> QED
    BY <2>1, <1>0, <1>9 DEF HandleQuit, Types
<1>10. CASE WorkerExit
  BY <1>0, <1>10 DEF WorkerExit, Gone, Types
<1>11. CASE WorkerDies
  <2>1. <<>> \in Seq(Piece) /\ <<>> \in Seq(Message)
    BY EmptySeq
  <2> QED
    BY <2>1, <1>0, <1>11 DEF WorkerDies, Gone, Types
<1> QED
  BY <1>1, <1>2, <1>3, <1>4, <1>5, <1>6, <1>7, <1>8, <1>9, <1>10, <1>11 DEF Worker

LEMMA WriterTypes ==
    ASSUME IInv, Writer
    PROVE  Types'
<1> USE DEF cooker_vars, worker_vars, writer_vars, child_vars
<1>0. Types
  BY DEF IInv
<1>1. CASE Collect
  <2>1. Head(worker_queue) \in Message /\ worker_queue' \in Seq(Message)
    BY <1>0, <1>1, HeadTailProperties DEF Collect, Types
  <2>2. Pieces(Head(worker_queue)) \in Seq(Piece)
    BY <2>1, PiecesType
  <2>3. worker_queue_int' \in Seq(Piece)
    BY <2>2, <1>0, <1>1, ConcatProperties DEF Collect, Types
  <2> QED
    BY <2>1, <2>3, <1>0, <1>1 DEF Collect, Types
<1>2. CASE Write
  <2>1. PICK n \in 1 .. Len(worker_queue_int) :
           /\ worker_pipe' = worker_pipe \o SubSeq(worker_queue_int, 1, n)
           /\ worker_queue_int' = SubSeq(worker_queue_int, n + 1, Len(worker_queue_int))
    BY <1>2 DEF Write
  <2>2. worker_pipe \in Seq(Piece) /\ worker_queue_int \in Seq(Piece)
    BY <1>0 DEF Types
  <2>3. /\ SubSeq(worker_queue_int, 1, n) \in Seq(Piece)
        /\ SubSeq(worker_queue_int, n + 1, Len(worker_queue_int)) \in Seq(Piece)
    BY <2>2
  <2>4. worker_pipe' \in Seq(Piece) /\ worker_queue_int' \in Seq(Piece)
    BY <2>1, <2>2, <2>3, PieceConcat, ConcatProperties
  <2> QED
    BY <2>4, <1>0, <1>2 DEF Write, Types
<1> QED
  BY <1>1, <1>2 DEF Writer

\* What a process writes goes to the end of what the worker has or can read of it.
LEMMA HeldGrows ==
    ASSUME Types, NEW t \in Task, NEW x \in Piece,
           child_pipe' = [child_pipe EXCEPT ![t] = Append(@, x)], UNCHANGED build_pipes
    PROVE  /\ child_pipe' \in [Task -> Seq(Piece)]
           /\ Held(t)' = Held(t) \o <<x>>
           /\ \A u \in Task : u # t => Held(u)' = Held(u)
<1>1. child_pipe \in [Task -> Seq(Piece)] /\ build_pipes \in [Task -> Seq(Piece)]
  BY DEF Types
<1>2. child_pipe[t] \in Seq(Piece) /\ build_pipes[t] \in Seq(Piece) /\ <<x>> \in Seq(Piece)
  BY <1>1
<1>3. Append(child_pipe[t], x) = child_pipe[t] \o <<x>> /\ Append(child_pipe[t], x) \in Seq(Piece)
  BY <1>2, AppendProperties, AppendIsConcat
<1>4. child_pipe' \in [Task -> Seq(Piece)] /\ child_pipe'[t] = Append(child_pipe[t], x)
  BY <1>1, <1>3
<1>5. Associates(build_pipes[t], child_pipe[t], <<x>>)
  BY <1>2, PieceConcat
<1>6. Held(t)' = Held(t) \o <<x>>
  BY <1>3, <1>4, <1>5 DEF Held, Associates
<1>7. \A u \in Task : u # t => Held(u)' = Held(u)
  BY <1>1 DEF Held
<1> QED
  BY <1>4, <1>6, <1>7

LEMMA ChildTypes ==
    ASSUME IInv, NEW t \in Task, Child(t)
    PROVE  Types'
<1> USE DEF cooker_vars, worker_vars, writer_vars, others
<1>0. Types
  BY DEF IInv
<1>1. CASE Setup(t)
  BY <1>0, <1>1 DEF Setup, Types
<1>2. CASE Fire(t)
  <2>0. Event(t) \in Message /\ Begin(Event(t)) \in Piece /\ End(Event(t)) \in Piece
        /\ Pieces(Event(t))[1] = Begin(Event(t)) /\ Pieces(Event(t))[2] = End(Event(t))
    BY PieceTypes
  <2>1. child_pipe' \in [Task -> Seq(Piece)]
    <3>1. CASE child_pipe' = [child_pipe EXCEPT ![t] = Append(@, Begin(Event(t)))]
      BY <3>1, <2>0, <1>0, <1>2, HeldGrows DEF Fire
    <3>2. CASE child_pipe' = [child_pipe EXCEPT ![t] = Append(@, End(Event(t)))]
      BY <3>2, <2>0, <1>0, <1>2, HeldGrows DEF Fire
    <3> QED
      BY <3>1, <3>2, <2>0, <1>2 DEF Fire
  <2>2. /\ child' \in [Task -> {"none", "forked", "running", "writing", "dead", "reaped"}]
        /\ emitted' \in [Task -> Nat]
    <3>1. CASE UNCHANGED emitted /\ child' = [child EXCEPT ![t] = "writing"]
      BY <3>1, <1>0 DEF Types
    <3>2. CASE emitted' = [emitted EXCEPT ![t] = @ + 1] /\ child' = [child EXCEPT ![t] = "running"]
      BY <3>2, <1>0 DEF Types
    <3> QED
      BY <3>1, <3>2, <1>2 DEF Fire
  <2>3. UNCHANGED <<sigterm, status, others>>
    BY <1>2 DEF Fire
  <2> QED
    BY <2>1, <2>2, <2>3, <1>0 DEF Types
<1>3. CASE ChildExit(t)
  BY <1>0, <1>3 DEF ChildExit, Ends, Types
<1>4. CASE ChildKilled(t)
  BY <1>0, <1>4 DEF ChildKilled, Ends, Types
<1> QED
  BY <1>1, <1>2, <1>3, <1>4 DEF Child

LEMMA UnchangedInv ==
    ASSUME IInv, UNCHANGED vars
    PROVE  IInv'
<1> USE DEF vars, cooker_vars, worker_vars, writer_vars, child_vars
<1>1. Types'
  BY DEF IInv, Types
<1>2. Stream' = Stream /\ (\A t \in Task : Held(t)' = Held(t)) /\ Intact' = Intact
  BY DEF Stream, Arrived, Held, Intact
<1>3. StartedOnce'
  BY DEF IInv, StartedOnce
<1>4. \A t \in Task : ChildAt(t)'
  BY <1>2 DEF IInv, ChildAt
<1>5. ReadToTheEnd'
  BY <1>2 DEF IInv, ReadToTheEnd
<1>6. StreamInv'
  BY <1>2 DEF IInv, StreamInv, Proper
<1>7. Counted'
  BY <1>2 DEF IInv, Counted, Known
<1>8. ExitLast'
  BY <1>2 DEF IInv, ExitLast
<1>9. Reported' /\ Course'
  BY DEF IInv, Reported, Course
<1> QED
  BY <1>1, <1>3, <1>4, <1>5, <1>6, <1>7, <1>8, <1>9 DEF IInv

\* The types are kept.
LEMMA StepTypes ==
    ASSUME IInv, Next
    PROVE  Types'
BY CookerTypes, WorkerTypes, WriterTypes, ChildTypes DEF Next

-----------------------------------------------------------------------------
(* Commands to the worker. *)

LEMMA CommandsDiffer ==
    ASSUME NEW t \in Task
    PROVE  /\ <<"runtask", t>> # <<"finishnow">> /\ <<"runtask", t>> # <<"quit">>
           /\ <<"finishnow">> # <<"quit">>
           /\ \A u \in Task : <<"runtask", t>> = <<"runtask", u>> => t = u
<1>1. Len(<<"runtask", t>>) = 2 /\ Len(<<"finishnow">>) = 1 /\ Len(<<"quit">>) = 1
  OBVIOUS
<1>2. <<"finishnow">>[1] = "finishnow" /\ <<"quit">>[1] = "quit"
  OBVIOUS
<1>3. \A u : <<"runtask", u>>[2] = u
  OBVIOUS
<1> QED
  BY <1>1, <1>2, <1>3

\* What was to be received after the first message is still to be received.
LEMMA AfterHead ==
    ASSUME Types, NEW m, Received(m)
    PROVE  /\ stdin[1] = m /\ 1 \in 1 .. Len(stdin)
           /\ Len(stdin') = Len(stdin) - 1 /\ Len(stdin') \in Nat
           /\ \A i \in 1 .. Len(stdin') : i + 1 \in 1 .. Len(stdin) /\ i + 1 # 1
                                          /\ stdin'[i] = stdin[i + 1]
<1>1. stdin \in Seq(Command) /\ stdin # <<>> /\ Head(stdin) = m /\ stdin' = Tail(stdin)
  BY DEF Types, Received
<1>2. Len(stdin) \in Nat /\ Len(stdin) >= 1
  BY <1>1
<1>3. /\ Tail(stdin) \in Seq(Command) /\ Len(Tail(stdin)) = Len(stdin) - 1
      /\ \A i \in 1 .. Len(Tail(stdin)) : Tail(stdin)[i] = stdin[i + 1]
  BY <1>1, HeadTailProperties
<1>4. \A i \in 1 .. Len(stdin) - 1 : i + 1 \in 1 .. Len(stdin) /\ i + 1 # 1
  BY <1>2
<1>5. stdin[1] = m
  BY <1>1
<1> QED
  BY <1>1, <1>2, <1>3, <1>4, <1>5

LEMMA StartedOnceKept ==
    ASSUME IInv, UNCHANGED todo, live' \in SUBSET live,
           \A t \in Task : child[t] = "none" => child'[t] = "none",
           \/ UNCHANGED stdin
           \/ \E c \in {<<"finishnow">>, <<"quit">>} :
                 stdin' = Append(stdin, c) \/ Received(c)
    PROVE  StartedOnce'
<1>0. Types /\ StartedOnce /\ stdin \in Seq(Command)
  BY DEF IInv, Types
<1>1. CASE UNCHANGED stdin
  BY <1>0, <1>1 DEF StartedOnce
<1>2. ASSUME NEW c \in {<<"finishnow">>, <<"quit">>}, stdin' = Append(stdin, c)
      PROVE  StartedOnce'
  <2>1. c \in Command /\ \A t \in Task : c # <<"runtask", t>>
    BY CommandTypes, CommandsDiffer
  <2>2. /\ Len(stdin') = Len(stdin) + 1 /\ Len(stdin) \in Nat
        /\ \A i \in 1 .. Len(stdin) : stdin'[i] = stdin[i]
        /\ stdin'[Len(stdin) + 1] = c
    BY <1>0, <1>2, <2>1, AppendProperties
  <2>3. \A i \in 1 .. Len(stdin'), t \in Task :
           stdin'[i] = <<"runtask", t>> => i \in 1 .. Len(stdin) /\ stdin[i] = <<"runtask", t>>
    BY <2>1, <2>2
  <2> QED
    BY <2>3, <1>0 DEF StartedOnce
<1>3. ASSUME NEW c, Received(c) PROVE StartedOnce'
  <2>1. \A i \in 1 .. Len(stdin') : i + 1 \in 1 .. Len(stdin) /\ stdin'[i] = stdin[i + 1]
    BY <1>0, <1>3, AfterHead
  <2>2. \A i, j \in 1 .. Len(stdin') : i + 1 = j + 1 => i = j
    BY <1>0, <1>3, AfterHead
  <2>3. \A i, j \in 1 .. Len(stdin'), t \in Task :
           stdin'[i] = <<"runtask", t>> /\ stdin'[j] = <<"runtask", t>> => i = j
    <3> SUFFICES ASSUME NEW i \in 1 .. Len(stdin'), NEW j \in 1 .. Len(stdin'), NEW t \in Task,
                        stdin'[i] = <<"runtask", t>>, stdin'[j] = <<"runtask", t>>
                 PROVE  i = j
      OBVIOUS
    <3>1. stdin[i + 1] = <<"runtask", t>> /\ stdin[j + 1] = <<"runtask", t>>
          /\ i + 1 \in 1 .. Len(stdin) /\ j + 1 \in 1 .. Len(stdin)
      BY <2>1
    <3>2. i + 1 = j + 1
      BY <3>1, <1>0 DEF StartedOnce
    <3> QED
      BY <3>2, <2>2
  <2>4. \A i \in 1 .. Len(stdin'), t \in Task :
           stdin'[i] = <<"runtask", t>> => t \notin todo /\ child[t] = "none"
    BY <2>1, <1>0 DEF StartedOnce
  <2> QED
    BY <2>3, <2>4, <1>0 DEF StartedOnce
<1> QED
  BY <1>1, <1>2, <1>3

LEMMA StepStartedOnce ==
    ASSUME IInv, Next
    PROVE  StartedOnce'
<1> USE DEF cooker_vars, worker_vars, writer_vars, child_vars, others
<1>0. Types /\ StartedOnce
  BY DEF IInv
<1>1. CASE Read \/ TeardownRead
  <2>1. Take /\ UNCHANGED <<todo, stdin, child>>
    BY <1>1 DEF Read, TeardownRead
  <2>2. live' \in SUBSET live
    BY <2>1 DEF Take
  <2> QED
    BY <2>1, <2>2, StartedOnceKept
<1>2. ASSUME NEW t \in Task, StartTask(t) PROVE StartedOnce'
  <2>1. /\ t \in todo /\ todo' = todo \ {t} /\ live' = live \cup {t} /\ UNCHANGED child
        /\ stdin' = Append(stdin, <<"runtask", t>>) /\ stdin \in Seq(Command)
        /\ <<"runtask", t>> \in Command
    BY <1>0, <1>2, CommandTypes DEF StartTask, Types
  <2>2. /\ Len(stdin') = Len(stdin) + 1 /\ Len(stdin) \in Nat
        /\ \A i \in 1 .. Len(stdin) : stdin'[i] = stdin[i]
        /\ stdin'[Len(stdin) + 1] = <<"runtask", t>>
    BY <2>1, AppendProperties
  <2>3. \A i \in 1 .. Len(stdin), u \in Task : stdin[i] = <<"runtask", u>> => u # t
    BY <1>0, <2>1 DEF StartedOnce
  <2>4. \A i \in 1 .. Len(stdin'), u \in Task :
           stdin'[i] = <<"runtask", u>> =>
              \/ i \in 1 .. Len(stdin) /\ stdin[i] = <<"runtask", u>> /\ u # t
              \/ i = Len(stdin) + 1 /\ u = t
    BY <2>2, <2>3, CommandsDiffer
  <2>5. \A i, j \in 1 .. Len(stdin'), u \in Task :
           stdin'[i] = <<"runtask", u>> /\ stdin'[j] = <<"runtask", u>> => i = j
    BY <2>4, <1>0 DEF StartedOnce
  <2>6. \A i \in 1 .. Len(stdin'), u \in Task :
           stdin'[i] = <<"runtask", u>> => u \notin todo' /\ child[u] = "none"
    BY <2>1, <2>4, <1>0 DEF StartedOnce
  <2> QED
    BY <2>1, <2>5, <2>6, <1>0 DEF StartedOnce
<1>3. CASE StartFails \/ Conclude \/ TeardownEnd
  BY <1>3, StartedOnceKept DEF StartFails, Conclude, TeardownEnd
<1>4. CASE ForceStop \/ Teardown
  BY <1>4, StartedOnceKept DEF ForceStop, Teardown
<1>5. ASSUME NEW t \in Task, HandleRuntask(t) PROVE StartedOnce'
  <2>1. Received(<<"runtask", t>>) /\ UNCHANGED <<todo, live>>
        /\ child' = [child EXCEPT ![t] = "forked"]
    BY <1>5 DEF HandleRuntask
  <2>2. \A i \in 1 .. Len(stdin') : i + 1 \in 1 .. Len(stdin) /\ i + 1 # 1
                                    /\ stdin'[i] = stdin[i + 1]
    BY <1>0, <2>1, AfterHead
  <2>3. stdin[1] = <<"runtask", t>> /\ 1 \in 1 .. Len(stdin)
    BY <1>0, <2>1, AfterHead
  <2>4. t \notin todo
    BY <1>0, <2>3 DEF StartedOnce
  <2>5. \A i \in 1 .. Len(stdin') : stdin'[i] # <<"runtask", t>>
    BY <1>0, <2>2, <2>3 DEF StartedOnce
  <2>6. \A u \in Task : u # t => child'[u] = child[u]
    BY <1>0, <2>1 DEF Types
  <2>7. \A i, j \in 1 .. Len(stdin') : i + 1 = j + 1 => i = j
    BY <1>0, <2>1, AfterHead
  <2>8. \A i, j \in 1 .. Len(stdin'), u \in Task :
           stdin'[i] = <<"runtask", u>> /\ stdin'[j] = <<"runtask", u>> => i = j
    <3> SUFFICES ASSUME NEW i \in 1 .. Len(stdin'), NEW j \in 1 .. Len(stdin'), NEW u \in Task,
                        stdin'[i] = <<"runtask", u>>, stdin'[j] = <<"runtask", u>>
                 PROVE  i = j
      OBVIOUS
    <3>1. stdin[i + 1] = <<"runtask", u>> /\ stdin[j + 1] = <<"runtask", u>>
          /\ i + 1 \in 1 .. Len(stdin) /\ j + 1 \in 1 .. Len(stdin)
      BY <2>2
    <3>2. i + 1 = j + 1
      BY <3>1, <1>0 DEF StartedOnce
    <3> QED
      BY <3>2, <2>7
  <2>9. \A i \in 1 .. Len(stdin'), u \in Task :
           stdin'[i] = <<"runtask", u>> => u \notin todo /\ child'[u] = "none"
    BY <2>2, <2>5, <2>6, <1>0 DEF StartedOnce
  <2>10. \A u \in Task : u \in todo => child'[u] = "none"
    BY <2>4, <2>6, <1>0 DEF StartedOnce
  <2> QED
    BY <2>1, <2>8, <2>9, <2>10, <1>0 DEF StartedOnce
<1>6. ASSUME NEW t \in Task, ReadChild(t) \/ FlushChild(t) \/ Kill(t) PROVE StartedOnce'
  <2>1. UNCHANGED <<todo, live, child, stdin>>
    BY <1>6 DEF ReadChild, FlushChild, Kill
  <2> QED
    BY <2>1, StartedOnceKept
<1>7. ASSUME NEW t \in Task, Waitpid(t) \/ Reap(t) \/ Child(t) PROVE StartedOnce'
  <2>1. /\ UNCHANGED <<todo, live, stdin>> /\ child[t] # "none"
        /\ \E c : child' = [child EXCEPT ![t] = c]
    <3>1. CASE Waitpid(t) \/ Reap(t)
      BY <3>1 DEF Waitpid, Reap
    <3>2. CASE Setup(t)
      BY <3>2 DEF Setup
    <3>3. CASE Fire(t)
      BY <3>3 DEF Fire
    <3>4. CASE ChildExit(t) \/ ChildKilled(t)
      BY <3>4 DEF ChildExit, ChildKilled, Ends, Alive
    <3> QED
      BY <3>1, <3>2, <3>3, <3>4, <1>7 DEF Child
  <2>2. \A u \in Task : child[u] = "none" => child'[u] = "none"
    BY <2>1, <1>0 DEF Types
  <2> QED
    BY <2>1, <2>2, StartedOnceKept
<1>8. CASE HandleFinishnow \/ HandleQuit
  <2>1. UNCHANGED <<todo, live, child>> /\ (Received(<<"finishnow">>) \/ Received(<<"quit">>))
    BY <1>8 DEF HandleFinishnow, HandleQuit
  <2> QED
    BY <2>1, StartedOnceKept
<1>9. CASE KillEnds \/ FinishNowEnds \/ WorkerExit \/ WorkerDies \/ Writer
  <2>1. UNCHANGED <<todo, live, child, stdin>>
    BY <1>9 DEF KillEnds, FinishNowEnds, WorkerExit, WorkerDies, Writer, Collect, Write
  <2> QED
    BY <2>1, StartedOnceKept
<1> QED
  BY <1>1, <1>2, <1>3, <1>4, <1>5, <1>6, <1>7, <1>8, <1>9 DEF Next, Cooker, Worker

-----------------------------------------------------------------------------
(* The processes of the tasks. *)

LEMMA EmptyBuffer == Aligned(<<>>) /\ Even(<<>>) /\ Len(<<>>) = 0
<1>1. Len(<<>>) = 0
  OBVIOUS
<1>2. 0 = 2 * 0 /\ 0 \in Nat
  OBVIOUS
<1> QED
  BY <1>1, <1>2 DEF Aligned, Even

\* After a message begins, the buffer is odd, and after it ends it is even.
LEMMA BufferGrows ==
    ASSUME NEW s \in Seq(Piece), Aligned(s), NEW m \in Message
    PROVE  /\ Even(s) => Aligned(s \o <<Begin(m)>>) /\ Odd(s \o <<Begin(m)>>)
           /\ (Odd(s) /\ \A i \in 1 .. Len(s) : s[i].msg = m) =>
                 Aligned(s \o <<End(m)>>) /\ Even(s \o <<End(m)>>)
<1>0. /\ Begin(m) \in Piece /\ End(m) \in Piece
      /\ Begin(m).msg = m /\ End(m).msg = m
  BY PieceTypes
<1>1. ASSUME Even(s) PROVE Aligned(s \o <<Begin(m)>>) /\ Odd(s \o <<Begin(m)>>)
  <2> DEFINE r == <<Begin(m)>>
  <2>1. r \in Seq(Piece) /\ Len(r) = 1 /\ r[1] = Begin(m)
    BY <1>0
  <2>2. \A j \in Nat : /\ ~ (1 <= j /\ 2 * j <= 1)
                       /\ (2 * j + 1 <= 1 => 2 * j + 1 = 1)
    OBVIOUS
  <2> HIDE DEF r
  <2>3. Aligned(r)
    BY <2>1, <2>2, <1>0 DEF Aligned
  <2>4. Aligned(s \o r)
    BY <1>1, <2>1, <2>3, AlignedConcat
  <2>5. Len(s \o r) = Len(s) + 1
    <3>1. Len(s \o r) = Len(s) + Len(r)
      BY <2>1, ConcatProperties
    <3> QED
      BY <3>1, <2>1
  <2>6. Odd(s \o r)
    BY <2>5, <1>1 DEF Even, Odd
  <2> QED
    BY <2>4, <2>6 DEF r
<1>2. ASSUME Odd(s), \A i \in 1 .. Len(s) : s[i].msg = m
      PROVE  Aligned(s \o <<End(m)>>) /\ Even(s \o <<End(m)>>)
  <2> DEFINE r == <<End(m)>>
             w == s \o r
  <2>1. r \in Seq(Piece) /\ Len(r) = 1 /\ r[1] = End(m)
    BY <1>0
  <2>2. PICK h \in Nat : Len(s) = 2 * h + 1
    BY <1>2 DEF Odd
  <2>3. w \in Seq(Piece) /\ Len(w) = 2 * (h + 1) /\ h + 1 \in Nat /\ Len(w) = Len(s) + 1
    <3> HIDE DEF r
    <3>1. w \in Seq(Piece) /\ Len(w) = Len(s) + Len(r)
      BY <2>1, ConcatProperties
    <3> QED
      BY <3>1, <2>1, <2>2
  <2>4. /\ \A i \in Nat : 1 <= i /\ i <= Len(s) => w[i] = s[i]
        /\ \A i \in Nat : 1 <= i /\ i <= Len(r) => w[i + Len(s)] = r[i]
    <3> HIDE DEF r
    <3> QED
      BY <2>1, ConcatSecond
  <2> HIDE DEF r, w
  <2>5. w[Len(s) + 1] = End(m)
    <3>1. 1 + Len(s) = Len(s) + 1 /\ 1 \in Nat
      BY <2>2
    <3> QED
      BY <3>1, <2>1, <2>4
  <2>6. s[Len(s)] = Begin(m)
    <3>1. Len(s) \in 1 .. Len(s)
      BY <2>2
    <3>2. s[2 * h + 1] = Begin(s[2 * h + 1].msg)
      BY <2>2 DEF Aligned
    <3> QED
      BY <3>1, <3>2, <2>2, <1>2
  <2>7. ASSUME NEW j \in Nat, 1 <= j, 2 * j <= Len(w)
        PROVE  w[2 * j - 1] = Begin(w[2 * j].msg) /\ w[2 * j] = End(w[2 * j].msg)
    <3>1. CASE j <= h
      <4>1. /\ 2 * j <= Len(s) /\ 2 * j - 1 \in Nat /\ 2 * j \in Nat /\ 1 <= 2 * j - 1
            /\ 2 * j - 1 <= Len(s) /\ 1 <= 2 * j
        BY <2>2, <2>7, <3>1
      <4>2. s[2 * j - 1] = Begin(s[2 * j].msg) /\ s[2 * j] = End(s[2 * j].msg)
        BY <4>1, <2>7 DEF Aligned
      <4> QED
        BY <4>1, <4>2, <2>4
    <3>2. CASE j = h + 1
      <4>1. 2 * j = Len(s) + 1 /\ 2 * j - 1 = Len(s) /\ Len(s) \in Nat /\ 1 <= Len(s)
        BY <2>2, <3>2
      <4>2. w[Len(s)] = s[Len(s)]
        BY <4>1, <2>4
      <4> QED
        BY <4>1, <4>2, <2>5, <2>6, <1>0
    <3> QED
      BY <3>1, <3>2, <2>3, <2>7
  <2>8. ASSUME NEW j \in Nat, 2 * j + 1 <= Len(w) PROVE w[2 * j + 1] = Begin(w[2 * j + 1].msg)
    <3>1. /\ 2 * j + 1 <= Len(s) /\ 2 * j + 1 \in Nat /\ 1 <= 2 * j + 1
      BY <2>2, <2>3, <2>8
    <3>2. s[2 * j + 1] = Begin(s[2 * j + 1].msg)
      BY <3>1 DEF Aligned
    <3> QED
      BY <3>1, <3>2, <2>4
  <2>9. Aligned(w) /\ Even(w)
    BY <2>3, <2>7, <2>8 DEF Aligned, Even
  <2> QED
    BY <2>9 DEF r, w
<1> QED
  BY <1>1, <1>2

LEMMA ChildKept ==
    ASSUME IInv, NEW t \in Task, Held(t)' = Held(t),
           child'[t] = child[t], emitted'[t] = emitted[t], status'[t] = status[t],
           t \in build_pids <=> t \in build_pids'
    PROVE  ChildAt(t)'
BY DEF IInv, ChildAt

LEMMA ChildRead ==
    ASSUME IInv, NEW t \in Task, ReadPipe(t), UNCHANGED <<queue, worker_pipe, worker_queue_int>>,
           UNCHANGED <<child, emitted, status, build_pids>>
    PROVE  (\A u \in Task : ChildAt(u)') /\ Len(Held(t)') <= 1
<1> DEFINE ms == Messages(Held(t))
           r == Rest(Held(t))
<1>0. Types /\ ChildAt(t) /\ Aligned(Held(t)) /\ Held(t) \in Seq(Piece)
  BY StreamTypes DEF IInv, ChildAt
<1>1. /\ ms \in Seq(Message) /\ Held(t)' = r
      /\ \A u \in Task : u # t => Held(u)' = Held(u)
  BY <1>0, ReadPipeEffect
<1>2. /\ r \in Seq(Piece) /\ Held(t) = Flat(ms) \o r /\ Len(r) <= 1
      /\ (Even(Held(t)) => r = <<>>)
  BY <1>0, ReadBuffer
<1>3. Flat(ms) \in Seq(Piece) /\ Aligned(Flat(ms)) /\ Even(Flat(ms))
  BY <1>1, FlatAt, FlatAligned
<1> HIDE DEF ms, r
<1>4. Aligned(r)
  BY <1>0, <1>2, <1>3, AlignedConcat
<1>5. Len(Held(t)) = Len(Flat(ms)) + Len(r) /\ Len(r) \in Nat /\ Len(Flat(ms)) \in Nat
  <2>1. Len(Flat(ms) \o r) = Len(Flat(ms)) + Len(r)
    BY <1>2, <1>3, ConcatProperties
  <2> QED
    BY <2>1, <1>2, <1>3
<1>6. Odd(Held(t)) => Odd(r)
  <2> SUFFICES ASSUME Odd(Held(t)) PROVE Odd(r)
    OBVIOUS
  <2>1. PICK h \in Nat : Len(Held(t)) = 2 * h + 1
    BY DEF Odd
  <2>2. PICK k \in Nat : Len(Flat(ms)) = 2 * k
    BY <1>3 DEF Even
  <2>3. Len(r) = 2 * 0 + 1
    <3>1. \A n \in Nat : 2 * h + 1 = 2 * k + n /\ n <= 1 => n = 2 * 0 + 1
      OBVIOUS
    <3>2. 2 * h + 1 = 2 * k + Len(r)
      BY <2>1, <2>2, <1>5
    <3> QED
      BY <3>1, <3>2, <1>2, <1>5
  <2> QED
    BY <2>3, 0 \in Nat DEF Odd
<1>7. \A i \in 1 .. Len(r) : r[i].msg = Event(t)
  <2> SUFFICES ASSUME NEW i \in 1 .. Len(r) PROVE r[i].msg = Event(t)
    OBVIOUS
  <2>1. i + Len(Flat(ms)) \in 1 .. Len(Held(t)) /\ i \in Nat /\ 1 <= i /\ i <= Len(r)
    BY <1>5
  <2>2. Held(t)[i + Len(Flat(ms))] = r[i]
    <3>1. \A k \in Nat : 1 <= k /\ k <= Len(r) => (Flat(ms) \o r)[k + Len(Flat(ms))] = r[k]
      BY <1>2, <1>3, ConcatSecond
    <3> QED
      BY <3>1, <2>1, <1>2
  <2> QED
    BY <2>1, <2>2, <1>0 DEF ChildAt
<1>8. Held(t) = <<>> => r = <<>>
  BY <1>2, EmptyBuffer
<1>9. r = <<>> => Even(r)
  BY EmptyBuffer
<1>10. ChildAt(t)'
  BY <1>0, <1>1, <1>2, <1>4, <1>6, <1>7, <1>8, <1>9 DEF ChildAt
<1>11. \A u \in Task : u # t => ChildAt(u)'
  BY <1>1, ChildKept
<1> QED
  BY <1>1, <1>2, <1>10, <1>11

\* The processes of the other tasks
LEMMA OthersKept ==
    ASSUME IInv, NEW t \in Task,
           \A u \in Task : u # t => /\ Held(u)' = Held(u) /\ child'[u] = child[u]
                                    /\ emitted'[u] = emitted[u] /\ status'[u] = status[u]
                                    /\ (u \in build_pids <=> u \in build_pids'),
           ChildAt(t)'
    PROVE  \A u \in Task : ChildAt(u)'
BY ChildKept

LEMMA FireEffect ==
    ASSUME IInv, NEW t \in Task, Fire(t)
    PROVE  /\ \A u \in Task : u # t => /\ Held(u)' = Held(u) /\ child'[u] = child[u]
                                         /\ emitted'[u] = emitted[u]
           /\ UNCHANGED <<status, build_pids, others>>
           /\ \/ /\ child[t] = "running" /\ emitted[t] < MaxEvents /\ child'[t] = "writing"
                 /\ Held(t)' = Held(t) \o <<Begin(Event(t))>>
                 /\ emitted'[t] = emitted[t]
              \/ /\ child[t] = "writing" /\ child'[t] = "running"
                 /\ Held(t)' = Held(t) \o <<End(Event(t))>>
                 /\ emitted'[t] = emitted[t] + 1
<1>0. /\ Types /\ Event(t) \in Message
      /\ Begin(Event(t)) \in Piece /\ End(Event(t)) \in Piece
      /\ Pieces(Event(t))[1] = Begin(Event(t)) /\ Pieces(Event(t))[2] = End(Event(t))
  BY PieceTypes DEF IInv
<1>1. child \in [Task -> {"none", "forked", "running", "writing", "dead", "reaped"}]
      /\ emitted \in [Task -> Nat]
  BY <1>0 DEF Types
<1>2. UNCHANGED <<status, build_pids, build_pipes, others>>
  BY DEF Fire, others, worker_vars
<1>3. CASE /\ child[t] = "running" /\ emitted[t] < MaxEvents
           /\ child' = [child EXCEPT ![t] = "writing"]
           /\ child_pipe' = [child_pipe EXCEPT ![t] = Append(@, Begin(Event(t)))]
           /\ UNCHANGED emitted
  <2>1. Held(t)' = Held(t) \o <<Begin(Event(t))>> /\ \A u \in Task : u # t => Held(u)' = Held(u)
    BY <1>0, <1>2, <1>3, HeldGrows
  <2> QED
    BY <2>1, <1>1, <1>2, <1>3
<1>4. CASE /\ child[t] = "writing"
           /\ child' = [child EXCEPT ![t] = "running"]
           /\ child_pipe' = [child_pipe EXCEPT ![t] = Append(@, End(Event(t)))]
           /\ emitted' = [emitted EXCEPT ![t] = @ + 1]
  <2>1. Held(t)' = Held(t) \o <<End(Event(t))>> /\ \A u \in Task : u # t => Held(u)' = Held(u)
    BY <1>0, <1>2, <1>4, HeldGrows
  <2> QED
    BY <2>1, <1>1, <1>2, <1>4
<1> QED
  BY <1>0, <1>3, <1>4 DEF Fire

LEMMA FireChild ==
    ASSUME IInv, NEW t \in Task, Fire(t)
    PROVE  \A u \in Task : ChildAt(u)'
<1> DEFINE e == Event(t)
<1>0. /\ Types' /\ e \in Message /\ Begin(e) \in Piece /\ End(e) \in Piece
      /\ Begin(e).msg = e /\ End(e).msg = e
      /\ Held(t) \in Seq(Piece) /\ ChildAt(t)
  BY PieceTypes, StreamTypes, ChildTypes DEF IInv, Child
<1>1. \A x \in Piece : x.msg = e =>
         \A i \in 1 .. Len(Held(t) \o <<x>>) : (Held(t) \o <<x>>)[i].msg = e
  <2> SUFFICES ASSUME NEW x \in Piece, x.msg = e, NEW i \in 1 .. Len(Held(t) \o <<x>>)
               PROVE  (Held(t) \o <<x>>)[i].msg = e
    OBVIOUS
  <2>1. Len(Held(t) \o <<x>>) = Len(Held(t)) + 1
    BY <1>0
  <2>2. (Held(t) \o <<x>>)[i] = IF i <= Len(Held(t)) THEN Held(t)[i] ELSE x
    BY <1>0, <2>1
  <2>3. \A k \in 1 .. Len(Held(t)) : Held(t)[k].msg = e
    BY <1>0 DEF ChildAt
  <2> QED
    BY <2>1, <2>2, <2>3, <1>0
<1>2. CASE /\ child[t] = "running" /\ emitted[t] < MaxEvents /\ child'[t] = "writing"
           /\ Held(t)' = Held(t) \o <<Begin(e)>> /\ emitted'[t] = emitted[t]
  <2>1. Even(Held(t)) /\ Aligned(Held(t)) /\ t \in build_pids
    BY <1>0, <1>2 DEF ChildAt
  <2>2. Aligned(Held(t)') /\ Odd(Held(t)')
    BY <2>1, <1>0, <1>2, BufferGrows
  <2>3. \A i \in 1 .. Len(Held(t)') : Held(t)'[i].msg = e
    BY <1>0, <1>1, <1>2
  <2>4. build_pids' = build_pids
    BY FireEffect
  <2>5. ChildAt(t)'
    BY <2>1, <2>2, <2>3, <2>4, <1>0, <1>2 DEF ChildAt
  <2> QED
    BY <2>5, FireEffect, OthersKept
<1>3. CASE /\ child[t] = "writing" /\ child'[t] = "running"
           /\ Held(t)' = Held(t) \o <<End(e)>> /\ emitted'[t] = emitted[t] + 1
  <2>1. /\ Odd(Held(t)) /\ Aligned(Held(t)) /\ t \in build_pids /\ emitted[t] < MaxEvents
        /\ \A i \in 1 .. Len(Held(t)) : Held(t)[i].msg = e
    BY <1>0, <1>3 DEF ChildAt
  <2>2. Aligned(Held(t)') /\ Even(Held(t)')
    BY <2>1, <1>0, <1>3, BufferGrows
  <2>3. \A i \in 1 .. Len(Held(t)') : Held(t)'[i].msg = e
    BY <1>0, <1>1, <1>3
  <2>4. emitted'[t] <= MaxEvents /\ t \in build_pids'
    <3>1. build_pids' = build_pids
      BY FireEffect
    <3>2. emitted[t] \in Nat
      BY DEF IInv, Types
    <3> QED
      BY <3>1, <3>2, <2>1, <1>3, WorkerPipeAssumption
  <2>5. ChildAt(t)'
    BY <2>2, <2>3, <2>4, <1>0, <1>3 DEF ChildAt
  <2> QED
    BY <2>5, FireEffect, OthersKept
<1> QED
  BY <1>2, <1>3, FireEffect

LEMMA StepChildren ==
    ASSUME IInv, Next
    PROVE  \A t \in Task : ChildAt(t)'
<1> USE DEF cooker_vars, worker_vars, writer_vars, child_vars
<1>0. Types /\ Types' /\ StartedOnce /\ \A t \in Task : ChildAt(t)
  BY StepTypes DEF IInv
<1>1. CASE UNCHANGED <<build_pipes, child_pipe, child, emitted, status, build_pids>>
  <2>1. \A t \in Task : Held(t)' = Held(t)
    BY <1>1 DEF Held
  <2> QED
    BY <1>1, <2>1, ChildKept
<1>2. CASE Cooker \/ ForceStop \/ Writer
  BY <1>1, <1>2 DEF Cooker, Read, TeardownRead, Take, StartTask, StartFails, Conclude, Teardown,
        TeardownEnd, ForceStop, Writer, Collect, Write
<1>3. ASSUME NEW t \in Task, HandleRuntask(t) PROVE \A u \in Task : ChildAt(u)'
  <2>1. stdin[1] = <<"runtask", t>> /\ 1 \in 1 .. Len(stdin)
    BY <1>0, <1>3, AfterHead DEF HandleRuntask
  <2>2. child[t] = "none"
    BY <1>0, <2>1 DEF StartedOnce
  <2>3. /\ \A u \in Task : Held(u)' = Held(u)
        /\ child' = [child EXCEPT ![t] = "forked"] /\ build_pids' = build_pids \cup {t}
        /\ UNCHANGED <<emitted, status>>
    BY <1>3 DEF HandleRuntask, Held
  <2>4. child'[t] = "forked" /\ \A u \in Task : u # t => child'[u] = child[u]
    BY <1>0, <2>3 DEF Types
  <2>5. ChildAt(t)'
    BY <1>0, <2>2, <2>3, <2>4 DEF ChildAt
  <2> QED
    BY <2>3, <2>4, <2>5, OthersKept
<1>4. ASSUME NEW t \in Task, ReadChild(t) \/ FlushChild(t) PROVE \A u \in Task : ChildAt(u)'
  <2>1. ReadPipe(t) /\ UNCHANGED <<queue, worker_pipe, worker_queue_int>>
        /\ UNCHANGED <<child, emitted, status, build_pids>>
    BY <1>4 DEF ReadChild, FlushChild
  <2> QED
    BY <2>1, ChildRead
<1>5. ASSUME NEW t \in Task, Waitpid(t) PROVE \A u \in Task : ChildAt(u)'
  <2>0. Aligned(Held(t)) /\ status[t] \in BOOLEAN /\ child[t] = "dead"
    BY <1>0, <1>5 DEF Waitpid, ChildAt
  <2>1. Held(t)' = <<>> /\ \A u \in Task : u # t => Held(u)' = Held(u)
    BY <1>0, <1>5, <2>0, WaitpidEffect
  <2>2. /\ child' = [child EXCEPT ![t] = "reaped"] /\ build_pids' = build_pids \ {t}
        /\ UNCHANGED <<emitted, status>>
    BY <1>5 DEF Waitpid
  <2>3. child'[t] = "reaped" /\ \A u \in Task : u # t => child'[u] = child[u]
    BY <1>0, <2>2 DEF Types
  <2>4. ChildAt(t)'
    BY <1>0, <2>0, <2>1, <2>2, <2>3, EmptyBuffer DEF ChildAt
  <2> QED
    BY <2>1, <2>2, <2>3, <2>4, OthersKept
<1>6. ASSUME NEW t \in Task, Kill(t) PROVE \A u \in Task : ChildAt(u)'
  BY <1>1, <1>6 DEF Kill
<1>7. ASSUME NEW t \in Task, Reap(t) PROVE \A u \in Task : ChildAt(u)'
  <2>1. /\ \A u \in Task : Held(u)' = Held(u)
        /\ child' = [child EXCEPT ![t] = "reaped"] /\ child[t] = "dead"
        /\ UNCHANGED <<emitted, status, build_pids>>
    BY <1>7 DEF Reap, Held
  <2>2. child'[t] = "reaped" /\ \A u \in Task : u # t => child'[u] = child[u]
    BY <1>0, <2>1 DEF Types
  <2>3. ChildAt(t)'
    BY <1>0, <2>1, <2>2 DEF ChildAt
  <2> QED
    BY <2>1, <2>2, <2>3, OthersKept
<1>8. CASE HandleFinishnow \/ KillEnds \/ FinishNowEnds \/ HandleQuit \/ WorkerExit \/ WorkerDies
  BY <1>1, <1>8 DEF HandleFinishnow, KillEnds, FinishNowEnds, HandleQuit, WorkerExit, WorkerDies
<1>9. ASSUME NEW t \in Task, Setup(t) PROVE \A u \in Task : ChildAt(u)'
  <2>1. /\ \A u \in Task : Held(u)' = Held(u)
        /\ child' = [child EXCEPT ![t] = "running"] /\ child[t] = "forked"
        /\ UNCHANGED <<emitted, status, build_pids>>
    BY <1>9 DEF Setup, Held, others
  <2>2. child'[t] = "running" /\ \A u \in Task : u # t => child'[u] = child[u]
    BY <1>0, <2>1 DEF Types
  <2>3. ChildAt(t)'
    BY <1>0, <2>1, <2>2, EmptyBuffer DEF ChildAt
  <2> QED
    BY <2>1, <2>2, <2>3, OthersKept
<1>10. ASSUME NEW t \in Task, Fire(t) PROVE \A u \in Task : ChildAt(u)'
  BY <1>10, FireChild
<1>11. ASSUME NEW t \in Task, ChildExit(t) \/ ChildKilled(t) PROVE \A u \in Task : ChildAt(u)'
  <2>1. PICK ok \in BOOLEAN : Ends(t, ok)
    BY <1>11 DEF ChildExit, ChildKilled
  <2>2. child[t] \in {"forked", "running", "writing"}
    BY <1>11 DEF ChildExit, ChildKilled, Alive
  <2>3. /\ \A u \in Task : Held(u)' = Held(u)
        /\ child' = [child EXCEPT ![t] = "dead"] /\ status' = [status EXCEPT ![t] = ok]
        /\ UNCHANGED <<emitted, build_pids>>
    BY <2>1 DEF Ends, Held, others
  <2>4. /\ child'[t] = "dead" /\ status'[t] = ok
        /\ \A u \in Task : u # t => child'[u] = child[u] /\ status'[u] = status[u]
    BY <1>0, <2>3 DEF Types
  <2>5. ChildAt(t)'
    BY <1>0, <2>2, <2>3, <2>4 DEF ChildAt
  <2> QED
    BY <2>3, <2>4, <2>5, OthersKept
<1> QED
  BY <1>2, <1>3, <1>4, <1>5, <1>6, <1>7, <1>8, <1>9, <1>10, <1>11 DEF Next, Worker, Child

LEMMA StepReadToTheEnd ==
    ASSUME IInv, Next
    PROVE  ReadToTheEnd'
<1> USE DEF cooker_vars, worker_vars, writer_vars, child_vars
<1>0. Types /\ ReadToTheEnd /\ \A t \in Task : ChildAt(t)
  BY DEF IInv
<1>1. CASE UNCHANGED <<build_pipes, child_pipe, child, worker, to_kill, deaths>>
  <2>1. \A t \in Task : Held(t)' = Held(t)
    BY <1>1 DEF Held
  <2> QED
    BY <1>0, <1>1, <2>1 DEF ReadToTheEnd
<1>2. CASE Cooker \/ ForceStop \/ Writer
  BY <1>1, <1>2 DEF Cooker, Read, TeardownRead, Take, StartTask, StartFails, Conclude, Teardown,
        TeardownEnd, ForceStop, Writer, Collect, Write
\* The worker and the other children stay as they are.
<1>3. ASSUME NEW t \in Task, UNCHANGED <<worker, to_kill, deaths>>,
             \A u \in Task : u # t => Held(u)' = Held(u) /\ child'[u] = child[u],
             child'[t] = "reaped" => Len(Held(t)') <= 1
      PROVE  ReadToTheEnd'
  BY <1>0, <1>3 DEF ReadToTheEnd
<1>4. ASSUME NEW t \in Task, HandleRuntask(t) PROVE ReadToTheEnd'
  <2>1. /\ \A u \in Task : Held(u)' = Held(u)
        /\ child' = [child EXCEPT ![t] = "forked"] /\ UNCHANGED <<worker, to_kill, deaths>>
    BY <1>4 DEF HandleRuntask, Held
  <2>2. child'[t] = "forked" /\ \A u \in Task : u # t => child'[u] = child[u]
    BY <1>0, <2>1 DEF Types
  <2> QED
    BY <2>1, <2>2, <1>3
<1>5. ASSUME NEW t \in Task, ReadChild(t) \/ FlushChild(t) PROVE ReadToTheEnd'
  <2>1. ReadPipe(t) /\ UNCHANGED <<queue, worker_pipe, worker_queue_int>>
        /\ UNCHANGED <<child, emitted, status, build_pids, worker, deaths>>
    BY <1>5 DEF ReadChild, FlushChild
  <2>2. Len(Held(t)') <= 1
    BY <2>1, ChildRead
  <2>3. \A u \in Task : u # t => Held(u)' = Held(u)
    BY <1>0, <2>1, ReadPipeEffect DEF ChildAt
  <2>4. \A u \in Task : u # t => (u \in to_kill <=> u \in to_kill')
    BY <1>5 DEF ReadChild, FlushChild
  <2> QED
    BY <1>0, <2>1, <2>2, <2>3, <2>4 DEF ReadToTheEnd
<1>6. ASSUME NEW t \in Task, Waitpid(t) PROVE ReadToTheEnd'
  <2>0. Aligned(Held(t)) /\ status[t] \in BOOLEAN
    BY <1>0, <1>6 DEF Waitpid, ChildAt
  <2>1. Held(t)' = <<>> /\ \A u \in Task : u # t => Held(u)' = Held(u)
    BY <1>0, <1>6, <2>0, WaitpidEffect
  <2>2. child' = [child EXCEPT ![t] = "reaped"] /\ UNCHANGED <<worker, to_kill, deaths>>
    BY <1>6 DEF Waitpid
  <2>3. \A u \in Task : u # t => child'[u] = child[u]
    BY <1>0, <2>2 DEF Types
  <2>4. Len(Held(t)') <= 1
    BY <2>1, EmptyBuffer
  <2> QED
    BY <2>1, <2>2, <2>3, <2>4, <1>3
<1>7. CASE worker' \in {"killing", "waiting"} \/ (worker' = "gone" /\ deaths' # 0)
  BY <1>7 DEF ReadToTheEnd
<1>8. CASE HandleFinishnow \/ \E t \in Task : Kill(t) \/ Reap(t)
  BY <1>7, <1>8 DEF HandleFinishnow, Kill, Reap
<1>9. CASE KillEnds
  <2>1. \A t \in Task : Held(t)' = Held(t)
    BY <1>9 DEF KillEnds, Held
  <2>2. worker' = "flushing" /\ to_kill' = build_pids /\ child' = child
    BY <1>9 DEF KillEnds
  <2>3. \A t \in Task : child[t] = "reaped" /\ t \notin build_pids => Len(Held(t)) <= 1
    BY <1>0, EmptyBuffer DEF ChildAt
  <2> QED
    BY <2>1, <2>2, <2>3 DEF ReadToTheEnd
<1>10. CASE FinishNowEnds \/ HandleQuit \/ WorkerExit
  <2>1. \A t \in Task : Held(t)' = Held(t)
    BY <1>10 DEF FinishNowEnds, HandleQuit, WorkerExit, Held
  <2>2. child' = child /\ (worker \in {"serving", "exiting"} \/ (worker = "flushing" /\ to_kill = {}))
    BY <1>10 DEF FinishNowEnds, HandleQuit, WorkerExit, Received
  <2> QED
    BY <1>0, <2>1, <2>2 DEF ReadToTheEnd
<1>11. CASE WorkerDies
  <2>1. worker' = "gone" /\ deaths' = deaths + 1 /\ deaths \in Nat
    BY <1>0, <1>11 DEF WorkerDies, Gone, Types
  <2> QED
    BY <2>1, <1>7
<1>12. ASSUME NEW t \in Task, Child(t) PROVE ReadToTheEnd'
  <2>1. CASE Setup(t) \/ ChildExit(t) \/ ChildKilled(t)
    <3>1. /\ \A u \in Task : Held(u)' = Held(u)
          /\ UNCHANGED <<worker, to_kill, deaths>>
          /\ \E c \in {"running", "dead"} : child' = [child EXCEPT ![t] = c]
      BY <2>1 DEF Setup, ChildExit, ChildKilled, Ends, Held, others
    <3>2. child'[t] # "reaped" /\ \A u \in Task : u # t => child'[u] = child[u]
      BY <1>0, <3>1 DEF Types
    <3> QED
      BY <3>1, <3>2, <1>3
  <2>2. CASE Fire(t)
    <3>1. /\ \A u \in Task : u # t => Held(u)' = Held(u) /\ child'[u] = child[u]
          /\ UNCHANGED <<worker, to_kill, deaths>> /\ child'[t] # "reaped"
      BY <2>2, FireEffect DEF others
    <3> QED
      BY <3>1, <1>3
  <2> QED
    BY <1>12, <2>1, <2>2 DEF Child
<1> QED
  BY <1>2, <1>4, <1>5, <1>6, <1>8, <1>9, <1>10, <1>11, <1>12 DEF Next, Worker

-----------------------------------------------------------------------------
(* What stays. *)

\* A process that was collected is not started again, and writes nothing more.
LEMMA ReapedStays ==
    ASSUME IInv, Next, NEW t \in Task, child[t] = "reaped"
    PROVE  child'[t] = "reaped" /\ status'[t] = status[t] /\ emitted'[t] = emitted[t]
<1> USE DEF cooker_vars, worker_vars, writer_vars, child_vars
<1>0. Types /\ StartedOnce
  BY DEF IInv
<1>1. CASE UNCHANGED <<child, status, emitted>>
  BY <1>1
<1>2. CASE Cooker \/ ForceStop \/ Writer
  BY <1>1, <1>2 DEF Cooker, Read, TeardownRead, Take, StartTask, StartFails, Conclude, Teardown,
        TeardownEnd, ForceStop, Writer, Collect, Write
<1>3. ASSUME NEW u \in Task, HandleRuntask(u)
      PROVE  child'[t] = "reaped" /\ status'[t] = status[t] /\ emitted'[t] = emitted[t]
  <2>1. stdin[1] = <<"runtask", u>> /\ 1 \in 1 .. Len(stdin)
    BY <1>0, <1>3, AfterHead DEF HandleRuntask
  <2>2. child[u] = "none"
    BY <1>0, <2>1 DEF StartedOnce
  <2> QED
    BY <2>2, <1>0, <1>3 DEF HandleRuntask, Types
<1>4. ASSUME NEW u \in Task, ReadChild(u) \/ FlushChild(u) \/ Kill(u)
      PROVE  child'[t] = "reaped" /\ status'[t] = status[t] /\ emitted'[t] = emitted[t]
  BY <1>1, <1>4 DEF ReadChild, FlushChild, Kill
<1>5. ASSUME NEW u \in Task, Waitpid(u) \/ Reap(u)
      PROVE  child'[t] = "reaped" /\ status'[t] = status[t] /\ emitted'[t] = emitted[t]
  BY <1>0, <1>5 DEF Waitpid, Reap, Types
<1>6. CASE HandleFinishnow \/ KillEnds \/ FinishNowEnds \/ HandleQuit \/ WorkerExit \/ WorkerDies
  BY <1>1, <1>6 DEF HandleFinishnow, KillEnds, FinishNowEnds, HandleQuit, WorkerExit, WorkerDies
<1>7. ASSUME NEW u \in Task, Setup(u) \/ ChildExit(u) \/ ChildKilled(u)
      PROVE  child'[t] = "reaped" /\ status'[t] = status[t] /\ emitted'[t] = emitted[t]
  BY <1>0, <1>7 DEF Setup, ChildExit, ChildKilled, Ends, Alive, Types
<1>8. ASSUME NEW u \in Task, Fire(u)
      PROVE  child'[t] = "reaped" /\ status'[t] = status[t] /\ emitted'[t] = emitted[t]
  BY <1>8, FireEffect
<1> QED
  BY <1>2, <1>3, <1>4, <1>5, <1>6, <1>7, <1>8 DEF Next, Worker, Child

\* A worker that is gone does not come back.
LEMMA GoneStays ==
    ASSUME IInv, Next
    PROVE  /\ worker = "gone" => worker' = "gone"
           /\ Intact' => Intact
           /\ deaths' = 0 => deaths = 0
           /\ worker' = "gone" => worker = "gone" \/ WorkerExit \/ WorkerDies
<1> USE DEF cooker_vars, worker_vars, writer_vars, child_vars
<1>0. deaths \in Nat
  BY DEF IInv, Types
<1>1. CASE UNCHANGED <<worker, deaths>>
  BY <1>1 DEF Intact
<1>2. CASE Cooker \/ ForceStop \/ Writer
  BY <1>1, <1>2 DEF Cooker, Read, TeardownRead, Take, StartTask, StartFails, Conclude, Teardown,
        TeardownEnd, ForceStop, Writer, Collect, Write
<1>3. ASSUME NEW u \in Task,
             HandleRuntask(u) \/ ReadChild(u) \/ FlushChild(u) \/ Waitpid(u)
      PROVE  UNCHANGED <<worker, deaths>>
  BY <1>3 DEF HandleRuntask, ReadChild, FlushChild, Waitpid
<1>4. CASE UNCHANGED deaths /\ worker # "gone" /\ worker' # "gone"
  BY <1>4 DEF Intact
<1>5. ASSUME NEW u \in Task, Kill(u) \/ Reap(u)
      PROVE  UNCHANGED deaths /\ worker # "gone" /\ worker' # "gone"
  BY <1>5 DEF Kill, Reap
<1>6. CASE HandleFinishnow \/ KillEnds \/ FinishNowEnds \/ HandleQuit
  BY <1>4, <1>6 DEF HandleFinishnow, KillEnds, FinishNowEnds, HandleQuit, Received
<1>7. CASE WorkerExit
  BY <1>7 DEF WorkerExit, Gone, Intact
<1>8. CASE WorkerDies
  BY <1>8, <1>0 DEF WorkerDies, Gone, Intact
<1>9. ASSUME NEW u \in Task, Child(u) PROVE UNCHANGED <<worker, deaths>>
  BY <1>9 DEF Child, Setup, Fire, ChildExit, ChildKilled, Ends, others
<1> QED
  BY <1>1, <1>2, <1>3, <1>4, <1>5, <1>6, <1>7, <1>8, <1>9 DEF Next, Worker

LEMMA ProperStays ==
    ASSUME IInv, Next, NEW m \in Message, Proper(m, child, status)
    PROVE  Proper(m, child', status')
<1>1. m.task \in Task
  BY DEF Message
<1> QED
  BY <1>1, ReapedStays DEF Proper

\* What the messages read from a child's pipe are
LEMMA HeldMessages ==
    ASSUME IInv, NEW t \in Task, NEW ms, ms = Messages(Held(t))
    PROVE  /\ ms \in Seq(Message)
           /\ \A i \in 1 .. Len(Flat(ms)) : Flat(ms)[i].msg = Event(t)
<1>0. Types /\ ChildAt(t) /\ Aligned(Held(t)) /\ Held(t) \in Seq(Piece)
  BY StreamTypes DEF IInv, ChildAt
<1>1. ms \in Seq(Message) /\ Rest(Held(t)) \in Seq(Piece) /\ Held(t) = Flat(ms) \o Rest(Held(t))
  BY <1>0, ReadBuffer
<1>2. Flat(ms) \in Seq(Piece)
  BY <1>1, FlatAt
<1> DEFINE r == Rest(Held(t))
<1> HIDE DEF r
<1>3. Held(t) = Flat(ms) \o r /\ r \in Seq(Piece)
  BY <1>1 DEF r
<1>4. Len(Held(t)) = Len(Flat(ms)) + Len(r) /\ Len(Flat(ms)) \in Nat /\ Len(r) \in Nat
  <2>1. Len(Flat(ms) \o r) = Len(Flat(ms)) + Len(r)
    BY <1>2, <1>3, ConcatProperties
  <2> QED
    BY <2>1, <1>2, <1>3
<1>5. ASSUME NEW i \in 1 .. Len(Flat(ms)) PROVE Flat(ms)[i].msg = Event(t)
  <2>1. i \in 1 .. Len(Held(t)) /\ i \in Nat /\ 1 <= i /\ i <= Len(Flat(ms))
    BY <1>4
  <2>2. (Flat(ms) \o r)[i] = Flat(ms)[i]
    <3>1. \A k \in Nat : 1 <= k /\ k <= Len(Flat(ms)) => (Flat(ms) \o r)[k] = Flat(ms)[k]
      BY <1>2, <1>3, ConcatSecond
    <3> QED
      BY <3>1, <2>1
  <2> QED
    BY <2>1, <2>2, <1>0, <1>3 DEF ChildAt
<1> QED
  BY <1>1, <1>5

-----------------------------------------------------------------------------
(* The stream keeps its form. *)

LEMMA StreamKept ==
    ASSUME IInv, Next, Stream' = Stream, Len(queue') <= 1, Len(worker_pipe') <= PipeSize,
           worker' = "gone" => worker_queue' = <<>> /\ worker_queue_int' = <<>>
    PROVE  StreamInv'
<1>1. Stream \in Seq(Piece) /\ StreamInv
  BY StreamTypes DEF IInv
<1>2. \A i \in 1 .. Len(Stream) : Stream[i].msg \in Message
  BY <1>1, PieceTypes
<1>3. \A i \in 1 .. Len(Stream) : Proper(Stream[i].msg, child', status')
  BY <1>1, <1>2, ProperStays DEF StreamInv
<1>4. Intact' => Intact
  BY GoneStays
<1> QED
  BY <1>1, <1>3, <1>4 DEF StreamInv

LEMMA StreamAppended ==
    ASSUME IInv, Next, worker # "gone", NEW r \in Seq(Piece), Aligned(r), Even(r),
           Stream' = Stream \o r, UNCHANGED <<queue, worker_pipe, worker>>,
           \A i \in 1 .. Len(r) : Proper(r[i].msg, child', status')
    PROVE  StreamInv'
<1>1. Stream \in Seq(Piece) /\ StreamInv /\ Even(Stream) /\ Aligned(Stream)
  BY StreamTypes DEF IInv, StreamInv, Intact
<1>2. /\ Len(Stream \o r) = Len(Stream) + Len(r) /\ Len(Stream) \in Nat /\ Len(r) \in Nat
      /\ \A i \in 1 .. Len(Stream) + Len(r) :
            (Stream \o r)[i] = IF i <= Len(Stream) THEN Stream[i] ELSE r[i - Len(Stream)]
  BY <1>1, ConcatProperties
<1>3. Aligned(Stream')
  BY <1>1, AlignedConcat
<1>4. Even(Stream')
  <2>1. PICK h \in Nat : Len(Stream) = 2 * h
    BY <1>1 DEF Even
  <2>2. PICK k \in Nat : Len(r) = 2 * k
    BY DEF Even
  <2>3. Len(Stream') = 2 * (h + k) /\ h + k \in Nat
    BY <2>1, <2>2, <1>2
  <2> QED
    BY <2>3 DEF Even
<1>5. \A i \in 1 .. Len(Stream) : Proper(Stream[i].msg, child', status')
  <2>1. \A i \in 1 .. Len(Stream) : Stream[i].msg \in Message
    BY <1>1, PieceTypes
  <2> QED
    BY <1>1, <2>1, ProperStays DEF StreamInv
<1>6. ASSUME NEW i \in 1 .. Len(Stream') PROVE Proper(Stream'[i].msg, child', status')
  <2>1. i \in 1 .. Len(Stream) + Len(r)
    BY <1>2
  <2>2. CASE i <= Len(Stream)
    <3>1. i \in 1 .. Len(Stream) /\ Stream'[i] = Stream[i]
      BY <2>1, <2>2, <1>2
    <3> QED
      BY <3>1, <1>5
  <2>3. CASE ~ (i <= Len(Stream))
    <3>1. i - Len(Stream) \in 1 .. Len(r) /\ Stream'[i] = r[i - Len(Stream)]
      BY <2>1, <2>3, <1>2
    <3> QED
      BY <3>1
  <2> QED
    BY <2>2, <2>3
<1> QED
  BY <1>1, <1>3, <1>4, <1>6 DEF StreamInv

\* What the cooker has not taken
LEMMA StreamTaken ==
    ASSUME IInv, Next, NEW r \in Seq(Piece), Even(r), Stream = r \o Stream',
           Stream' \in Seq(Piece), Len(queue') <= 1, worker_pipe' = <<>>,
           UNCHANGED <<worker, worker_queue, worker_queue_int>>
    PROVE  StreamInv'
<1> DEFINE S == Stream'
<1>0. S \in Seq(Piece) /\ Stream = r \o S
  OBVIOUS
<1>1. Stream \in Seq(Piece) /\ StreamInv /\ Aligned(Stream)
  BY StreamTypes DEF IInv, StreamInv
<1> HIDE DEF S
<1>2. /\ Len(Stream) = Len(r) + Len(S) /\ Len(S) \in Nat /\ Len(r) \in Nat
  <2>1. Len(r \o S) = Len(r) + Len(S)
    BY <1>0, ConcatProperties
  <2> QED
    BY <1>0, <2>1
<1>3. Aligned(S)
  BY <1>0, <1>1, AlignedConcat
<1>4. Even(Stream) => Even(S)
  <2> SUFFICES ASSUME Even(Stream) PROVE Even(S)
    OBVIOUS
  <2>1. PICK h \in Nat : Len(Stream) = 2 * h
    BY DEF Even
  <2>2. PICK k \in Nat : Len(r) = 2 * k
    BY DEF Even
  <2>3. Len(S) = 2 * (h - k) /\ h - k \in Nat
    BY <2>1, <2>2, <1>2
  <2> QED
    BY <2>3 DEF Even
<1>5. ASSUME NEW i \in 1 .. Len(S) PROVE Proper(S[i].msg, child', status')
  <2>1. i + Len(r) \in 1 .. Len(Stream) /\ i \in Nat /\ 1 <= i /\ i <= Len(S)
    BY <1>2
  <2>2. Stream[i + Len(r)] = S[i]
    <3>1. \A k \in Nat : 1 <= k /\ k <= Len(S) => (r \o S)[k + Len(r)] = S[k]
      BY <1>0, ConcatSecond
    <3> QED
      BY <3>1, <2>1, <1>0
  <2>3. S[i].msg \in Message
    BY <1>0, PieceTypes
  <2>4. Proper(S[i].msg, child, status)
    BY <1>1, <2>1, <2>2 DEF StreamInv
  <2> QED
    BY <2>3, <2>4, ProperStays
<1>6. Intact' => Intact
  BY GoneStays
<1>7. Len(worker_pipe') <= PipeSize
  BY WorkerPipeAssumption, EmptyBuffer
<1> QED
  BY <1>1, <1>3, <1>4, <1>5, <1>6, <1>7 DEF StreamInv, S

\* When the worker dies, what has arrived is left.
LEMMA StreamCut ==
    ASSUME IInv, WorkerDies
    PROVE  /\ StreamInv'
           /\ Stream' \in Seq(Piece) /\ worker_queue_int \o Flat(worker_queue) \in Seq(Piece)
           /\ Stream = Stream' \o (worker_queue_int \o Flat(worker_queue))
<1> DEFINE B == worker_queue_int \o Flat(worker_queue)
<1>0. Types /\ StreamInv /\ Stream \in Seq(Piece) /\ Arrived \in Seq(Piece)
  BY StreamTypes DEF IInv
<1>1. Stream = Arrived \o B /\ B \in Seq(Piece)
  BY <1>0, ArrivedFirst
<1>2. /\ worker_queue' = <<>> /\ worker_queue_int' = <<>> /\ worker' = "gone" /\ deaths' = deaths + 1
      /\ UNCHANGED <<queue, worker_pipe>>
  BY DEF WorkerDies, Gone, cooker_vars
<1>3. Stream' = Arrived
  <2>1. Arrived' = Arrived
    BY <1>2 DEF Arrived
  <2>2. Flat(<<>>) = <<>>
    <3>1. <<>> \in Seq(Message) /\ Len(<<>>) = 0
      BY EmptySeq
    <3>2. Flat(<<>>) \in Seq(Piece) /\ Len(Flat(<<>>)) = 2 * 0
      BY <3>1, FlatAt
    <3> QED
      BY <3>2
  <2>3. Stream' = (Arrived \o <<>>) \o <<>>
    BY <1>2, <2>1, <2>2 DEF Stream
  <2> QED
    BY <1>0, <2>3, ConcatEmptySeq
<1>4. Aligned(Arrived)
  <2> HIDE DEF B
  <2> QED
    BY <1>0, <1>1, AlignedFront DEF StreamInv
<1> HIDE DEF B
<1>5. ASSUME NEW i \in 1 .. Len(Arrived) PROVE Proper(Arrived[i].msg, child', status')
  <2>1. i \in 1 .. Len(Stream) /\ i \in Nat /\ 1 <= i /\ i <= Len(Arrived)
    <3>1. Len(Arrived \o B) = Len(Arrived) + Len(B) /\ Len(B) \in Nat /\ Len(Arrived) \in Nat
      BY <1>0, <1>1, ConcatProperties
    <3> QED
      BY <3>1, <1>1
  <2>2. Stream[i] = Arrived[i]
    <3>1. \A k \in Nat : 1 <= k /\ k <= Len(Arrived) => (Arrived \o B)[k] = Arrived[k]
      BY <1>0, <1>1, ConcatSecond
    <3> QED
      BY <3>1, <2>1, <1>1
  <2>3. Arrived[i].msg \in Message
    BY <1>0, PieceTypes
  <2>4. Proper(Arrived[i].msg, child, status)
    BY <1>0, <2>1, <2>2 DEF StreamInv
  <2> QED
    BY <2>3, <2>4, ProperStays DEF Next
<1>6. ~ Intact'
  BY <1>0, <1>2 DEF Intact, Types
<1> QED
  BY <1>0, <1>1, <1>2, <1>3, <1>4, <1>5, <1>6 DEF StreamInv, B

\* What process_waitpid puts at the end of the stream
LEMMA WaitpidPieces ==
    ASSUME IInv, NEW t \in Task, Waitpid(t)
    PROVE  \E f, r \in Seq(Piece) :
             /\ f = Flat(Messages(Held(t)))
             /\ Len(r) = Len(f) + 2
             /\ \A i \in 1 .. Len(f) : r[i] = f[i] /\ r[i].msg = Event(t)
             /\ r[Len(f) + 1] = Begin(ExitCode(t))
             /\ r[Len(f) + 2] = End(ExitCode(t))
             /\ r = f \o <<Begin(ExitCode(t)), End(ExitCode(t))>>
             /\ Stream' = Stream \o r
             /\ Aligned(r) /\ Even(r)
             /\ ExitCode(t) \in Message
<1> DEFINE ms == Messages(Held(t))
           r == Flat(ms) \o <<Begin(ExitCode(t)), End(ExitCode(t))>>
<1>a. ms = Messages(Held(t)) /\ r = Flat(ms) \o <<Begin(ExitCode(t)), End(ExitCode(t))>>
  OBVIOUS
<1>b. \A i \in 1 .. Len(Flat(ms)) : Flat(ms)[i].msg = Event(t)
  BY HeldMessages
<1>c. Types /\ Aligned(Held(t)) /\ status[t] \in BOOLEAN /\ Held(t) \in Seq(Piece)
  BY StreamTypes DEF IInv, ChildAt, Waitpid
<1>d. ms \in Seq(Message) /\ ExitCode(t) \in Message /\ Stream' = Stream \o r
  BY <1>c, WaitpidEffect
<1> HIDE DEF ms, r
<1> DEFINE e == <<ExitCode(t)>>
           x == <<Begin(ExitCode(t)), End(ExitCode(t))>>
<1>2. Begin(ExitCode(t)) \in Piece /\ End(ExitCode(t)) \in Piece
  BY <1>d, PieceTypes
<1>3. /\ x \in Seq(Piece) /\ Len(x) = 2
      /\ x[1] = Begin(ExitCode(t)) /\ x[2] = End(ExitCode(t))
  BY <1>2
<1>4. e \in Seq(Message) /\ Flat(e) = x
  BY <1>d, FlatOne
<1> HIDE DEF e, x
<1>5. Flat(ms) \in Seq(Piece) /\ Len(Flat(ms)) \in Nat
  BY <1>d, FlatAt
<1>6. r = Flat(ms) \o x
  BY <1>a DEF x
<1>7. Aligned(r) /\ Even(r)
  <2>1. r = Flat(ms \o e)
    BY <1>d, <1>4, <1>6, FlatConcat
  <2>2. ms \o e \in Seq(Message)
    BY <1>d, <1>4, ConcatProperties
  <2> QED
    BY <2>1, <2>2, FlatAligned
<1>8. r \in Seq(Piece) /\ Len(r) = Len(Flat(ms)) + 2
  <2>1. r \in Seq(Piece) /\ Len(r) = Len(Flat(ms)) + Len(x)
    BY <1>3, <1>5, <1>6, ConcatProperties
  <2> QED
    BY <2>1, <1>3
<1>9. /\ \A k \in Nat : 1 <= k /\ k <= Len(Flat(ms)) => r[k] = Flat(ms)[k]
      /\ \A k \in Nat : 1 <= k /\ k <= Len(x) => r[k + Len(Flat(ms))] = x[k]
  BY <1>3, <1>5, <1>6, ConcatSecond
<1>10. r[1 + Len(Flat(ms))] = x[1] /\ r[2 + Len(Flat(ms))] = x[2]
  BY <1>3, <1>9, 1 \in Nat, 2 \in Nat
<1>11. 1 + Len(Flat(ms)) = Len(Flat(ms)) + 1 /\ 2 + Len(Flat(ms)) = Len(Flat(ms)) + 2
  BY <1>5
<1>12. \A i \in 1 .. Len(Flat(ms)) : r[i] = Flat(ms)[i] /\ r[i].msg = Event(t)
  BY <1>9, <1>5, <1>b
<1>13. /\ Flat(ms) = Flat(Messages(Held(t)))
       /\ Len(r) = Len(Flat(ms)) + 2
       /\ \A i \in 1 .. Len(Flat(ms)) : r[i] = Flat(ms)[i] /\ r[i].msg = Event(t)
       /\ r[Len(Flat(ms)) + 1] = Begin(ExitCode(t))
       /\ r[Len(Flat(ms)) + 2] = End(ExitCode(t))
       /\ r = Flat(ms) \o <<Begin(ExitCode(t)), End(ExitCode(t))>>
       /\ Stream' = Stream \o r
       /\ Aligned(r) /\ Even(r)
       /\ ExitCode(t) \in Message
  BY <1>a, <1>d, <1>3, <1>7, <1>8, <1>10, <1>11, <1>12
<1>14. Flat(ms) \in Seq(Piece) /\ r \in Seq(Piece)
  BY <1>5, <1>8
<1> HIDE DEF x
<1> QED
  BY <1>13, <1>14

LEMMA StepStream ==
    ASSUME IInv, Next
    PROVE  StreamInv'
<1> USE DEF cooker_vars, worker_vars, writer_vars, child_vars
<1>0. Types /\ StreamInv /\ Aligned(Stream) /\ \A t \in Task : ChildAt(t)
  BY DEF IInv, StreamInv
<1>1. CASE /\ UNCHANGED <<queue, worker_pipe, worker_queue, worker_queue_int>>
           /\ worker' = "gone" => worker = "gone" \/ (worker_queue = <<>> /\ worker_queue_int = <<>>)
  <2>1. Stream' = Stream
    BY <1>1 DEF Stream, Arrived
  <2> QED
    BY <1>0, <1>1, <2>1, StreamKept DEF StreamInv
<1>2. CASE UNCHANGED <<queue, worker_pipe, worker_queue, worker_queue_int, worker>>
  BY <1>1, <1>2
<1>3. CASE Read \/ TeardownRead
  <2>1. Take /\ UNCHANGED <<worker, worker_queue, worker_queue_int>>
    BY <1>3 DEF Read, TeardownRead
  <2> DEFINE ms == Messages(Arrived)
  <2>2. /\ ms \in Seq(Message) /\ Stream' \in Seq(Piece) /\ Stream = Flat(ms) \o Stream'
        /\ Len(queue') <= 1 /\ worker_pipe' = <<>>
    BY <1>0, <2>1, TakeEffect
  <2> HIDE DEF ms
  <2>3. Flat(ms) \in Seq(Piece) /\ Even(Flat(ms))
    BY <2>2, FlatAt, FlatAligned
  <2> QED
    BY <2>1, <2>2, <2>3, StreamTaken
<1>4. CASE StartFails \/ Conclude \/ Teardown \/ TeardownEnd \/ ForceStop
           \/ \E t \in Task : StartTask(t)
  BY <1>2, <1>4 DEF StartFails, Conclude, Teardown, TeardownEnd, ForceStop, StartTask
<1>5. ASSUME NEW t \in Task, HandleRuntask(t) PROVE StreamInv'
  BY <1>2, <1>5 DEF HandleRuntask
<1>6. ASSUME NEW t \in Task, ReadChild(t) \/ FlushChild(t) PROVE StreamInv'
  <2>1. ReadPipe(t) /\ UNCHANGED <<queue, worker_pipe, worker_queue_int, worker>>
        /\ worker # "gone"
    BY <1>6 DEF ReadChild, FlushChild
  <2> DEFINE ms == Messages(Held(t))
  <2>2. ms \in Seq(Message) /\ Stream' = Stream \o Flat(ms)
    BY <1>0, <2>1, ReadPipeEffect DEF ChildAt
  <2>3. \A i \in 1 .. Len(Flat(ms)) : Flat(ms)[i].msg = Event(t)
    BY HeldMessages
  <2> HIDE DEF ms
  <2>4. Flat(ms) \in Seq(Piece) /\ Aligned(Flat(ms)) /\ Even(Flat(ms))
    BY <2>2, FlatAt, FlatAligned
  <2>5. Proper(Event(t), child', status')
    BY PieceTypes DEF Proper
  <2> QED
    BY <2>1, <2>2, <2>3, <2>4, <2>5, StreamAppended
<1>7. ASSUME NEW t \in Task, Waitpid(t) PROVE StreamInv'
  <2>1. UNCHANGED <<queue, worker_pipe, worker>> /\ worker # "gone"
        /\ child' = [child EXCEPT ![t] = "reaped"] /\ status' = status
    BY <1>7 DEF Waitpid
  <2>2. PICK f, r \in Seq(Piece) :
             /\ Len(r) = Len(f) + 2
             /\ \A i \in 1 .. Len(f) : r[i] = f[i] /\ r[i].msg = Event(t)
             /\ r[Len(f) + 1] = Begin(ExitCode(t))
             /\ r[Len(f) + 2] = End(ExitCode(t))
             /\ Stream' = Stream \o r
             /\ Aligned(r) /\ Even(r)
    BY <1>7, WaitpidPieces
  <2>3. Proper(Event(t), child', status')
    BY PieceTypes DEF Proper
  <2>4. Proper(ExitCode(t), child', status')
    <3>1. child'[t] = "reaped" /\ status'[t] = status[t]
      BY <1>0, <2>1 DEF Types
    <3> QED
      BY <3>1 DEF Proper, ExitCode
  <2>5. \A i \in 1 .. Len(r) : i \in 1 .. Len(f) \/ i = Len(f) + 1 \/ i = Len(f) + 2
    BY <2>2
  <2>6. Begin(ExitCode(t)).msg = ExitCode(t) /\ End(ExitCode(t)).msg = ExitCode(t)
    BY DEF Begin, End
  <2>7. \A i \in 1 .. Len(r) : Proper(r[i].msg, child', status')
    BY <2>2, <2>3, <2>4, <2>5, <2>6
  <2> QED
    BY <2>1, <2>2, <2>7, StreamAppended
<1>8. ASSUME NEW t \in Task, Kill(t) \/ Reap(t) PROVE StreamInv'
  BY <1>1, <1>8 DEF Kill, Reap
<1>9. CASE HandleFinishnow \/ KillEnds \/ FinishNowEnds \/ HandleQuit \/ WorkerExit
  BY <1>1, <1>9 DEF HandleFinishnow, KillEnds, FinishNowEnds, HandleQuit, WorkerExit, Gone
<1>10. CASE WorkerDies
  BY <1>10, StreamCut
<1>11. CASE Writer
  <2>1. Stream' = Stream
    BY <1>0, <1>11, WriterKeepsStream
  <2>2. UNCHANGED <<queue, worker>> /\ worker # "gone"
    BY <1>11 DEF Writer, Collect, Write
  <2>3. Len(worker_pipe') <= PipeSize
    <3>1. CASE Collect
      BY <1>0, <3>1 DEF Collect, StreamInv
    <3>2. CASE Write
      <4>1. PICK n \in 1 .. Len(worker_queue_int) :
               /\ Len(worker_pipe) + n <= PipeSize
               /\ worker_pipe' = worker_pipe \o SubSeq(worker_queue_int, 1, n)
        BY <3>2 DEF Write
      <4>2. worker_pipe \in Seq(Piece) /\ worker_queue_int \in Seq(Piece)
        BY <1>0 DEF Types
      <4>3. SubSeq(worker_queue_int, 1, n) \in Seq(Piece) /\ Len(SubSeq(worker_queue_int, 1, n)) = n
        BY <4>2
      <4>4. Len(worker_pipe') = Len(worker_pipe) + n
        BY <4>1, <4>2, <4>3, ConcatProperties
      <4> QED
        BY <4>1, <4>4
    <3> QED
      BY <1>11, <3>1, <3>2 DEF Writer
  <2> QED
    BY <1>0, <2>1, <2>2, <2>3, StreamKept DEF StreamInv
<1>12. ASSUME NEW t \in Task, Child(t) PROVE StreamInv'
  BY <1>2, <1>12 DEF Child, Setup, Fire, ChildExit, ChildKilled, Ends, others
<1> QED
  BY <1>3, <1>4, <1>5, <1>6, <1>7, <1>8, <1>9, <1>10, <1>11, <1>12
  DEF Next, Cooker, Worker

-----------------------------------------------------------------------------
(* Every event is in one place. *)

\* What the steps do to the stream, to the counts and to what the worker holds
LEMMA StepKinds ==
    ASSUME IInv, Next
    PROVE  \/ /\ Stream' = Stream /\ UNCHANGED <<fired, reported, emitted>>
              /\ \A u \in Task : Held(u)' = Held(u)
           \/ \E t \in Task : Fire(t)
           \/ Take /\ UNCHANGED <<worker_queue, worker_queue_int, build_pipes, worker, child_vars,
                                  deaths>>
           \/ \E t \in Task : /\ ReadPipe(t) /\ worker # "gone"
                              /\ UNCHANGED <<queue, worker_pipe, worker_queue_int, fired, reported,
                                             emitted, worker>>
           \/ \E t \in Task : Waitpid(t)
           \/ WorkerDies
<1> USE DEF cooker_vars, worker_vars, writer_vars, child_vars
<1>0. Types
  BY DEF IInv
<1>1. CASE UNCHANGED <<queue, worker_pipe, worker_queue, worker_queue_int, fired, reported,
                       emitted, build_pipes, child_pipe>>
  BY <1>1 DEF Stream, Arrived, Held
<1>2. CASE Read \/ TeardownRead
  BY <1>2 DEF Read, TeardownRead
<1>3. CASE StartFails \/ Conclude \/ Teardown \/ TeardownEnd \/ ForceStop
           \/ \E t \in Task : StartTask(t)
  BY <1>1, <1>3 DEF StartFails, Conclude, Teardown, TeardownEnd, ForceStop, StartTask
<1>4. CASE \E t \in Task : HandleRuntask(t) \/ Kill(t) \/ Reap(t)
  BY <1>1, <1>4 DEF HandleRuntask, Kill, Reap
<1>5. CASE \E t \in Task : ReadChild(t) \/ FlushChild(t)
  BY <1>5 DEF ReadChild, FlushChild
<1>6. CASE HandleFinishnow \/ KillEnds \/ FinishNowEnds \/ HandleQuit \/ WorkerExit
  BY <1>1, <1>6 DEF HandleFinishnow, KillEnds, FinishNowEnds, HandleQuit, WorkerExit, Gone
<1>7. CASE Writer
  <2>1. Stream' = Stream
    BY <1>0, <1>7, WriterKeepsStream
  <2>2. UNCHANGED <<fired, reported, emitted, build_pipes, child_pipe>>
    BY <1>7 DEF Writer, Collect, Write
  <2> QED
    BY <2>1, <2>2 DEF Held
<1>8. CASE \E t \in Task : Setup(t) \/ ChildExit(t) \/ ChildKilled(t)
  BY <1>1, <1>8 DEF Setup, ChildExit, ChildKilled, Ends, others
<1> QED
  BY <1>2, <1>3, <1>4, <1>5, <1>6, <1>7, <1>8 DEF Next, Cooker, Worker, Child

LEMMA NoneIn ==
    ASSUME NEW s \in Seq(Piece), NEW m \in Message, \A i \in 1 .. Len(s) : s[i].msg # m
    PROVE  \A p \in Int : Before(s, p, End(m)) = 0
<1>1. \A i \in 1 .. Len(s) : s[i] # End(m)
  BY PieceTypes
<1> QED
  BY <1>1, BeforeNone

\* An event counts once, when its second piece is there.
LEMMA CountOnePiece ==
    ASSUME NEW m \in Message
    PROVE  /\ CountIn(<<Begin(m)>>, End(m)) = 0 /\ CountIn(<<End(m)>>, End(m)) = 1
           /\ \A k \in Message : k # m =>
                 CountIn(<<Begin(m)>>, End(k)) = 0 /\ CountIn(<<End(m)>>, End(k)) = 0
<1>1. Begin(m) \in Piece /\ End(m) \in Piece /\ Begin(m) # End(m)
  BY PieceTypes
<1>2. \A k \in Message : k # m => Begin(m) # End(k) /\ End(m) # End(k)
  BY PieceTypes
<1> QED
  BY <1>1, <1>2, CountOne

LEMMA EventsDiffer ==
    \A t, u \in Task : /\ Event(t) = Event(u) => t = u
                       /\ ExitCode(t) # Event(u)
<1> SUFFICES ASSUME NEW t \in Task, NEW u \in Task
             PROVE  (Event(t) = Event(u) => t = u) /\ ExitCode(t) # Event(u)
  OBVIOUS
<1>1. Event(t).task = t /\ Event(u).task = u /\ Event(u).kind = "event"
  BY PieceTypes
<1>2. ExitCode(t).kind = "exitcode"
  BY DEF ExitCode
<1> QED
  BY <1>1, <1>2

LEMMA CountTypes ==
    ASSUME Types
    PROVE  \A t \in Task : /\ fired[t] \in Nat /\ emitted[t] \in Nat
                           /\ CountIn(Stream, End(Event(t))) \in Nat
                           /\ CountIn(Held(t), End(Event(t))) \in Nat
<1>1. \A t \in Task : fired[t] \in Nat /\ emitted[t] \in Nat
  BY DEF Types
<1>2. \A t \in Task : CountIn(Stream, End(Event(t))) \in Nat
  BY StreamTypes, BeforeLeast, 0 \in Int
<1>3. \A t \in Task : CountIn(Held(t), End(Event(t))) \in Nat
  BY StreamTypes, BeforeLeast, 0 \in Int
<1> QED
  BY <1>1, <1>2, <1>3

\* The pieces read from one child: no event of another is among them.
LEMMA HeldCount ==
    ASSUME IInv, NEW t \in Task
    PROVE  /\ Flat(Messages(Held(t))) \in Seq(Piece)
           /\ \A u \in Task : u # t => CountIn(Flat(Messages(Held(t))), End(Event(u))) = 0
           /\ \A u \in Task : u # t =>
                 \A p \in Int : Before(Flat(Messages(Held(t))), p, End(Event(u))) = 0
           /\ \A u \in Task : CountIn(Rest(Held(t)), End(Event(u))) = 0
           /\ CountIn(Held(t), End(Event(t))) = CountIn(Flat(Messages(Held(t))), End(Event(t)))
<1> DEFINE ms == Messages(Held(t))
           f == Flat(ms)
           r == Rest(Held(t))
<1>1. Held(t) \in Seq(Piece) /\ Aligned(Held(t))
  BY StreamTypes DEF IInv, ChildAt
<1>2. \A i \in 1 .. Len(f) : f[i].msg = Event(t)
  BY HeldMessages
<1>3. /\ ms \in Seq(Message) /\ r \in Seq(Piece) /\ Held(t) = f \o r
      /\ \A m \in Message : CountIn(r, End(m)) = 0
  BY <1>1, ReadBuffer
<1> HIDE DEF ms, r
<1>4. f \in Seq(Piece) /\ Len(f) \in Int
  BY <1>3, FlatAt
<1>5. \A u \in Task : Event(u) \in Message
  BY PieceTypes
<1> HIDE DEF f
<1>6. ASSUME NEW u \in Task, u # t PROVE \A p \in Int : Before(f, p, End(Event(u))) = 0
  <2>1. \A i \in 1 .. Len(f) : f[i].msg # Event(u)
    BY <1>2, <1>6, EventsDiffer
  <2> QED
    BY <2>1, <1>4, <1>5, NoneIn
<1>7. \A u \in Task : u # t => CountIn(f, End(Event(u))) = 0
  BY <1>4, <1>6 DEF CountIn
<1>8. CountIn(f, End(Event(t))) \in Nat
  BY <1>4, BeforeLeast, 0 \in Int
<1>9. CountIn(Held(t), End(Event(t))) = CountIn(f, End(Event(t)))
  <2>1. CountIn(f \o r, End(Event(t))) = CountIn(f, End(Event(t))) + CountIn(r, End(Event(t)))
    BY <1>3, <1>4, CountConcat
  <2> QED
    BY <2>1, <1>3, <1>5, <1>8
<1> QED
  BY <1>3, <1>4, <1>5, <1>6, <1>7, <1>9 DEF f, ms, r

LEMMA CountedKept ==
    ASSUME IInv, Next, \A t \in Task : Known(t)' = Known(t) /\ emitted'[t] = emitted[t]
    PROVE  Counted'
<1>1. Intact' => Intact
  BY GoneStays
<1> QED
  BY <1>1 DEF IInv, Counted

LEMMA TakeCounted ==
    ASSUME IInv, Next, Take,
           UNCHANGED <<worker_queue, worker_queue_int, build_pipes, child_pipe, emitted>>
    PROVE  Counted'
<1> DEFINE ms == Messages(Arrived)
           R == Stream'
<1>0. Types /\ Aligned(Stream)
  BY DEF IInv, StreamInv
<1>1. /\ ms \in Seq(Message) /\ R \in Seq(Piece) /\ Stream = Flat(ms) \o R
      /\ fired' = [t \in Task |-> fired[t] + CountIn(Flat(ms), End(Event(t)))]
  BY <1>0, TakeEffect
<1>2. Flat(ms) \in Seq(Piece)
  BY <1>1, FlatAt
<1>3. R = Stream'
  OBVIOUS
<1> HIDE DEF ms, R
<1>4. ASSUME NEW t \in Task PROVE Known(t)' = Known(t)
  <2> DEFINE e == End(Event(t))
  <2>1. CountIn(Flat(ms) \o R, e) = CountIn(Flat(ms), e) + CountIn(R, e)
    BY <1>1, <1>2, CountConcat
  <2>2. fired'[t] = fired[t] + CountIn(Flat(ms), e)
    BY <1>1
  <2>3. Held(t)' = Held(t)
    BY DEF Held
  <2>4. /\ fired[t] \in Nat /\ CountIn(Held(t), e) \in Nat
        /\ CountIn(Flat(ms), e) \in Nat /\ CountIn(R, e) \in Nat
    BY <1>0, <1>1, <1>2, CountTypes, BeforeLeast, 0 \in Int
  <2>5. Known(t) = (fired[t] + CountIn(Stream, e)) + CountIn(Held(t), e)
    BY DEF Known
  <2>6. Known(t)' = (fired'[t] + CountIn(R, e)) + CountIn(Held(t), e)
    BY <1>3, <2>3 DEF Known
  <2> HIDE DEF e
  <2>7. CountIn(Stream, e) = CountIn(Flat(ms), e) + CountIn(R, e)
    BY <1>1, <2>1
  <2> QED
    BY <2>2, <2>4, <2>5, <2>6, <2>7
<1> QED
  BY <1>4, CountedKept

LEMMA ReadCounted ==
    ASSUME IInv, Next, NEW t \in Task, ReadPipe(t),
           UNCHANGED <<queue, worker_pipe, worker_queue_int, fired, emitted>>
    PROVE  Counted'
<1> DEFINE ms == Messages(Held(t))
           f == Flat(ms)
<1>0. Types /\ Aligned(Held(t)) /\ Stream \in Seq(Piece)
  BY StreamTypes DEF IInv, ChildAt
<1>1. /\ Stream' = Stream \o f /\ Held(t)' = Rest(Held(t))
      /\ \A u \in Task : u # t => Held(u)' = Held(u)
  BY <1>0, ReadPipeEffect
<1>2. /\ f \in Seq(Piece)
      /\ \A u \in Task : u # t => CountIn(f, End(Event(u))) = 0
      /\ \A u \in Task : CountIn(Rest(Held(t)), End(Event(u))) = 0
      /\ CountIn(Held(t), End(Event(t))) = CountIn(f, End(Event(t)))
  BY HeldCount
<1> HIDE DEF ms, f
<1>3. ASSUME NEW u \in Task PROVE Known(u)' = Known(u)
  <2> DEFINE e == End(Event(u))
  <2>1. CountIn(Stream \o f, e) = CountIn(Stream, e) + CountIn(f, e)
    BY <1>0, <1>2, CountConcat
  <2>2. Known(u)' = (fired[u] + CountIn(Stream \o f, e)) + CountIn(Held(u)', e)
    BY <1>1 DEF Known
  <2>3. Known(u) = (fired[u] + CountIn(Stream, e)) + CountIn(Held(u), e)
    BY DEF Known
  <2>4. /\ fired[u] \in Nat /\ CountIn(Stream, e) \in Nat
        /\ CountIn(Held(u), e) \in Nat
    BY <1>0, CountTypes
  <2>5. CASE u = t
    <3>1. CountIn(Held(u)', e) = 0 /\ CountIn(Held(u), e) = CountIn(f, e)
      BY <1>1, <1>2, <2>5
    <3> HIDE DEF e
    <3> QED
      BY <2>1, <2>2, <2>3, <2>4, <3>1
  <2>6. CASE u # t
    <3>1. Held(u)' = Held(u) /\ CountIn(f, e) = 0
      BY <1>1, <1>2, <2>6
    <3> HIDE DEF e
    <3> QED
      BY <2>1, <2>2, <2>3, <2>4, <3>1
  <2> QED
    BY <2>5, <2>6
<1> QED
  BY <1>3, CountedKept

LEMMA WaitpidCounted ==
    ASSUME IInv, Next, NEW t \in Task, Waitpid(t)
    PROVE  Counted'
<1> DEFINE x == <<Begin(ExitCode(t)), End(ExitCode(t))>>
<1>0. Types /\ Aligned(Held(t)) /\ Stream \in Seq(Piece) /\ status[t] \in BOOLEAN
  BY StreamTypes DEF IInv, ChildAt, Waitpid
<1>1. PICK f, r \in Seq(Piece) : /\ f = Flat(Messages(Held(t)))
                                 /\ r = f \o x /\ Stream' = Stream \o r /\ ExitCode(t) \in Message
  BY WaitpidPieces
<1>2. Held(t)' = <<>> /\ \A u \in Task : u # t => Held(u)' = Held(u)
  BY <1>0, WaitpidEffect
<1>3. /\ \A u \in Task : u # t => CountIn(f, End(Event(u))) = 0
      /\ CountIn(Held(t), End(Event(t))) = CountIn(f, End(Event(t)))
  BY <1>1, HeldCount
<1>4. x \in Seq(Piece) /\ Len(x) \in Int /\ \A i \in 1 .. Len(x) : x[i].msg = ExitCode(t)
  <2>1. /\ Begin(ExitCode(t)) \in Piece /\ End(ExitCode(t)) \in Piece
        /\ Begin(ExitCode(t)).msg = ExitCode(t) /\ End(ExitCode(t)).msg = ExitCode(t)
    BY <1>1, PieceTypes
  <2> QED
    BY <2>1
<1>5. UNCHANGED <<fired, emitted>>
  BY DEF Waitpid, cooker_vars
<1> HIDE DEF x
<1>6. \A u \in Task : CountIn(x, End(Event(u))) = 0
  <2> SUFFICES ASSUME NEW u \in Task PROVE CountIn(x, End(Event(u))) = 0
    OBVIOUS
  <2>1. Event(u) \in Message /\ \A i \in 1 .. Len(x) : x[i].msg # Event(u)
    BY <1>4, EventsDiffer, PieceTypes
  <2> QED
    BY <2>1, <1>4, NoneIn DEF CountIn
<1>7. ASSUME NEW u \in Task PROVE Known(u)' = Known(u)
  <2> DEFINE e == End(Event(u))
  <2>1. CountIn(Stream \o r, e) = CountIn(Stream, e) + CountIn(r, e)
    <3>1. Stream \in Seq(Piece) /\ r \in Seq(Piece)
      BY <1>0
    <3> QED
      BY <3>1, CountConcat
  <2>2. CountIn(r, e) = CountIn(f, e) + CountIn(x, e)
    BY <1>1, <1>4, CountConcat
  <2>3. Known(u)' = (fired[u] + CountIn(Stream \o r, e)) + CountIn(Held(u)', e)
    BY <1>1, <1>5 DEF Known
  <2>4. Known(u) = (fired[u] + CountIn(Stream, e)) + CountIn(Held(u), e)
    BY DEF Known
  <2>5. /\ fired[u] \in Nat /\ CountIn(Stream, e) \in Nat
        /\ CountIn(Held(u), e) \in Nat /\ CountIn(x, e) = 0 /\ CountIn(f, e) \in Nat
    BY <1>0, <1>1, <1>6, CountTypes, BeforeLeast, 0 \in Int
  <2>6. CASE u = t
    <3>1. CountIn(Held(u)', e) = 0 /\ CountIn(Held(u), e) = CountIn(f, e)
      BY <1>2, <1>3, <2>6, CountEmpty
    <3> HIDE DEF e
    <3> QED
      BY <2>1, <2>2, <2>3, <2>4, <2>5, <3>1
  <2>7. CASE u # t
    <3>1. Held(u)' = Held(u) /\ CountIn(f, e) = 0
      BY <1>2, <1>3, <2>7
    <3> HIDE DEF e
    <3> QED
      BY <2>1, <2>2, <2>3, <2>4, <2>5, <3>1
  <2> QED
    BY <2>6, <2>7
<1> QED
  BY <1>5, <1>7, CountedKept

LEMMA StepCounted ==
    ASSUME IInv, Next
    PROVE  Counted'
<1>0. Types /\ Counted /\ Stream \in Seq(Piece) /\ \A t \in Task : Held(t) \in Seq(Piece)
  BY StreamTypes DEF IInv
<1>1. CASE /\ Stream' = Stream /\ UNCHANGED <<fired, reported, emitted>>
           /\ \A u \in Task : Held(u)' = Held(u)
  BY <1>1, CountedKept DEF Known
<1>2. ASSUME NEW t \in Task, Fire(t) PROVE Counted'
  <2> DEFINE m == Event(t)
  <2>1. m \in Message /\ Begin(m) \in Piece /\ End(m) \in Piece
    BY PieceTypes
  <2>2. /\ \A u \in Task : u # t => Held(u)' = Held(u) /\ emitted'[u] = emitted[u]
        /\ UNCHANGED others
        /\ \/ Held(t)' = Held(t) \o <<Begin(m)>> /\ emitted'[t] = emitted[t]
           \/ Held(t)' = Held(t) \o <<End(m)>> /\ emitted'[t] = emitted[t] + 1
    BY <1>2, FireEffect
  <2> HIDE DEF m
  <2>3. Stream' = Stream /\ UNCHANGED <<fired, worker, deaths>>
    BY <2>2 DEF others, cooker_vars, worker_vars, writer_vars, Stream, Arrived
  <2>4. /\ CountIn(<<Begin(m)>>, End(m)) = 0 /\ CountIn(<<End(m)>>, End(m)) = 1
    BY <2>1, CountOnePiece
  <2>5. /\ CountIn(Held(t) \o <<Begin(m)>>, End(m)) = CountIn(Held(t), End(m)) + 0
        /\ CountIn(Held(t) \o <<End(m)>>, End(m)) = CountIn(Held(t), End(m)) + 1
    <3>1. <<Begin(m)>> \in Seq(Piece) /\ <<End(m)>> \in Seq(Piece)
      BY <2>1
    <3>2. Held(t) \in Seq(Piece)
      BY <1>0
    <3>3. CountIn(Held(t) \o <<Begin(m)>>, End(m))
             = CountIn(Held(t), End(m)) + CountIn(<<Begin(m)>>, End(m))
      BY <3>1, <3>2, CountConcat
    <3>4. CountIn(Held(t) \o <<End(m)>>, End(m))
             = CountIn(Held(t), End(m)) + CountIn(<<End(m)>>, End(m))
      BY <3>1, <3>2, CountConcat
    <3> QED
      BY <3>3, <3>4, <2>4
  <2>6. /\ fired[t] \in Nat /\ emitted[t] \in Nat
        /\ CountIn(Stream, End(m)) \in Nat /\ CountIn(Held(t), End(m)) \in Nat
    BY <1>0, CountTypes DEF m
  <2>7. /\ Known(t) = (fired[t] + CountIn(Stream, End(m))) + CountIn(Held(t), End(m))
        /\ Known(t)' = (fired[t] + CountIn(Stream, End(m))) + CountIn(Held(t)', End(m))
    BY <2>3 DEF Known, m
  <2>8. \/ Known(t)' = Known(t) /\ emitted'[t] = emitted[t]
        \/ Known(t)' = Known(t) + 1 /\ emitted'[t] = emitted[t] + 1
    <3>1. CASE Held(t)' = Held(t) \o <<Begin(m)>> /\ emitted'[t] = emitted[t]
      <4>1. CountIn(Held(t)', End(m)) = CountIn(Held(t), End(m)) + 0
        BY <3>1, <2>5
      <4> QED
        BY <4>1, <3>1, <2>6, <2>7
    <3>2. CASE Held(t)' = Held(t) \o <<End(m)>> /\ emitted'[t] = emitted[t] + 1
      <4>1. CountIn(Held(t)', End(m)) = CountIn(Held(t), End(m)) + 1
        BY <3>2, <2>5
      <4> QED
        BY <4>1, <3>2, <2>6, <2>7
    <3> QED
      BY <2>2, <3>1, <3>2
  <2>9. \A u \in Task : u # t => Known(u)' = Known(u) /\ emitted'[u] = emitted[u]
    BY <2>2, <2>3 DEF Known
  <2>10. Intact' <=> Intact
    BY <2>3 DEF Intact
  <2>11. Known(t) \in Nat
    BY <2>6, <2>7
  <2>12. Known(t)' <= emitted'[t] /\ (Intact' => Known(t)' = emitted'[t])
    BY <1>0, <2>6, <2>8, <2>10, <2>11 DEF Counted
  <2> QED
    BY <1>0, <2>9, <2>10, <2>12 DEF Counted
<1>3. CASE Take /\ UNCHANGED <<worker_queue, worker_queue_int, build_pipes, worker, child_vars,
                               deaths>>
  BY <1>3, TakeCounted DEF child_vars
<1>4. CASE \E t \in Task : /\ ReadPipe(t)
                           /\ UNCHANGED <<queue, worker_pipe, worker_queue_int, fired, reported,
                                          emitted, worker>>
  BY <1>4, ReadCounted
<1>5. CASE \E t \in Task : Waitpid(t)
  BY <1>5, WaitpidCounted
<1>6. CASE WorkerDies
  <2> DEFINE L == worker_queue_int \o Flat(worker_queue)
             R == Stream'
  <2>1. R \in Seq(Piece) /\ L \in Seq(Piece) /\ Stream = R \o L
    BY <1>6, StreamCut
  <2>2. R = Stream' /\ UNCHANGED <<fired, emitted, build_pipes, child_pipe>>
        /\ worker' = "gone" /\ deaths' = deaths + 1
    BY <1>6 DEF WorkerDies, Gone, cooker_vars
  <2> HIDE DEF L, R
  <2>3. ~ Intact'
    BY <1>0, <2>2 DEF Intact, Types
  <2>4. ASSUME NEW u \in Task PROVE Known(u)' <= emitted'[u]
    <3> DEFINE e == End(Event(u))
    <3>1. CountIn(Stream, e) = CountIn(R, e) + CountIn(L, e)
      BY <2>1, CountConcat
    <3>2. Known(u)' = (fired[u] + CountIn(R, e)) + CountIn(Held(u), e)
      BY <2>2 DEF Known, Held
    <3>3. Known(u) = (fired[u] + CountIn(Stream, e)) + CountIn(Held(u), e) /\ Known(u) <= emitted[u]
      BY <1>0 DEF Known, Counted
    <3>4. /\ fired[u] \in Nat /\ CountIn(Held(u), e) \in Nat /\ emitted[u] \in Nat
          /\ CountIn(R, e) \in Nat /\ CountIn(L, e) \in Nat
      BY <1>0, <2>1, CountTypes, BeforeLeast, 0 \in Int
    <3> HIDE DEF e
    <3> QED
      BY <2>2, <3>1, <3>2, <3>3, <3>4
  <2> QED
    BY <2>3, <2>4 DEF Counted
<1> QED
  BY <1>1, <1>2, <1>3, <1>4, <1>5, <1>6, StepKinds

-----------------------------------------------------------------------------
(* No event of a task follows its exit code. *)

LEMMA BeforeFirst ==
    ASSUME NEW S, NEW s \in Seq(S), NEW r \in Seq(S), NEW p \in Int, p <= Len(s), NEW v
    PROVE  Before(s \o r, p, v) = Before(s, p, v)
<1>1. Len(s) \in Nat /\ p - Len(s) \in Int /\ p - Len(s) <= 0
  OBVIOUS
<1>2. \A i \in 1 .. Len(r) : ~ (i <= p - Len(s) /\ r[i] = v)
  BY <1>1
<1>3. Before(r, p - Len(s), v) = 0
  BY <1>1, <1>2, BeforeNone
<1>4. Before(s \o r, p, v) = Before(s, p, v) + Before(r, p - Len(s), v)
  BY BeforeConcat
<1>5. Before(s, p, v) \in Nat
  BY BeforeType
<1> QED
  BY <1>3, <1>4, <1>5

\* What a whole exit code in the stream says of its task
LEMMA ExitInStream ==
    ASSUME IInv, NEW p \in 1 .. Len(Stream),
           Stream[p].part = 2, Stream[p].msg.kind = "exitcode",
           NEW t, t = Stream[p].msg.task
    PROVE  /\ t \in Task /\ child[t] = "reaped" /\ Stream[p].msg.status = status[t]
           /\ fired[t] + Before(Stream, p, End(Event(t))) = emitted[t]
<1>1. Stream \in Seq(Piece) /\ StreamInv /\ ExitLast
  BY StreamTypes DEF IInv
<1>2. Stream[p].msg \in Message
  BY <1>1, PieceTypes
<1>3. Proper(Stream[p].msg, child, status)
  BY <1>1 DEF StreamInv
<1>4. t \in Task
  BY <1>2 DEF Message
<1> QED
  BY <1>1, <1>3, <1>4 DEF ExitLast, Proper

LEMMA ExitLastKept ==
    ASSUME IInv, Next, Stream' = Stream, UNCHANGED fired
    PROVE  ExitLast'
<1> SUFFICES ASSUME NEW p \in 1 .. Len(Stream),
                    Stream[p].part = 2, Stream[p].msg.kind = "exitcode"
             PROVE  LET t == Stream[p].msg.task IN
                    fired[t] + Before(Stream, p, End(Event(t))) = emitted'[t]
  BY DEF ExitLast
<1> DEFINE t == Stream[p].msg.task
<1>1. /\ t \in Task /\ child[t] = "reaped"
      /\ fired[t] + Before(Stream, p, End(Event(t))) = emitted[t]
  BY ExitInStream
<1> HIDE DEF t
<1>2. emitted'[t] = emitted[t]
  BY <1>1, ReapedStays
<1> QED
  BY <1>1, <1>2 DEF t

\* What is put at the end of the stream changes nothing for what is there.
LEMMA ExitLastAppended ==
    ASSUME IInv, NEW r \in Seq(Piece), Stream' = Stream \o r, UNCHANGED <<fired, emitted>>,
           \A i \in 1 .. Len(r) :
              (r[i].part = 2 /\ r[i].msg.kind = "exitcode") =>
                  LET t == r[i].msg.task IN
                  fired[t] + Before(Stream \o r, Len(Stream) + i, End(Event(t))) = emitted[t]
    PROVE  ExitLast'
<1>1. Stream \in Seq(Piece)
  BY StreamTypes DEF IInv
<1> DEFINE S == Stream \o r
<1>2. /\ Len(S) = Len(Stream) + Len(r) /\ Len(Stream) \in Nat /\ Len(r) \in Nat
      /\ \A i \in 1 .. Len(Stream) + Len(r) :
            S[i] = IF i <= Len(Stream) THEN Stream[i] ELSE r[i - Len(Stream)]
  BY <1>1, ConcatProperties
<1> HIDE DEF S
<1> SUFFICES ASSUME NEW p \in 1 .. Len(S), S[p].part = 2, S[p].msg.kind = "exitcode"
             PROVE  LET t == S[p].msg.task IN fired[t] + Before(S, p, End(Event(t))) = emitted[t]
  BY DEF ExitLast, S
<1> DEFINE t == S[p].msg.task
<1>3. CASE p <= Len(Stream)
  <2>1. p \in 1 .. Len(Stream) /\ S[p] = Stream[p] /\ p \in Int
    BY <1>2, <1>3
  <2>2. fired[t] + Before(Stream, p, End(Event(t))) = emitted[t]
    BY <2>1, ExitInStream
  <2> HIDE DEF t
  <2>3. Before(S, p, End(Event(t))) = Before(Stream, p, End(Event(t)))
    BY <1>1, <1>3, <2>1, BeforeFirst DEF S
  <2> QED
    BY <2>2, <2>3 DEF t
<1>4. CASE ~ (p <= Len(Stream))
  <2>1. /\ p - Len(Stream) \in 1 .. Len(r) /\ S[p] = r[p - Len(Stream)]
        /\ Len(Stream) + (p - Len(Stream)) = p
    BY <1>2, <1>4
  <2> QED
    BY <2>1 DEF S
<1> QED
  BY <1>3, <1>4

LEMMA TakeExitLast ==
    ASSUME IInv, Take, UNCHANGED <<worker_queue, worker_queue_int, emitted>>
    PROVE  ExitLast'
<1> DEFINE ms == Messages(Arrived)
           F == Flat(ms)
           R == Stream'
<1>0. Types /\ Aligned(Stream)
  BY DEF IInv, StreamInv
<1>1. /\ ms \in Seq(Message) /\ R \in Seq(Piece) /\ Stream = F \o R
      /\ fired' = [t \in Task |-> fired[t] + CountIn(F, End(Event(t)))]
  BY <1>0, TakeEffect
<1>2. F \in Seq(Piece)
  BY <1>1, FlatAt
<1>3. R = Stream'
  OBVIOUS
<1> HIDE DEF ms, F, R
<1>4. /\ Len(Stream) = Len(F) + Len(R) /\ Len(F) \in Nat /\ Len(R) \in Nat
      /\ \A i \in Nat : 1 <= i /\ i <= Len(R) => Stream[i + Len(F)] = R[i]
  <2>1. Len(F \o R) = Len(F) + Len(R) /\ Len(F) \in Nat /\ Len(R) \in Nat
    BY <1>1, <1>2, ConcatProperties
  <2>2. \A i \in Nat : 1 <= i /\ i <= Len(R) => (F \o R)[i + Len(F)] = R[i]
    BY <1>1, <1>2, ConcatSecond
  <2> QED
    BY <1>1, <2>1, <2>2
<1> SUFFICES ASSUME NEW p \in 1 .. Len(R), R[p].part = 2, R[p].msg.kind = "exitcode"
             PROVE  LET t == R[p].msg.task IN fired'[t] + Before(R, p, End(Event(t))) = emitted[t]
  BY <1>3 DEF ExitLast
<1> DEFINE t == R[p].msg.task
           q == p + Len(F)
<1>5. q \in 1 .. Len(Stream) /\ Stream[q] = R[p] /\ q \in Int /\ q - Len(F) = p /\ q >= Len(F)
  BY <1>4
<1>6. t \in Task /\ fired[t] + Before(Stream, q, End(Event(t))) = emitted[t]
  BY <1>5, ExitInStream
<1> DEFINE e == End(Event(t))
<1> HIDE DEF t, q
<1>7. Before(F \o R, q, e) = Before(F, q, e) + Before(R, q - Len(F), e)
  BY <1>1, <1>2, <1>5, BeforeConcat
<1>8. Before(F, q, e) = CountIn(F, e)
  BY <1>2, <1>5, BeforeAll
<1>9. fired'[t] = fired[t] + CountIn(F, e) /\ fired[t] \in Nat /\ emitted[t] \in Nat
  BY <1>0, <1>1, <1>6 DEF Types
<1>10. CountIn(F, e) \in Nat /\ Before(R, p, e) \in Nat
  <2>1. p \in Int
    BY <1>4
  <2>2. Before(R, p, e) \in Nat
    BY <1>1, <2>1, BeforeType
  <2>3. CountIn(F, e) \in Nat
    BY <1>2, BeforeLeast, 0 \in Int
  <2> QED
    BY <2>2, <2>3
<1>11. fired[t] + Before(Stream, q, e) = emitted[t]
  BY <1>6
<1>12. Before(Stream, q, e) = CountIn(F, e) + Before(R, p, e)
  BY <1>1, <1>5, <1>7, <1>8
<1> HIDE DEF e
<1>13. fired'[t] + Before(R, p, e) = emitted[t]
  BY <1>9, <1>10, <1>11, <1>12
<1> QED
  BY <1>13 DEF t, e

LEMMA ReadExitLast ==
    ASSUME IInv, NEW t \in Task, ReadPipe(t),
           UNCHANGED <<queue, worker_pipe, worker_queue_int, fired, emitted>>
    PROVE  ExitLast'
<1> DEFINE ms == Messages(Held(t))
           f == Flat(ms)
<1>0. Types /\ Aligned(Held(t))
  BY DEF IInv, ChildAt
<1>1. Stream' = Stream \o f
  BY <1>0, ReadPipeEffect
<1>2. f \in Seq(Piece) /\ \A i \in 1 .. Len(f) : f[i].msg = Event(t)
  BY HeldCount, HeldMessages
<1> HIDE DEF ms, f
<1>3. \A i \in 1 .. Len(f) : f[i].msg.kind # "exitcode"
  BY <1>2, PieceTypes
<1> QED
  BY <1>1, <1>2, <1>3, ExitLastAppended

LEMMA WaitpidExitLast ==
    ASSUME IInv, Next, NEW t \in Task, Waitpid(t)
    PROVE  ExitLast'
<1>0. Types /\ Aligned(Held(t)) /\ Stream \in Seq(Piece) /\ status[t] \in BOOLEAN
  BY StreamTypes DEF IInv, ChildAt, Waitpid
<1>1. PICK f, r \in Seq(Piece) : /\ Len(r) = Len(f) + 2
                                 /\ \A i \in 1 .. Len(f) : r[i].msg = Event(t)
                                 /\ r[Len(f) + 1] = Begin(ExitCode(t))
                                 /\ r[Len(f) + 2] = End(ExitCode(t))
                                 /\ Stream' = Stream \o r /\ ExitCode(t) \in Message
  BY WaitpidPieces
<1>2. Held(t)' = <<>>
  BY <1>0, WaitpidEffect
<1>3. UNCHANGED <<fired, emitted, worker, deaths>> /\ worker # "gone"
  BY DEF Waitpid, cooker_vars
<1>4. Known(t)' = emitted[t]
  <2>1. Intact'
    BY <1>3 DEF Intact
  <2>2. Counted'
    BY StepCounted
  <2> QED
    BY <1>3, <2>1, <2>2 DEF Counted
<1> DEFINE e == End(Event(t))
<1>5. fired[t] + CountIn(Stream \o r, e) = emitted[t]
  <2>1. Known(t)' = (fired[t] + CountIn(Stream \o r, e)) + CountIn(<<>>, e)
    BY <1>1, <1>2, <1>3 DEF Known
  <2>2. CountIn(<<>>, e) = 0
    BY CountEmpty
  <2>3. fired[t] \in Nat /\ CountIn(Stream \o r, e) \in Nat
    <3>1. Stream \o r \in Seq(Piece)
      BY <1>0, <1>1, ConcatProperties
    <3> QED
      BY <1>0, <3>1, CountTypes, BeforeLeast, 0 \in Int
  <2> HIDE DEF e
  <2> QED
    BY <1>4, <2>1, <2>2, <2>3
<1>6. ASSUME NEW i \in 1 .. Len(r), r[i].part = 2, r[i].msg.kind = "exitcode"
      PROVE  LET u == r[i].msg.task IN
             fired[u] + Before(Stream \o r, Len(Stream) + i, End(Event(u))) = emitted[u]
  <2>1. i \in 1 .. Len(f) \/ i = Len(f) + 1 \/ i = Len(f) + 2
    BY <1>1
  <2>2. i \notin 1 .. Len(f)
    BY <1>1, <1>6, PieceTypes
  <2>3. i # Len(f) + 1
    BY <1>1, <1>6 DEF Begin
  <2>4. i = Len(r) /\ r[i].msg = ExitCode(t)
    BY <1>1, <2>1, <2>2, <2>3 DEF End
  <2>5. r[i].msg.task = t
    BY <2>4 DEF ExitCode
  <2>6. Len(Stream) + i = Len(Stream \o r)
    BY <1>0, <1>1, <2>4, ConcatProperties
  <2> QED
    BY <1>5, <2>5, <2>6 DEF CountIn
<1> QED
  BY <1>1, <1>3, <1>6, ExitLastAppended

LEMMA DiesExitLast ==
    ASSUME IInv, WorkerDies
    PROVE  ExitLast'
<1> DEFINE L == worker_queue_int \o Flat(worker_queue)
           R == Stream'
<1>1. R \in Seq(Piece) /\ L \in Seq(Piece) /\ Stream = R \o L
  BY StreamCut
<1>2. R = Stream' /\ UNCHANGED <<fired, emitted>>
  BY DEF WorkerDies, Gone, cooker_vars
<1> HIDE DEF L, R
<1>3. /\ Len(Stream) = Len(R) + Len(L) /\ Len(R) \in Nat /\ Len(L) \in Nat
      /\ \A i \in Nat : 1 <= i /\ i <= Len(R) => Stream[i] = R[i]
  <2>1. Len(R \o L) = Len(R) + Len(L) /\ Len(R) \in Nat /\ Len(L) \in Nat
    BY <1>1, ConcatProperties
  <2>2. \A i \in Nat : 1 <= i /\ i <= Len(R) => (R \o L)[i] = R[i]
    BY <1>1, ConcatSecond
  <2> QED
    BY <1>1, <2>1, <2>2
<1> SUFFICES ASSUME NEW p \in 1 .. Len(R), R[p].part = 2, R[p].msg.kind = "exitcode"
             PROVE  LET t == R[p].msg.task IN fired[t] + Before(R, p, End(Event(t))) = emitted[t]
  BY <1>2 DEF ExitLast
<1> DEFINE t == R[p].msg.task
<1>4. p \in 1 .. Len(Stream) /\ Stream[p] = R[p] /\ p \in Int /\ p <= Len(R)
  BY <1>3
<1>5. fired[t] + Before(Stream, p, End(Event(t))) = emitted[t]
  BY <1>4, ExitInStream
<1> HIDE DEF t
<1>6. Before(Stream, p, End(Event(t))) = Before(R, p, End(Event(t)))
  BY <1>1, <1>4, BeforeFirst
<1> QED
  BY <1>5, <1>6 DEF t

LEMMA StepExitLast ==
    ASSUME IInv, Next
    PROVE  ExitLast'
<1>1. CASE Stream' = Stream /\ UNCHANGED <<fired, reported, emitted>>
  BY <1>1, ExitLastKept
<1>2. ASSUME NEW t \in Task, Fire(t) PROVE ExitLast'
  <2>1. UNCHANGED others
    BY <1>2, FireEffect
  <2>2. Stream' = Stream /\ UNCHANGED fired
    BY <2>1 DEF others, cooker_vars, worker_vars, writer_vars, Stream, Arrived
  <2> QED
    BY <2>2, ExitLastKept
<1>3. CASE Take /\ UNCHANGED <<worker_queue, worker_queue_int, build_pipes, worker, child_vars,
                               deaths>>
  BY <1>3, TakeExitLast DEF child_vars
<1>4. CASE \E t \in Task : /\ ReadPipe(t)
                           /\ UNCHANGED <<queue, worker_pipe, worker_queue_int, fired, reported,
                                          emitted, worker>>
  BY <1>4, ReadExitLast
<1> QED
  BY <1>1, <1>2, <1>3, <1>4, WaitpidExitLast, DiesExitLast, StepKinds

-----------------------------------------------------------------------------
(* What is reported is what happened. *)

LEMMA TakeReported ==
    ASSUME IInv, Next, Take,
           UNCHANGED <<worker_queue, worker_queue_int, build_pipes, child_vars>>, NEW t \in Task
    PROVE  /\ reported'[t] # None => /\ child[t] = "reaped" /\ reported'[t] = status[t]
                                     /\ fired'[t] = emitted[t]
           /\ reported[t] # None => reported'[t] # None
           /\ reported'[t] # None \/ (t \in live <=> t \in live')
<1> DEFINE ms == Messages(Arrived)
           F == Flat(ms)
           R == Stream'
           e == End(Event(t))
<1>0. Types /\ Aligned(Stream) /\ Reported /\ ChildAt(t)
  BY DEF IInv, StreamInv
<1>a. UNCHANGED <<worker_queue, worker_queue_int, child, status, emitted>> /\ Held(t)' = Held(t)
  BY DEF child_vars, Held
<1>1. /\ ms \in Seq(Message) /\ R \in Seq(Piece) /\ Stream = F \o R
      /\ fired'[t] = fired[t] + CountIn(F, e)
      /\ \/ \E j \in Nat : /\ 1 <= j /\ j <= Len(ms)
                            /\ ms[j].kind = "exitcode" /\ ms[j].task = t
                            /\ reported'[t] = ms[j].status
         \/ reported'[t] = reported[t] /\ (t \in live <=> t \in live')
  BY <1>0, <1>a, TakeEffect
<1>2. /\ F \in Seq(Piece) /\ Len(F) = 2 * Len(ms) /\ Len(ms) \in Nat
      /\ \A j \in Nat : 1 <= j /\ j <= Len(ms) => F[2 * j] = End(ms[j])
  BY <1>1, FlatAt
<1>b. R = Stream'
  OBVIOUS
<1> HIDE DEF ms, F, R
<1>3. /\ CountIn(R, e) \in Nat /\ CountIn(Held(t), e) \in Nat
  BY <1>0, <1>1, CountTypes, BeforeLeast, 0 \in Int
<1>c. /\ fired[t] \in Nat /\ emitted[t] \in Nat /\ CountIn(F, e) \in Nat
  BY <1>0, <1>2, CountTypes, BeforeLeast, 0 \in Int
<1>4. fired'[t] <= emitted[t]
  <2>1. Known(t)' <= emitted'[t]
    BY StepCounted DEF Counted
  <2>2. Known(t)' = (fired'[t] + CountIn(R, e)) + CountIn(Held(t), e)
    BY <1>a, <1>b DEF Known
  <2>3. fired'[t] \in Nat
    BY <1>1, <1>c
  <2> HIDE DEF e
  <2> QED
    BY <2>1, <2>2, <2>3, <1>a, <1>3, <1>c
<1>5. ASSUME NEW j \in Nat, 1 <= j, j <= Len(ms), ms[j].kind = "exitcode", ms[j].task = t,
             reported'[t] = ms[j].status
      PROVE  /\ child[t] = "reaped" /\ reported'[t] = status[t]
             /\ fired'[t] = emitted[t] /\ reported'[t] # None
  <2> DEFINE p == 2 * j
  <2>1. p \in Nat /\ 1 <= p /\ p <= Len(F) /\ p \in Int
    BY <1>2, <1>5
  <2>2. p \in 1 .. Len(Stream) /\ Stream[p] = End(ms[j])
    <3>1. Len(F \o R) = Len(F) + Len(R) /\ Len(F) \in Nat /\ Len(R) \in Nat
      <4>1. F \in Seq(Piece) /\ R \in Seq(Piece)
        BY <1>1, <1>2
      <4> QED
        BY <4>1, ConcatProperties, LenProperties
    <3>2. (F \o R)[p] = F[p]
      <4>1. \A k \in Nat : 1 <= k /\ k <= Len(F) => (F \o R)[k] = F[k]
        BY <1>1, <1>2, ConcatSecond
      <4> QED
        BY <4>1, <2>1
    <3>3. F[p] = End(ms[j])
      BY <1>2, <1>5
    <3> HIDE DEF p
    <3> QED
      BY <1>1, <2>1, <3>1, <3>2, <3>3
  <2> HIDE DEF p
  <2>3. Stream[p].part = 2 /\ Stream[p].msg = ms[j]
    BY <2>2 DEF End
  <2>4. /\ child[t] = "reaped" /\ ms[j].status = status[t]
        /\ fired[t] + Before(Stream, p, e) = emitted[t]
    BY <1>5, <2>2, <2>3, ExitInStream
  <2>5. Before(Stream, p, e) = Before(F, p, e)
    BY <1>1, <1>2, <2>1, BeforeFirst
  <2>6. Before(F, p, e) <= CountIn(F, e) /\ Before(F, p, e) \in Nat
    BY <1>2, <2>1, BeforeLeast, BeforeType
  <2>7. status[t] \in BOOLEAN
    BY <1>0, <2>4 DEF ChildAt
  <2> HIDE DEF e
  <2>8. fired'[t] = emitted[t]
    <3>1. \A a, b, c, d \in Nat : a + b <= c /\ a + d = c /\ d <= b => a + b = c
      OBVIOUS
    <3> QED
      BY <3>1, <1>1, <1>c, <1>4, <2>4, <2>5, <2>6
  <2> QED
    BY <1>5, <2>4, <2>7, <2>8, WorkerPipeAssumption
<1>6. ASSUME reported'[t] = reported[t], reported[t] # None
      PROVE  child[t] = "reaped" /\ reported'[t] = status[t] /\ fired'[t] = emitted[t]
  <2>1. child[t] = "reaped" /\ reported[t] = status[t] /\ fired[t] = emitted[t]
    BY <1>0, <1>6 DEF Reported
  <2> HIDE DEF e
  <2> QED
    BY <1>1, <1>c, <1>4, <1>6, <2>1
<1> QED
  BY <1>1, <1>5, <1>6

LEMMA StepReported ==
    ASSUME IInv, Next
    PROVE  Reported' /\ \A t \in Task : reported[t] # None => reported'[t] = reported[t]
<1> USE DEF cooker_vars, worker_vars, writer_vars
<1>0. Types /\ Reported
  BY DEF IInv
<1>1. CASE UNCHANGED <<fired, reported>> /\ \A t \in Task : t \in todo \cup live => t \in todo' \cup live'
  <2>1. \A t \in Task : reported[t] # None => /\ child'[t] = "reaped" /\ status'[t] = status[t]
                                              /\ emitted'[t] = emitted[t]
    BY <1>0, ReapedStays DEF Reported
  <2> QED
    BY <1>0, <1>1, <2>1 DEF Reported
<1>2. CASE Read \/ TeardownRead
  <2>1. Take /\ UNCHANGED <<worker_queue, worker_queue_int, build_pipes, child_vars, todo>>
    BY <1>2 DEF Read, TeardownRead
  <2>2. UNCHANGED <<child, status, emitted>>
    BY <2>1 DEF child_vars
  <2>3. \A t \in Task :
           /\ reported'[t] # None => /\ child[t] = "reaped" /\ reported'[t] = status[t]
                                     /\ fired'[t] = emitted[t]
           /\ reported[t] # None => reported'[t] # None
           /\ reported'[t] # None \/ (t \in live <=> t \in live')
    BY <2>1, TakeReported
  <2>4. \A t \in Task : reported[t] # None => reported'[t] = reported[t]
    BY <1>0, <2>3 DEF Reported
  <2>5. \A t \in Task : t \notin todo' \cup live' => reported'[t] # None
    BY <1>0, <2>1, <2>3 DEF Reported
  <2> QED
    BY <2>2, <2>3, <2>4, <2>5 DEF Reported
<1>3. CASE StartFails \/ Conclude \/ Teardown \/ TeardownEnd \/ ForceStop
  BY <1>1, <1>3 DEF StartFails, Conclude, Teardown, TeardownEnd, ForceStop
<1>4. ASSUME NEW t \in Task, StartTask(t)
      PROVE  Reported' /\ \A u \in Task : reported[u] # None => reported'[u] = reported[u]
  <2>1. UNCHANGED <<fired, reported>> /\ todo' = todo \ {t} /\ live' = live \cup {t}
    BY <1>4 DEF StartTask
  <2>2. \A u \in Task : u \in todo \cup live => u \in todo' \cup live'
    BY <2>1
  <2> QED
    BY <1>1, <2>1, <2>2
<1>5. CASE UNCHANGED cooker_vars
  BY <1>1, <1>5
<1>6. CASE Worker \/ WorkerDies \/ Writer \/ \E t \in Task : Child(t)
  BY <1>5, <1>6 DEF Worker, HandleRuntask, ReadChild, FlushChild, Waitpid, Kill, Reap,
        HandleFinishnow, KillEnds, FinishNowEnds, HandleQuit, WorkerExit, WorkerDies,
        Writer, Collect, Write, Child, Setup, Fire, ChildExit, ChildKilled, Ends, others
<1> QED
  BY <1>2, <1>3, <1>4, <1>6 DEF Next, Cooker

-----------------------------------------------------------------------------
(* The course of a build. *)

NoQuit == \A i \in 1 .. Len(stdin) : stdin[i] # <<"quit">>

LEMMA NoQuitAppended ==
    ASSUME Types, NoQuit, NEW c \in Command, c # <<"quit">>, stdin' = Append(stdin, c)
    PROVE  NoQuit'
<1>1. /\ Len(stdin') = Len(stdin) + 1 /\ Len(stdin) \in Nat
      /\ \A i \in 1 .. Len(stdin) : stdin'[i] = stdin[i]
      /\ stdin'[Len(stdin) + 1] = c
  BY AppendProperties DEF Types
<1>2. \A i \in 1 .. Len(stdin') : i \in 1 .. Len(stdin) \/ i = Len(stdin) + 1
  BY <1>1
<1> QED
  BY <1>1, <1>2 DEF NoQuit

LEMMA NoQuitReceived ==
    ASSUME Types, NoQuit, NEW m, Received(m)
    PROVE  NoQuit' /\ m # <<"quit">>
<1>1. /\ stdin[1] = m /\ 1 \in 1 .. Len(stdin)
      /\ \A i \in 1 .. Len(stdin') : i + 1 \in 1 .. Len(stdin) /\ stdin'[i] = stdin[i + 1]
  BY AfterHead
<1> QED
  BY <1>1 DEF NoQuit

LEMMA StepCourse ==
    ASSUME IInv, Next
    PROVE  Course'
<1> USE DEF cooker_vars, worker_vars, writer_vars, child_vars
<1>0. Types /\ Course /\ Reported /\ TRUE # None /\ deaths \in Nat
      /\ (teardown = "no" => NoQuit)
  BY WorkerPipeAssumption DEF IInv, Types, Course, NoQuit
<1>1. \A t \in Task : reported[t] = TRUE => reported'[t] = TRUE
  BY <1>0, StepReported
<1>2. CASE Read
  <2>1. /\ state = "RUNNING" /\ teardown = "no" /\ teardown' = "no"
        /\ state' = IF worker = "gone" THEN Finished ELSE state
        /\ UNCHANGED <<worker, stdin, stopped, deaths>>
    BY <1>0, <1>2 DEF Read, Course
  <2>2. state' = "COMPLETE" => deaths > 0
    BY <1>0, <2>1 DEF Course
  <2> QED
    BY <1>0, <2>1, <2>2 DEF Course
<1>3. CASE TeardownRead
  BY <1>0, <1>1, <1>3 DEF Course, TeardownRead
<1>4. ASSUME NEW t \in Task, StartTask(t) PROVE Course'
  <2>1. /\ state = "RUNNING" /\ teardown = "no" /\ teardown' = "no"
        /\ UNCHANGED <<state, worker, stopped, deaths>>
        /\ stdin' = Append(stdin, <<"runtask", t>>)
    BY <1>0, <1>4 DEF StartTask, Course
  <2>2. NoQuit'
    BY <1>0, <2>1, NoQuitAppended, CommandTypes, CommandsDiffer
  <2> QED
    BY <1>0, <2>1, <2>2 DEF Course, NoQuit
<1>5. CASE StartFails
  BY <1>0, <1>5 DEF Course, StartFails
<1>6. CASE Conclude
  <2>1. /\ todo = {} /\ live = {} /\ state' = Finished /\ state = "RUNNING"
        /\ UNCHANGED <<teardown, reported, worker, worker_pipe, stdin, stopped, deaths>>
    BY <1>6 DEF Conclude
  <2>2. state' = "COMPLETE" => \A t \in Task : reported[t] = TRUE
    <3> SUFFICES ASSUME state' = "COMPLETE", NEW t \in Task PROVE reported[t] = TRUE
      OBVIOUS
    <3>1. ~ Failed
      BY <2>1 DEF Finished
    <3>2. reported[t] # FALSE /\ reported[t] # None /\ reported[t] \in BOOLEAN \cup {None}
      BY <1>0, <2>1, <3>1 DEF Failed, Reported, Types
    <3> QED
      BY <3>2
  <2>3. state' # "RUNNING"
    BY <2>1 DEF Finished
  <2> QED
    BY <1>0, <2>1, <2>2, <2>3 DEF Course
<1>7. CASE ForceStop
  <2>1. /\ state = "RUNNING" /\ teardown = "no" /\ teardown' = "no" /\ stopped' = TRUE
        /\ UNCHANGED <<worker, deaths>>
        /\ stdin' = Append(stdin, <<"finishnow">>)
    BY <1>0, <1>7 DEF ForceStop, Course
  <2>2. NoQuit'
    <3>1. <<"finishnow">> # <<"quit">> /\ <<"finishnow">> \in Command
      BY DEF Command
    <3> QED
      BY <1>0, <2>1, <3>1, NoQuitAppended
  <2> QED
    BY <1>0, <2>1, <2>2 DEF Course, NoQuit
<1>8. CASE Teardown
  BY <1>0, <1>8 DEF Course, Teardown
<1>9. CASE TeardownEnd
  <2>1. /\ teardown = "reading" /\ teardown' = "done" /\ worker = "gone" /\ worker_pipe = <<>>
        /\ UNCHANGED <<state, worker, worker_pipe, reported, stopped, deaths>>
    BY <1>9 DEF TeardownEnd
  <2> QED
    BY <1>0, <2>1 DEF Course
<1>10. CASE UNCHANGED cooker_vars /\ UNCHANGED <<worker, worker_pipe, stdin, stopped, deaths>>
  BY <1>0, <1>10 DEF Course
<1>11. ASSUME UNCHANGED cooker_vars, UNCHANGED <<stopped, deaths>>,
              worker \notin {"gone", "exiting"}, worker' \notin {"gone", "exiting"},
              UNCHANGED stdin \/ \E m : Received(m)
       PROVE  Course'
  <2>1. teardown = "no" => NoQuit'
    BY <1>0, <1>11, NoQuitReceived DEF NoQuit
  <2> QED
    BY <1>0, <1>11, <2>1 DEF Course, NoQuit
<1>12. ASSUME NEW t \in Task, HandleRuntask(t) PROVE Course'
  BY <1>11, <1>12 DEF HandleRuntask, Received
<1>13. ASSUME NEW t \in Task, ReadChild(t) \/ FlushChild(t) \/ Waitpid(t) \/ Kill(t) \/ Reap(t)
       PROVE  Course'
  BY <1>11, <1>13 DEF ReadChild, FlushChild, Waitpid, Kill, Reap
<1>14. CASE HandleFinishnow
  BY <1>11, <1>14 DEF HandleFinishnow, Received
<1>15. CASE KillEnds \/ FinishNowEnds
  BY <1>11, <1>15 DEF KillEnds, FinishNowEnds
<1>16. CASE HandleQuit
  <2>1. /\ Received(<<"quit">>) /\ worker = "serving" /\ worker' = "exiting"
        /\ UNCHANGED cooker_vars /\ UNCHANGED <<stopped, deaths>>
    BY <1>16 DEF HandleQuit, Received
  <2>2. teardown # "no"
    BY <1>0, <2>1, NoQuitReceived
  <2> QED
    BY <1>0, <2>1, <2>2 DEF Course
<1>17. CASE WorkerExit
  BY <1>0, <1>17 DEF WorkerExit, Gone, Course
<1>18. CASE WorkerDies
  <2>1. /\ worker # "gone" /\ worker' = "gone" /\ deaths' = deaths + 1 /\ UNCHANGED cooker_vars
        /\ UNCHANGED stdin
    BY <1>18 DEF WorkerDies, Gone
  <2> QED
    BY <1>0, <2>1 DEF Course
<1>19. CASE Writer
  <2>1. worker # "gone" /\ UNCHANGED cooker_vars /\ UNCHANGED <<worker, stdin, stopped, deaths>>
    BY <1>19 DEF Writer, Collect, Write
  <2> QED
    BY <1>0, <2>1 DEF Course
<1>20. ASSUME NEW t \in Task, Child(t) PROVE Course'
  BY <1>10, <1>20 DEF Child, Setup, Fire, ChildExit, ChildKilled, Ends, others
<1> QED
  BY <1>2, <1>3, <1>4, <1>5, <1>6, <1>7, <1>8, <1>9, <1>12, <1>13, <1>14, <1>15, <1>16, <1>17,
     <1>18, <1>19, <1>20 DEF Next, Cooker, Worker

-----------------------------------------------------------------------------
(* The invariant *)

LEMMA FlatEmpty == Flat(<<>>) = <<>>
<1>1. <<>> \in Seq(Message) /\ Len(<<>>) = 0
  BY EmptySeq
<1>2. Flat(<<>>) \in Seq(Piece) /\ Len(Flat(<<>>)) = 2 * 0
  BY <1>1, FlatAt
<1> QED
  BY <1>2

LEMMA InitInv == Init => IInv
<1> SUFFICES ASSUME Init PROVE IInv
  OBVIOUS
<1>0. Types
  BY InitTypes
<1>1. /\ queue = <<>> /\ worker_pipe = <<>> /\ worker_queue_int = <<>> /\ worker_queue = <<>>
      /\ stdin = <<>> /\ \A t \in Task : build_pipes[t] = <<>> /\ child_pipe[t] = <<>>
  BY DEF Init
<1>2. <<>> \o <<>> = <<>>
  BY <1>0, <1>1, ConcatEmptySeq DEF Types
<1>3. Stream = <<>>
  BY <1>1, <1>2, FlatEmpty DEF Stream, Arrived
<1>4. \A t \in Task : Held(t) = <<>>
  BY <1>1, <1>2 DEF Held
<1>5. Aligned(<<>>) /\ Even(<<>>) /\ Len(<<>>) = 0
  BY EmptyBuffer
<1>6. \A t \in Task : /\ child[t] = "none" /\ emitted[t] = 0 /\ fired[t] = 0
                      /\ reported[t] = None
  BY DEF Init
<1>7. todo = Task /\ live = {} /\ state = "RUNNING" /\ teardown = "no" /\ worker = "serving"
  BY DEF Init
<1>8. StartedOnce
  BY <1>1, <1>5, <1>6, <1>7 DEF StartedOnce
<1>9. \A t \in Task : ChildAt(t)
  BY <1>4, <1>5, <1>6, WorkerPipeAssumption DEF ChildAt
<1>10. ReadToTheEnd
  BY <1>6 DEF ReadToTheEnd
<1>11. StreamInv
  BY <1>1, <1>3, <1>5, <1>7, WorkerPipeAssumption DEF StreamInv
<1>12. Counted
  <2>1. \A t \in Task : Known(t) = 0
    BY <1>3, <1>4, <1>6, CountEmpty DEF Known
  <2> QED
    BY <2>1, <1>6 DEF Counted
<1>13. ExitLast
  BY <1>3, <1>5 DEF ExitLast
<1>14. Reported
  BY <1>6, <1>7 DEF Reported
<1>15. Course
  BY <1>1, <1>5, <1>7 DEF Course
<1> QED
  BY <1>0, <1>8, <1>9, <1>10, <1>11, <1>12, <1>13, <1>14, <1>15 DEF IInv

LEMMA StepInv == IInv /\ [Next]_vars => IInv'
<1> SUFFICES ASSUME IInv, [Next]_vars PROVE IInv'
  OBVIOUS
<1>1. CASE Next
  BY <1>1, StepTypes, StepStartedOnce, StepChildren, StepReadToTheEnd, StepStream, StepCounted,
     StepExitLast, StepReported, StepCourse DEF IInv
<1>2. CASE UNCHANGED vars
  BY <1>2, UnchangedInv
<1> QED
  BY <1>1, <1>2

LEMMA Invariance == Spec => []IInv
BY InitInv, StepInv, PTL DEF Spec

\* The cooker never fires more than a task has written.
LEMMA FiredBound ==
    ASSUME IInv, NEW t \in Task
    PROVE  fired[t] <= emitted[t] /\ fired[t] \in Nat /\ emitted[t] \in Nat
<1> DEFINE e == End(Event(t))
<1>1. Types /\ Known(t) <= emitted[t]
  BY DEF IInv, Counted
<1>2. /\ fired[t] \in Nat /\ emitted[t] \in Nat
      /\ CountIn(Stream, e) \in Nat /\ CountIn(Held(t), e) \in Nat
  BY <1>1, CountTypes
<1>3. Known(t) = (fired[t] + CountIn(Stream, e)) + CountIn(Held(t), e)
  BY DEF Known
<1> HIDE DEF e
<1> QED
  BY <1>1, <1>2, <1>3

\* When a worker that did not die has been torn down, nothing is under way.
LEMMA AllDelivered ==
    ASSUME IInv, teardown = "done", deaths = 0
    PROVE  /\ queue = <<>>
           /\ \A t \in Task : child[t] = "reaped" => fired[t] = emitted[t]
<1>0. Types /\ StreamInv /\ Counted /\ worker = "gone" /\ worker_pipe = <<>> /\ Intact
  BY DEF IInv, Course, Intact
<1>1. worker_queue = <<>> /\ worker_queue_int = <<>> /\ Len(queue) <= 1 /\ queue \in Seq(Piece)
  BY <1>0 DEF StreamInv, Types
<1>2. Stream = queue
  BY <1>0, <1>1, FlatEmpty, ConcatEmptySeq DEF Stream, Arrived
<1>3. queue = <<>>
  <2>1. PICK h \in Nat : Len(queue) = 2 * h
    BY <1>0, <1>2 DEF StreamInv, Even
  <2>2. Len(queue) = 0
    BY <1>1, <2>1
  <2> QED
    BY <1>1, <2>2, EmptySeq
<1>4. ASSUME NEW t \in Task, child[t] = "reaped" PROVE fired[t] = emitted[t]
  <2> DEFINE e == End(Event(t))
  <2>1. Held(t) \in Seq(Piece) /\ Aligned(Held(t)) /\ Len(Held(t)) <= 1
    BY <1>0, <1>4, StreamTypes DEF IInv, ChildAt, ReadToTheEnd
  <2>2. CountIn(Held(t), e) = 0
    <3>1. \A i \in 1 .. Len(Held(t)) : i = 1
      BY <2>1
    <3>2. \A i \in 1 .. Len(Held(t)) : 2 * 0 + 1 <= Len(Held(t)) /\ 2 * 0 + 1 = 1
      BY <2>1
    <3>3. \A i \in 1 .. Len(Held(t)) : Held(t)[1] = Begin(Held(t)[1].msg)
      <4>1. \A j \in Nat : 2 * j + 1 <= Len(Held(t)) =>
               Held(t)[2 * j + 1] = Begin(Held(t)[2 * j + 1].msg)
        BY <2>1 DEF Aligned
      <4>2. 2 * 0 + 1 <= Len(Held(t)) =>
               Held(t)[2 * 0 + 1] = Begin(Held(t)[2 * 0 + 1].msg)
        BY <4>1, 0 \in Nat
      <4> QED
        BY <4>2, <3>2
    <3>4. \A i \in 1 .. Len(Held(t)) : Held(t)[i] # e
      BY <3>1, <3>3 DEF Begin, End
    <3>5. \A i \in 1 .. Len(Held(t)) : ~ (i <= Len(Held(t)) /\ Held(t)[i] = e)
      BY <3>4
    <3>6. Len(Held(t)) \in Int
      BY <2>1
    <3> HIDE DEF e
    <3> QED
      BY <2>1, <3>5, <3>6, BeforeNone DEF CountIn
  <2>3. CountIn(Stream, e) = 0
    BY <1>2, <1>3, CountEmpty
  <2>4. Known(t) = (fired[t] + CountIn(Stream, e)) + CountIn(Held(t), e)
    BY DEF Known
  <2>5. Known(t) = emitted[t] /\ fired[t] \in Nat
    BY <1>0 DEF Counted, Types
  <2> HIDE DEF e
  <2> QED
    BY <2>2, <2>3, <2>4, <2>5
<1> QED
  BY <1>3, <1>4

-----------------------------------------------------------------------------
\* The exit code of a task comes last: when the cooker has taken it
\* (runQueuePipe.read, lib/bb/runqueue.py), it is the code the process ended with,
\* and every event the process wrote has been fired, whatever pieces the pipes
\* were read in, and even if the worker died on the way.
THEOREM ExitCodeComesLastTheorem == Spec => []ExitCodeComesLast
<1>1. IInv => ExitCodeComesLast
  BY DEF IInv, Reported, ExitCodeComesLast
<1> QED
  BY <1>1, Invariance, PTL

\* Nothing is lost between a task and the cooker: a worker that was asked to quit
\* (_teardown_worker) and did not die has delivered every event of each child it
\* collected and left no part of a message, and COMPLETE of a build that nobody
\* stopped means a good exit code of every task.
THEOREM NothingLostTheorem == Spec => []NothingLost
<1>1. IInv => TypeOK
  <2> SUFFICES ASSUME IInv PROVE TypeOK
    OBVIOUS
  <2>0. Types /\ live \cap todo = {} /\ Len(worker_pipe) <= PipeSize
    BY DEF IInv, StartedOnce, StreamInv
  <2>1. ASSUME NEW t \in Task
        PROVE  /\ reported[t] \in BOOLEAN \cup {None}
               /\ fired[t] \in 0 .. MaxEvents /\ emitted[t] \in 0 .. MaxEvents
    <3>1. fired[t] <= emitted[t] /\ fired[t] \in Nat /\ emitted[t] \in Nat
      BY FiredBound
    <3>2. emitted[t] <= MaxEvents /\ reported[t] \in BOOLEAN \cup {None}
      BY <2>0 DEF IInv, ChildAt, Types
    <3> QED
      BY <3>1, <3>2, WorkerPipeAssumption
  <2> QED
    BY <2>0, <2>1 DEF TypeOK, Types
<1>2. IInv => EventsDelivered
  BY AllDelivered DEF EventsDelivered
<1>3. IInv => CompleteMeansReported
  BY DEF IInv, Course, CompleteMeansReported
<1>4. IInv => NothingLost
  BY <1>1, <1>2, <1>3 DEF NothingLost
<1> QED
  BY <1>4, Invariance, PTL

=============================================================================
