------------------------- MODULE CookerParserProofs -------------------------
(***************************************************************************)
(* A parse that ends well has every recipe, and none is given up for       *)
(* nothing: for any number of parsers and recipes, any size of the pipe    *)
(* and any parsers killed.                                                 *)
(***************************************************************************)
EXTENDS CookerParser, FiniteSetTheorems, SequenceTheorems, TLAPS

\* The recipes of the results in a queue, each there once.
Pending(q) == {q[i].recipe : i \in DOMAIN q}
Once(q) == \A i, j \in DOMAIN q : q[i].recipe = q[j].recipe => i = j

\* A recipe is in one place at most, from the counter to the caches.
OnePlace ==
    /\ Once(pipe) /\ \A p \in Parser : Once(buffer[p])
    /\ \A r \in Recipe :
        /\ r \in todo \cup Pending(pipe) \cup added =>
               \A p \in Parser : r \notin job[p] /\ r \notin Pending(buffer[p])
        /\ r \in todo => r \notin Pending(pipe) /\ r \notin added
        /\ r \in added => r \notin Pending(pipe)
        /\ \A p, q \in Parser :
               /\ r \in job[p] => r \notin Pending(buffer[q])
               /\ r \in job[p] /\ r \in job[q] => p = q
               /\ r \in Pending(buffer[p]) /\ r \in Pending(buffer[q]) => p = q

\* What the reader counts is what it has added.
Counted == parsed = Cardinality(added)

\* A recipe in hand is the mark of a parser at work; one that has left had nothing
\* more to take, or was told to.
AtWork ==
    \A p \in Parser :
        /\ pc[p] \in {"loop", "closing"} => job[p] = NoJob
        /\ pc[p] = "parse" => \E r \in Recipe : job[p] = {r}
        /\ by = "none" /\ killed = {} =>
            /\ exit[p] = FALSE
            /\ pc[p] \in {"closing", "dead"} => todo = {}
            /\ pc[p] = "dead" => job[p] = NoJob /\ buffer[p] = <<>>

\* Who shuts down: the reader once it is through, or the main thread.
WhoShutsDown ==
    /\ haveshutdown <=> by # "none"
    /\ by = "none" => ~parser_quit /\ phase = "no"
    /\ by = "idle" => reader \in Outcome
    /\ \A p \in Parser : p \notin processes => pc[p] = "dead"

\* The reader asks for the processes that are left before it waits for a result:
\* the empty queue it then finds stays empty.
NothingMore ==
    by = "none" /\ killed = {} /\ reader = "check" /\ processes = {} /\ empty
        => pipe = <<>>

\* The inductive invariant.
IInv == /\ TypeOK /\ OnePlace /\ Counted /\ AtWork /\ WhoShutsDown /\ NothingMore
        /\ RecipesSomewhere /\ NoFalseAlarm
        /\ reader = "parsed" => parsed = Cardinality(Recipe)

(***************************************************************************)
(* Queues of results.                                                      *)
(***************************************************************************)

LEMMA PendingEmpty ==
    ASSUME NEW q \in Seq(Result)
    PROVE  /\ Pending(q) \subseteq Recipe
           /\ Pending(q) = {} <=> q = <<>>
<1>1. \A i \in DOMAIN q : q[i] \in Result
  BY ElementOfSeq
<1>2. q # <<>> => 1 \in DOMAIN q
  BY DEF Result
<1>3. q = <<>> => DOMAIN q = {}
  OBVIOUS
<1> QED
  BY <1>1, <1>2, <1>3 DEF Pending, Result

LEMMA NothingPending == Pending(<<>>) = {} /\ Once(<<>>)
<1>1. DOMAIN <<>> = {}
  OBVIOUS
<1> QED
  BY <1>1 DEF Pending, Once

LEMMA PendingAppend ==
    ASSUME NEW q \in Seq(Result), NEW x \in Result
    PROVE  /\ Append(q, x) \in Seq(Result)
           /\ Pending(Append(q, x)) = Pending(q) \cup {x.recipe}
           /\ Once(q) /\ x.recipe \notin Pending(q) => Once(Append(q, x))
<1> DEFINE n == Len(q)
           s == Append(q, x)
<1>1. /\ n \in Nat /\ DOMAIN q = 1..n /\ DOMAIN s = 1..(n + 1)
      /\ s \in Seq(Result)
      /\ \A i \in 1..n : s[i] = q[i]
      /\ s[n + 1] = x
  OBVIOUS
<1>2. \A i \in 1..(n + 1) : i \in 1..n \/ i = n + 1
  BY <1>1
<1>3. \A i \in 1..n : i \in 1..(n + 1) /\ i # n + 1
  BY <1>1
<1>4. n + 1 \in 1..(n + 1)
  BY <1>1
<1> HIDE DEF s
<1>5. Pending(s) = Pending(q) \cup {x.recipe}
  BY <1>1, <1>2, <1>3, <1>4 DEF Pending
<1>6. ASSUME Once(q), x.recipe \notin Pending(q)
      PROVE  Once(s)
  <2>1. \A i \in 1..n : q[i].recipe # x.recipe
    BY <1>1, <1>6 DEF Pending
  <2> QED
    BY <1>1, <1>2, <1>6, <2>1 DEF Once
<1> QED
  BY <1>1, <1>5, <1>6 DEF s

LEMMA PendingTail ==
    ASSUME NEW q \in Seq(Result), q # <<>>
    PROVE  /\ Tail(q) \in Seq(Result) /\ Head(q) \in Result
           /\ Len(Tail(q)) <= Len(q)
           /\ Pending(q) = Pending(Tail(q)) \cup {Head(q).recipe}
           /\ Once(q) => Once(Tail(q)) /\ Head(q).recipe \notin Pending(Tail(q))
<1> DEFINE n == Len(q)
           s == Tail(q)
<1>1. /\ n \in Nat \ {0} /\ DOMAIN q = 1..n /\ DOMAIN s = 1..(n - 1)
      /\ s \in Seq(Result) /\ Head(q) \in Result
      /\ \A i \in 1..(n - 1) : s[i] = q[i + 1]
      /\ Head(q) = q[1] /\ Len(s) = n - 1
  BY HeadTailProperties
<1>2. \A i \in 1..n : i = 1 \/ (i - 1 \in 1..(n - 1) /\ i = (i - 1) + 1)
  BY <1>1
<1>3. \A i \in 1..(n - 1) : i + 1 \in 1..n /\ i + 1 # 1
  BY <1>1
<1>4. 1 \in 1..n
  BY <1>1
<1>5. \A i, j \in 1..(n - 1) : i + 1 = j + 1 => i = j
  BY <1>1
<1> HIDE DEF s
<1>6. ASSUME NEW i \in 1..n
      PROVE  q[i].recipe \in Pending(s) \cup {Head(q).recipe}
  <2>1. CASE i = 1
    BY <1>1, <2>1
  <2>2. CASE i # 1
    <3>1. i - 1 \in 1..(n - 1) /\ q[i] = s[i - 1]
      BY <1>1, <1>2, <2>2
    <3> QED
      BY <1>1, <3>1 DEF Pending
  <2> QED
    BY <2>1, <2>2
<1>7. ASSUME NEW i \in 1..(n - 1)
      PROVE  s[i].recipe \in Pending(q)
  BY <1>1, <1>3 DEF Pending
<1>8. Pending(q) = Pending(s) \cup {Head(q).recipe}
  <2>1. Head(q).recipe \in Pending(q)
    BY <1>1, <1>4 DEF Pending
  <2> QED
    BY <1>1, <1>6, <1>7, <2>1 DEF Pending
<1>9. ASSUME Once(q)
      PROVE  Once(s) /\ Head(q).recipe \notin Pending(s)
  <2>1. \A i, j \in 1..n : q[i].recipe = q[j].recipe => i = j
    BY <1>1, <1>9 DEF Once
  <2>2. Once(s)
    BY <1>1, <1>3, <1>5, <2>1 DEF Once
  <2>3. \A i \in 1..(n - 1) : s[i].recipe # q[1].recipe
    BY <1>1, <1>3, <1>4, <2>1
  <2> QED
    BY <1>1, <2>2, <2>3 DEF Pending
<1>10. n - 1 <= n
  BY <1>1
<1> QED
  BY <1>1, <1>8, <1>9, <1>10 DEF s

(***************************************************************************)
(* The invariant without its numbers: what is in which place.              *)
(***************************************************************************)

Somewhere(r) ==
    \/ r \in todo \/ r \in added \/ r \in Pending(pipe)
    \/ \E p \in Parser : r \in job[p] \/ r \in Pending(buffer[p])

AllSomewhere == ~haveshutdown /\ killed = {} => \A r \in Recipe : Somewhere(r)

LEMMA SomewhereElement == TypeOK => (RecipesSomewhere <=> AllSomewhere)
<1> SUFFICES ASSUME TypeOK PROVE RecipesSomewhere <=> AllSomewhere
  OBVIOUS
<1> DEFINE Travels == {r.recipe : r \in Results(pipe)
                                     \cup UNION {Results(buffer[p]) : p \in Parser}}
           InHand == UNION {job[p] : p \in Parser}
           All == todo \cup InHand \cup added \cup Travels
<1>1. \A r : r \in Travels <=>
          r \in Pending(pipe) \/ \E p \in Parser : r \in Pending(buffer[p])
  BY DEF Results, Pending
<1>2. \A r : r \in InHand <=> \E p \in Parser : r \in job[p]
  OBVIOUS
<1> HIDE DEF Travels, InHand
<1>3. \A r : r \in All <=> r \in todo \/ r \in InHand \/ r \in added \/ r \in Travels
  OBVIOUS
<1> HIDE DEF All
<1>4. \A r : r \in All <=> Somewhere(r)
  BY <1>1, <1>2, <1>3 DEF Somewhere
<1>5. \A r : Somewhere(r) => r \in Recipe
  <2>1. Pending(pipe) \subseteq Recipe
    BY PendingEmpty DEF TypeOK
  <2>2. \A p \in Parser : buffer[p] \in Seq(Result) /\ job[p] \subseteq Recipe
    BY DEF TypeOK
  <2>3. \A p \in Parser : Pending(buffer[p]) \subseteq Recipe
    BY <2>2, PendingEmpty
  <2>4. todo \subseteq Recipe /\ added \subseteq Recipe
    BY DEF TypeOK
  <2> QED
    BY <2>1, <2>2, <2>3, <2>4 DEF Somewhere
<1>6. Recipe = All <=> \A r \in Recipe : Somewhere(r)
  BY <1>4, <1>5
<1> QED
  <2>1. RecipesSomewhere <=> (~haveshutdown /\ killed = {} => Recipe = All)
    BY DEF RecipesSomewhere, All, Travels, InHand
  <2> QED
    BY <1>6, <2>1 DEF AllSomewhere

LEMMA SomewhereElementNext == TypeOK' => (RecipesSomewhere' <=> AllSomewhere')
  BY SomewhereElement, PTL

\* The places of the queue and of the buffers, in the terms of OnePlace.
LEMMA QueueTypes ==
    ASSUME TypeOK
    PROVE  /\ pipe \in Seq(Result) /\ Len(pipe) \in Nat
           /\ \A p \in Parser : buffer[p] \in Seq(Result)
           /\ Pending(pipe) \subseteq Recipe
           /\ \A p \in Parser : Pending(buffer[p]) \subseteq Recipe
           /\ \A p \in Parser : job[p] \subseteq Recipe
<1>1. /\ pipe \in Seq(Result) /\ Len(pipe) \in Nat
      /\ \A p \in Parser : buffer[p] \in Seq(Result)
      /\ \A p \in Parser : job[p] \subseteq Recipe
  <2>1. pipe \in Seq(Result) /\ Len(pipe) \in Nat
    <3>1. pipe \in Seq(Result)
      BY DEF TypeOK
    <3> QED
      BY <3>1
  <2>2. \A p \in Parser : buffer[p] \in Seq(Result)
    BY DEF TypeOK
  <2>3. \A p \in Parser : job[p] \subseteq Recipe
    BY DEF TypeOK
  <2> QED
    BY <2>1, <2>2, <2>3
<1> QED
  BY <1>1, PendingEmpty

LEMMA InitInv == Init => IInv
<1> SUFFICES ASSUME Init PROVE IInv
  OBVIOUS
<1>1. Cardinality({}) = 0 /\ Cardinality(Recipe) \in Nat
  BY FS_EmptySet, FS_CardinalityType, RecipeAssumption
<1>2. <<>> \in Seq(Result) /\ Len(<<>>) = 0 /\ PipeSize \in Nat
  BY BoundAssumption
<1>3. TypeOK
  <2>1. 0 \in 0..Cardinality(Recipe)
    BY <1>1
  <2>2. [p \in Parser |-> <<>>] \in [Parser -> Seq(Result)]
    BY <1>2
  <2>3. exit \in [Parser -> BOOLEAN] /\ empty \in BOOLEAN /\ parser_quit \in BOOLEAN
        /\ haveshutdown \in BOOLEAN
    BY DEF Init
  <2>4. pipe \in Seq(Result) /\ Len(pipe) <= PipeSize
    BY <1>2 DEF Init
  <2> QED
    BY <2>1, <2>2, <2>3, <2>4 DEF Init, TypeOK, NoJob
<1>4. Pending(<<>>) = {} /\ Once(<<>>)
  BY NothingPending
<1>5. OnePlace
  BY <1>4 DEF Init, OnePlace, NoJob
<1>6. Counted /\ AtWork /\ WhoShutsDown /\ NothingMore
  BY <1>1 DEF Init, Counted, AtWork, WhoShutsDown, NothingMore
<1>7. RecipesSomewhere
  <2>1. \A r \in Recipe : Somewhere(r)
    BY DEF Init, Somewhere
  <2> QED
    BY <1>3, <2>1, SomewhereElement DEF AllSomewhere
<1>8. NoFalseAlarm /\ (reader = "parsed" => parsed = Cardinality(Recipe))
  BY DEF Init, NoFalseAlarm
<1> QED
  BY <1>3, <1>5, <1>6, <1>7, <1>8 DEF IInv

(***************************************************************************)
(* The parsers.                                                            *)
(***************************************************************************)

\* What IInv says of the reader stays true with what the reader is about.
LEMMA ReaderSame ==
    ASSUME IInv, UNCHANGED <<readerVars, by>>, killed \subseteq killed'
    PROVE  /\ Counted' /\ NoFalseAlarm'
           /\ (reader' = "parsed" => parsed' = Cardinality(Recipe))
  BY DEF IInv, Counted, NoFalseAlarm, readerVars

LEMMA TakeJobInv ==
    ASSUME IInv, NEW p \in Parser, TakeJob(p)
    PROVE  IInv'
<1>1. PICK r \in todo : /\ todo' = todo \ {r} /\ job' = [job EXCEPT ![p] = {r}]
                        /\ pc[p] = "loop" /\ pc' = [pc EXCEPT ![p] = "parse"]
                        /\ UNCHANGED <<exit, buffer, killed, pipe>>
                        /\ UNCHANGED readerVars /\ UNCHANGED shutdownVars
  BY DEF TakeJob
<1>2. r \in Recipe /\ job[p] = {}
  BY <1>1 DEF IInv, TypeOK, AtWork, NoJob
<1>3. UNCHANGED <<reader, processes, empty, parsed, added, phase, by, haveshutdown,
                  parser_quit>>
  BY <1>1 DEF readerVars, shutdownVars
<1>4. TypeOK'
  BY <1>1, <1>2, <1>3 DEF IInv, TypeOK
<1>5. /\ job'[p] = {r} /\ pc'[p] = "parse"
      /\ \A q \in Parser : q # p => job'[q] = job[q] /\ pc'[q] = pc[q]
  BY <1>1 DEF IInv, TypeOK
<1>6. OnePlace'
  BY <1>1, <1>2, <1>3, <1>5 DEF IInv, OnePlace
<1>7. AtWork'
  BY <1>1, <1>2, <1>3, <1>5 DEF IInv, AtWork
<1>8. WhoShutsDown' /\ NothingMore'
  BY <1>1, <1>3, <1>5 DEF IInv, WhoShutsDown, NothingMore
<1>9. RecipesSomewhere'
  <2>1. \A x \in Recipe : Somewhere(x) => Somewhere(x)'
    BY <1>1, <1>2, <1>3, <1>5 DEF Somewhere
  <2> QED
    BY <1>1, <1>3, <1>4, <2>1, SomewhereElement, SomewhereElementNext
     DEF IInv, AllSomewhere, shutdownVars, readerVars
<1> QED
  BY <1>1, <1>3, <1>4, <1>6, <1>7, <1>8, <1>9, ReaderSame DEF IInv

LEMMA ParseInv ==
    ASSUME IInv, NEW p \in Parser, Parse(p)
    PROVE  IInv'
<1>1. PICK r \in job[p], ok \in BOOLEAN :
          /\ buffer' = [buffer EXCEPT ![p] = Append(buffer[p], [recipe |-> r, ok |-> ok])]
          /\ job' = [job EXCEPT ![p] = {}]
          /\ pc[p] = "parse" /\ pc' = [pc EXCEPT ![p] = "loop"]
          /\ UNCHANGED <<todo, exit, killed, pipe>>
          /\ UNCHANGED readerVars /\ UNCHANGED shutdownVars
  BY DEF Parse, NoJob
<1>2. r \in Recipe /\ job[p] = {r}
  BY <1>1 DEF IInv, TypeOK, AtWork
<1>3. UNCHANGED <<reader, processes, empty, parsed, added, phase, by, haveshutdown,
                  parser_quit>>
  BY <1>1 DEF readerVars, shutdownVars
<1> DEFINE x == [recipe |-> r, ok |-> ok]
<1>4. x \in Result /\ x.recipe = r
  BY <1>2 DEF Result
<1>5. r \notin Pending(buffer[p])
  BY <1>2 DEF IInv, OnePlace
<1>6. /\ Append(buffer[p], x) \in Seq(Result)
      /\ Pending(Append(buffer[p], x)) = Pending(buffer[p]) \cup {r}
      /\ Once(Append(buffer[p], x))
  <2>1. buffer[p] \in Seq(Result) /\ Once(buffer[p])
    BY QueueTypes DEF IInv, OnePlace
  <2> QED
    BY <1>4, <1>5, <2>1, PendingAppend
<1>7. /\ buffer'[p] = Append(buffer[p], x) /\ job'[p] = {} /\ pc'[p] = "loop"
      /\ \A q \in Parser : q # p => /\ job'[q] = job[q] /\ pc'[q] = pc[q]
                                    /\ buffer'[q] = buffer[q]
  BY <1>1 DEF IInv, TypeOK
<1> HIDE DEF x
<1>8. TypeOK'
  BY <1>1, <1>3, <1>6, <1>7 DEF IInv, TypeOK, x
<1>9. /\ Pending(buffer'[p]) = Pending(buffer[p]) \cup {r}
      /\ Once(buffer'[p])
  BY <1>6, <1>7
<1>10. OnePlace'
  BY <1>1, <1>2, <1>3, <1>7, <1>9 DEF IInv, OnePlace
<1>11. AtWork'
  BY <1>1, <1>3, <1>7 DEF IInv, AtWork, NoJob
<1>12. WhoShutsDown' /\ NothingMore'
  BY <1>1, <1>3, <1>7 DEF IInv, WhoShutsDown, NothingMore
<1>13. RecipesSomewhere'
  <2>1. \A y \in Recipe : Somewhere(y) => Somewhere(y)'
    BY <1>1, <1>2, <1>3, <1>7, <1>9 DEF Somewhere
  <2> QED
    BY <1>1, <1>3, <1>8, <2>1, SomewhereElement, SomewhereElementNext
     DEF IInv, AllSomewhere, shutdownVars, readerVars
<1> QED
  BY <1>1, <1>3, <1>8, <1>10, <1>11, <1>12, <1>13, ReaderSame DEF IInv

\* A parser leaves its loop, ends or is killed.
LEMMA GoInv ==
    ASSUME IInv, NEW p \in Parser, Leave(p) \/ End(p) \/ Kill(p)
    PROVE  IInv'
<1>1. /\ UNCHANGED <<todo, job, exit, buffer, pipe>>
      /\ UNCHANGED <<reader, processes, empty, parsed, added, phase, by, haveshutdown,
                     parser_quit>>
  BY DEF Leave, End, Kill, readerVars, shutdownVars
<1>2. PICK w \in {"closing", "dead"} : pc' = [pc EXCEPT ![p] = w]
  BY DEF Leave, End, Kill
<1>3. killed \subseteq killed' /\ killed' \subseteq Parser
      /\ (killed' = {} => ~Kill(p))
  BY DEF Leave, End, Kill, IInv, TypeOK
<1>4. pc[p] # "dead" /\ pc'[p] = w /\ \A q \in Parser : q # p => pc'[q] = pc[q]
  BY <1>2 DEF Leave, End, Kill, IInv, TypeOK
<1>5. TypeOK'
  BY <1>1, <1>2, <1>3 DEF IInv, TypeOK
<1>6. OnePlace'
  BY <1>1 DEF IInv, OnePlace
<1>7. AtWork'
  <2> SUFFICES ASSUME NEW q \in Parser
               PROVE  /\ pc'[q] \in {"loop", "closing"} => job[q] = NoJob
                      /\ pc'[q] = "parse" => \E r \in Recipe : job[q] = {r}
                      /\ by = "none" /\ killed' = {} =>
                          /\ exit[q] = FALSE
                          /\ pc'[q] \in {"closing", "dead"} => todo = {}
                          /\ pc'[q] = "dead" => job[q] = NoJob /\ buffer[q] = <<>>
    BY <1>1 DEF AtWork
  <2>1. /\ pc[q] \in {"loop", "closing"} => job[q] = NoJob
        /\ pc[q] = "parse" => \E r \in Recipe : job[q] = {r}
        /\ by = "none" /\ killed = {} =>
            /\ exit[q] = FALSE
            /\ pc[q] \in {"closing", "dead"} => todo = {}
            /\ pc[q] = "dead" => job[q] = NoJob /\ buffer[q] = <<>>
    BY DEF IInv, AtWork
  <2>2. CASE q # p
    BY <1>3, <1>4, <2>1, <2>2
  <2>3. CASE q = p /\ Leave(p)
    BY <1>3, <1>4, <2>1, <2>3 DEF Leave, IInv, WhoShutsDown
  <2>4. CASE q = p /\ End(p)
    BY <1>3, <1>4, <2>1, <2>4 DEF End
  <2>5. CASE q = p /\ Kill(p)
    <3>1. killed' # {}
      BY <2>5 DEF Kill
    <3>2. pc'[q] = "dead"
      BY <2>5 DEF Kill, IInv, TypeOK
    <3> QED
      BY <3>1, <3>2
  <2> QED
    BY <2>2, <2>3, <2>4, <2>5
<1>8. WhoShutsDown' /\ NothingMore'
  <2>1. WhoShutsDown'
    BY <1>1, <1>4 DEF IInv, WhoShutsDown
  <2>2. NothingMore'
    BY <1>1, <1>3 DEF IInv, NothingMore
  <2> QED
    BY <2>1, <2>2
<1>9. RecipesSomewhere'
  <2>1. \A x \in Recipe : Somewhere(x) => Somewhere(x)'
    BY <1>1 DEF Somewhere
  <2> QED
    BY <1>1, <1>3, <1>5, <2>1, SomewhereElement, SomewhereElementNext
     DEF IInv, AllSomewhere, shutdownVars, readerVars
<1> QED
  BY <1>1, <1>3, <1>5, <1>6, <1>7, <1>8, <1>9, ReaderSame DEF IInv, readerVars

LEMMA FeedInv ==
    ASSUME IInv, NEW p \in Parser, Feed(p)
    PROVE  IInv'
<1> DEFINE r == Head(buffer[p]).recipe
<1>1. /\ pc[p] # "dead" /\ buffer[p] # <<>> /\ Len(pipe) < PipeSize
      /\ pipe' = Append(pipe, Head(buffer[p]))
      /\ buffer' = [buffer EXCEPT ![p] = Tail(buffer[p])]
      /\ UNCHANGED <<todo, pc, job, exit, killed>>
      /\ UNCHANGED <<reader, processes, empty, parsed, added, phase, by, haveshutdown,
                     parser_quit>>
      /\ UNCHANGED readerVars /\ UNCHANGED shutdownVars
  BY DEF Feed, readerVars, shutdownVars
<1>2. /\ pipe \in Seq(Result) /\ Len(pipe) \in Nat /\ buffer[p] \in Seq(Result)
      /\ Pending(buffer[p]) \subseteq Recipe
  BY QueueTypes DEF IInv
<1>3. Once(pipe) /\ Once(buffer[p])
  BY DEF IInv, OnePlace
<1>4. /\ Tail(buffer[p]) \in Seq(Result) /\ Head(buffer[p]) \in Result
      /\ Pending(buffer[p]) = Pending(Tail(buffer[p])) \cup {r}
      /\ Once(Tail(buffer[p])) /\ r \notin Pending(Tail(buffer[p]))
  BY <1>1, <1>2, <1>3, PendingTail
<1> HIDE DEF r
<1>5. r \in Recipe /\ r \in Pending(buffer[p])
  BY <1>2, <1>4
<1>6. r \notin Pending(pipe) /\ r \notin todo /\ r \notin added
  BY <1>5 DEF IInv, OnePlace
<1>7. /\ pipe' \in Seq(Result) /\ Pending(pipe') = Pending(pipe) \cup {r}
      /\ Once(pipe')
  BY <1>1, <1>2, <1>3, <1>4, <1>6, PendingAppend DEF r
<1>8. /\ buffer'[p] = Tail(buffer[p])
      /\ \A q \in Parser : q # p => buffer'[q] = buffer[q]
  BY <1>1 DEF IInv, TypeOK
<1>9. TypeOK'
  <2>1. Len(pipe') = Len(pipe) + 1
    BY <1>1, <1>2, <1>4
  <2>2. Len(pipe') <= PipeSize
    BY <1>1, <1>2, <2>1, BoundAssumption
  <2>3. buffer' \in [Parser -> Seq(Result)]
    BY <1>1, <1>4 DEF IInv, TypeOK
  <2> QED
    BY <1>1, <1>7, <2>2, <2>3 DEF IInv, TypeOK
<1>10. /\ Pending(buffer[p]) = Pending(buffer'[p]) \cup {r}
       /\ Once(buffer'[p]) /\ r \notin Pending(buffer'[p])
  BY <1>4, <1>8
<1>11. OnePlace'
  <2>1. \A q \in Parser : Once(buffer'[q])
    BY <1>8, <1>10 DEF IInv, OnePlace
  <2>2. /\ \A q \in Parser : q # p => r \notin Pending(buffer[q])
        /\ \A q \in Parser : r \notin job[q]
    BY <1>5 DEF IInv, OnePlace
  <2>3. /\ \A q \in Parser : q # p => Pending(buffer'[q]) = Pending(buffer[q])
        /\ \A q \in Parser : r \notin Pending(buffer'[q])
        /\ \A q \in Parser : Pending(buffer'[q]) \subseteq Pending(buffer[q])
    BY <1>8, <1>10, <2>2
  <2> DEFINE Placed(x) ==
        /\ x \in todo \cup Pending(pipe) \cup added =>
               \A q \in Parser : x \notin job[q] /\ x \notin Pending(buffer[q])
        /\ x \in todo => x \notin Pending(pipe) /\ x \notin added
        /\ x \in added => x \notin Pending(pipe)
        /\ \A s, q \in Parser :
               /\ x \in job[s] => x \notin Pending(buffer[q])
               /\ x \in job[s] /\ x \in job[q] => s = q
               /\ x \in Pending(buffer[s]) /\ x \in Pending(buffer[q]) => s = q
  <2>4. ASSUME NEW x \in Recipe
        PROVE  Placed(x)'
    <3>1. Placed(x)
      BY DEF IInv, OnePlace
    <3>2. CASE x = r
      BY <1>1, <1>6, <1>7, <2>2, <2>3, <3>2
    <3>3. CASE x # r
      BY <1>1, <1>7, <2>3, <3>1, <3>3
    <3> QED
      BY <3>2, <3>3
  <2> QED
    BY <1>7, <2>1, <2>4 DEF OnePlace
<1>12. AtWork'
  <2>1. \A q \in Parser : buffer[q] = <<>> => buffer'[q] = <<>>
    BY <1>1, <1>8
  <2> QED
    BY <1>1, <2>1 DEF IInv, AtWork
<1>13. WhoShutsDown'
  BY <1>1 DEF IInv, WhoShutsDown
<1>14. NothingMore'
  BY <1>1 DEF IInv, NothingMore, WhoShutsDown
<1>15. RecipesSomewhere'
  <2>1. \A y \in Recipe : Somewhere(y) => Somewhere(y)'
    BY <1>1, <1>7, <1>8, <1>10 DEF Somewhere
  <2> QED
    BY <1>1, <1>9, <2>1, SomewhereElement, SomewhereElementNext
     DEF IInv, AllSomewhere
<1>16. killed \subseteq killed'
  BY <1>1
<1> QED
  BY <1>1, <1>9, <1>11, <1>12, <1>13, <1>14, <1>15, <1>16, ReaderSame DEF IInv

(***************************************************************************)
(* The idle thread.                                                        *)
(***************************************************************************)

\* A shutdown leaves what happened before it where it is.
LEMMA BeginShutdownKeeps ==
    ASSUME IInv, NEW thread \in {"idle", "main"}, BeginShutdown(thread)
    PROVE  /\ haveshutdown' = TRUE /\ by' \in {"idle", "main"}
           /\ phase' \in {"no", "drain", "join", "drain again", "join again", "done"}
           /\ parser_quit' \in BOOLEAN
           /\ by \in {"idle", "main"} => by' = by
           /\ by = "none" => by' = thread
<1>1. /\ haveshutdown \in BOOLEAN /\ parser_quit \in BOOLEAN
      /\ by \in {"none", "idle", "main"} /\ (haveshutdown <=> by # "none")
      /\ phase \in {"no", "drain", "join", "drain again", "join again", "done"}
  BY DEF IInv, TypeOK, WhoShutsDown
<1>2. CASE haveshutdown
  BY <1>1, <1>2 DEF BeginShutdown, shutdownVars
<1>3. CASE ~haveshutdown
  BY <1>1, <1>3 DEF BeginShutdown
<1> QED
  BY <1>2, <1>3

\* With no process left, none of them killed, and the queue found empty, every
\* recipe has been added.
LEMMA EmptyMeansAll ==
    ASSUME IInv, reader = "check", processes = {}, empty, by = "none", killed = {}
    PROVE  parsed = Cardinality(Recipe)
<1>1. \A p \in Parser : pc[p] = "dead"
  BY DEF IInv, WhoShutsDown
<1>2. \A p \in Parser : job[p] = {} /\ buffer[p] = <<>> /\ todo = {}
  BY <1>1 DEF IInv, AtWork, NoJob
<1>3. todo = {}
  BY <1>2, ParserAssumption
<1>4. pipe = <<>>
  BY DEF IInv, NothingMore
<1>5. Pending(<<>>) = {}
  BY NothingPending
<1>6. \A r \in Recipe : Somewhere(r)
  BY SomewhereElement DEF IInv, AllSomewhere, WhoShutsDown
<1>7. \A r \in Recipe : r \in added
  BY <1>2, <1>3, <1>4, <1>5, <1>6 DEF Somewhere
<1>8. added = Recipe
  BY <1>7 DEF IInv, TypeOK
<1> QED
  BY <1>8 DEF IInv, Counted

LEMMA CheckInv ==
    ASSUME IInv, Check
    PROVE  IInv'
<1>1. /\ reader = "check"
      /\ UNCHANGED <<todo, pc, job, exit, buffer, killed, pipe, empty, parsed, added>>
  BY DEF Check, parserVars
<1>2. processes' = processes \/ processes' = processes \cap Alive
  BY DEF Check
<1>3. /\ by \in {"none", "idle", "main"} /\ by # "idle" /\ empty \in BOOLEAN
      /\ by = "none" => phase = "no"
      /\ parsed \in 0..Cardinality(Recipe) /\ Cardinality(Recipe) \in Nat
  <2>1. by \in {"none", "idle", "main"} /\ empty \in BOOLEAN
        /\ parsed \in 0..Cardinality(Recipe)
    BY DEF IInv, TypeOK
  <2>2. by # "idle" /\ (by = "none" => phase = "no")
    BY <1>1 DEF IInv, WhoShutsDown, Outcome
  <2> QED
    BY <2>1, <2>2, FS_CardinalityType, RecipeAssumption
<1>4. \/ /\ reader' = "get"
         /\ UNCHANGED <<phase, by, haveshutdown, parser_quit>>
      \/ /\ reader' = "parsed" /\ parsed = Cardinality(Recipe)
         /\ BeginShutdown("idle")
      \/ /\ reader' = "incomplete" /\ BeginShutdown("idle")
         /\ killed = {} => by = "main"
  <2>1. CASE processes = {} /\ empty
    <3>1. Finish(IF parsed >= Cardinality(Recipe) THEN "parsed" ELSE "incomplete")
      BY <2>1 DEF Check
    <3>2. CASE parsed >= Cardinality(Recipe)
      BY <1>3, <3>1, <3>2 DEF Finish
    <3>3. CASE ~(parsed >= Cardinality(Recipe))
      <4>1. by = "none" => killed # {}
        BY <1>1, <1>3, <2>1, <3>3, EmptyMeansAll
      <4> QED
        BY <1>3, <3>1, <3>3, <4>1 DEF Finish
    <3> QED
      BY <3>2, <3>3
  <2>2. CASE ~(processes = {} /\ empty)
    <3>1. \/ phase = "done" /\ Finish("incomplete")
          \/ parsed >= Cardinality(Recipe) /\ Finish("parsed")
          \/ reader' = "get" /\ UNCHANGED shutdownVars
      BY <2>2 DEF Check
    <3> QED
      BY <1>3, <3>1 DEF Finish, shutdownVars
  <2> QED
    BY <2>1, <2>2
<1>5. /\ haveshutdown' \in BOOLEAN /\ parser_quit' \in BOOLEAN
      /\ phase' \in {"no", "drain", "join", "drain again", "join again", "done"}
      /\ by' \in {"none", "idle", "main"}
      /\ reader' \in {"get", "parsed", "incomplete"}
      /\ reader' \in {"parsed", "incomplete"} => haveshutdown' /\ by' # "none"
      /\ reader' = "get" => UNCHANGED <<phase, by, haveshutdown, parser_quit>>
      /\ by = "main" => by' = "main"
  <2>1. /\ haveshutdown \in BOOLEAN /\ parser_quit \in BOOLEAN
        /\ by \in {"none", "idle", "main"}
        /\ phase \in {"no", "drain", "join", "drain again", "join again", "done"}
    BY DEF IInv, TypeOK
  <2>2. CASE reader' = "get"
    BY <1>4, <2>1, <2>2
  <2>3. CASE reader' # "get"
    BY <1>4, <2>3, BeginShutdownKeeps
  <2> QED
    BY <2>2, <2>3
<1>6. TypeOK'
  <2>1. processes' \subseteq Parser
    BY <1>2 DEF IInv, TypeOK
  <2> QED
    BY <1>1, <1>5, <2>1 DEF IInv, TypeOK, Outcome
<1>7. OnePlace' /\ Counted'
  BY <1>1 DEF IInv, OnePlace, Counted
<1>8. AtWork'
  BY <1>1, <1>5 DEF IInv, AtWork
<1>9. WhoShutsDown'
  <2>1. \A p \in Parser : p \notin processes' => pc[p] = "dead"
    BY <1>2 DEF Alive, IInv, WhoShutsDown
  <2>2. CASE reader' = "get"
    <3>1. UNCHANGED <<pc, phase, by, haveshutdown, parser_quit>>
      BY <1>1, <1>5, <2>2
    <3>2. /\ haveshutdown <=> by # "none"
          /\ by = "none" => ~parser_quit /\ phase = "no"
      BY DEF IInv, WhoShutsDown
    <3> QED
      BY <1>3, <2>1, <3>1, <3>2 DEF WhoShutsDown
  <2>3. CASE reader' \in {"parsed", "incomplete"}
    BY <1>1, <1>5, <2>1, <2>3 DEF WhoShutsDown, Outcome
  <2> QED
    BY <1>5, <2>2, <2>3
<1>10. NothingMore'
  BY <1>5 DEF NothingMore
<1>11. RecipesSomewhere'
  <2>1. CASE haveshutdown'
    BY <2>1 DEF RecipesSomewhere
  <2>2. CASE ~haveshutdown'
    <3>1. haveshutdown' = haveshutdown
      BY <1>5, <2>2
    <3>2. \A r \in Recipe : Somewhere(r) => Somewhere(r)'
      BY <1>1 DEF Somewhere
    <3> QED
      BY <1>1, <1>6, <3>1, <3>2, SomewhereElement, SomewhereElementNext
       DEF IInv, AllSomewhere
  <2> QED
    BY <2>1, <2>2
<1>12. NoFalseAlarm' /\ (reader' = "parsed" => parsed' = Cardinality(Recipe))
  BY <1>1, <1>4, <1>5 DEF NoFalseAlarm
<1> QED
  BY <1>6, <1>7, <1>8, <1>9, <1>10, <1>11, <1>12 DEF IInv

\* The head of the queue leaves the pipe, and takes its place elsewhere or none.
LEMMA PipeTail ==
    ASSUME IInv, pipe # <<>>, pipe' = Tail(pipe),
           UNCHANGED <<todo, job, buffer>>,
           added' = added \/ added' = added \cup {Head(pipe).recipe}
    PROVE  /\ pipe' \in Seq(Result) /\ Len(pipe') <= PipeSize
           /\ Head(pipe) \in Result /\ Head(pipe).recipe \in Recipe \ added
           /\ Pending(pipe) = Pending(pipe') \cup {Head(pipe).recipe}
           /\ added' \subseteq Recipe
           /\ OnePlace'
<1> DEFINE r == Head(pipe).recipe
<1>1. /\ pipe \in Seq(Result) /\ Pending(pipe) \subseteq Recipe
      /\ Len(pipe) \in Nat /\ Len(pipe) <= PipeSize
  BY QueueTypes DEF IInv, TypeOK
<1>2. Once(pipe)
  BY DEF IInv, OnePlace
<1>3. /\ pipe' \in Seq(Result) /\ Head(pipe) \in Result
      /\ Len(pipe') <= Len(pipe)
      /\ Pending(pipe) = Pending(pipe') \cup {r}
      /\ Once(pipe') /\ r \notin Pending(pipe')
  BY <1>1, <1>2, PendingTail
<1> HIDE DEF r
<1>4. Len(pipe') \in Nat
  BY <1>3
<1>5. Len(pipe') <= PipeSize
  BY <1>1, <1>3, <1>4, BoundAssumption
<1>6. r \in Recipe /\ r \notin added /\ r \notin todo
  <2>1. r \in Recipe /\ r \in Pending(pipe)
    BY <1>1, <1>3
  <2> QED
    BY <2>1 DEF IInv, OnePlace
<1>7. added' \subseteq Recipe
  BY <1>6 DEF IInv, TypeOK, r
<1>8. \A x \in Recipe : /\ x \in added' => x \in added \/ x = r
                        /\ x \in Pending(pipe') => x \in Pending(pipe) /\ x # r
  BY <1>3 DEF r
<1>9. OnePlace'
  <2> DEFINE Placed(x) ==
        /\ x \in todo \cup Pending(pipe) \cup added =>
               \A q \in Parser : x \notin job[q] /\ x \notin Pending(buffer[q])
        /\ x \in todo => x \notin Pending(pipe) /\ x \notin added
        /\ x \in added => x \notin Pending(pipe)
        /\ \A s, q \in Parser :
               /\ x \in job[s] => x \notin Pending(buffer[q])
               /\ x \in job[s] /\ x \in job[q] => s = q
               /\ x \in Pending(buffer[s]) /\ x \in Pending(buffer[q]) => s = q
  <2>1. ASSUME NEW x \in Recipe
        PROVE  Placed(x)'
    <3>1. Placed(x)
      BY DEF IInv, OnePlace
    <3>2. x \in Pending(pipe) <=> x \in Pending(pipe') \/ x = r
      BY <1>3
    <3> QED
      BY <1>6, <1>8, <3>1, <3>2
  <2>2. \A q \in Parser : Once(buffer'[q])
    BY DEF IInv, OnePlace
  <2> QED
    BY <1>3, <2>1, <2>2 DEF OnePlace
<1> QED
  BY <1>3, <1>5, <1>6, <1>7, <1>9 DEF r

LEMMA GetInv ==
    ASSUME IInv, Get
    PROVE  IInv'
<1> DEFINE r == Head(pipe).recipe
<1>1. /\ reader = "get" /\ pipe # <<>> /\ pipe' = Tail(pipe) /\ empty' = FALSE
      /\ UNCHANGED <<todo, pc, job, exit, buffer, killed, processes>>
  BY DEF Get, parserVars
<1>2. \/ /\ parsed' = parsed + 1 /\ added' = added \cup {r} /\ reader' = "check"
         /\ UNCHANGED <<phase, by, haveshutdown, parser_quit>>
      \/ /\ reader' = "error" /\ BeginShutdown("idle") /\ UNCHANGED <<parsed, added>>
  BY DEF Get, Finish, shutdownVars
<1>3. /\ pipe' \in Seq(Result) /\ Len(pipe') <= PipeSize
      /\ r \in Recipe \ added /\ Pending(pipe) = Pending(pipe') \cup {r}
      /\ added' \subseteq Recipe /\ OnePlace'
  BY <1>1, <1>2, PipeTail
<1> HIDE DEF r
<1>4. /\ haveshutdown \in BOOLEAN /\ parser_quit \in BOOLEAN
      /\ by \in {"none", "idle", "main"}
      /\ phase \in {"no", "drain", "join", "drain again", "join again", "done"}
      /\ parsed \in 0..Cardinality(Recipe) /\ added \subseteq Recipe
  BY DEF IInv, TypeOK
<1>5. /\ haveshutdown' \in BOOLEAN /\ parser_quit' \in BOOLEAN
      /\ phase' \in {"no", "drain", "join", "drain again", "join again", "done"}
      /\ by' \in {"none", "idle", "main"}
      /\ reader' \in {"check", "error"}
      /\ reader' = "error" => haveshutdown' /\ by' # "none"
      /\ reader' = "check" => UNCHANGED <<phase, by, haveshutdown, parser_quit>>
  <2>1. CASE reader' = "check"
    BY <1>2, <1>4, <2>1
  <2>2. CASE reader' # "check"
    BY <1>2, <1>4, <2>2, BeginShutdownKeeps
  <2> QED
    BY <2>1, <2>2
<1>6. Counted' /\ parsed' \in 0..Cardinality(Recipe)
  <2>1. CASE reader' = "check"
    <3>1. IsFiniteSet(added) /\ IsFiniteSet(added')
      BY <1>3, <1>4, FS_Subset, RecipeAssumption
    <3>2. Cardinality(added') = Cardinality(added) + 1
      BY <1>2, <1>3, <2>1, <3>1, FS_AddElement
    <3>3. parsed' = Cardinality(added')
      BY <1>2, <2>1, <3>2 DEF IInv, Counted
    <3>4. Cardinality(added') \in Nat /\ Cardinality(Recipe) \in Nat
          /\ Cardinality(added') <= Cardinality(Recipe)
      BY <1>3, <3>1, FS_Subset, FS_CardinalityType, RecipeAssumption
    <3> QED
      BY <3>3, <3>4 DEF Counted
  <2>2. CASE reader' = "error"
    BY <1>2, <1>4, <2>2 DEF IInv, Counted
  <2> QED
    BY <1>5, <2>1, <2>2
<1>7. TypeOK'
  BY <1>1, <1>3, <1>5, <1>6 DEF IInv, TypeOK, Outcome
<1>8. AtWork'
  BY <1>1, <1>5 DEF IInv, AtWork
<1>9. WhoShutsDown'
  <2>1. \A p \in Parser : p \notin processes' => pc'[p] = "dead"
    BY <1>1 DEF IInv, WhoShutsDown
  <2>2. CASE reader' = "check"
    <3>1. UNCHANGED <<phase, by, haveshutdown, parser_quit>>
      BY <1>5, <2>2
    <3>2. /\ haveshutdown <=> by # "none"
          /\ by = "none" => ~parser_quit /\ phase = "no"
          /\ by # "idle"
      BY <1>1 DEF IInv, WhoShutsDown, Outcome
    <3> QED
      BY <2>1, <3>1, <3>2 DEF WhoShutsDown
  <2>3. CASE reader' = "error"
    BY <1>5, <2>1, <2>3 DEF WhoShutsDown, Outcome
  <2> QED
    BY <1>5, <2>2, <2>3
<1>10. NothingMore'
  BY <1>1 DEF NothingMore
<1>11. RecipesSomewhere'
  <2>1. CASE haveshutdown'
    BY <2>1 DEF RecipesSomewhere
  <2>2. CASE ~haveshutdown'
    <3>1. haveshutdown' = haveshutdown /\ added' = added \cup {r}
      BY <1>2, <1>5, <2>2
    <3>2. \A x \in Recipe : Somewhere(x) => Somewhere(x)'
      BY <1>1, <1>3, <3>1 DEF Somewhere
    <3> QED
      BY <1>1, <1>7, <3>1, <3>2, SomewhereElement, SomewhereElementNext
       DEF IInv, AllSomewhere
  <2> QED
    BY <2>1, <2>2
<1>12. NoFalseAlarm' /\ (reader' = "parsed" => parsed' = Cardinality(Recipe))
  BY <1>5 DEF NoFalseAlarm
<1> QED
  BY <1>3, <1>6, <1>7, <1>8, <1>9, <1>10, <1>11, <1>12 DEF IInv

\* What the parsers, the pipe and the caches hold is the same.
LEMMA PlacesSame ==
    ASSUME IInv, UNCHANGED <<todo, job, buffer, pipe, added, killed>>,
           haveshutdown => haveshutdown', TypeOK'
    PROVE  OnePlace' /\ RecipesSomewhere'
<1>1. OnePlace'
  BY DEF IInv, OnePlace
<1>2. CASE haveshutdown'
  BY <1>1, <1>2 DEF RecipesSomewhere
<1>3. CASE ~haveshutdown'
  <2>1. \A x \in Recipe : Somewhere(x) => Somewhere(x)'
    BY DEF Somewhere
  <2> QED
    BY <1>1, <1>3, <2>1, SomewhereElement, SomewhereElementNext DEF IInv, AllSomewhere
<1> QED
  BY <1>2, <1>3

LEMMA WaitInv ==
    ASSUME IInv, GetTimeout \/ Refuse
    PROVE  IInv'
<1>1. /\ UNCHANGED <<todo, pc, job, exit, buffer, killed, pipe, processes, parsed, added,
                     phase, by, haveshutdown, parser_quit>>
      /\ empty' \in BOOLEAN /\ reader' \in {"check", "stopped"}
      /\ reader' = "check" => reader = "get" /\ pipe = <<>>
      /\ reader = "get" \/ (reader = "check" /\ reader' = "stopped" /\ by = "main")
  BY DEF GetTimeout, Refuse, parserVars, shutdownVars, IInv, TypeOK
<1>2. TypeOK'
  BY <1>1 DEF IInv, TypeOK, Outcome
<1>3. OnePlace' /\ RecipesSomewhere'
  BY <1>1, <1>2, PlacesSame
<1>4. Counted' /\ AtWork'
  BY <1>1 DEF IInv, Counted, AtWork
<1>5. WhoShutsDown'
  BY <1>1 DEF IInv, WhoShutsDown, Outcome
<1>6. NothingMore'
  BY <1>1 DEF NothingMore
<1>7. NoFalseAlarm' /\ (reader' = "parsed" => parsed' = Cardinality(Recipe))
  BY <1>1 DEF NoFalseAlarm
<1> QED
  BY <1>2, <1>3, <1>4, <1>5, <1>6, <1>7 DEF IInv

(***************************************************************************)
(* shutdown().                                                             *)
(***************************************************************************)

LEMMA StopInv ==
    ASSUME IInv, Stop
    PROVE  IInv'
<1>1. /\ ~haveshutdown /\ BeginShutdown("main")
      /\ UNCHANGED <<todo, pc, job, exit, buffer, killed, pipe, reader, processes, empty,
                     parsed, added>>
  BY DEF Stop, parserVars, readerVars
<1>2. /\ haveshutdown' = TRUE /\ by' = "main" /\ parser_quit' = TRUE /\ phase' = "drain"
  BY <1>1 DEF BeginShutdown
<1>3. TypeOK'
  BY <1>1, <1>2 DEF IInv, TypeOK
<1>4. OnePlace' /\ RecipesSomewhere'
  BY <1>1, <1>2, <1>3, PlacesSame
<1>5. Counted' /\ AtWork' /\ NothingMore'
  BY <1>1, <1>2 DEF IInv, Counted, AtWork, NothingMore
<1>6. WhoShutsDown'
  BY <1>1, <1>2 DEF IInv, WhoShutsDown
<1>7. NoFalseAlarm' /\ (reader' = "parsed" => parsed' = Cardinality(Recipe))
  BY <1>1, <1>2 DEF IInv, NoFalseAlarm
<1> QED
  BY <1>3, <1>4, <1>5, <1>6, <1>7 DEF IInv

LEMMA ShutdownInv ==
    ASSUME IInv, Shutdown
    PROVE  IInv'
<1>1. /\ UNCHANGED <<todo, job, buffer, killed, reader, processes, empty, parsed, added,
                     by, haveshutdown, parser_quit>>
      /\ phase # "no"
  BY DEF Shutdown, Drain, Drained, Interrupt, Terminate, parserVars, readerVars, shutdownVars
<1>2. by # "none" /\ haveshutdown
  BY <1>1 DEF IInv, WhoShutsDown, TypeOK
<1>3. /\ phase' \in {"no", "drain", "join", "drain again", "join again", "done"}
      /\ exit' \in [Parser -> BOOLEAN]
      /\ pc' = pc \/ pc' = [p \in Parser |-> "dead"]
  <2>1. /\ phase \in {"no", "drain", "join", "drain again", "join again", "done"}
        /\ exit \in [Parser -> BOOLEAN]
    BY DEF IInv, TypeOK
  <2>2. CASE Drain
    BY <2>1, <2>2 DEF Drain, parserVars, shutdownVars
  <2>3. CASE Drained
    BY <2>1, <2>3 DEF Drained, parserVars
  <2>4. CASE Interrupt
    <3>1. exit' \in [Parser -> BOOLEAN]
      BY <2>1, <2>4 DEF Interrupt
    <3> QED
      BY <2>4, <3>1 DEF Interrupt
  <2>5. CASE Terminate
    BY <2>1, <2>5 DEF Terminate
  <2> QED
    BY <2>2, <2>3, <2>4, <2>5 DEF Shutdown
<1>4. /\ pc' \in [Parser -> {"loop", "parse", "closing", "dead"}]
      /\ \A p \in Parser : pc'[p] = pc[p] \/ pc'[p] = "dead"
  BY <1>3 DEF IInv, TypeOK
<1>5. /\ OnePlace'
      /\ pipe' \in Seq(Result) /\ Len(pipe') <= PipeSize
  <2>1. CASE Drain
    <3>1. pipe # <<>> /\ pipe' = Tail(pipe)
      BY <2>1 DEF Drain
    <3> QED
      BY <1>1, <3>1, PipeTail
  <2>2. CASE ~Drain
    <3>1. pipe' = pipe
      BY <2>2 DEF Shutdown, Drained, Interrupt, Terminate, parserVars
    <3>2. OnePlace'
      BY <1>1, <3>1 DEF IInv, OnePlace
    <3> QED
      BY <3>1, <3>2 DEF IInv, TypeOK
  <2> QED
    BY <2>1, <2>2
<1>6. TypeOK'
  BY <1>1, <1>3, <1>4, <1>5 DEF IInv, TypeOK
<1>7. AtWork'
  BY <1>1, <1>2, <1>4 DEF IInv, AtWork
<1>8. WhoShutsDown'
  BY <1>1, <1>2, <1>4 DEF IInv, WhoShutsDown
<1>9. Counted' /\ NothingMore' /\ RecipesSomewhere'
  BY <1>1, <1>2 DEF IInv, Counted, NothingMore, RecipesSomewhere
<1>10. NoFalseAlarm' /\ (reader' = "parsed" => parsed' = Cardinality(Recipe))
  BY <1>1 DEF IInv, NoFalseAlarm
<1> QED
  BY <1>5, <1>6, <1>7, <1>8, <1>9, <1>10 DEF IInv

(***************************************************************************)
(* The theorems.                                                           *)
(***************************************************************************)

LEMMA StutterInv == IInv /\ UNCHANGED vars => IInv'
<1> SUFFICES ASSUME IInv, UNCHANGED vars PROVE IInv'
  OBVIOUS
<1>1. UNCHANGED <<todo, pc, job, exit, buffer, killed, pipe, reader, processes, empty,
                  parsed, added, phase, by, haveshutdown, parser_quit>>
  BY DEF vars, parserVars, readerVars, shutdownVars
<1>2. TypeOK'
  BY <1>1 DEF IInv, TypeOK
<1>3. OnePlace' /\ RecipesSomewhere'
  BY <1>1, <1>2, PlacesSame
<1>4. Counted' /\ AtWork' /\ NothingMore'
  BY <1>1 DEF IInv, Counted, AtWork, NothingMore
<1>5. WhoShutsDown' /\ NoFalseAlarm'
      /\ (reader' = "parsed" => parsed' = Cardinality(Recipe))
  BY <1>1 DEF IInv, WhoShutsDown, NoFalseAlarm
<1> QED
  BY <1>2, <1>3, <1>4, <1>5 DEF IInv

LEMMA StepInv == IInv /\ [Next]_vars => IInv'
<1> SUFFICES ASSUME IInv, [Next]_vars PROVE IInv'
  OBVIOUS
<1>1. ASSUME NEW p \in Parser, Work(p) \/ Feed(p) \/ Kill(p)
      PROVE  IInv'
  BY <1>1, TakeJobInv, ParseInv, GoInv, FeedInv DEF Work
<1>2. CASE Reader
  BY <1>2, CheckInv, GetInv, WaitInv DEF Reader
<1>3. CASE Stop
  BY <1>3, StopInv
<1>4. CASE Shutdown
  BY <1>4, ShutdownInv
<1>5. CASE UNCHANGED vars
  BY <1>5, StutterInv
<1> QED
  BY <1>1, <1>2, <1>3, <1>4, <1>5 DEF Next

LEMMA Invariance == Spec => []IInv
  BY InitInv, StepInv, PTL DEF Spec

\* Every recipe added: there is nothing left for the queue and the buffers.
LEMMA AllAdded == IInv => ParsedMeansAll
<1> SUFFICES ASSUME IInv, reader = "parsed"
             PROVE  /\ added = Recipe /\ parsed = Cardinality(Recipe)
                    /\ pipe = <<>> /\ \A p \in Parser : buffer[p] = <<>>
  BY DEF ParsedMeansAll
<1>1. parsed = Cardinality(Recipe) /\ Cardinality(added) = Cardinality(Recipe)
  BY DEF IInv, Counted
<1>2. added = Recipe
  <2>1. added \subseteq Recipe
    BY DEF IInv, TypeOK
  <2> QED
    BY <1>1, <2>1, FS_Subset, RecipeAssumption
<1>3. /\ pipe \in Seq(Result) /\ Pending(pipe) \subseteq Recipe
      /\ \A p \in Parser : buffer[p] \in Seq(Result) /\ Pending(buffer[p]) \subseteq Recipe
  BY QueueTypes DEF IInv
<1>4. Pending(pipe) = {} /\ \A p \in Parser : Pending(buffer[p]) = {}
  BY <1>2, <1>3 DEF IInv, OnePlace
<1>5. pipe = <<>> /\ \A p \in Parser : buffer[p] = <<>>
  BY <1>3, <1>4, PendingEmpty
<1> QED
  BY <1>1, <1>2, <1>5

\* When the parse ends well every recipe has been added once, and the queue and the
\* buffers of the parsers are empty: parse_generator() and the queues it reads.
THEOREM ParsedMeansAllTheorem == Spec => []ParsedMeansAll
  BY Invariance, AllAdded, PTL

\* No parse is given up as incomplete unless a parser was killed or the user stopped
\* it: the look at the queue after the last parser has ended misses no result.
THEOREM NoFalseAlarmTheorem == Spec => []NoFalseAlarm
<1>1. IInv => NoFalseAlarm
  BY DEF IInv
<1> QED
  BY <1>1, Invariance, PTL

\* Between the counter and the caches no recipe is lost, while no parser is killed and
\* nobody shuts the parser down; every variable keeps its type.
THEOREM NothingLostTheorem == Spec => []NothingLost
<1>1. IInv => NothingLost
  BY DEF IInv, NothingLost
<1> QED
  BY <1>1, Invariance, PTL
=============================================================================
