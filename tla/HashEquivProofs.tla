-------------------------- MODULE HashEquivProofs --------------------------
(***************************************************************************)
(* What the hash equivalence server tells builds, and what garbage         *)
(* collection leaves alone: for any clients, connections, requests and     *)
(* faults.  Theorems about the reports assume the sqlite backend, whose    *)
(* handlers give up the loop only for the upstream server.                 *)
(***************************************************************************)
EXTENDS HashEquiv, WellFoundedInduction, TLAPS

Op == {"report", "get", "stream", "equivreport", "mark", "sweep", "remove", "clean", "wait"}
AllRequests == UNION {Requests[c] : c \in Client}

\* The places of the handler of each operation.
Place(op, pc) ==
    \/ pc = "reply"
    \/ op = "report" /\ pc \in {"insert", "lookup", "ask_outhash", "record", "find",
                                "ask_taskhash", "copy"}
    \/ op = "get" /\ pc \in {"find", "ask_taskhash", "copy"}
    \/ op = "stream" /\ pc \in {"find", "ask_unihash"}
    \/ op = "equivreport" /\ pc \in {"record", "find"}
    \/ op = "mark" /\ pc = "mark"
    \/ op = "sweep" /\ pc \in {"check", "sweep"}
    \/ op = "remove" /\ pc = "remove"
    \/ op = "clean" /\ pc = "clean"
    \/ op = "wait" /\ pc = "wait"

\* A handler at work serves a request of a client at a place of its operation.
Working(h) ==
    /\ DOMAIN h = {"pc", "req", "unihash"}
    /\ h.req \in AllRequests
    /\ Place(h.req.op, h.pc)

HandlerInv ==
    /\ DOMAIN handler = Conn
    /\ \A k \in Conn : handler[k] = NoHandler \/ Working(handler[k])
    /\ loop \in Conn \cup {None}
    /\ backfill_queue \in Seq(Taskhash)

\* A client is idle or waits for the answer to a request of its own.
ClientInv ==
    /\ DOMAIN client = Client
    /\ \A c \in Client :
        \/ client[c] = Idle
        \/ DOMAIN client[c] = {"req", "conn", "tries"} /\ client[c].req \in Requests[c]

OuthashInv ==
    /\ DOMAIN outhashes \subseteq [taskhash : Taskhash, outhash : Outhash]
    /\ clock \in Nat /\ \A x \in DOMAIN outhashes : outhashes[x] \in 0..(clock - 1)
    /\ \A x, y \in DOMAIN outhashes : outhashes[x] = outhashes[y] => x = y

UnihashInv ==
    /\ DOMAIN unihashes \subseteq Taskhash
    /\ \A t \in DOMAIN unihashes : DOMAIN unihashes[t] = {"unihash", "mark"}
    /\ origin \in [Taskhash -> Outhash \cup {None}]

\* What was marked or added since the mark was set bears it.
MarkInv ==
    /\ current_mark \in Mark \cup {None}
    /\ since \subseteq DOMAIN unihashes
    /\ current_mark # None => \A t \in since : unihashes[t].mark = current_mark

TableInv == OuthashInv /\ UnihashInv /\ MarkInv

\* Unless rows were deleted, a report that comes to an end finds its task in the table.
Told(h, table) ==
    h.pc # "free" /\ h.req.op \in {"report", "equivreport"} =>
        /\ h.pc \notin {"ask_taskhash", "copy"}
        /\ h.pc \in {"find", "reply"} => h.req.t \in DOMAIN table
        /\ h.pc = "reply" => h.unihash = table[h.req.t].unihash
AnswerInv == "deleted" \notin disturbed => \A k \in Conn : Told(handler[k], unihashes)

\* On sqlite a report holds the loop from its row in outhashes to the one in unihashes.
Reporting(k) == /\ handler[k].pc \in {"lookup", "record"}
                /\ handler[k].req.op = "report"
LoopInv == \A k \in Conn : Reporting(k) => loop = k

\* The row of a handler's report, and the oldest row of an output hash.
RowOf(k) == Row(handler[k].req.t, handler[k].req.o)
Leads(x) == \A y \in DOMAIN outhashes : y.outhash = x.outhash => outhashes[x] <= outhashes[y]

\* Without upstream nobody asks it.
Alone ==
    /\ backfill_queue = <<>>
    /\ \A k \in Conn :
           handler[k].pc \notin {"ask_outhash", "ask_taskhash", "ask_unihash", "copy"}
\* A task with an output hash has a unihash, or will get it before the loop is free.
RowsHaveUnihash ==
    \A x \in DOMAIN outhashes :
        \/ x.taskhash \in DOMAIN unihashes
        \/ \E k \in Conn : Reporting(k) /\ x = RowOf(k)
OriginHasRow ==
    \A t \in Taskhash : origin[t] # None =>
        t \in DOMAIN unihashes /\ Row(t, origin[t]) \in DOMAIN outhashes
\* A report gives its task what the oldest row of its output hash has.
FollowsOldest ==
    \A t \in Taskhash, x \in DOMAIN outhashes :
        origin[t] = x.outhash /\ Leads(x) =>
            /\ x.taskhash \in DOMAIN unihashes
            /\ unihashes[t].unihash = unihashes[x.taskhash].unihash
\* So a report of a task not yet known made the newest row, and found that unihash.
NewRow(k) ==
    Reporting(k) /\ handler[k].req.t \notin DOMAIN unihashes =>
        /\ RowOf(k) \in DOMAIN outhashes
        /\ \A x \in DOMAIN outhashes \ {RowOf(k)} :
            /\ outhashes[x] < outhashes[RowOf(k)]
            /\ handler[k].pc = "record" /\ x.outhash = handler[k].req.o /\ Leads(x) =>
                   handler[k].unihash = unihashes[x.taskhash].unihash
UnifyInv ==
    upstream = None /\ disturbed = {} =>
        /\ Alone /\ RowsHaveUnihash /\ OriginHasRow /\ FollowsOldest
        /\ \A k \in Conn : NewRow(k)

\* The invariant of both backends.
Base == HandlerInv /\ ClientInv /\ TableInv

\* The inductive invariant of the sqlite backend: Base, and what follows the reports.
IInv == Base /\ AnswerInv /\ LoopInv /\ UnifyInv

(***************************************************************************)
(* Handlers and clients.                                                   *)
(***************************************************************************)

LEMMA RequestKinds ==
    ASSUME NEW r \in AllRequests
    PROVE  /\ r # None /\ r.op \in Op
           /\ r.op \in {"report", "get", "stream", "equivreport", "remove"} => r.t \in Taskhash
           /\ r.op = "report" => r.o \in Outhash
           /\ r.op \in {"mark", "sweep"} => r.m \in Mark
  BY RequestAssumption DEF AllRequests, Op

\* A handler that is at a place has a request.
LEMMA AtWorks ==
    ASSUME HandlerInv, NEW k \in Conn, handler[k].pc # "free"
    PROVE  Working(handler[k])
  BY DEF HandlerInv, NoHandler

\* The handler of k is at pc with unihash u, the others are where they were.
Went(k, pc, u) ==
    /\ DOMAIN handler' = Conn
    /\ DOMAIN handler'[k] = {"pc", "req", "unihash"}
    /\ handler'[k].pc = pc /\ handler'[k].unihash = u
    /\ handler'[k].req = handler[k].req
    /\ \A j \in Conn : j # k => handler'[j] = handler[j]

LEMMA GoOnWent ==
    ASSUME HandlerInv, NEW k \in Conn, Working(handler[k]), NEW pc, NEW u, GoOn(k, pc, u)
    PROVE  /\ Went(k, pc, u) /\ loop' \in {k, None}
           /\ Backend = "sqlite" /\ pc \notin Waiting => loop' = k
  BY DEF GoOn, HandlerInv, Working, Went

\* The handler of k is gone, the others are where they were.
Gone(k) ==
    /\ DOMAIN handler' = Conn
    /\ handler'[k] = NoHandler
    /\ \A j \in Conn : j # k => handler'[j] = handler[j]

LEMMA AbortGone ==
    ASSUME HandlerInv, NEW k \in Conn, Abort(k)
    PROVE  Gone(k) /\ loop' = None
  BY DEF Abort, HandlerInv, Gone

LEMMA WentInv ==
    ASSUME HandlerInv, NEW k \in Conn, Working(handler[k]), NEW pc, NEW u, Went(k, pc, u),
           Place(handler[k].req.op, pc), loop' \in Conn \cup {None},
           backfill_queue' \in Seq(Taskhash)
    PROVE  HandlerInv'
<1>1. Working(handler'[k])
  BY DEF Went, Working
<1> QED
  BY <1>1 DEF HandlerInv, Went

LEMMA GoneInv ==
    ASSUME HandlerInv, NEW k \in Conn, Gone(k), loop' \in Conn \cup {None},
           backfill_queue' = backfill_queue
    PROVE  HandlerInv'
  BY DEF HandlerInv, Gone

\* A request starts at a place of its operation.
LEMMA StartWorks ==
    ASSUME NEW r \in AllRequests
    PROVE  /\ Working(Start(r)) /\ Start(r).req = r
           /\ r.op = "report" => Start(r).pc = "insert"
           /\ r.op = "equivreport" => Start(r).pc = "record"
<1>1. r.op \in Op
  BY RequestKinds
<1>2. Start(r).pc = FirstStep[r.op] /\ Start(r).req = r
      /\ DOMAIN Start(r) = {"pc", "req", "unihash"}
  BY DEF Start
<1>3. /\ FirstStep["report"] = "insert" /\ FirstStep["get"] = "find"
      /\ FirstStep["stream"] = "find" /\ FirstStep["equivreport"] = "record"
      /\ FirstStep["mark"] = "mark" /\ FirstStep["sweep"] = "check"
      /\ FirstStep["remove"] = "remove" /\ FirstStep["clean"] = "clean"
      /\ FirstStep["wait"] = "wait"
  BY DEF FirstStep
<1>4. Place(r.op, FirstStep[r.op])
  BY <1>1, <1>3 DEF Op, Place
<1> QED
  BY <1>2, <1>3, <1>4 DEF Working

\* The handler of a free connection starts with r.
Started(k, r) ==
    /\ DOMAIN handler' = Conn
    /\ handler'[k] = Start(r)
    /\ \A j \in Conn : j # k => handler'[j] = handler[j]

LEMMA StartedInv ==
    ASSUME HandlerInv, NEW k \in Conn, NEW r \in AllRequests, Started(k, r),
           UNCHANGED <<loop, backfill_queue>>
    PROVE  HandlerInv'
  BY StartWorks DEF HandlerInv, Started

\* A connection that breaks leaves its client waiting.
LEMMA AbortClient ==
    ASSUME ClientInv, NEW k \in Conn, Abort(k)
    PROVE  ClientInv'
<1>1. DOMAIN client' = Client
  BY DEF Abort
<1>2. ASSUME NEW c \in Client
      PROVE  \/ client'[c] = Idle
             \/ DOMAIN client'[c] = {"req", "conn", "tries"} /\ client'[c].req \in Requests[c]
  <2>1. client'[c] = client[c] \/ client'[c] = [client[c] EXCEPT !.conn = None]
    BY DEF Abort
  <2>2. [Idle EXCEPT !.conn = None] = Idle
    BY DEF Idle
  <2> QED
    BY <2>1, <2>2 DEF ClientInv
<1> QED
  BY <1>1, <1>2 DEF ClientInv

\* A handler never leaves the places of its operation, whatever it does.
LEMMA HandlerStepInv ==
    ASSUME HandlerInv, ClientInv, NEW k \in Conn, HandlerStep(k)
    PROVE  HandlerInv' /\ ClientInv'
<1> DEFINE r == handler[k].req
<1>1. UNCHANGED client => ClientInv'
  BY DEF ClientInv
<1>2. handler[k].pc # "free"
  BY DEF HandlerStep, Insert, Lookup, AskOuthash, Record, Find, AskTaskhash, Copy, AskUnihash,
         UpstreamFails, GcMark, CheckMark, Sweep, Remove, CleanUnused, BackfillWait, Reply, At
<1>3. /\ Working(handler[k]) /\ r \in AllRequests /\ r.op \in Op
      /\ r.op = "stream" => r.t \in Taskhash
  BY <1>2, AtWorks, RequestKinds DEF Working
<1>4. Place(r.op, handler[k].pc) /\ Place(r.op, "reply")
  BY <1>3 DEF Working, Place
<1>5. backfill_queue \in Seq(Taskhash)
  BY DEF HandlerInv
<1> HIDE DEF r
<1>6. ASSUME NEW pc, NEW u, GoOn(k, pc, u), Place(r.op, pc), backfill_queue' \in Seq(Taskhash)
      PROVE  HandlerInv'
  <2>1. Went(k, pc, u) /\ loop' \in {k, None}
    BY <1>3, <1>6, GoOnWent
  <2> QED
    BY <1>3, <1>6, <2>1, WentInv DEF r
<1>7. ASSUME Abort(k), UNCHANGED backfill_queue
      PROVE  HandlerInv' /\ ClientInv'
  BY <1>7, AbortGone, AbortClient, GoneInv
<1>8. CASE Insert(k)
  <2>1. handler[k].pc = "insert" /\ UNCHANGED <<client, backfill_queue>>
    BY <1>8 DEF Insert, At, outside
  <2>2. Place(r.op, "lookup") /\ Place(r.op, "find")
    BY <1>3, <1>4, <2>1 DEF Place
  <2> QED
    BY <1>1, <1>5, <1>6, <1>8, <2>1, <2>2 DEF Insert
<1>9. CASE Lookup(k)
  <2>1. handler[k].pc = "lookup" /\ UNCHANGED <<client, backfill_queue>>
    BY <1>9 DEF Lookup, At, outside
  <2>2. Place(r.op, "record") /\ Place(r.op, "ask_outhash")
    BY <1>3, <1>4, <2>1 DEF Place
  <2> QED
    BY <1>1, <1>5, <1>6, <1>9, <2>1, <2>2 DEF Lookup
<1>10. CASE AskOuthash(k)
  <2>1. handler[k].pc = "ask_outhash" /\ UNCHANGED <<client, backfill_queue>>
    BY <1>10 DEF AskOuthash, At, outside
  <2>2. Place(r.op, "record")
    BY <1>3, <1>4, <2>1 DEF Place
  <2> QED
    BY <1>1, <1>5, <1>6, <1>10, <2>1, <2>2 DEF AskOuthash
<1>11. CASE Record(k)
  <2>1. handler[k].pc = "record" /\ UNCHANGED <<client, backfill_queue>>
    BY <1>11 DEF Record, At, outside
  <2>2. Place(r.op, "find")
    BY <1>3, <1>4, <2>1 DEF Place
  <2> QED
    BY <1>1, <1>5, <1>6, <1>11, <2>1, <2>2 DEF Record
<1>12. CASE Copy(k)
  <2>1. handler[k].pc = "copy" /\ UNCHANGED <<client, backfill_queue>>
    BY <1>12 DEF Copy, At, outside
  <2>2. Place(r.op, "reply")
    BY <1>3, <1>4, <2>1 DEF Place
  <2> QED
    BY <1>1, <1>5, <1>6, <1>12, <2>1, <2>2 DEF Copy
<1>13. CASE GcMark(k)
  <2>1. handler[k].pc = "mark" /\ UNCHANGED <<client, backfill_queue>>
    BY <1>13 DEF GcMark, At, outside
  <2>2. Place(r.op, "reply")
    BY <1>3, <1>4, <2>1 DEF Place
  <2> QED
    BY <1>1, <1>5, <1>6, <1>13, <2>1, <2>2 DEF GcMark
<1>14. CASE CheckMark(k)
  <2>1. handler[k].pc = "check" /\ UNCHANGED <<client, backfill_queue>>
    BY <1>14 DEF CheckMark, At, outside
  <2>2. Place(r.op, "sweep") /\ Place(r.op, "reply")
    BY <1>3, <1>4, <2>1 DEF Place
  <2> QED
    BY <1>1, <1>5, <1>6, <1>14, <2>1, <2>2 DEF CheckMark
<1>15. CASE Sweep(k)
  <2>1. handler[k].pc = "sweep" /\ UNCHANGED <<client, backfill_queue>>
    BY <1>15 DEF Sweep, At, outside
  <2>2. Place(r.op, "reply")
    BY <1>3, <1>4, <2>1 DEF Place
  <2> QED
    BY <1>1, <1>5, <1>6, <1>15, <2>1, <2>2 DEF Sweep
<1>16. CASE Remove(k)
  <2>1. handler[k].pc = "remove" /\ UNCHANGED <<client, backfill_queue>>
    BY <1>16 DEF Remove, At, outside
  <2>2. Place(r.op, "reply")
    BY <1>3, <1>4, <2>1 DEF Place
  <2> QED
    BY <1>1, <1>5, <1>6, <1>16, <2>1, <2>2 DEF Remove
<1>17. CASE CleanUnused(k)
  <2>1. handler[k].pc = "clean" /\ UNCHANGED <<client, backfill_queue>>
    BY <1>17 DEF CleanUnused, At, outside
  <2>2. Place(r.op, "reply")
    BY <1>3, <1>4, <2>1 DEF Place
  <2> QED
    BY <1>1, <1>5, <1>6, <1>17, <2>1, <2>2 DEF CleanUnused
<1>18. CASE Find(k)
  <2>1. handler[k].pc = "find" /\ UNCHANGED backfill_queue
    BY <1>18 DEF Find, At
  <2>2. /\ r.op \notin {"equivreport", "stream"} => Place(r.op, "ask_taskhash")
        /\ r.op = "stream" => Place(r.op, "ask_unihash")
    BY <1>3, <1>4, <2>1 DEF Place
  <2>3. \/ \E u \in {unihashes[r.t].unihash, r.t, None} :
              GoOn(k, "reply", u) /\ UNCHANGED client
        \/ r.op = "stream" /\ GoOn(k, "ask_unihash", None) /\ UNCHANGED client
        \/ r.op \notin {"equivreport", "stream"} /\ GoOn(k, "ask_taskhash", None) /\ UNCHANGED client
        \/ Abort(k)
    BY <1>18 DEF Find, r
  <2> QED
    BY <1>1, <1>4, <1>5, <1>6, <1>7, <2>1, <2>2, <2>3
<1>19. CASE AskTaskhash(k)
  <2>1. handler[k].pc = "ask_taskhash" /\ UNCHANGED backfill_queue
    BY <1>19 DEF AskTaskhash, At
  <2>2. Place(r.op, "copy")
    BY <1>3, <1>4, <2>1 DEF Place
  <2> QED
    BY <1>1, <1>5, <1>6, <1>7, <1>19, <2>1, <2>2 DEF AskTaskhash
<1>20. CASE AskUnihash(k)
  <2>1. handler[k].pc = "ask_unihash" /\ UNCHANGED client
    BY <1>20 DEF AskUnihash, At
  <2>2. r.op = "stream"
    BY <1>3, <1>4, <2>1 DEF Place
  <2>3. backfill_queue' \in Seq(Taskhash)
    BY <1>3, <1>5, <1>20, <2>2 DEF AskUnihash, r
  <2> QED
    BY <1>1, <1>4, <1>6, <1>20, <2>1, <2>3 DEF AskUnihash
<1>21. CASE UpstreamFails(k)
  BY <1>7, <1>21 DEF UpstreamFails
<1>22. CASE BackfillWait(k)
  BY <1>1, <1>4, <1>5, <1>6, <1>7, <1>22 DEF BackfillWait
<1>23. CASE Reply(k)
  <2>1. /\ handler' = [handler EXCEPT ![k] = NoHandler]
        /\ client' = [c \in Client |-> IF client[c].conn = k THEN Idle ELSE client[c]]
        /\ UNCHANGED <<loop, backfill_queue>>
    BY <1>23 DEF Reply
  <2>2. Gone(k)
    BY <2>1 DEF Gone, HandlerInv
  <2>3. ClientInv'
    BY <2>1 DEF ClientInv
  <2>4. loop' \in Conn \cup {None}
    BY <2>1 DEF HandlerInv
  <2> QED
    BY <2>1, <2>2, <2>3, <2>4, GoneInv
<1> QED
  BY <1>8, <1>9, <1>10, <1>11, <1>12, <1>13, <1>14, <1>15, <1>16, <1>17, <1>18, <1>19, <1>20, <1>21, <1>22, <1>23 DEF HandlerStep

LEMMA ClientStepInv ==
    ASSUME HandlerInv, ClientInv, NEW c \in Client,
           ClientStep(c) \/ Break(c) \/ \E r \in Requests[c] : Send(c, r)
    PROVE  HandlerInv' /\ ClientInv'
<1> DEFINE k == CHOOSE k \in Free : TRUE
<1>1. Free # {} => k \in Conn
  BY DEF Free
<1> HIDE DEF k
<1>2. /\ DOMAIN client = Client
      /\ client[c] = Idle \/
             (DOMAIN client[c] = {"req", "conn", "tries"} /\ client[c].req \in Requests[c])
      /\ DOMAIN handler = Conn
  BY DEF ClientInv, HandlerInv
<1>3. Idle.req = None /\ Idle.conn = None
  BY DEF Idle
<1>4. ASSUME NEW r \in Requests[c], Send(c, r)
      PROVE  HandlerInv' /\ ClientInv'
  <2>1. /\ k \in Conn /\ handler' = [handler EXCEPT ![k] = Start(r)]
        /\ client' = [client EXCEPT ![c] = [req |-> r, conn |-> k, tries |-> 0]]
        /\ UNCHANGED <<loop, backfill_queue>>
    BY <1>1, <1>4 DEF Send, k
  <2>2. Started(k, r)
    BY <1>2, <2>1 DEF Started
  <2>3. ClientInv'
    BY <2>1 DEF ClientInv
  <2> QED
    BY <2>1, <2>2, <2>3, StartedInv DEF AllRequests
<1>5. CASE Resend(c)
  <2>1. /\ k \in Conn /\ handler' = [handler EXCEPT ![k] = Start(client[c].req)]
        /\ client' = [client EXCEPT ![c].conn = k, ![c].tries = @ + 1]
        /\ client[c].req # None
        /\ UNCHANGED <<loop, backfill_queue>>
    BY <1>1, <1>5 DEF Resend, k
  <2>2. client[c].req \in Requests[c] /\ DOMAIN client[c] = {"req", "conn", "tries"}
    BY <1>2, <1>3, <2>1
  <2>3. Started(k, client[c].req)
    BY <1>2, <2>1 DEF Started
  <2>4. /\ DOMAIN client' = Client
        /\ \A d \in Client : d # c => client'[d] = client[d]
        /\ DOMAIN client'[c] = {"req", "conn", "tries"} /\ client'[c].req = client[c].req
    BY <1>2, <2>1, <2>2
  <2>5. ClientInv'
    BY <2>2, <2>4 DEF ClientInv
  <2> QED
    BY <2>1, <2>2, <2>3, <2>5, StartedInv DEF AllRequests
<1>6. CASE GiveUp(c)
  BY <1>6 DEF GiveUp, HandlerInv, ClientInv
<1>7. CASE Break(c)
  <2>1. /\ client' = [client EXCEPT ![c].conn = None] /\ client[c].conn # None
        /\ UNCHANGED <<handler, loop, backfill_queue>>
    BY <1>7 DEF Break
  <2>2. client[c].req \in Requests[c] /\ DOMAIN client[c] = {"req", "conn", "tries"}
    BY <1>2, <1>3, <2>1
  <2>3. /\ DOMAIN client' = Client
        /\ \A d \in Client : d # c => client'[d] = client[d]
        /\ DOMAIN client'[c] = {"req", "conn", "tries"} /\ client'[c].req = client[c].req
    BY <1>2, <2>1, <2>2
  <2>4. ClientInv'
    BY <2>2, <2>3 DEF ClientInv
  <2> QED
    BY <2>1, <2>4 DEF HandlerInv
<1> QED
  BY <1>4, <1>5, <1>6, <1>7 DEF ClientStep

LEMMA CrashInv ==
    ASSUME HandlerInv, ClientInv, Crash
    PROVE  HandlerInv' /\ ClientInv'
<1>1. HandlerInv'
  BY DEF Crash, HandlerInv
<1>2. DOMAIN client' = Client
  BY DEF Crash
<1>3. ASSUME NEW c \in Client
      PROVE  \/ client'[c] = Idle
             \/ DOMAIN client'[c] = {"req", "conn", "tries"} /\ client'[c].req \in Requests[c]
  <2>1. client'[c] = [client[c] EXCEPT !.conn = None]
    BY DEF Crash
  <2>2. [Idle EXCEPT !.conn = None] = Idle
    BY DEF Idle
  <2> QED
    BY <2>1, <2>2 DEF ClientInv
<1> QED
  BY <1>1, <1>2, <1>3 DEF ClientInv

(***************************************************************************)
(* The tables.                                                             *)
(***************************************************************************)

\* What a step may do to a row, and a sweep to the rows.
Stable ==
    \A t \in DOMAIN unihashes \cap DOMAIN unihashes' :
        unihashes'[t].unihash = unihashes[t].unihash
Kept == (current_mark # None /\ current_mark' = None) => since \subseteq DOMAIN unihashes'

LEMMA TablesSame ==
    ASSUME TableInv, UNCHANGED <<outhashes, clock, unihashes, current_mark, since, origin>>
    PROVE  TableInv' /\ Stable /\ Kept
  BY DEF TableInv, OuthashInv, UnihashInv, MarkInv, Stable, Kept

\* INSERT OR IGNORE: a row there was stays, a new one bears the current mark.
LEMMA UnihashAdded ==
    ASSUME TableInv, NEW t \in Taskhash, NEW u, InsertUnihash(t, u)
    PROVE  /\ DOMAIN unihashes' = DOMAIN unihashes \cup {t}
           /\ \A x \in DOMAIN unihashes : unihashes'[x] = unihashes[x]
           /\ t \notin DOMAIN unihashes =>
                  unihashes'[t] = [unihash |-> u, mark |-> current_mark]
  BY DEF InsertUnihash

LEMMA AddTables ==
    ASSUME TableInv, NEW t \in Taskhash, NEW u, NEW o \in Outhash \cup {None},
           InsertUnihash(t, u), Added(t, o), UNCHANGED <<outhashes, clock, current_mark>>
    PROVE  TableInv' /\ Stable /\ Kept
<1>1. /\ DOMAIN unihashes' = DOMAIN unihashes \cup {t}
      /\ \A x \in DOMAIN unihashes : unihashes'[x] = unihashes[x]
      /\ t \notin DOMAIN unihashes =>
             unihashes'[t] = [unihash |-> u, mark |-> current_mark]
  BY UnihashAdded
<1>2. OuthashInv'
  BY DEF TableInv, OuthashInv
<1>3. UnihashInv'
  <2>1. \A x \in DOMAIN unihashes' : DOMAIN unihashes'[x] = {"unihash", "mark"}
    BY <1>1 DEF TableInv, UnihashInv
  <2>2. origin' \in [Taskhash -> Outhash \cup {None}]
    BY DEF TableInv, UnihashInv, Added
  <2> QED
    BY <1>1, <2>1, <2>2 DEF TableInv, UnihashInv
<1>4. MarkInv'
  BY <1>1 DEF TableInv, MarkInv, Added
<1>5. Stable /\ Kept
  BY <1>1 DEF Stable, Kept
<1> QED
  BY <1>2, <1>3, <1>4, <1>5 DEF TableInv

LEMMA InsertTables ==
    ASSUME TableInv, NEW k \in Conn, Insert(k), handler[k].req.t \in Taskhash,
           handler[k].req.o \in Outhash
    PROVE  TableInv' /\ Stable /\ Kept
<1> DEFINE x == Row(handler[k].req.t, handler[k].req.o)
<1>1. UNCHANGED <<unihashes, current_mark, since, origin>>
  BY DEF Insert, history
<1>2. /\ x \in DOMAIN outhashes => UNCHANGED <<outhashes, clock>>
      /\ x \notin DOMAIN outhashes =>
             /\ outhashes' = [y \in DOMAIN outhashes \cup {x} |->
                                 IF y = x THEN clock ELSE outhashes[y]]
             /\ clock' = clock + 1
  BY DEF Insert, InsertOuthash, outhashTable
<1>3. x \in [taskhash : Taskhash, outhash : Outhash]
  BY DEF Row
<1> HIDE DEF x
<1>4. OuthashInv'
  BY <1>2, <1>3 DEF TableInv, OuthashInv
<1>5. UnihashInv' /\ MarkInv' /\ Stable /\ Kept
  BY <1>1 DEF TableInv, UnihashInv, MarkInv, Stable, Kept
<1> QED
  BY <1>4, <1>5 DEF TableInv

LEMMA GcMarkTables ==
    ASSUME TableInv, NEW k \in Conn, GcMark(k), handler[k].req.m \in Mark
    PROVE  TableInv' /\ Stable /\ Kept
<1> DEFINE m == handler[k].req.m
           marked == {handler[k].req.t} \cap DOMAIN unihashes
<1>1. /\ current_mark' = m /\ UNCHANGED <<outhashes, clock, origin>>
      /\ unihashes' = [t \in DOMAIN unihashes |->
                         IF t \in marked THEN [unihashes[t] EXCEPT !.mark = m]
                         ELSE unihashes[t]]
      /\ since' = marked \cup (IF current_mark = m THEN since ELSE {})
  BY DEF GcMark, outhashTable
<1>2. m \in Mark /\ m # None /\ marked \subseteq DOMAIN unihashes
  BY HashEquivAssumption
<1> HIDE DEF m, marked
<1>3. ASSUME NEW t \in DOMAIN unihashes
      PROVE  /\ DOMAIN unihashes'[t] = {"unihash", "mark"}
             /\ unihashes'[t].unihash = unihashes[t].unihash
             /\ unihashes'[t].mark = IF t \in marked THEN m ELSE unihashes[t].mark
  BY <1>1 DEF TableInv, UnihashInv
<1>4. DOMAIN unihashes' = DOMAIN unihashes
  BY <1>1
<1>5. OuthashInv' /\ UnihashInv'
  BY <1>1, <1>3, <1>4 DEF TableInv, OuthashInv, UnihashInv
<1>6. MarkInv'
  BY <1>1, <1>2, <1>3, <1>4 DEF TableInv, MarkInv
<1>7. Stable /\ Kept
  BY <1>1, <1>2, <1>3 DEF Stable, Kept
<1> QED
  BY <1>5, <1>6, <1>7 DEF TableInv

\* A sweep deletes rows that do not bear the mark: none of those since it was set.
LEMMA SweepTables ==
    ASSUME TableInv, NEW k \in Conn, Sweep(k)
    PROVE  TableInv' /\ Stable /\ Kept
<1> DEFINE swept == {t \in DOMAIN unihashes :
                        current_mark # None /\ unihashes[t].mark # current_mark}
<1>1. /\ unihashes' = [t \in DOMAIN unihashes \ swept |-> unihashes[t]]
      /\ current_mark' = None /\ since' = {}
      /\ UNCHANGED <<outhashes, clock, origin>>
  BY DEF Sweep, Restrict, outhashTable
<1>2. DOMAIN unihashes' = DOMAIN unihashes \ swept
      /\ \A t \in DOMAIN unihashes' : unihashes'[t] = unihashes[t]
  BY <1>1
<1>3. current_mark # None => since \subseteq DOMAIN unihashes'
  BY <1>2 DEF TableInv, MarkInv
<1> HIDE DEF swept
<1>4. OuthashInv' /\ UnihashInv' /\ MarkInv'
  BY <1>1, <1>2 DEF TableInv, OuthashInv, UnihashInv, MarkInv
<1> QED
  BY <1>2, <1>3, <1>4 DEF TableInv, Stable, Kept

LEMMA RemoveTables ==
    ASSUME TableInv, NEW k \in Conn, Remove(k) \/ CleanUnused(k)
    PROVE  TableInv' /\ Stable /\ Kept
<1>1. PICK S, T :
          /\ S \subseteq DOMAIN outhashes /\ T \subseteq DOMAIN unihashes
          /\ DOMAIN outhashes' = S /\ \A x \in S : outhashes'[x] = outhashes[x]
          /\ DOMAIN unihashes' = T /\ \A t \in T : unihashes'[t] = unihashes[t]
          /\ since' = since \cap T
          /\ UNCHANGED <<clock, current_mark, origin>>
  <2>1. CASE Remove(k)
    <3> DEFINE t == handler[k].req.t
               S == {x \in DOMAIN outhashes : x.taskhash # t}
               T == DOMAIN unihashes \ {t}
    <3>1. /\ outhashes' = [x \in S |-> outhashes[x]]
          /\ unihashes' = [y \in T |-> unihashes[y]]
          /\ since' = since \ {t}
          /\ UNCHANGED <<clock, current_mark, origin>>
      BY <2>1 DEF Remove, Restrict
    <3>2. since' = since \cap T
      BY <3>1 DEF TableInv, MarkInv
    <3>3. S \subseteq DOMAIN outhashes /\ T \subseteq DOMAIN unihashes
      OBVIOUS
    <3> HIDE DEF S, T, t
    <3> QED
      BY <3>1, <3>2, <3>3
  <2>2. CASE CleanUnused(k)
    <3> DEFINE S == {x \in DOMAIN outhashes : x.taskhash \in DOMAIN unihashes}
               T == DOMAIN unihashes
    <3>1. /\ outhashes' = [x \in S |-> outhashes[x]]
          /\ unihashes' = unihashes /\ since' = since
          /\ UNCHANGED <<clock, current_mark, origin>>
      BY <2>2 DEF CleanUnused, Restrict, history
    <3>2. since' = since \cap T
      BY <3>1 DEF TableInv, MarkInv
    <3>3. S \subseteq DOMAIN outhashes /\ T \subseteq DOMAIN unihashes
      OBVIOUS
    <3> HIDE DEF S, T
    <3> QED
      BY <3>1, <3>2, <3>3
  <2> QED
    BY <2>1, <2>2
<1>3. OuthashInv'
  BY <1>1 DEF TableInv, OuthashInv
<1>4. UnihashInv' /\ MarkInv'
  BY <1>1 DEF TableInv, UnihashInv, MarkInv
<1> QED
  BY <1>1, <1>3, <1>4, HashEquivAssumption DEF TableInv, Stable, Kept, MarkInv

LEMMA HandlerStepTables ==
    ASSUME Base, NEW k \in Conn, HandlerStep(k)
    PROVE  TableInv' /\ Stable /\ Kept
<1> DEFINE r == handler[k].req
<1>1. ASSUME UNCHANGED <<tables, history>>
      PROVE  TableInv' /\ Stable /\ Kept
  <2>1. UNCHANGED <<outhashes, clock, unihashes, current_mark, since, origin>>
    BY <1>1 DEF tables, history, outhashTable
  <2> QED
    BY <2>1, TablesSame DEF Base
<1>2. ASSUME NEW t \in Taskhash, NEW u, NEW o \in Outhash \cup {None},
             InsertUnihash(t, u), Added(t, o), UNCHANGED <<outhashTable, current_mark>>
      PROVE  TableInv' /\ Stable /\ Kept
  BY <1>2, AddTables DEF Base, outhashTable
<1>3. ASSUME handler[k].pc # "free"
      PROVE  /\ r \in AllRequests /\ Place(r.op, handler[k].pc)
             /\ r.op \in {"report", "get", "stream", "equivreport", "remove"} => r.t \in Taskhash
             /\ r.op = "report" => r.o \in Outhash
             /\ r.op \in {"mark", "sweep"} => r.m \in Mark
  <2>1. Working(handler[k])
    BY <1>3, AtWorks DEF Base
  <2>2. r \in AllRequests /\ Place(r.op, handler[k].pc)
    BY <2>1 DEF Working
  <2> QED
    BY <2>2, RequestKinds
<1> HIDE DEF r
<1>4. CASE Insert(k)
  <2>1. handler[k].pc = "insert"
    BY <1>4 DEF Insert, At
  <2>2. r.op = "report"
    BY <1>3, <2>1 DEF Place
  <2> QED
    BY <1>3, <1>4, <2>1, <2>2, InsertTables DEF Base, r
<1>5. CASE Record(k)
  <2>1. handler[k].pc = "record" /\ UNCHANGED <<outhashTable, current_mark>>
    BY <1>5 DEF Record, At
  <2>2. CASE r.op = "report"
    <3>1. InsertUnihash(r.t, handler[k].unihash) /\ Added(r.t, r.o)
      BY <1>5, <2>2 DEF Record, r
    <3> QED
      BY <1>2, <1>3, <2>1, <2>2, <3>1
  <2>3. CASE r.op = "equivreport"
    <3>1. InsertUnihash(r.t, r.u) /\ Added(r.t, None)
      BY <1>5, <2>3 DEF Record, r
    <3> QED
      BY <1>2, <1>3, <2>1, <2>3, <3>1
  <2> QED
    BY <1>5, <2>2, <2>3 DEF Record, r
<1>6. CASE Copy(k)
  <2>1. /\ handler[k].pc = "copy" /\ UNCHANGED <<outhashTable, current_mark>>
        /\ InsertUnihash(r.t, handler[k].unihash) /\ Added(r.t, None)
    BY <1>6 DEF Copy, At, r
  <2>2. r.t \in Taskhash
    BY <1>3, <2>1 DEF Place
  <2> QED
    BY <1>2, <2>1, <2>2
<1>7. CASE GcMark(k)
  <2>1. handler[k].pc = "mark"
    BY <1>7 DEF GcMark, At
  <2>2. r.m \in Mark
    BY <1>3, <2>1 DEF Place
  <2> QED
    BY <1>7, <2>2, GcMarkTables DEF Base, r
<1>8. CASE Sweep(k)
  BY <1>8, SweepTables DEF Base
<1>9. CASE Remove(k) \/ CleanUnused(k)
  BY <1>9, RemoveTables DEF Base
<1>10. CASE \/ Lookup(k) \/ AskOuthash(k) \/ Find(k) \/ AskTaskhash(k) \/ AskUnihash(k)
            \/ UpstreamFails(k) \/ CheckMark(k) \/ BackfillWait(k) \/ Reply(k)
  <2>1. UNCHANGED <<tables, history>>
    BY <1>10 DEF Lookup, AskOuthash, Find, AskTaskhash, AskUnihash, UpstreamFails, CheckMark,
                 BackfillWait, Reply
  <2> QED
    BY <1>1, <2>1
<1> QED
  BY <1>4, <1>5, <1>6, <1>7, <1>8, <1>9, <1>10 DEF HandlerStep

LEMMA BackfillBase ==
    ASSUME Base, Backfill
    PROVE  Base' /\ Stable /\ Kept
<1> DEFINE t == Head(backfill_queue)
<1>1. /\ UNCHANGED <<outhashes, clock, current_mark, handler, loop, client>>
      /\ backfill_queue # <<>> /\ backfill_queue' = Tail(backfill_queue)
      /\ \/ UNCHANGED <<unihashes, since, origin>>
         \/ InsertUnihash(t, upstream[t]) /\ Added(t, None)
  BY DEF Backfill, outhashTable, history
<1>2. t \in Taskhash /\ backfill_queue' \in Seq(Taskhash)
  BY <1>1 DEF Base, HandlerInv
<1> HIDE DEF t
<1>3. HandlerInv' /\ ClientInv'
  BY <1>1, <1>2 DEF Base, HandlerInv, ClientInv
<1>4. TableInv' /\ Stable /\ Kept
  BY <1>1, <1>2, AddTables, TablesSame DEF Base
<1> QED
  BY <1>3, <1>4 DEF Base

LEMMA BaseInit == Init => Base
<1> SUFFICES ASSUME Init PROVE Base
  OBVIOUS
<1>1. HandlerInv
  BY DEF Init, HandlerInv
<1>2. ClientInv
  BY DEF Init, ClientInv
<1>3. DOMAIN outhashes = {} /\ DOMAIN unihashes = {} /\ clock \in Nat
  BY DEF Init
<1>4. OuthashInv /\ UnihashInv /\ MarkInv
  BY <1>3 DEF Init, OuthashInv, UnihashInv, MarkInv
<1> QED
  BY <1>1, <1>2, <1>4 DEF Base, TableInv

LEMMA BaseStep == Base /\ [Next]_vars => Base' /\ Stable /\ Kept
<1> SUFFICES ASSUME Base, [Next]_vars PROVE Base' /\ Stable /\ Kept
  OBVIOUS
<1>1. ASSUME UNCHANGED <<tables, since, origin>>
      PROVE  TableInv' /\ Stable /\ Kept
  <2>1. UNCHANGED <<outhashes, clock, unihashes, current_mark, since, origin>>
    BY <1>1 DEF tables, outhashTable
  <2> QED
    BY <2>1, TablesSame DEF Base
<1>2. ASSUME NEW k \in Conn, HandlerStep(k)
      PROVE  Base' /\ Stable /\ Kept
  BY <1>2, HandlerStepTables, HandlerStepInv DEF Base
<1>3. ASSUME NEW c \in Client, ClientStep(c) \/ Break(c) \/ \E r \in Requests[c] : Send(c, r)
      PROVE  Base' /\ Stable /\ Kept
  <2>1. UNCHANGED <<tables, since, origin>>
    BY <1>3 DEF ClientStep, GiveUp, Resend, Break, Send, history
  <2>2. HandlerInv' /\ ClientInv'
    BY <1>3, ClientStepInv DEF Base
  <2> QED
    BY <1>1, <2>1, <2>2 DEF Base
<1>4. CASE Backfill
  BY <1>4, BackfillBase
<1>5. CASE Crash
  <2>1. UNCHANGED <<tables, since, origin>>
    BY <1>5 DEF Crash
  <2> QED
    BY <1>1, <1>5, <2>1, CrashInv DEF Base
<1>6. CASE UNCHANGED vars
  <2>1. UNCHANGED <<tables, since, origin>> /\ UNCHANGED <<handler, loop, backfill_queue, client>>
    BY <1>6 DEF vars, history
  <2>2. HandlerInv' /\ ClientInv'
    BY <2>1 DEF Base, HandlerInv, ClientInv
  <2> QED
    BY <1>1, <2>1, <2>2 DEF Base
<1> QED
  BY <1>2, <1>3, <1>4, <1>5, <1>6 DEF Next

LEMMA BaseInvariance == Spec => []Base
  BY BaseInit, BaseStep, PTL DEF Spec

\* What the table says of a task never changes while the row is there, on either
\* backend, whatever is resent, copied from upstream, marked, swept or crashes.
THEOREM UnihashStableTheorem == Spec => UnihashStable
<1>1. Base /\ [Next]_vars
      => [\A t \in DOMAIN unihashes \cap DOMAIN unihashes' :
             unihashes'[t].unihash = unihashes[t].unihash]_vars
  BY BaseStep DEF Stable
<1> QED
  BY <1>1, BaseInvariance, PTL DEF Spec, UnihashStable

\* A sweep keeps every row that was marked, or added by a build, since its mark was
\* set, on either backend, wherever the sweep falls between the steps of the builds.
THEOREM SweepKeepsMarkedTheorem == Spec => SweepKeepsMarked
<1>1. Base /\ [Next]_vars
      => [(current_mark # None /\ current_mark' = None) => since \subseteq DOMAIN unihashes']_vars
  BY BaseStep DEF Kept
<1> QED
  BY <1>1, BaseInvariance, PTL DEF Spec, SweepKeepsMarked

(***************************************************************************)
(* Reports on the sqlite backend.                                          *)
(***************************************************************************)

\* Deletions are remembered, and nothing else takes a task out of the table.
LEMMA OnlyDeleted ==
    ASSUME Base, [Next]_vars
    PROVE  /\ disturbed \subseteq disturbed'
           /\ UNCHANGED upstream
           /\ "deleted" \notin disturbed' => DOMAIN unihashes \subseteq DOMAIN unihashes'
<1>1. ASSUME NEW t, NEW u, InsertUnihash(t, u)
      PROVE  DOMAIN unihashes \subseteq DOMAIN unihashes'
  BY <1>1 DEF InsertUnihash
<1>2. ASSUME NEW k \in Conn, HandlerStep(k)
      PROVE  /\ disturbed \subseteq disturbed' /\ UNCHANGED upstream
             /\ "deleted" \notin disturbed' => DOMAIN unihashes \subseteq DOMAIN unihashes'
  <2>1. CASE \/ Insert(k) \/ Lookup(k) \/ AskOuthash(k) \/ Find(k) \/ AskTaskhash(k)
             \/ AskUnihash(k) \/ UpstreamFails(k) \/ CheckMark(k) \/ BackfillWait(k) \/ Reply(k)
             \/ CleanUnused(k)
    BY <2>1 DEF Insert, Lookup, AskOuthash, Find, AskTaskhash, AskUnihash, UpstreamFails,
                CheckMark, BackfillWait, Reply, CleanUnused, tables, history, outside
  <2>2. CASE Record(k)
    BY <1>1, <2>2 DEF Record, Added, outside
  <2>3. CASE Copy(k)
    BY <1>1, <2>3 DEF Copy, Added, outside
  <2>4. CASE GcMark(k)
    BY <2>4 DEF GcMark, outside
  <2>5. CASE Sweep(k) \/ Remove(k)
    BY <2>5 DEF Sweep, Remove, outside
  <2> QED
    BY <1>2, <2>1, <2>2, <2>3, <2>4, <2>5 DEF HandlerStep
<1>3. ASSUME NEW c \in Client, ClientStep(c) \/ Break(c) \/ \E r \in Requests[c] : Send(c, r)
      PROVE  UNCHANGED <<disturbed, upstream, unihashes>>
  BY <1>3 DEF ClientStep, GiveUp, Resend, Break, Send, history, tables
<1>4. CASE Backfill
  BY <1>1, <1>4 DEF Backfill, Added, history
<1>5. CASE Crash
  BY <1>5 DEF Crash, tables
<1>6. CASE UNCHANGED vars
  BY <1>6 DEF vars, history, tables
<1> QED
  BY <1>2, <1>3, <1>4, <1>5, <1>6 DEF Next

\* A handler that stays where it is stays told, one that starts is told nothing yet.
LEMMA ToldStays ==
    ASSUME NEW h, Told(h, unihashes), Stable, DOMAIN unihashes \subseteq DOMAIN unihashes'
    PROVE  Told(h, unihashes')
  BY DEF Told, Stable

LEMMA ToldStart ==
    ASSUME NEW r \in AllRequests
    PROVE  Told(Start(r), unihashes')
  BY StartWorks DEF Told

LEMMA AnswerStep ==
    ASSUME Backend = "sqlite", Base, AnswerInv, [Next]_vars
    PROVE  AnswerInv'
<1> SUFFICES ASSUME "deleted" \notin disturbed', NEW j \in Conn
             PROVE  Told(handler'[j], unihashes')
  BY DEF AnswerInv
<1>1. /\ \A i \in Conn : Told(handler[i], unihashes)
      /\ DOMAIN unihashes \subseteq DOMAIN unihashes' /\ Stable /\ Base'
  BY OnlyDeleted, BaseStep DEF AnswerInv
<1>2. handler'[j] = handler[j] => Told(handler'[j], unihashes')
  <2>1. Told(handler[j], unihashes')
    BY <1>1, ToldStays
  <2> QED
    BY <2>1 DEF Told
<1>3. handler'[j] = NoHandler => Told(handler'[j], unihashes')
  BY DEF Told, NoHandler
<1>4. ASSUME NEW k \in Conn, HandlerStep(k)
      PROVE  Told(handler'[j], unihashes')
  <2> DEFINE r == handler[k].req
             p == handler[k].pc
  <2>1. p # "free"
    BY <1>4 DEF HandlerStep, Insert, Lookup, AskOuthash, Record, Find, AskTaskhash, Copy,
                AskUnihash, UpstreamFails, GcMark, CheckMark, Sweep, Remove, CleanUnused,
                BackfillWait, Reply, At
  <2>2. /\ Working(handler[k]) /\ r \in AllRequests /\ Place(r.op, p) /\ HandlerInv
        /\ Told(handler[k], unihashes)
    BY <1>1, <2>1, AtWorks DEF Base, Working
  <2>3. ASSUME NEW pc, NEW u, GoOn(k, pc, u),
               r.op \in {"report", "equivreport"} =>
                   /\ pc \notin {"ask_taskhash", "copy"}
                   /\ pc \in {"find", "reply"} => r.t \in DOMAIN unihashes'
                   /\ pc = "reply" => u = unihashes'[r.t].unihash
        PROVE  Told(handler'[j], unihashes')
    <3>1. Went(k, pc, u)
      BY <2>2, <2>3, GoOnWent
    <3>2. CASE j = k
      BY <2>3, <3>1, <3>2 DEF Went, Told
    <3>3. CASE j # k
      BY <1>2, <3>1, <3>3 DEF Went
    <3> QED
      BY <3>2, <3>3
  <2>4. ASSUME Gone(k)
        PROVE  Told(handler'[j], unihashes')
    BY <1>2, <1>3, <2>4 DEF Gone
  <2>5. Abort(k) => Told(handler'[j], unihashes')
    BY <2>2, <2>4, AbortGone
  <2> HIDE DEF r, p
  <2>6. CASE Insert(k)
    <3>1. GoOn(k, "lookup", None)
      BY <2>6 DEF Insert, TellsNew
    <3> QED
      BY <2>3, <3>1
  <2>7. CASE Lookup(k) \/ AskOuthash(k)
    <3>1. \E u : GoOn(k, "record", u) \/ GoOn(k, "ask_outhash", u)
      BY <2>7 DEF Lookup, AskOuthash
    <3> QED
      BY <2>3, <3>1
  <2>8. CASE Record(k)
    <3>1. GoOn(k, "find", handler[k].unihash) /\ \E u : InsertUnihash(r.t, u)
      BY <2>8 DEF Record, r
    <3>2. r.t \in DOMAIN unihashes'
      BY <3>1 DEF InsertUnihash
    <3> QED
      BY <2>3, <3>1, <3>2
  <2>9. CASE Find(k)
    <3>1. p = "find" /\ unihashes' = unihashes
      BY <2>9 DEF Find, At, tables, p
    <3>2. r.op \in {"report", "equivreport"} => r.t \in DOMAIN unihashes
      BY <2>2, <3>1 DEF Told, r, p
    <3>3. \/ GoOn(k, "reply", unihashes[r.t].unihash)
          \/ Abort(k)
          \/ /\ r.t \notin DOMAIN unihashes
             /\ \E u : GoOn(k, "reply", u) \/ GoOn(k, "ask_unihash", u)
                       \/ GoOn(k, "ask_taskhash", u)
      BY <2>9 DEF Find, r
    <3> QED
      BY <2>3, <2>5, <3>1, <3>2, <3>3
  <2>10. CASE AskTaskhash(k) \/ Copy(k)
    <3>1. p \in {"ask_taskhash", "copy"}
      BY <2>10 DEF AskTaskhash, Copy, At, p
    <3>2. r.op \notin {"report", "equivreport"}
      BY <2>1, <2>2, <3>1 DEF Told, r, p
    <3>3. Abort(k) \/ \E u : GoOn(k, "copy", u) \/ GoOn(k, "reply", u)
      BY <2>10 DEF AskTaskhash, Copy
    <3> QED
      BY <2>3, <2>5, <3>2, <3>3
  <2>11. CASE \/ AskUnihash(k) \/ GcMark(k) \/ CheckMark(k) \/ Sweep(k) \/ Remove(k)
              \/ CleanUnused(k) \/ BackfillWait(k)
    <3>1. p \in {"ask_unihash", "mark", "check", "sweep", "remove", "clean", "wait"}
      BY <2>11 DEF AskUnihash, GcMark, CheckMark, Sweep, Remove, CleanUnused, BackfillWait, At, p
    <3>2. r.op \notin {"report", "equivreport"}
      BY <2>2, <3>1 DEF Place
    <3>3. Abort(k) \/ \E u : GoOn(k, "sweep", u) \/ GoOn(k, "reply", u)
      BY <2>11 DEF AskUnihash, GcMark, CheckMark, Sweep, Remove, CleanUnused, BackfillWait
    <3> QED
      BY <2>3, <2>5, <3>2, <3>3
  <2>12. CASE UpstreamFails(k)
    BY <2>5, <2>12 DEF UpstreamFails
  <2>13. CASE Reply(k)
    <3>1. Gone(k)
      BY <2>2, <2>13 DEF Reply, Gone, HandlerInv
    <3> QED
      BY <2>4, <3>1
  <2> QED
    BY <1>4, <2>6, <2>7, <2>8, <2>9, <2>10, <2>11, <2>12, <2>13 DEF HandlerStep
<1>5. ASSUME NEW c \in Client, ClientStep(c) \/ Break(c) \/ \E r \in Requests[c] : Send(c, r)
      PROVE  Told(handler'[j], unihashes')
  <2>1. \/ handler' = handler
        \/ \E k \in Conn, r \in AllRequests : handler' = [handler EXCEPT ![k] = Start(r)]
    <3>1. CASE GiveUp(c) \/ Break(c)
      BY <3>1 DEF GiveUp, Break
    <3>2. ASSUME NEW r \in Requests[c], Send(c, r)
          PROVE  \E k \in Conn, x \in AllRequests : handler' = [handler EXCEPT ![k] = Start(x)]
      BY <3>2 DEF Send, Free, AllRequests
    <3>3. CASE Resend(c)
      <4>1. client[c].req \in AllRequests
        BY <3>3 DEF Resend, Base, ClientInv, Idle, AllRequests
      <4> QED
        BY <3>3, <4>1 DEF Resend, Free
    <3> QED
      BY <1>5, <3>1, <3>2, <3>3 DEF ClientStep
  <2>2. ASSUME NEW k \in Conn, NEW r \in AllRequests, handler' = [handler EXCEPT ![k] = Start(r)]
        PROVE  Told(handler'[j], unihashes')
    <3>1. handler'[j] = handler[j] \/ handler'[j] = Start(r)
      BY <2>2 DEF Base, HandlerInv
    <3>2. handler'[j] = Start(r) => Told(handler'[j], unihashes')
      BY ToldStart DEF Told
    <3> QED
      BY <1>2, <3>1, <3>2
  <2> QED
    BY <1>2, <2>1, <2>2
<1>6. CASE Backfill
  BY <1>2, <1>6 DEF Backfill
<1>7. CASE Crash
  BY <1>3, <1>7 DEF Crash
<1>8. CASE UNCHANGED vars
  BY <1>2, <1>8 DEF vars
<1> QED
  BY <1>4, <1>5, <1>6, <1>7, <1>8 DEF Next

\* The forms of the steps: a handler that may run goes on or is gone ...
LEMMA HandlerStepForm ==
    ASSUME HandlerInv, NEW k \in Conn, HandlerStep(k)
    PROVE  /\ loop \in {None, k} /\ Working(handler[k])
           /\ \/ Gone(k)
              \/ \E pc, u : GoOn(k, pc, u)
<1>1. handler[k].pc # "free" /\ loop \in {None, k}
  BY DEF HandlerStep, Insert, Lookup, AskOuthash, Record, Find, AskTaskhash, Copy,
         AskUnihash, UpstreamFails, GcMark, CheckMark, Sweep, Remove, CleanUnused,
         BackfillWait, Reply, At
<1>2. Working(handler[k])
  BY <1>1, AtWorks
<1>3. CASE Reply(k)
  BY <1>1, <1>2, <1>3 DEF Reply, Gone, HandlerInv
<1>4. CASE ~Reply(k)
  <2>1. Abort(k) \/ \E pc, u : GoOn(k, pc, u)
    BY <1>4 DEF HandlerStep, Insert, Lookup, AskOuthash, Record, Find, AskTaskhash, Copy,
                AskUnihash, UpstreamFails, GcMark, CheckMark, Sweep, Remove, CleanUnused,
                BackfillWait
  <2> QED
    BY <1>1, <1>2, <2>1, AbortGone
<1> QED
  BY <1>3, <1>4

\* ... and a client leaves the handlers alone, or starts one while nothing runs.
LEMMA ClientStepForm ==
    ASSUME HandlerInv, ClientInv, NEW c \in Client,
           ClientStep(c) \/ Break(c) \/ \E r \in Requests[c] : Send(c, r)
    PROVE  /\ UNCHANGED <<loop, backfill_queue, tables, history, upstream>>
           /\ \/ handler' = handler
              \/ loop = None /\ \E k \in Conn, r \in AllRequests : Started(k, r)
<1>1. UNCHANGED <<loop, backfill_queue, tables, history, upstream>>
  BY DEF ClientStep, GiveUp, Resend, Break, Send
<1>2. CASE GiveUp(c) \/ Break(c)
  BY <1>1, <1>2 DEF GiveUp, Break
<1>3. ASSUME NEW k \in Conn, NEW r, handler' = [handler EXCEPT ![k] = Start(r)]
      PROVE  Started(k, r)
  BY <1>3 DEF Started, HandlerInv
<1>4. ASSUME NEW r \in Requests[c], Send(c, r)
      PROVE  loop = None /\ \E k \in Conn, x \in AllRequests : Started(k, x)
  <2>1. \E k \in Conn : handler' = [handler EXCEPT ![k] = Start(r)]
    BY <1>4 DEF Send, Free
  <2> QED
    BY <1>3, <1>4, <2>1 DEF Send, AllRequests
<1>5. CASE Resend(c)
  <2>1. client[c].req \in AllRequests
    BY <1>5 DEF Resend, ClientInv, Idle, AllRequests
  <2>2. \E k \in Conn : handler' = [handler EXCEPT ![k] = Start(client[c].req)]
    BY <1>5 DEF Resend, Free
  <2> QED
    BY <1>1, <1>3, <1>5, <2>1, <2>2 DEF Resend
<1> QED
  BY <1>1, <1>2, <1>4, <1>5 DEF ClientStep

\* While a handler may run, or none does, no other handler is within a report.
LEMMA NoneReporting ==
    ASSUME LoopInv, NEW k, loop \in {None, k}, NEW j \in Conn, j # k
    PROVE  ~Reporting(j)
  BY HashEquivAssumption DEF LoopInv

\* A request that starts is not within its report.
LEMMA StartNotReporting ==
    ASSUME NEW r \in AllRequests
    PROVE  /\ ~(Start(r).pc \in {"lookup", "record"} /\ Start(r).req.op = "report")
           /\ Start(r).pc \notin {"ask_outhash", "ask_taskhash", "ask_unihash", "copy"}
<1>1. r.op \in Op
  BY RequestKinds
<1>2. Start(r).pc = FirstStep[r.op] /\ Start(r).req = r
  BY DEF Start
<1>3. /\ FirstStep["report"] = "insert" /\ FirstStep["get"] = "find"
      /\ FirstStep["stream"] = "find" /\ FirstStep["equivreport"] = "record"
      /\ FirstStep["mark"] = "mark" /\ FirstStep["sweep"] = "check"
      /\ FirstStep["remove"] = "remove" /\ FirstStep["clean"] = "clean"
      /\ FirstStep["wait"] = "wait"
  BY DEF FirstStep
<1> QED
  BY <1>1, <1>2, <1>3 DEF Op

LEMMA LoopStep ==
    ASSUME Backend = "sqlite", Base, LoopInv, [Next]_vars
    PROVE  LoopInv'
<1> SUFFICES ASSUME NEW j \in Conn, Reporting(j)'
             PROVE  loop' = j
  BY DEF LoopInv
<1>1. handler'[j] = handler[j] => Reporting(j)
  BY DEF Reporting
<1>2. HandlerInv /\ ClientInv
  BY DEF Base
<1>3. ASSUME NEW k \in Conn, HandlerStep(k)
      PROVE  loop' = j
  <2>1. /\ loop \in {None, k} /\ Working(handler[k])
        /\ Gone(k) \/ \E pc, u : GoOn(k, pc, u)
    BY <1>2, <1>3, HandlerStepForm
  <2>2. CASE j # k
    <3>1. handler'[j] = handler[j]
      BY <1>2, <2>1, <2>2, GoOnWent DEF Gone, Went
    <3> QED
      BY <1>1, <2>1, <2>2, <3>1, NoneReporting
  <2>3. CASE j = k
    <3>1. ~Gone(k)
      BY <2>3 DEF Gone, NoHandler, Reporting
    <3>2. PICK pc, u : GoOn(k, pc, u)
      BY <2>1, <3>1
    <3>3. pc \in {"lookup", "record"}
      BY <1>2, <2>1, <2>3, <3>2, GoOnWent DEF Went, Reporting
    <3>4. pc \notin Waiting
      BY <3>3 DEF Waiting
    <3> QED
      BY <1>2, <2>1, <2>3, <3>2, <3>4, GoOnWent
  <2> QED
    BY <2>2, <2>3
<1>4. ASSUME NEW c \in Client, ClientStep(c) \/ Break(c) \/ \E r \in Requests[c] : Send(c, r)
      PROVE  loop' = j
  <2>1. /\ loop' = loop
        /\ \/ handler' = handler
           \/ loop = None /\ \E k \in Conn, r \in AllRequests : Started(k, r)
    BY <1>2, <1>4, ClientStepForm
  <2>2. CASE handler' = handler
    BY <1>1, <2>1, <2>2 DEF LoopInv
  <2>3. ASSUME loop = None, NEW k \in Conn, NEW r \in AllRequests, Started(k, r)
        PROVE  loop' = j
    <3>1. CASE j = k
      <4>1. handler'[j] = Start(r)
        BY <2>3, <3>1 DEF Started
      <4>2. Start(r).pc \in {"lookup", "record"} /\ Start(r).req.op = "report"
        BY <4>1 DEF Reporting
      <4> QED
        BY <4>2, StartNotReporting
    <3>2. CASE j # k
      <4>1. handler'[j] = handler[j]
        BY <2>3, <3>2 DEF Started
      <4>2. ~Reporting(j)
        BY <2>3, <3>2, NoneReporting
      <4> QED
        BY <1>1, <4>1, <4>2
    <3> QED
      BY <3>1, <3>2
  <2> QED
    BY <2>1, <2>2, <2>3
<1>5. CASE Backfill
  BY <1>1, <1>5 DEF Backfill, LoopInv
<1>6. CASE Crash
  BY <1>6 DEF Crash, NoHandler, Reporting
<1>7. CASE UNCHANGED vars
  BY <1>1, <1>7 DEF vars, LoopInv
<1> QED
  BY <1>3, <1>4, <1>5, <1>6, <1>7 DEF Next

(***************************************************************************)
(* The oldest row of an output hash.                                       *)
(***************************************************************************)

LEMMA SmallestNumber ==
    ASSUME NEW T \in SUBSET Nat, T # {}
    PROVE  \E m \in T : \A n \in T : m <= n
<1>1. IsWellFoundedOn(OpToRel(<, Nat), Nat)
  BY NatLessThanWellFounded
<1>2. PICK m \in T : \A n \in T : ~(<<n, m>> \in OpToRel(<, Nat))
  BY <1>1, WFMin
<1>3. \A n \in T : ~(n < m)
  BY <1>2 DEF OpToRel
<1> QED
  BY <1>3

LEMMA OldestIs ==
    ASSUME OuthashInv, NEW E \in SUBSET DOMAIN outhashes, E # {}
    PROVE  /\ Oldest(E) \in E
           /\ \A y \in E : outhashes[Oldest(E)] <= outhashes[y]
<1> DEFINE T == {outhashes[x] : x \in E}
<1>1. T \subseteq Nat /\ T # {}
  BY DEF OuthashInv
<1>2. PICK m \in T : \A n \in T : m <= n
  BY <1>1, SmallestNumber
<1>3. \E x \in E : \A y \in E : outhashes[x] <= outhashes[y]
  BY <1>2
<1> QED
  BY <1>3 DEF Oldest

(***************************************************************************)
(* One unihash for one output hash, without upstream and undisturbed.      *)
(***************************************************************************)

Unified ==
    /\ Alone /\ RowsHaveUnihash /\ OriginHasRow /\ FollowsOldest
    /\ \A k \in Conn : NewRow(k)

\* With no report under way, and the tables what they were as far as rows, unihashes
\* and origins go, the invariant stays.
LEMMA UnifiedSame ==
    ASSUME Unified, OuthashInv, Alone',
           \A j \in Conn : ~Reporting(j), \A j \in Conn : ~Reporting(j)',
           DOMAIN outhashes' = DOMAIN outhashes,
           \A x \in DOMAIN outhashes : outhashes'[x] = outhashes[x],
           DOMAIN unihashes' = DOMAIN unihashes,
           \A t \in DOMAIN unihashes : unihashes'[t].unihash = unihashes[t].unihash,
           origin' = origin
    PROVE  Unified'
<1>1. RowsHaveUnihash'
  BY DEF Unified, RowsHaveUnihash
<1>2. OriginHasRow'
  BY DEF Unified, OriginHasRow
<1>3. \A x \in DOMAIN outhashes : Leads(x)' <=> Leads(x)
  BY DEF Leads
<1>4. FollowsOldest'
  <2>1. ASSUME NEW t \in Taskhash, NEW x \in DOMAIN outhashes, origin[t] = x.outhash, Leads(x),
               x.outhash # None
        PROVE  /\ x.taskhash \in DOMAIN unihashes
               /\ unihashes'[t].unihash = unihashes'[x.taskhash].unihash
    <3>1. /\ x.taskhash \in DOMAIN unihashes /\ t \in DOMAIN unihashes
          /\ unihashes[t].unihash = unihashes[x.taskhash].unihash
      BY <2>1 DEF Unified, FollowsOldest, OriginHasRow
    <3> QED
      BY <3>1
  <2>2. \A x \in DOMAIN outhashes : x.outhash # None
    BY HashEquivAssumption DEF OuthashInv
  <2> QED
    BY <1>3, <2>1, <2>2 DEF FollowsOldest
<1>5. \A k \in Conn : NewRow(k)'
  BY DEF NewRow
<1> QED
  BY <1>1, <1>2, <1>4, <1>5 DEF Unified

\* Of all handlers only the one that runs may be within a report.
LEMMA OnlyRunner ==
    ASSUME HandlerInv, LoopInv, NEW k \in Conn, loop \in {None, k}, Working(handler[k]),
           NEW pc, NEW u, Went(k, pc, u), Alone, UNCHANGED backfill_queue
    PROVE  /\ \A j \in Conn \ {k} : ~Reporting(j) /\ ~Reporting(j)'
           /\ Reporting(k)' <=> pc \in {"lookup", "record"} /\ handler[k].req.op = "report"
           /\ RowOf(k)' = RowOf(k)
           /\ pc \notin {"ask_outhash", "ask_taskhash", "ask_unihash", "copy"} => Alone'
<1>1. /\ handler'[k].pc = pc /\ handler'[k].req = handler[k].req
      /\ \A j \in Conn : j # k => handler'[j] = handler[j]
  BY DEF Went
<1>2. \A j \in Conn \ {k} : ~Reporting(j)
  BY NoneReporting
<1>3. \A j \in Conn \ {k} : ~Reporting(j)'
  BY <1>1, <1>2 DEF Reporting
<1>4. Reporting(k)' <=> pc \in {"lookup", "record"} /\ handler[k].req.op = "report"
  BY <1>1 DEF Reporting
<1>5. RowOf(k)' = RowOf(k)
  BY <1>1 DEF RowOf
<1>6. pc \notin {"ask_outhash", "ask_taskhash", "ask_unihash", "copy"} => Alone'
  BY <1>1 DEF Alone
<1> QED
  BY <1>2, <1>3, <1>4, <1>5, <1>6

LEMMA RowIs ==
    ASSUME OuthashInv, NEW x \in DOMAIN outhashes
    PROVE  /\ x.taskhash \in Taskhash /\ x.outhash \in Outhash /\ x.outhash # None
           /\ x = Row(x.taskhash, x.outhash)
  BY HashEquivAssumption DEF OuthashInv, Row

\* The row of a report whose task has no unihash yet is new, and the newest.
LEMMA InsertUnified ==
    ASSUME Backend = "sqlite", Base, Base', LoopInv, Unified, NEW k \in Conn, Insert(k)
    PROVE  Unified'
<1> DEFINE t == handler[k].req.t
           o == handler[k].req.o
           row == Row(t, o)
<1>1. /\ GoOn(k, "lookup", None) /\ loop \in {None, k} /\ handler[k].pc = "insert"
      /\ UNCHANGED <<unihashes, origin, backfill_queue>> /\ InsertOuthash(t, o)
  BY DEF Insert, TellsNew, At, history, outside
<1>2. HandlerInv /\ OuthashInv /\ OuthashInv' /\ Working(handler[k])
  BY <1>1, AtWorks DEF Base, TableInv
<1>3. handler[k].req.op = "report" /\ t \in Taskhash /\ o \in Outhash
  <2>1. handler[k].req \in AllRequests /\ Place(handler[k].req.op, "insert")
    BY <1>1, <1>2 DEF Working
  <2> QED
    BY <2>1, RequestKinds DEF Place
<1>4. Went(k, "lookup", None)
  BY <1>1, <1>2, GoOnWent
<1>5. /\ \A j \in Conn \ {k} : ~Reporting(j) /\ ~Reporting(j)'
      /\ Reporting(k)' /\ RowOf(k)' = RowOf(k) /\ Alone'
  BY <1>1, <1>2, <1>3, <1>4, OnlyRunner DEF Unified
<1>6. ~Reporting(k) /\ RowOf(k) = row
  BY <1>1 DEF Reporting, RowOf
<1>7. \A x \in DOMAIN outhashes : x.taskhash \in DOMAIN unihashes
  BY <1>5, <1>6 DEF Unified, RowsHaveUnihash
<1>8. row.taskhash = t /\ row.outhash = o
  BY DEF Row
<1> HIDE DEF row, t, o
<1>9. \/ row \in DOMAIN outhashes /\ UNCHANGED <<outhashes, clock>>
      \/ /\ row \notin DOMAIN outhashes
         /\ DOMAIN outhashes' = DOMAIN outhashes \cup {row}
         /\ outhashes'[row] = clock
         /\ \A x \in DOMAIN outhashes : outhashes'[x] = outhashes[x]
  BY <1>1 DEF InsertOuthash, outhashTable, row
<1>10. /\ DOMAIN outhashes' = DOMAIN outhashes \cup {row}
       /\ \A x \in DOMAIN outhashes : outhashes'[x] = outhashes[x]
       /\ row \notin DOMAIN outhashes =>
              \A x \in DOMAIN outhashes : outhashes'[x] < outhashes'[row]
  <2>1. CASE row \in DOMAIN outhashes
    BY <1>9, <2>1
  <2>2. CASE row \notin DOMAIN outhashes
    <3>1. \A x \in DOMAIN outhashes : outhashes[x] < clock
      BY <1>2 DEF OuthashInv
    <3> QED
      BY <1>9, <2>2, <3>1
  <2> QED
    BY <2>1, <2>2
<1>11. RowsHaveUnihash'
  <2>1. \A x \in DOMAIN outhashes' : x.taskhash \in DOMAIN unihashes' \/ x = RowOf(k)'
    BY <1>1, <1>5, <1>6, <1>7, <1>10
  <2> QED
    BY <1>5, <2>1 DEF RowsHaveUnihash
<1>12. OriginHasRow'
  BY <1>1, <1>10 DEF Unified, OriginHasRow
<1>13. FollowsOldest'
  <2> SUFFICES ASSUME NEW s \in Taskhash, NEW x \in DOMAIN outhashes',
                      origin[s] = x.outhash, Leads(x)'
               PROVE  /\ x.taskhash \in DOMAIN unihashes
                      /\ unihashes[s].unihash = unihashes[x.taskhash].unihash
    BY <1>1 DEF FollowsOldest
  <2>1. x.outhash # None
    BY <1>2, HashEquivAssumption DEF OuthashInv
  <2>2. Row(s, x.outhash) \in DOMAIN outhashes
    BY <2>1 DEF Unified, OriginHasRow
  <2>3. Row(s, x.outhash).outhash = x.outhash
    BY DEF Row
  <2>4. outhashes'[x] <= outhashes'[Row(s, x.outhash)]
    BY <1>10, <2>2, <2>3 DEF Leads
  <2>5. x \in DOMAIN outhashes
    <3>1. ASSUME x = row, row \notin DOMAIN outhashes
          PROVE  FALSE
      <4>1. outhashes'[Row(s, x.outhash)] < outhashes'[row]
        BY <1>10, <2>2, <3>1
      <4>2. outhashes'[Row(s, x.outhash)] \in Int /\ outhashes'[row] \in Int
        BY <1>2, <1>10, <2>2 DEF OuthashInv
      <4> QED
        BY <2>4, <3>1, <4>1, <4>2
    <3> QED
      BY <1>10, <3>1
  <2>6. Leads(x)
    BY <1>10, <2>5 DEF Leads
  <2> QED
    BY <2>5, <2>6 DEF Unified, FollowsOldest
<1>14. \A j \in Conn : NewRow(j)'
  <2>1. NewRow(k)'
    <3> SUFFICES ASSUME t \notin DOMAIN unihashes'
                 PROVE  /\ row \in DOMAIN outhashes'
                        /\ \A x \in DOMAIN outhashes' \ {row} : outhashes'[x] < outhashes'[row]
      <4>1. RowOf(k)' = row /\ handler'[k].pc = "lookup" /\ handler'[k].req.t = t
        BY <1>4, <1>5, <1>6 DEF Went, t
      <4> QED
        BY <4>1 DEF NewRow
    <3>1. row \notin DOMAIN outhashes
      BY <1>1, <1>7, <1>8
    <3> QED
      BY <1>10, <3>1
  <2> QED
    BY <1>5, <2>1 DEF NewRow
<1> QED
  BY <1>5, <1>11, <1>12, <1>13, <1>14 DEF Unified

\* Looking for equivalents finds what the oldest row of the output hash has.
LEMMA LookupUnified ==
    ASSUME Backend = "sqlite", Base, LoopInv, upstream = None, Unified,
           NEW k \in Conn, Lookup(k)
    PROVE  Unified'
<1> DEFINE t == handler[k].req.t
           o == handler[k].req.o
           E == Equivalents(t, o)
<1>1. /\ handler[k].pc = "lookup" /\ loop \in {None, k}
      /\ UNCHANGED <<outhashes, unihashes, origin, backfill_queue>>
  BY DEF Lookup, At, tables, outhashTable, history, outside
<1>2. HandlerInv /\ OuthashInv /\ Working(handler[k])
  BY <1>1, AtWorks DEF Base, TableInv
<1>3. handler[k].req.op = "report"
  BY <1>1, <1>2 DEF Working, Place
<1>4. PICK u : /\ GoOn(k, "record", u)
               /\ E # {} => u = unihashes[Oldest(E).taskhash].unihash
  BY DEF Lookup
<1>5. Went(k, "record", u)
  BY <1>2, <1>4, GoOnWent
<1>6. /\ \A j \in Conn \ {k} : ~Reporting(j) /\ ~Reporting(j)'
      /\ Reporting(k)' /\ RowOf(k)' = RowOf(k) /\ Alone'
  BY <1>1, <1>2, <1>3, <1>5, OnlyRunner DEF Unified
<1>7. Reporting(k) /\ RowOf(k) = Row(t, o)
  BY <1>1, <1>3 DEF Reporting, RowOf
<1> HIDE DEF t, o, E
<1>8. RowsHaveUnihash'
  <2>1. \A x \in DOMAIN outhashes : x.taskhash \in DOMAIN unihashes \/ x = RowOf(k)
    BY <1>6 DEF Unified, RowsHaveUnihash
  <2> QED
    BY <1>1, <1>6, <2>1 DEF RowsHaveUnihash
<1>9. OriginHasRow'
  BY <1>1 DEF Unified, OriginHasRow
<1>10. \A x \in DOMAIN outhashes : Leads(x)' <=> Leads(x)
  BY <1>1 DEF Leads
<1>11. FollowsOldest'
  BY <1>1, <1>10 DEF Unified, FollowsOldest
<1>12. ASSUME t \notin DOMAIN unihashes, NEW x \in DOMAIN outhashes \ {Row(t, o)},
              x.outhash = o, Leads(x)
       PROVE  u = unihashes[x.taskhash].unihash
  <2>1. x.taskhash \in DOMAIN unihashes
    BY <1>6, <1>7 DEF Unified, RowsHaveUnihash
  <2>2. x.taskhash # t
    BY <1>12, <2>1
  <2>3. x \in E
    BY <1>12, <2>1, <2>2 DEF Equivalents, E
  <2>4. E \subseteq DOMAIN outhashes /\ \A y \in E : y.outhash = o
    BY DEF Equivalents, E
  <2>5. Oldest(E) \in E /\ \A y \in E : outhashes[Oldest(E)] <= outhashes[y]
    BY <1>2, <2>3, <2>4, OldestIs
  <2>6. outhashes[x] <= outhashes[Oldest(E)] /\ outhashes[Oldest(E)] <= outhashes[x]
    BY <1>12, <2>3, <2>4, <2>5 DEF Leads
  <2>7. outhashes[x] \in Int /\ outhashes[Oldest(E)] \in Int
    BY <1>2, <2>4, <2>5 DEF OuthashInv
  <2>8. outhashes[x] = outhashes[Oldest(E)]
    BY <2>6, <2>7
  <2>9. x = Oldest(E)
    BY <1>2, <2>4, <2>5, <2>8 DEF OuthashInv
  <2> QED
    BY <1>4, <2>3, <2>9
<1>13. \A j \in Conn : NewRow(j)'
  <2>1. NewRow(k)'
    <3>1. /\ RowOf(k)' = Row(t, o) /\ handler'[k].pc = "record" /\ handler'[k].req.t = t
          /\ handler'[k].req.o = o /\ handler'[k].unihash = u
      BY <1>5, <1>6, <1>7 DEF Went, t, o
    <3>2. t \notin DOMAIN unihashes =>
              /\ Row(t, o) \in DOMAIN outhashes
              /\ \A x \in DOMAIN outhashes \ {Row(t, o)} : outhashes[x] < outhashes[Row(t, o)]
      BY <1>7 DEF Unified, NewRow, t
    <3> QED
      BY <1>1, <1>10, <1>12, <3>1, <3>2 DEF NewRow
  <2> QED
    BY <1>6, <2>1 DEF NewRow
<1> QED
  BY <1>6, <1>8, <1>9, <1>11, <1>13 DEF Unified

\* A report gives its task that unihash, unless it had one; an equivalence report
\* names a task whose reports have no row yet, or which has a unihash.
LEMMA RecordUnified ==
    ASSUME Backend = "sqlite", Base, LoopInv, Unified, NEW k \in Conn, Record(k)
    PROVE  Unified'
<1> DEFINE t == handler[k].req.t
           o == handler[k].req.o
<1>1. /\ handler[k].pc = "record" /\ loop \in {None, k}
      /\ GoOn(k, "find", handler[k].unihash)
      /\ UNCHANGED <<outhashes, backfill_queue>>
  BY DEF Record, At, outhashTable, outside
<1>2. HandlerInv /\ OuthashInv /\ UnihashInv /\ TableInv /\ Working(handler[k])
  BY <1>1, AtWorks DEF Base, TableInv
<1>3. /\ handler[k].req.op \in {"report", "equivreport"} /\ t \in Taskhash
      /\ handler[k].req.op = "report" => o \in Outhash
  <2>1. handler[k].req \in AllRequests /\ Place(handler[k].req.op, "record")
    BY <1>1, <1>2 DEF Working
  <2> QED
    BY <2>1, RequestKinds DEF Place
<1>4. Went(k, "find", handler[k].unihash)
  BY <1>1, <1>2, GoOnWent
<1>5. /\ \A j \in Conn \ {k} : ~Reporting(j) /\ ~Reporting(j)'
      /\ ~Reporting(k)' /\ Alone'
  BY <1>1, <1>2, <1>4, OnlyRunner DEF Unified
<1>6. \A j \in Conn : ~Reporting(j)' /\ NewRow(j)'
  BY <1>5 DEF NewRow
<1>7. \A x \in DOMAIN outhashes : Leads(x)' <=> Leads(x)
  BY <1>1 DEF Leads
<1>8. PICK u, w :
          /\ InsertUnihash(t, u) /\ Added(t, w) /\ w \in Outhash \cup {None}
          /\ \/ handler[k].req.op = "report" /\ u = handler[k].unihash /\ w = o
             \/ handler[k].req.op = "equivreport" /\ w = None
  BY <1>3 DEF Record
<1>9. /\ DOMAIN unihashes' = DOMAIN unihashes \cup {t}
      /\ \A x \in DOMAIN unihashes : unihashes'[x] = unihashes[x]
      /\ t \notin DOMAIN unihashes => unihashes'[t].unihash = u
  <2>1. /\ DOMAIN unihashes' = DOMAIN unihashes \cup {t}
        /\ \A x \in DOMAIN unihashes : unihashes'[x] = unihashes[x]
        /\ t \notin DOMAIN unihashes =>
               unihashes'[t] = [unihash |-> u, mark |-> current_mark]
    BY <1>2, <1>3, <1>8, UnihashAdded
  <2> QED
    BY <2>1
<1>10. /\ origin[t] # None => t \in DOMAIN unihashes
       /\ \A s \in Taskhash : s # t => origin'[s] = origin[s]
       /\ t \in DOMAIN unihashes => origin'[t] = origin[t]
       /\ t \notin DOMAIN unihashes => origin'[t] = w
  <2>1. origin[t] # None => t \in DOMAIN unihashes
    BY <1>3 DEF Unified, OriginHasRow
  <2>2. origin \in [Taskhash -> Outhash \cup {None}]
    BY <1>2 DEF UnihashInv
  <2> QED
    BY <1>3, <1>8, <2>1, <2>2 DEF Added
<1>11. /\ Reporting(k) <=> handler[k].req.op = "report"
       /\ RowOf(k) = Row(t, o) /\ Row(t, o).taskhash = t /\ Row(t, o).outhash = o
  BY <1>1 DEF Reporting, RowOf, Row
<1> HIDE DEF t, o
<1>12. \A x \in DOMAIN outhashes : x.taskhash \in DOMAIN unihashes \/ x = Row(t, o)
  BY <1>5, <1>11 DEF Unified, RowsHaveUnihash
<1>13. handler[k].req.op = "equivreport" =>
           \A x \in DOMAIN outhashes : x.taskhash \in DOMAIN unihashes
  BY <1>5, <1>11 DEF Unified, RowsHaveUnihash
<1>14. /\ t \notin DOMAIN unihashes /\ handler[k].req.op = "report" =>
              /\ Row(t, o) \in DOMAIN outhashes
              /\ \A x \in DOMAIN outhashes \ {Row(t, o)} :
                     x.outhash = o /\ Leads(x) => u = unihashes[x.taskhash].unihash
  <2>1. NewRow(k)
    BY DEF Unified
  <2> QED
    BY <1>1, <1>8, <1>11, <2>1 DEF NewRow, t, o
<1>15. RowsHaveUnihash'
  BY <1>1, <1>9, <1>11, <1>12 DEF RowsHaveUnihash
<1>16. OriginHasRow'
  <2>1. ASSUME NEW s \in Taskhash, origin'[s] # None
        PROVE  s \in DOMAIN unihashes' /\ Row(s, origin'[s]) \in DOMAIN outhashes
    <3>1. CASE s = t /\ t \notin DOMAIN unihashes
      BY <1>8, <1>9, <1>10, <1>14, <2>1, <3>1
    <3>2. CASE ~(s = t /\ t \notin DOMAIN unihashes)
      <4>1. origin'[s] = origin[s]
        BY <1>10, <3>2
      <4> QED
        BY <1>9, <2>1, <4>1 DEF Unified, OriginHasRow
    <3> QED
      BY <3>1, <3>2
  <2> QED
    BY <1>1, <2>1 DEF OriginHasRow
<1>17. FollowsOldest'
  <2> SUFFICES ASSUME NEW s \in Taskhash, NEW x \in DOMAIN outhashes,
                      origin'[s] = x.outhash, Leads(x)
               PROVE  /\ x.taskhash \in DOMAIN unihashes'
                      /\ unihashes'[s].unihash = unihashes'[x.taskhash].unihash
    BY <1>1, <1>7 DEF FollowsOldest
  <2>1. x.outhash # None /\ x = Row(x.taskhash, x.outhash)
    BY <1>2, RowIs
  <2>2. x.taskhash \in DOMAIN unihashes'
    BY <1>9, <1>11, <1>12
  <2>3. CASE s = t /\ t \notin DOMAIN unihashes
    <3>1. handler[k].req.op = "report" /\ u = handler[k].unihash /\ x.outhash = o
      BY <1>8, <1>10, <2>1, <2>3
    <3>2. CASE x = Row(t, o)
      BY <1>11, <2>2, <2>3, <3>2
    <3>3. CASE x # Row(t, o)
      <4>1. x.taskhash \in DOMAIN unihashes /\ u = unihashes[x.taskhash].unihash
        BY <1>12, <1>14, <2>3, <3>1, <3>3
      <4> QED
        BY <1>9, <2>3, <4>1
    <3> QED
      BY <3>2, <3>3
  <2>4. CASE ~(s = t /\ t \notin DOMAIN unihashes)
    <3>1. origin[s] = x.outhash
      BY <1>10, <2>4
    <3>2. /\ x.taskhash \in DOMAIN unihashes /\ s \in DOMAIN unihashes
          /\ unihashes[s].unihash = unihashes[x.taskhash].unihash
      BY <2>1, <3>1 DEF Unified, FollowsOldest, OriginHasRow
    <3> QED
      BY <1>9, <2>2, <3>2
  <2> QED
    BY <2>2, <2>3, <2>4
<1> QED
  BY <1>5, <1>6, <1>15, <1>16, <1>17 DEF Unified

\* Every other step of a handler leaves rows, unihashes and origins what they are, or
\* is a deletion, or needs the upstream server.
LEMMA OtherUnified ==
    ASSUME Backend = "sqlite", Base, LoopInv, upstream = None, Unified, disturbed' = {},
           NEW k \in Conn, HandlerStep(k), ~Insert(k), ~Lookup(k), ~Record(k)
    PROVE  Unified'
<1> DEFINE r == handler[k].req
           p == handler[k].pc
<1>1. /\ loop \in {None, k} /\ Working(handler[k]) /\ HandlerInv /\ OuthashInv
      /\ UnihashInv
      /\ Gone(k) \/ \E pc, u : GoOn(k, pc, u)
  BY HandlerStepForm DEF Base, TableInv
<1>2. p \notin {"ask_outhash", "ask_taskhash", "ask_unihash", "copy"}
  BY DEF Unified, Alone
<1>3. \/ Find(k) \/ GcMark(k) \/ CheckMark(k) \/ CleanUnused(k) \/ BackfillWait(k) \/ Reply(k)
  BY <1>2 DEF HandlerStep, AskOuthash, AskTaskhash, Copy, AskUnihash, UpstreamFails, At,
              Sweep, Remove
<1>4. UNCHANGED backfill_queue
  BY <1>3 DEF Find, GcMark, CheckMark, CleanUnused, BackfillWait, Reply, outside
<1>5. p \notin {"lookup", "record"}
  BY <1>3 DEF Find, GcMark, CheckMark, CleanUnused, BackfillWait, Reply, At
<1>6. \A j \in Conn : ~Reporting(j)
  BY <1>1, <1>5, NoneReporting DEF Reporting
<1>7. Alone' /\ \A j \in Conn : ~Reporting(j)'
  <2>1. CASE Gone(k)
    <3>1. /\ handler'[k].pc = "free"
          /\ \A j \in Conn : j # k => handler'[j] = handler[j]
      BY <2>1 DEF Gone, NoHandler
    <3>2. Alone'
      BY <1>4, <3>1 DEF Unified, Alone
    <3>3. \A j \in Conn : ~Reporting(j)'
      BY <1>6, <3>1 DEF Reporting
    <3> QED
      BY <3>2, <3>3
  <2>2. CASE ~Gone(k)
    <3>1. \E pc \in {"reply", "sweep"} : \E u : GoOn(k, pc, u)
      <4>1. ~Abort(k) /\ ~Reply(k)
        BY <1>1, <2>2, AbortGone DEF Reply, Gone, HandlerInv
      <4> QED
        BY <1>3, <4>1 DEF Find, GcMark, CheckMark, CleanUnused, BackfillWait
    <3>2. PICK pc \in {"reply", "sweep"} : \E u : Went(k, pc, u)
      BY <1>1, <3>1, GoOnWent
    <3> QED
      BY <1>1, <1>4, <3>2, OnlyRunner DEF Unified
  <2> QED
    BY <2>1, <2>2
<1>8. \A x \in DOMAIN outhashes : x.taskhash \in DOMAIN unihashes
  BY <1>6 DEF Unified, RowsHaveUnihash
<1>9. /\ DOMAIN outhashes' = DOMAIN outhashes
      /\ \A x \in DOMAIN outhashes : outhashes'[x] = outhashes[x]
  <2>1. CASE CleanUnused(k)
    <3>1. {x \in DOMAIN outhashes : x.taskhash \in DOMAIN unihashes} = DOMAIN outhashes
      BY <1>8
    <3> QED
      BY <2>1, <3>1 DEF CleanUnused, Restrict
  <2>2. CASE ~CleanUnused(k)
    BY <1>3, <2>2 DEF Find, GcMark, CheckMark, BackfillWait, Reply, tables, outhashTable
  <2> QED
    BY <2>1, <2>2
<1>10. /\ DOMAIN unihashes' = DOMAIN unihashes
       /\ \A t \in DOMAIN unihashes : unihashes'[t].unihash = unihashes[t].unihash
       /\ origin' = origin
  <2>1. CASE GcMark(k)
    <3>1. origin' = origin /\ DOMAIN unihashes' = DOMAIN unihashes
      BY <2>1 DEF GcMark
    <3>2. Stable
      BY HandlerStepTables
    <3> QED
      BY <3>1, <3>2 DEF Stable
  <2>2. CASE ~GcMark(k)
    BY <1>3, <2>2 DEF Find, CleanUnused, CheckMark, BackfillWait, Reply, tables, history
  <2> QED
    BY <2>1, <2>2
<1> QED
  BY <1>1, <1>6, <1>7, <1>9, <1>10, UnifiedSame

LEMMA UnifyStep ==
    ASSUME Backend = "sqlite", Base, LoopInv, UnifyInv, [Next]_vars
    PROVE  UnifyInv'
<1> SUFFICES ASSUME upstream' = None, disturbed' = {}
             PROVE  Unified'
  BY DEF UnifyInv, Unified
<1>1. /\ upstream = None /\ Unified /\ Base' /\ LoopInv' /\ HandlerInv /\ ClientInv
      /\ OuthashInv
  <2>1. upstream = None /\ disturbed = {}
    BY OnlyDeleted
  <2> QED
    BY <2>1, BaseStep, LoopStep DEF UnifyInv, Unified, Base, TableInv
<1>2. ASSUME UNCHANGED <<outhashes, unihashes, origin>>, Alone',
             \A j \in Conn : ~Reporting(j), \A j \in Conn : ~Reporting(j)'
      PROVE  Unified'
  BY <1>1, <1>2, UnifiedSame
<1>3. ASSUME UNCHANGED <<outhashes, unihashes, origin, handler, backfill_queue>>
      PROVE  Unified'
  <2>1. Alone' /\ OriginHasRow'
    BY <1>1, <1>3 DEF Unified, Alone, OriginHasRow
  <2>2. \A j \in Conn : (Reporting(j)' <=> Reporting(j)) /\ RowOf(j)' = RowOf(j)
    BY <1>3 DEF Reporting, RowOf
  <2>3. \A x \in DOMAIN outhashes : Leads(x)' <=> Leads(x)
    BY <1>3 DEF Leads
  <2>4. RowsHaveUnihash'
    BY <1>1, <1>3, <2>2 DEF Unified, RowsHaveUnihash
  <2>5. FollowsOldest'
    BY <1>1, <1>3, <2>3 DEF Unified, FollowsOldest
  <2>6. \A j \in Conn : NewRow(j)'
    BY <1>1, <1>3, <2>2, <2>3 DEF Unified, NewRow
  <2> QED
    BY <2>1, <2>4, <2>5, <2>6 DEF Unified
<1>4. ASSUME NEW k \in Conn, HandlerStep(k)
      PROVE  Unified'
  BY <1>1, <1>4, InsertUnified, LookupUnified, RecordUnified, OtherUnified
<1>5. ASSUME NEW c \in Client, ClientStep(c) \/ Break(c) \/ \E r \in Requests[c] : Send(c, r)
      PROVE  Unified'
  <2>1. /\ UNCHANGED <<backfill_queue, outhashes, unihashes, origin>>
        /\ \/ handler' = handler
           \/ loop = None /\ \E k \in Conn, r \in AllRequests : Started(k, r)
    BY <1>1, <1>5, ClientStepForm DEF tables, outhashTable, history
  <2>2. CASE handler' = handler
    BY <1>3, <2>1, <2>2
  <2>3. ASSUME loop = None, NEW k \in Conn, NEW r \in AllRequests, Started(k, r)
        PROVE  Unified'
    <3>1. /\ handler'[k] = Start(r)
          /\ \A j \in Conn : j # k => handler'[j] = handler[j]
      BY <2>3 DEF Started
    <3>2. \A j \in Conn : ~Reporting(j)
      BY <2>3, HashEquivAssumption DEF LoopInv
    <3>3. ~Reporting(k)'
          /\ handler'[k].pc \notin {"ask_outhash", "ask_taskhash", "ask_unihash", "copy"}
      BY <3>1, StartNotReporting DEF Reporting
    <3>4. \A j \in Conn : ~Reporting(j)'
      BY <3>1, <3>2, <3>3 DEF Reporting
    <3>5. Alone'
      BY <1>1, <2>1, <3>1, <3>3 DEF Unified, Alone
    <3> QED
      BY <1>2, <2>1, <3>2, <3>4, <3>5
  <2> QED
    BY <2>1, <2>2, <2>3
<1>6. CASE Backfill
  BY <1>1, <1>6 DEF Backfill, Unified, Alone
<1>7. CASE Crash
  BY <1>7 DEF Crash
<1>8. CASE UNCHANGED vars
  BY <1>3, <1>8 DEF vars, tables, outhashTable, history
<1> QED
  BY <1>4, <1>5, <1>6, <1>7, <1>8 DEF Next

LEMMA InitInv == Init => IInv
<1> SUFFICES ASSUME Init PROVE IInv
  OBVIOUS
<1>1. Base
  BY BaseInit
<1>2. \A k \in Conn : handler[k].pc = "free"
  BY DEF Init, NoHandler
<1>3. DOMAIN outhashes = {}
  BY DEF Init
<1>4. \A t \in Taskhash : origin[t] = None
  BY DEF Init
<1>5. AnswerInv /\ LoopInv
  BY <1>2 DEF AnswerInv, Told, LoopInv, Reporting
<1>6. Alone /\ \A k \in Conn : NewRow(k)
  BY <1>2 DEF Init, Alone, NewRow, Reporting
<1>7. RowsHaveUnihash /\ OriginHasRow /\ FollowsOldest
  BY <1>3, <1>4 DEF RowsHaveUnihash, OriginHasRow, FollowsOldest
<1> QED
  BY <1>1, <1>5, <1>6, <1>7 DEF IInv, UnifyInv

LEMMA StepInv == Backend = "sqlite" /\ IInv /\ [Next]_vars => IInv'
<1> SUFFICES ASSUME Backend = "sqlite", IInv, [Next]_vars PROVE IInv'
  OBVIOUS
<1> QED
  BY BaseStep, AnswerStep, LoopStep, UnifyStep DEF IInv

LEMMA Invariance == Backend = "sqlite" /\ Spec => []IInv
<1> SUFFICES ASSUME Backend = "sqlite" PROVE Spec => []IInv
  OBVIOUS
<1>1. IInv /\ [Next]_vars => IInv'
  BY StepInv
<1> QED
  BY <1>1, InitInv, PTL DEF Spec

\* On the sqlite backend a report or an equivalence report is answered with the unihash
\* the table holds for the task, however often it was sent and whatever crashed or came
\* from upstream in between, until somebody deletes rows; the tables keep their form.
THEOREM AnswerIsRecordedTheorem == Backend = "sqlite" /\ Spec => []AnswerIsRecorded
<1>1. IInv => AnswerIsRecorded
  <2> SUFFICES ASSUME IInv PROVE AnswerIsRecorded
    OBVIOUS
  <2>1. /\ OuthashInv /\ UnihashInv /\ MarkInv /\ HandlerInv /\ ClientInv
    BY DEF IInv, Base, TableInv
  <2>2. \A k \in Conn :
            handler[k] # NoHandler => handler[k].req \in UNION {Requests[c] : c \in Client}
    BY <2>1 DEF HandlerInv, Working, AllRequests
  <2>3. \A c \in Client : client[c].req = None => client[c] = Idle
    BY <2>1, RequestAssumption DEF ClientInv
  <2>4. TypeOK
    BY <2>1, <2>2, <2>3 DEF TypeOK, OuthashInv, UnihashInv, MarkInv, HandlerInv
  <2>5. AnswerIsTable
    BY DEF IInv, AnswerInv, Told, AnswerIsTable
  <2> QED
    BY <2>4, <2>5 DEF AnswerIsRecorded
<1> QED
  BY <1>1, Invariance, PTL

\* On the sqlite backend two rows that reports of one output hash added have one
\* unihash, on a server without upstream that deleted nothing and did not crash.
THEOREM EquivalentUnifiedTheorem == Backend = "sqlite" /\ Spec => []EquivalentUnified
<1>1. IInv => EquivalentUnified
  <2> SUFFICES ASSUME IInv, upstream = None, disturbed = {},
                      NEW t1 \in DOMAIN unihashes, NEW t2 \in DOMAIN unihashes,
                      origin[t1] # None, origin[t1] = origin[t2]
               PROVE  unihashes[t1].unihash = unihashes[t2].unihash
    BY DEF EquivalentUnified
  <2>1. OuthashInv /\ t1 \in Taskhash /\ t2 \in Taskhash
    BY DEF IInv, Base, TableInv, UnihashInv
  <2>2. OriginHasRow /\ FollowsOldest
    BY DEF IInv, UnifyInv
  <2> DEFINE E == {x \in DOMAIN outhashes : x.outhash = origin[t1]}
             x == Oldest(E)
  <2>3. Row(t1, origin[t1]) \in E
    BY <2>1, <2>2 DEF OriginHasRow, Row
  <2>4. x \in E /\ \A y \in E : outhashes[x] <= outhashes[y]
    BY <2>1, <2>3, OldestIs
  <2> HIDE DEF x
  <2>5. x \in DOMAIN outhashes /\ x.outhash = origin[t1] /\ Leads(x)
    BY <2>4 DEF Leads
  <2> QED
    BY <2>1, <2>2, <2>5 DEF FollowsOldest
<1> QED
  BY <1>1, Invariance, PTL
=============================================================================
