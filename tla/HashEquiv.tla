----------------------------- MODULE HashEquiv -----------------------------
(***************************************************************************)
(* The hash equivalence server (lib/hashserv/server.py) on one of its two  *)
(* database backends, and the clients that resend a request when their     *)
(* connection breaks (lib/bb/asyncrpc/client.py).                          *)
(*                                                                         *)
(* The server is one asyncio loop: a handler runs until it waits for the   *)
(* network.  The sqlite backend never waits, so there a handler gives up   *)
(* the loop only to ask the upstream server; the sqlalchemy backend gives  *)
(* it up at every transaction.  A handler whose connection broke goes on   *)
(* to its end, and the client's second attempt may run beside it.  Each    *)
(* transaction survives a crash of the server, its handlers do not.        *)
(***************************************************************************)
EXTENDS Integers, Sequences, FiniteSets, Functions

CONSTANTS
    Taskhash,       \* task hashes; also the unihash a client offers for each
    Outhash,        \* output hashes
    Mark,           \* garbage collection marks
    Requests,       \* the requests each client may make
    Upstreams,      \* the upstream servers considered; None: no upstream
    Backend,        \* "sqlite" or "sqlalchemy"
    Client, Conn,   \* clients and connections of the server
    MaxRequests,    \* bound: requests made in a behaviour
    MaxTries,       \* times a client sends a request again (3 in client.py)
    MaxFaults,      \* bound: broken connections and crashes of the server
    None

ASSUME HashEquivAssumption ==
    /\ Backend \in {"sqlite", "sqlalchemy"}
    /\ MaxRequests \in Nat /\ MaxTries \in Nat /\ MaxFaults \in Nat
    /\ None \notin Taskhash \cup Outhash \cup Mark \cup Conn

\* The handlers of the server that are modelled, and the arguments they look at
ASSUME RequestAssumption ==
    \A c \in Client : \A r \in Requests[c] :
        /\ r # None
        /\ r.op \in {"report", "get", "stream", "equivreport", "mark", "sweep", "remove",
                     "clean", "wait"}
        /\ r.op \in {"report", "get", "stream", "equivreport", "remove"} => r.t \in Taskhash
        /\ r.op = "report" => r.o \in Outhash
        /\ r.op \in {"mark", "sweep"} => r.m \in Mark

VARIABLES
    upstream,       \* what the upstream knows, or None; never changes
    outhashes,      \* table outhashes_v2: row -> when it was created
    clock,          \* the time: rows created so far
    unihashes,      \* table unihashes_v3: taskhash -> [unihash, mark]
    current_mark,   \* the row "gc-mark" of the config table
    handler,        \* what runs for each connection
    loop,           \* the handler that holds the loop, or None
    backfill_queue, \* hashes to copy from upstream, the one in work first
    client,         \* each client's request, connection and attempts
    requests,       \* requests made so far
    faults,         \* broken connections and crashes so far
    disturbed,      \* history: "deleted" rows, "crashed" server
    since,          \* history: marked or added since the mark was set
    origin          \* history: outhash whose report added a row, or None

outhashTable == <<outhashes, clock>>
tables == <<outhashTable, unihashes, current_mark>>
history == <<disturbed, since, origin>>
vars == <<upstream, tables, handler, loop, backfill_queue, client, requests,
          faults, history>>
-----------------------------------------------------------------------------
\* Where a request starts, and the places a handler can be at.
FirstStep == [report |-> "insert", get |-> "find", stream |-> "find",
              equivreport |-> "record", mark |-> "mark", sweep |-> "check",
              remove |-> "remove", clean |-> "clean", wait |-> "wait"]

Waiting == {"ask_outhash", "ask_taskhash", "ask_unihash", "wait", "reply"}

Idle == [req |-> None, conn |-> None, tries |-> 0]
NoHandler == [pc |-> "free", req |-> None, unihash |-> None]
Start(r) == [pc |-> FirstStep[r.op], req |-> r, unihash |-> None]

Init ==
    /\ upstream \in Upstreams
    /\ outhashes = <<>> /\ clock = 0
    /\ unihashes = <<>>
    /\ current_mark = None
    /\ handler = [k \in Conn |-> NoHandler]
    /\ loop = None
    /\ backfill_queue = <<>>
    /\ client = [c \in Client |-> Idle]
    /\ requests = 0
    /\ faults = 0
    /\ disturbed = {}
    /\ since = {}
    /\ origin = [t \in Taskhash |-> None]
-----------------------------------------------------------------------------
\* Handler k is at pc and may run.
At(k, pc) == handler[k].pc = pc /\ loop \in {None, k}

\* It goes on at pc with unihash u: on sqlite nothing runs in between, unless
\* it waits for the network there.
GoOn(k, pc, u) ==
    /\ handler' = [handler EXCEPT ![k].pc = pc, ![k].unihash = u]
    /\ loop' = IF Backend = "sqlite" /\ pc \notin Waiting THEN k ELSE None

\* Mutant: the connection stays open.
Abort_silently(k) ==
    /\ handler' = [handler EXCEPT ![k] = NoHandler]
    /\ loop' = None
    /\ UNCHANGED client

\* An exception ends the handler and closes the connection.
Abort(k) ==
    /\ handler' = [handler EXCEPT ![k] = NoHandler]
    /\ loop' = None
    /\ client' = [c \in Client |-> IF client[c].conn = k
                                   THEN [client[c] EXCEPT !.conn = None]
                                   ELSE client[c]]

\* Mutant: INSERT OR REPLACE.
InsertUnihash_or_replace(t, u) ==
    unihashes' = [x \in DOMAIN unihashes \cup {t} |->
                    IF x = t THEN [unihash |-> u, mark |-> current_mark] ELSE unihashes[x]]

\* Mutant: a row added while garbage is collected does not get the mark.
InsertUnihash_unmarked(t, u) ==
    unihashes' = [x \in DOMAIN unihashes \cup {t} |->
                    IF x \in DOMAIN unihashes THEN unihashes[x]
                    ELSE [unihash |-> u, mark |-> None]]

\* The database operations, each one transaction.
\* INSERT OR IGNORE into unihashes_v3, under the current mark
InsertUnihash(t, u) ==
    unihashes' = IF t \in DOMAIN unihashes THEN unihashes
                 ELSE [x \in DOMAIN unihashes \cup {t} |->
                         IF x = t THEN [unihash |-> u, mark |-> current_mark]
                                  ELSE unihashes[x]]

Row(t, o) == [taskhash |-> t, outhash |-> o]

\* INSERT OR IGNORE into outhashes_v2.  "created" is the time of the transaction.
InsertOuthash(t, o) ==
    IF Row(t, o) \in DOMAIN outhashes THEN UNCHANGED outhashTable
    ELSE /\ outhashes' = [x \in DOMAIN outhashes \cup {Row(t, o)} |->
                             IF x = Row(t, o) THEN clock ELSE outhashes[x]]
         /\ clock' = clock + 1

\* Mutant on sqlite: a report sent again after a crash is taken as recorded.
TellsNew_counting_rows(t, o) == Row(t, o) \notin DOMAIN outhashes

\* What insert_outhash returns.  The cursor's lastrowid is None before the
\* statement and a number after it even when the row was ignored, so sqlite's
\* version always says that the row is new; sqlalchemy's counts rows.
TellsNew(t, o) ==
    \/ Backend = "sqlite"
    \/ Row(t, o) \notin DOMAIN outhashes

\* Mutant: "=" for "!=" in the query.
Equivalents_of_itself(t, o) ==
    {x \in DOMAIN outhashes : x.outhash = o /\ x.taskhash = t /\ x.taskhash \in DOMAIN unihashes}

\* Rows of other tasks with this outhash that have a unihash
Equivalents(t, o) ==
    {x \in DOMAIN outhashes : x.outhash = o /\ x.taskhash # t /\ x.taskhash \in DOMAIN unihashes}

\* ORDER BY created ASC LIMIT 1
Oldest(E) == CHOOSE x \in E : \A y \in E : outhashes[x] <= outhashes[y]

\* What a row added to unihashes means for the history
Added(t, o) ==
    /\ since' = IF t \in DOMAIN unihashes THEN since ELSE since \cup {t}
    /\ origin' = IF t \in DOMAIN unihashes THEN origin ELSE [origin EXCEPT ![t] = o]
    /\ UNCHANGED disturbed

outside == <<backfill_queue, client, requests, faults, upstream>>
-----------------------------------------------------------------------------
\* handle_report

Insert(k) ==
    LET r == handler[k].req IN
    /\ At(k, "insert")
    /\ InsertOuthash(r.t, r.o)
    /\ GoOn(k, IF TellsNew(r.t, r.o) THEN "lookup" ELSE "find", None)
    /\ UNCHANGED <<unihashes, current_mark, history, outside>>

Lookup(k) ==
    LET r == handler[k].req
        E == Equivalents(r.t, r.o)
    IN
    /\ At(k, "lookup")
    /\ \/ /\ E # {}
          /\ GoOn(k, "record", unihashes[Oldest(E).taskhash].unihash)
       \/ /\ E = {}
          /\ GoOn(k, IF upstream = None THEN "record" ELSE "ask_outhash", r.t)
    /\ UNCHANGED <<tables, history, outside>>

AskOuthash(k) ==
    LET answer == upstream[handler[k].req.o] IN
    /\ At(k, "ask_outhash")
    /\ GoOn(k, "record", IF answer = None THEN handler[k].unihash ELSE answer)
    /\ UNCHANGED <<tables, history, outside>>

\* insert_unihash of a report, and of handle_equivreport
Record(k) ==
    LET r == handler[k].req IN
    /\ At(k, "record")
    /\ \/ /\ r.op = "report"
          /\ InsertUnihash(r.t, handler[k].unihash)
          /\ Added(r.t, r.o)
       \/ /\ r.op = "equivreport"
          /\ InsertUnihash(r.t, r.u)
          /\ Added(r.t, None)
    /\ GoOn(k, "find", handler[k].unihash)
    /\ UNCHANGED <<outhashTable, current_mark, outside>>

\* The row of a task hash: get_unihash, and the lookups of handle_equivreport
\* and handle_get_stream
Find(k) ==
    LET r == handler[k].req IN
    /\ At(k, "find")
    /\ \/ /\ r.t \in DOMAIN unihashes
          /\ GoOn(k, "reply", unihashes[r.t].unihash)
          /\ UNCHANGED client
       \/ /\ r.t \notin DOMAIN unihashes
          /\ r.op = "equivreport"               \* row["unihash"] of None
          /\ Abort(k)
       \/ /\ r.t \notin DOMAIN unihashes
          /\ r.op # "equivreport"
          /\ \/ /\ upstream = None
                /\ GoOn(k, "reply", IF r.op = "report" THEN r.t ELSE None)
             \/ /\ upstream # None
                /\ GoOn(k, IF r.op = "stream" THEN "ask_unihash" ELSE "ask_taskhash", None)
          /\ UNCHANGED client
    /\ UNCHANGED <<tables, history, backfill_queue, requests, faults, upstream>>

\* get_unihash: d["method"] of None raises when upstream has no answer either
AskTaskhash(k) ==
    LET answer == upstream[handler[k].req.t] IN
    /\ At(k, "ask_taskhash")
    /\ \/ answer # None /\ GoOn(k, "copy", answer) /\ UNCHANGED client
       \/ answer = None /\ Abort(k)
    /\ UNCHANGED <<tables, history, backfill_queue, requests, faults, upstream>>

Copy(k) ==
    LET t == handler[k].req.t IN
    /\ At(k, "copy")
    /\ InsertUnihash(t, handler[k].unihash)
    /\ Added(t, None)
    /\ GoOn(k, "reply", handler[k].unihash)
    /\ UNCHANGED <<outhashTable, current_mark, outside>>

\* handle_get_stream
AskUnihash(k) ==
    LET t == handler[k].req.t IN
    /\ At(k, "ask_unihash")
    /\ GoOn(k, "reply", upstream[t])
    /\ backfill_queue' = IF upstream[t] = None THEN backfill_queue ELSE Append(backfill_queue, t)
    /\ UNCHANGED <<tables, history, client, requests, faults, upstream>>

\* The upstream server cannot be reached: the handler fails.
UpstreamFails(k) ==
    /\ handler[k].pc \in {"ask_outhash", "ask_taskhash", "ask_unihash"}
    /\ loop = None
    /\ Abort(k)
    /\ UNCHANGED <<tables, history, backfill_queue, requests, faults, upstream>>
-----------------------------------------------------------------------------
\* handle_gc_mark: marks the row of one task, or only names the mark
GcMark(k) ==
    LET r == handler[k].req
        rows == {r.t} \cap DOMAIN unihashes
    IN
    /\ At(k, "mark")
    /\ current_mark' = r.m
    /\ unihashes' = [t \in DOMAIN unihashes |->
                       IF t \in rows THEN [unihashes[t] EXCEPT !.mark = r.m] ELSE unihashes[t]]
    /\ since' = rows \cup (IF current_mark = r.m THEN since ELSE {})
    /\ GoOn(k, "reply", None)
    /\ UNCHANGED <<outhashTable, disturbed, origin, outside>>

\* handle_gc_sweep reads the mark in one transaction ...
CheckMark(k) ==
    /\ At(k, "check")
    /\ GoOn(k, IF current_mark = handler[k].req.m THEN "sweep" ELSE "reply", None)
    /\ UNCHANGED <<tables, history, outside>>

\* ... and deletes in another, by the mark it finds then (none: nothing)
Sweep(k) ==
    LET swept == {t \in DOMAIN unihashes : current_mark # None /\ unihashes[t].mark # current_mark}
    IN
    /\ At(k, "sweep")
    /\ unihashes' = Restrict(unihashes, DOMAIN unihashes \ swept)
    /\ current_mark' = None
    /\ disturbed' = disturbed \cup {"deleted"}
    /\ since' = {}
    /\ GoOn(k, "reply", None)
    /\ UNCHANGED <<outhashTable, origin, outside>>

\* handle_remove with a task hash: the rows of both tables
Remove(k) ==
    LET t == handler[k].req.t IN
    /\ At(k, "remove")
    /\ unihashes' = Restrict(unihashes, DOMAIN unihashes \ {t})
    /\ outhashes' = Restrict(outhashes, {x \in DOMAIN outhashes : x.taskhash # t})
    /\ disturbed' = disturbed \cup {"deleted"}
    /\ since' = since \ {t}
    /\ GoOn(k, "reply", None)
    /\ UNCHANGED <<clock, current_mark, origin, outside>>

\* handle_clean_unused: "oldest" lies in the future, whatever the age asked for
\* (now minus minus max_age), so every row without a unihash goes
CleanUnused(k) ==
    /\ At(k, "clean")
    /\ outhashes' = Restrict(outhashes,
                             {x \in DOMAIN outhashes : x.taskhash \in DOMAIN unihashes})
    /\ GoOn(k, "reply", None)
    /\ UNCHANGED <<clock, unihashes, current_mark, history, outside>>

\* handle_backfill_wait: waits for backfill_queue.join(); without upstream
\* there is no queue and the handler fails
BackfillWait(k) ==
    /\ At(k, "wait")
    /\ \/ /\ upstream # None
          /\ backfill_queue = <<>>
          /\ GoOn(k, "reply", None)
          /\ UNCHANGED client
       \/ upstream = None /\ Abort(k)
    /\ UNCHANGED <<tables, history, backfill_queue, requests, faults, upstream>>

\* backfill_worker_task: copies the next hash.  The queue counts it as
\* unfinished until then, so it leaves backfill_queue only now.
Backfill ==
    LET t == Head(backfill_queue) IN
    /\ loop = None
    /\ backfill_queue # <<>>
    /\ IF upstream[t] = None THEN UNCHANGED <<unihashes, history>>
       ELSE InsertUnihash(t, upstream[t]) /\ Added(t, None)
    /\ backfill_queue' = Tail(backfill_queue)
    /\ UNCHANGED <<outhashTable, current_mark, handler, loop, client, requests, faults, upstream>>
-----------------------------------------------------------------------------
\* The answer reaches the client if it still listens to this connection.
Reply(k) ==
    /\ At(k, "reply")
    /\ handler' = [handler EXCEPT ![k] = NoHandler]
    /\ client' = [c \in Client |-> IF client[c].conn = k THEN Idle ELSE client[c]]
    /\ UNCHANGED <<tables, history, loop, backfill_queue, requests, faults, upstream>>

\* The loop accepts a connection.  Which slot it takes is immaterial.
Free == {k \in Conn : handler[k] = NoHandler}

Send(c, r) ==
    LET k == CHOOSE k \in Free : TRUE IN
    /\ client[c] = Idle
    /\ requests < MaxRequests
    /\ loop = None /\ Free # {}
    /\ client' = [client EXCEPT ![c] = [req |-> r, conn |-> k, tries |-> 0]]
    /\ handler' = [handler EXCEPT ![k] = Start(r)]
    /\ requests' = requests + 1
    /\ UNCHANGED <<tables, history, loop, backfill_queue, faults, upstream>>

\* The connection breaks; the server does not notice before it answers.
Break(c) ==
    /\ client[c].conn # None
    /\ faults < MaxFaults
    /\ faults' = faults + 1
    /\ client' = [client EXCEPT ![c].conn = None]
    /\ UNCHANGED <<tables, history, handler, loop, backfill_queue, requests, upstream>>

\* _send_wrapper sends the request again ...
Resend(c) ==
    LET k == CHOOSE k \in Free : TRUE IN
    /\ client[c].req # None /\ client[c].conn = None
    /\ client[c].tries < MaxTries
    /\ loop = None /\ Free # {}
    /\ client' = [client EXCEPT ![c].conn = k, ![c].tries = @ + 1]
    /\ handler' = [handler EXCEPT ![k] = Start(client[c].req)]
    /\ UNCHANGED <<tables, history, loop, backfill_queue, requests, faults, upstream>>

\* ... or raises ConnectionError once every attempt failed.
GiveUp(c) ==
    /\ client[c].req # None /\ client[c].conn = None
    /\ client[c].tries = MaxTries
    /\ client' = [client EXCEPT ![c] = Idle]
    /\ UNCHANGED <<tables, history, handler, loop, backfill_queue, requests, faults, upstream>>

\* The server dies between two transactions, or because the backfill worker
\* could not reach the upstream, and is started again on its database.
Crash ==
    /\ faults < MaxFaults
    /\ faults' = faults + 1
    /\ disturbed' = disturbed \cup {"crashed"}
    /\ handler' = [k \in Conn |-> NoHandler]
    /\ loop' = None
    /\ backfill_queue' = <<>>
    /\ client' = [c \in Client |-> [client[c] EXCEPT !.conn = None]]
    /\ UNCHANGED <<tables, since, origin, requests, upstream>>

HandlerStep(k) ==
    \/ Insert(k) \/ Lookup(k) \/ AskOuthash(k) \/ Record(k)
    \/ Find(k) \/ AskTaskhash(k) \/ Copy(k) \/ AskUnihash(k) \/ UpstreamFails(k)
    \/ GcMark(k) \/ CheckMark(k) \/ Sweep(k) \/ Remove(k) \/ CleanUnused(k)
    \/ BackfillWait(k) \/ Reply(k)

ClientStep(c) == GiveUp(c) \/ Resend(c)

Next ==
    \/ \E k \in Conn : HandlerStep(k)
    \/ \E c \in Client : ClientStep(c)
    \/ \E c \in Client : \E r \in Requests[c] : Send(c, r)
    \/ \E c \in Client : Break(c)
    \/ Backfill
    \/ Crash

\* The loop runs what is ready, upstream answers or fails within its timeouts,
\* and a client tries again or gives up by itself.
Fairness ==
    /\ \A k \in Conn : WF_vars(HandlerStep(k))
    /\ \A c \in Client : WF_vars(ClientStep(c))
    /\ WF_vars(Backfill)

Spec == Init /\ [][Next]_vars /\ Fairness
-----------------------------------------------------------------------------
\* Types: rows have the form of their tables, and a handler that is at work has a
\* request of one of the clients.
TypeOK ==
    /\ DOMAIN outhashes \subseteq [taskhash : Taskhash, outhash : Outhash]
    /\ clock \in Nat /\ \A x \in DOMAIN outhashes : outhashes[x] \in 0..(clock - 1)
    /\ DOMAIN unihashes \subseteq Taskhash
    /\ current_mark \in Mark \cup {None}
    /\ loop \in Conn \cup {None}
    /\ \A k \in Conn :
          handler[k] # NoHandler => handler[k].req \in UNION {Requests[c] : c \in Client}
    /\ backfill_queue \in Seq(Taskhash)
    /\ \A c \in Client : client[c].req = None => client[c] = Idle

\* A report (or equivalence report) is answered with the unihash the table
\* holds for the task, however often it was sent, whatever crashed in between
\* and whoever else reported it: the build goes on with this unihash, and every
\* later lookup has to agree (server.py:479-556).
AnswerIsTable ==
    \A k \in Conn :
        (/\ handler[k].pc = "reply"
         /\ handler[k].req.op \in {"report", "equivreport"}
         /\ "deleted" \notin disturbed)
        => /\ handler[k].req.t \in DOMAIN unihashes
           /\ handler[k].unihash = unihashes[handler[k].req.t].unihash

\* The tables have their form, and clients were told what is in them.
AnswerIsRecorded == TypeOK /\ AnswerIsTable

\* Reports of one output hash get one unihash: two rows that reports of the same
\* output hash added agree (server.py:498-516), on a server without upstream
\* whose rows nobody deleted and that did not crash within a report.
EquivalentUnified ==
    (upstream = None /\ disturbed = {}) =>
        \A t1, t2 \in DOMAIN unihashes :
            (origin[t1] # None /\ origin[t1] = origin[t2])
            => unihashes[t1].unihash = unihashes[t2].unihash

\* What the table says of a task never changes while the row is there: unihashes
\* already handed to builds stay valid (INSERT OR IGNORE, sqlite.py:434-454).
UnihashStable ==
    [][\A t \in DOMAIN unihashes \cap DOMAIN unihashes' :
          unihashes'[t].unihash = unihashes[t].unihash]_vars

\* A sweep keeps every row marked, or added by a build, since its mark was set:
\* builds go on while garbage is collected (server.py:606-623).
SweepKeepsMarked ==
    [][(current_mark # None /\ current_mark' = None) => since \subseteq DOMAIN unihashes']_vars

\* Every request comes to an end, answered or given up: also backfill_wait,
\* which waits for the whole backfill queue (server.py:574-580).
RequestsEnd == \A c \in Client : client[c].req # None ~> client[c].req = None
=============================================================================
