------------------------------ MODULE PRServer ------------------------------
(***************************************************************************)
(* The PR server: handle_get_pr() of lib/prserv/serv.py on the table of    *)
(* lib/prserv/db.py, with or without an upstream server, and its clients,  *)
(* which send a request again when their connection breaks.                *)
(*                                                                         *)
(* One version of one package.  A revision "1.0" is <<1, 0>>, and checksums *)
(* are numbers, in the order of their text.  The server is one asyncio     *)
(* loop: a handler runs until it asks the upstream server, which is a PR   *)
(* server without upstream that serves others as well.                     *)
(***************************************************************************)
EXTENDS Integers, Sequences, SequencesExt, FiniteSets, FiniteSetsExt

CONSTANTS
    Client, Conn,   \* clients and connections of the server
    Checksum,
    Upstreams,      \* whether there is an upstream server: which cases
    Starts,         \* the one value its table starts with: which cases
    MaxRequests,    \* bound: requests made in a behaviour
    MaxUpstream,    \* bound: rows of the upstream server
    MaxTries,       \* times a client sends a request again (3 in client.py)
    MaxFaults,      \* bound: broken connections and crashes
    None

ASSUME PRServerAssumption ==
    /\ Checksum \cup Starts \subseteq Nat
    /\ Checksum # {} /\ IsFiniteSet(Checksum)
    /\ Upstreams \subseteq BOOLEAN
    /\ {MaxRequests, MaxUpstream, MaxTries, MaxFaults} \subseteq Nat
    /\ None \notin Conn \cup Seq(Nat)

VARIABLES
    upstream,       \* whether there is one; never changes
    rows,           \* the table: records [checksum, value]
    uprows,         \* that of the upstream server
    handler,        \* what runs for each connection
    client,         \* each client's request, connection and attempts
    requests, faults,
    answers,        \* history: what the clients were told
    greatest        \* history: the greatest value told

vars == <<upstream, rows, uprows, handler, client, requests, faults,
          answers, greatest>>

-----------------------------------------------------------------------------
(* Revisions (lib/prserv/__init__.py) and their text.                      *)

Differ(rev1, rev2) ==
    {i \in 1 .. Min({Len(rev1), Len(rev2)}) : rev1[i] # rev2[i]}

\* The order of package versions: 1 before 1.0, and None before any.
Below(v, w) ==
    IF v = None \/ w = None THEN v = None /\ w # None
    ELSE IF Differ(v, w) = {} THEN Len(v) < Len(w)
    ELSE LET i == Min(Differ(v, w)) IN v[i] < w[i]

increase_revision(rev) == [rev EXCEPT ![Len(rev)] = @ + 1]

\* Of two revisions one of which continues the other, each is.
revision_greater_or_equal(rev1, rev2) ==
    Differ(rev1, rev2) = {}
        \/ LET i == Min(Differ(rev1, rev2)) IN rev1[i] > rev2[i]

revision_smaller(rev1, rev2) == ~revision_greater_or_equal(rev1, rev2)
revision_greater(rev1, rev2) ==
    revision_greater_or_equal(rev1, rev2) /\ rev1 # rev2

\* The order of the texts: "1" < "1.0" < "10" < "2", of numbers below 100.
Key(n) == IF n < 10 THEN 11 * n ELSE 11 * (n \div 10) + 1 + (n % 10)
TextLess(a, b) ==
    \/ a # b /\ IsPrefix(a, b)
    \/ Differ(a, b) # {} /\ LET i == Min(Differ(a, b)) IN Key(a[i]) < Key(b[i])

-----------------------------------------------------------------------------
(* The table (PRTable).                                                    *)

\* A query is answered from the index, by checksum and then by value as text.
Follows(r, s) ==
    \/ r.checksum > s.checksum
    \/ r.checksum = s.checksum /\ TextLess(s.value, r.value)

LastOf(some) == {r \in some : \A s \in some \ {r} : Follows(r, s)}

\* _extremum_value(), of a query for the greatest or for the smallest value: taken
\* are the rows whose value replaces the one found in the rows before.
extremum_value(sel, largest) ==
    LET Better(v, w) == IF largest THEN revision_greater(v, w) ELSE revision_smaller(v, w)
        Before(r) == {s \in sel : Follows(r, s)}
        taken == CHOOSE some \in SUBSET sel : \A r \in sel :
            r \in some <=> \A s \in LastOf(some \cap Before(r)) : Better(r.value, s.value)
    IN  IF sel = {} THEN None ELSE (CHOOSE r \in LastOf(taken) : TRUE).value

find_package_max_value(table) == extremum_value(table, TRUE)

find_value(table, checksum, history) ==
    LET sel == {r \in table : r.checksum = checksum}
    IN  extremum_value(sel, ~history)

\* "<base>.y", one more than the greatest: value LIKE '<base>.%'.
find_new_subvalue(table, base) ==
    LET value == extremum_value(
                     {r \in table : base # r.value /\ IsPrefix(base, r.value)}, TRUE)
    IN  IF value = None THEN Append(base, 0) ELSE increase_revision(value)

\* Mutant: a value that is not the greatest any more is given again.
_get_value_as_found(table, checksum, history) ==
    LET max_value == find_package_max_value(table)
        value == find_value(table, checksum, history)
    IN  CASE max_value = None -> <<0>>
          [] max_value # None /\ value = None -> increase_revision(max_value)
          [] OTHER -> value

\* "max_value > value" compares texts.
_get_value(table, checksum, history) ==
    LET max_value == find_package_max_value(table)
        value == find_value(table, checksum, history)
    IN  CASE max_value = None -> <<0>>
          [] max_value # None /\ value = None -> increase_revision(max_value)
          [] value # None /\ ~history /\ TextLess(value, max_value) ->
                 increase_revision(max_value)
          [] OTHER -> value

Row(checksum, value) == [checksum |-> checksum, value |-> value]

\* Mutant: get_value() does not store a value for requests with history.
Stored_unless_history(req, value) ==
    IF req.history THEN rows ELSE rows \cup {Row(req.checksum, value)}

Stored(req, value) == rows \cup {Row(req.checksum, value)}

-----------------------------------------------------------------------------
(* handle_get_pr().                                                        *)

Request == [checksum : Checksum, history : BOOLEAN]
\* What a handler waits for upstream to answer, and what it goes on with.
Asking == [ask_max |-> "max", ask_known |-> "known", ask_package |-> "package",
           ask_new |-> "new", ask_new_max |-> "new_max"]

Idle == [req |-> None, conn |-> None, tries |-> 0, floor |-> None]
NoHandler == [pc |-> "free", req |-> None, value |-> None, max |-> None,
              answer |-> None]

Init ==
    /\ upstream \in Upstreams
    /\ rows \in {{}} \cup {{Row(Max(Checksum), <<n>>)} : n \in Starts}
    /\ uprows = {}
    /\ handler = [k \in Conn |-> NoHandler]
    /\ client = [c \in Client |-> Idle]
    /\ requests = 0 /\ faults = 0
    /\ answers = {} /\ greatest = None

history == <<answers, greatest>>
outside == <<upstream, uprows, client, requests, faults, history>>

\* The handler goes on, and only waits for upstream.
Goes(k, to) ==
    /\ handler' = [handler EXCEPT ![k] = to]
    /\ UNCHANGED <<rows, outside>>

\* The answer is written at once; it reaches a client that still listens to
\* this connection.
Listening(k) == {c \in Client : client[c].conn = k}

Return(k, value) ==
    /\ handler' = [handler EXCEPT ![k] = NoHandler]
    /\ client' = [c \in Client |-> IF c \in Listening(k) THEN Idle ELSE client[c]]
    /\ answers' = answers \cup
           {[req |-> client[c].req, value |-> value,
             low |-> Below(value, client[c].floor)] : c \in Listening(k)}
    /\ greatest' = IF Listening(k) # {} /\ Below(greatest, value) THEN value
                   ELSE greatest
    /\ UNCHANGED <<upstream, uprows, requests, faults>>

StoreAndReturn(k, value) ==
    /\ rows' = Stored(handler[k].req, value)
    /\ Return(k, value)

GetValue(k) ==
    LET req == handler[k].req
    IN  \E value \in {_get_value(rows, req.checksum, req.history)} :
            StoreAndReturn(k, value)

Begin(k) ==
    LET req == handler[k].req IN
    /\ handler[k].pc = "begin"
    /\ \/ ~upstream /\ GetValue(k)
       \/ upstream /\ Goes(k, [handler[k] EXCEPT !.pc = "ask_max",
                         !.value = find_value(rows, req.checksum, req.history)])

\* A checksum that was not in the table leads to the next question at once.
UpstreamAnswers(k) ==
    LET pc == handler[k].pc
        answer == CASE pc \in {"ask_max", "ask_new_max"} -> find_package_max_value(uprows)
                    [] pc = "ask_package" -> uprows # {}
                    [] OTHER -> find_value(uprows, handler[k].req.checksum, FALSE)
    IN
    /\ pc \in DOMAIN Asking
    /\ IF pc = "ask_max" /\ handler[k].value = None
       THEN Goes(k, [handler[k] EXCEPT !.pc = "ask_package"])
       ELSE Goes(k, [handler[k] EXCEPT !.pc = Asking[pc], !.answer = answer])

\* The checksum was in the table before upstream was asked.
KnownHistory(k) ==
    /\ handler[k].pc = "max" /\ handler[k].req.history
    /\ GetValue(k)

Raised(value, local_max) ==
    IF revision_smaller(value, local_max) THEN increase_revision(local_max) ELSE value

Known(k) ==
    LET upstream_max == handler[k].answer IN
    /\ handler[k].pc = "max" /\ ~handler[k].req.history /\ upstream_max # None
    /\ \E local_max \in {find_package_max_value(rows)} :
       \E value \in {Raised(handler[k].value, local_max)} :
          IF revision_smaller(value, upstream_max)
          THEN Goes(k, [handler[k] EXCEPT !.pc = "ask_known", !.max = upstream_max])
          ELSE StoreAndReturn(k, value)

\* A handler ends with an exception, and its connection is closed.
HandlerFails(k) ==
    /\ handler' = [handler EXCEPT ![k] = NoHandler]
    /\ client' = [c \in Client |-> IF c \in Listening(k)
                                   THEN [client[c] EXCEPT !.conn = None]
                                   ELSE client[c]]
    /\ UNCHANGED <<upstream, rows, uprows, requests, history>>

\* Upstream cannot be reached, or not in time: a ConnectionError.
UpstreamFails(k) ==
    /\ handler[k].pc \in DOMAIN Asking /\ faults < MaxFaults
    /\ faults' = faults + 1
    /\ HandlerFails(k)

\* revision_smaller(value, None), of a package upstream does not know: an
\* AttributeError.
KnownFails(k) ==
    /\ handler[k].pc = "max" /\ ~handler[k].req.history /\ handler[k].answer = None
    /\ HandlerFails(k) /\ UNCHANGED faults

KnownBelow(k) ==
    /\ handler[k].pc = "known"
    /\ StoreAndReturn(k, IF handler[k].answer = None THEN Append(handler[k].max, 0)
                         ELSE handler[k].max)

\* The checksum is new.
Package(k) ==
    /\ handler[k].pc = "package"
    /\ IF handler[k].answer
       THEN Goes(k, [handler[k] EXCEPT !.pc = "ask_new", !.answer = None])
       ELSE GetValue(k)

NewUpstream(k) ==
    LET value == handler[k].answer IN
    /\ handler[k].pc = "new"
    /\ IF value # None THEN StoreAndReturn(k, value)
       ELSE Goes(k, [handler[k] EXCEPT !.pc = "ask_new_max"])

NewHere(k) ==
    /\ handler[k].pc = "new_max"
    /\ \E value \in {find_new_subvalue(rows, handler[k].answer)} :
           StoreAndReturn(k, value)

-----------------------------------------------------------------------------
(* Clients, connections and crashes.                                       *)

\* Which client asks and which connection it takes is immaterial.
Free == {k \in Conn : handler[k] = NoHandler}
FreeConn == CHOOSE k \in Free : TRUE
AtRest == {c \in Client : client[c] = Idle}

Started(req) == [NoHandler EXCEPT !.pc = "begin", !.req = req]

getPR(req) ==
    /\ AtRest # {} /\ requests < MaxRequests /\ Free # {}
    /\ client' = [client EXCEPT ![CHOOSE c \in AtRest : TRUE] =
            [req |-> req, conn |-> FreeConn, tries |-> 0, floor |-> greatest]]
    /\ handler' = [handler EXCEPT ![FreeConn] = Started(req)]
    /\ requests' = requests + 1
    /\ UNCHANGED <<upstream, rows, uprows, faults, history>>

\* The connection breaks; the server does not notice before it answers.
Break(c) ==
    /\ client[c].conn # None /\ faults < MaxFaults
    /\ faults' = faults + 1
    /\ client' = [client EXCEPT ![c].conn = None]
    /\ UNCHANGED <<upstream, rows, uprows, handler, requests, history>>

\* _send_wrapper()
TriesLeft(c) == client[c].tries < MaxTries

SendAgain(c, tries) ==
    /\ client[c].req # None /\ client[c].conn = None
    /\ TriesLeft(c) /\ Free # {}
    /\ client' = [client EXCEPT ![c].conn = FreeConn, ![c].tries = tries]
    /\ handler' = [handler EXCEPT ![FreeConn] = Started(client[c].req)]
    /\ UNCHANGED <<upstream, rows, uprows, requests, faults, history>>

\* Mutant: attempts are not counted.
Resend_uncounted(c) == SendAgain(c, client[c].tries)

Resend(c) == SendAgain(c, client[c].tries + 1)

GiveUp(c) ==
    /\ client[c].req # None /\ client[c].conn = None
    /\ ~TriesLeft(c)
    /\ client' = [client EXCEPT ![c] = Idle]
    /\ UNCHANGED <<upstream, rows, uprows, handler, requests, faults, history>>

\* The server dies and is started again on its table.
Crash ==
    /\ faults < MaxFaults
    /\ faults' = faults + 1
    /\ handler' = [k \in Conn |-> NoHandler]
    /\ client' = [c \in Client |-> [client[c] EXCEPT !.conn = None]]
    /\ UNCHANGED <<upstream, rows, uprows, requests, history>>

\* Somebody else asks the upstream server; with history, its table would get
\* no row that it does not get without.
UpstreamGets(checksum) ==
    /\ upstream /\ Cardinality(uprows) < MaxUpstream
    /\ uprows' = uprows \cup {Row(checksum, _get_value(uprows, checksum, FALSE))}
    /\ UNCHANGED <<upstream, rows, handler, client, requests, faults, history>>

HandlerStep(k) ==
    \/ Begin(k) \/ UpstreamAnswers(k) \/ UpstreamFails(k)
    \/ KnownHistory(k) \/ Known(k) \/ KnownFails(k) \/ KnownBelow(k)
    \/ Package(k) \/ NewUpstream(k) \/ NewHere(k)
ClientStep(c) == Resend(c) \/ GiveUp(c)

Next ==
    \/ \E k \in Conn : HandlerStep(k)
    \/ \E c \in Client : ClientStep(c) \/ Break(c)
    \/ \E req \in Request : getPR(req)
    \/ \E checksum \in Checksum : UpstreamGets(checksum)
    \/ Crash

\* The loop runs what is ready, upstream answers, and a client tries again or
\* gives up by itself.
Fairness ==
    /\ \A k \in Conn : WF_vars(HandlerStep(k))
    /\ \A c \in Client : WF_vars(ClientStep(c))

Spec == Init /\ [][Next]_vars /\ Fairness

-----------------------------------------------------------------------------
Revision == Seq(Nat) \ {<<>>}

\* Types: values in the tables, the handlers and the requests are revisions.
TypeOK ==
    /\ rows \cup uprows \subseteq [checksum : Checksum, value : Revision]
    /\ \A k \in Conn : /\ handler[k].req \in Request \cup {None}
                       /\ {handler[k].value, handler[k].max} \subseteq Revision \cup {None}
    /\ \A c \in Client : /\ client[c].req \in Request \cup {None}
                         /\ client[c].conn \in Conn \cup {None}
                         /\ client[c].tries \in 0 .. MaxTries

\* What a client was told survives: a server has it in the table.
AnswersStored ==
    \A a \in answers : Row(a.req.checksum, a.value) \in rows

\* "History" mode returns the historical value: the same for a checksum whenever
\* it is asked for, however often the request was sent.
HistoryRepeats ==
    ~upstream => \A a, b \in answers :
        a.req.history /\ a.req = b.req => a.value = b.value

AnswersKept == TypeOK /\ AnswersStored /\ HistoryRepeats

\* "No history" mode: "the PR value returned can NOT be decremented": it is not
\* below any value returned before the request was made.
NotDecremented ==
    \A a \in answers : ~a.req.history => ~a.low

\* It holds without upstream, of numbers below ten.
NoHistoryGrows == ~upstream => NotDecremented

\* Every request comes to an end, answered or given up.
RequestsEnd == \A c \in Client : client[c].req # None ~> client[c].req = None
=============================================================================
