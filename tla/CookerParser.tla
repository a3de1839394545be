---------------------------- MODULE CookerParser ----------------------------
(***************************************************************************)
(* Parsing recipes in parallel, CookerParser and Parser of                 *)
(* lib/bb/cooker.py.  Parser processes take recipes off a shared counter   *)
(* and send what they parsed through one queue; the idle thread reads the  *)
(* queue, a result per call of parse_next(); shutdown() stops the parsers  *)
(* and is called by that thread at the end, or by the main thread when     *)
(* the user stops.                                                         *)
(*                                                                         *)
(* A queue is a buffer in each sender, which takes any number of results,  *)
(* and one pipe, which takes few; a process ends only when its buffer is   *)
(* empty (join_thread).  A process killed in the middle of a write, which  *)
(* would leave the pipe locked, is left out.                               *)
(***************************************************************************)
EXTENDS Naturals, Sequences, FiniteSets

CONSTANTS
    Parser,         \* the processes, num_processes of them
    Recipe,         \* willparse
    Broken,         \* the recipes that may fail to parse
    PipeSize,       \* bound: results in the pipe
    MaxKills        \* bound: parsers killed from outside

ASSUME ParserAssumption == IsFiniteSet(Parser) /\ Parser # {}
ASSUME RecipeAssumption ==
    IsFiniteSet(Recipe) /\ Recipe # {} /\ Broken \subseteq Recipe
ASSUME BoundAssumption == PipeSize \in Nat \ {0} /\ MaxKills \in Nat

VARIABLES
    \* Shared by the parsers.
    todo,           \* the recipes from next_job_id on
    parser_quit,
    \* Each parser.
    pc,             \* "loop", "parse", "closing", "dead"
    job,            \* the recipe it is parsing
    exit,           \* SIGINT received
    buffer,         \* results not yet in the pipe
    killed,         \* history: parsers killed from outside
    \* The queue's pipe.
    pipe,
    \* The idle thread: parse_next() and parse_generator().
    reader,         \* "check", "get", or how it ended: "parsed", with the
                    \* "error" of a recipe, "incomplete" or "stopped"
    processes,      \* self.processes
    empty, parsed, added,
    \* shutdown(), and the thread that runs it.
    phase, by, haveshutdown

parserVars == <<todo, pc, job, exit, buffer, killed>>
readerVars == <<reader, processes, empty, parsed, added>>
shutdownVars == <<phase, by, haveshutdown, parser_quit>>
vars == <<parserVars, pipe, readerVars, shutdownVars>>

Result == [recipe: Recipe, ok: BOOLEAN]
NoJob == {}
Outcome == {"parsed", "error", "incomplete", "stopped"}

\* Types: a parser has a recipe at most; results travel in order of sending.
TypeOK ==
    /\ todo \subseteq Recipe /\ parser_quit \in BOOLEAN
    /\ pc \in [Parser -> {"loop", "parse", "closing", "dead"}]
    /\ job \in [Parser -> SUBSET Recipe]
    /\ exit \in [Parser -> BOOLEAN]
    /\ buffer \in [Parser -> Seq(Result)]
    /\ killed \subseteq Parser
    /\ pipe \in Seq(Result) /\ Len(pipe) <= PipeSize
    /\ reader \in {"check", "get"} \cup Outcome
    /\ processes \subseteq Parser
    /\ empty \in BOOLEAN /\ parsed \in 0..Cardinality(Recipe)
    /\ added \subseteq Recipe
    /\ phase \in {"no", "drain", "join", "drain again", "join again", "done"}
    /\ by \in {"none", "idle", "main"} /\ haveshutdown \in BOOLEAN

Init ==
    /\ todo = Recipe /\ parser_quit = FALSE
    /\ pc = [p \in Parser |-> "loop"]
    /\ job = [p \in Parser |-> NoJob]
    /\ exit = [p \in Parser |-> FALSE]
    /\ buffer = [p \in Parser |-> <<>>]
    /\ killed = {} /\ pipe = <<>>
    /\ reader = "check" /\ processes = Parser
    /\ empty = FALSE /\ parsed = 0 /\ added = {}
    /\ phase = "no" /\ by = "none" /\ haveshutdown = FALSE

-----------------------------------------------------------------------------
(* The parser processes.                                                   *)

TakeJob(p) ==
    /\ pc[p] = "loop" /\ ~exit[p] /\ ~parser_quit
    /\ \E r \in todo :
          /\ todo' = todo \ {r}
          /\ job' = [job EXCEPT ![p] = {r}]
    /\ pc' = [pc EXCEPT ![p] = "parse"]
    /\ UNCHANGED <<exit, buffer, killed, pipe, readerVars, shutdownVars>>

\* Mutant: a result is sent twice.
Parse_puts_twice(p) ==
    /\ pc[p] = "parse"
    /\ \E r \in job[p] : LET result == [recipe |-> r, ok |-> TRUE]
                         IN buffer' = [buffer EXCEPT ![p] = @ \o <<result, result>>]
    /\ job' = [job EXCEPT ![p] = NoJob]
    /\ pc' = [pc EXCEPT ![p] = "loop"]
    /\ UNCHANGED <<todo, exit, killed, pipe, readerVars, shutdownVars>>

\* A recipe is parsed, or its exception is the result; put() never blocks.
Parse(p) ==
    /\ pc[p] = "parse"
    /\ \E r \in job[p], ok \in BOOLEAN :
          /\ ok \/ r \in Broken
          /\ buffer' = [buffer EXCEPT ![p] = Append(@, [recipe |-> r, ok |-> ok])]
    /\ job' = [job EXCEPT ![p] = NoJob]
    /\ pc' = [pc EXCEPT ![p] = "loop"]
    /\ UNCHANGED <<todo, exit, killed, pipe, readerVars, shutdownVars>>

\* No recipe left, or told to stop: the queue is closed.
Leave(p) ==
    /\ pc[p] = "loop" /\ (todo = {} \/ exit[p] \/ parser_quit)
    /\ pc' = [pc EXCEPT ![p] = "closing"]
    /\ UNCHANGED <<todo, job, exit, buffer, killed, pipe, readerVars, shutdownVars>>

\* The thread that feeds the pipe.
Feed(p) ==
    /\ pc[p] # "dead" /\ buffer[p] # <<>> /\ Len(pipe) < PipeSize
    /\ pipe' = Append(pipe, Head(buffer[p]))
    /\ buffer' = [buffer EXCEPT ![p] = Tail(@)]
    /\ UNCHANGED <<todo, pc, job, exit, killed, readerVars, shutdownVars>>

\* Mutant: cancel_join_thread(), what is buffered goes with the process.
End_without_join(p) ==
    /\ pc[p] = "closing"
    /\ pc' = [pc EXCEPT ![p] = "dead"]
    /\ buffer' = [buffer EXCEPT ![p] = <<>>]
    /\ UNCHANGED <<todo, job, exit, killed, pipe, readerVars, shutdownVars>>

\* join_thread() and the end of the process.
End(p) ==
    /\ pc[p] = "closing" /\ buffer[p] = <<>>
    /\ pc' = [pc EXCEPT ![p] = "dead"]
    /\ UNCHANGED <<todo, job, exit, buffer, killed, pipe, readerVars, shutdownVars>>

Kill(p) ==
    /\ pc[p] # "dead" /\ Cardinality(killed) < MaxKills
    /\ killed' = killed \cup {p}
    /\ pc' = [pc EXCEPT ![p] = "dead"]
    /\ UNCHANGED <<todo, job, exit, buffer, pipe, readerVars, shutdownVars>>

Alive == {p \in Parser : pc[p] # "dead"}

-----------------------------------------------------------------------------
(* The idle thread.                                                        *)

\* shutdown() sets parser_quit and goes on to empty the queue, once.
BeginShutdown(thread) ==
    IF haveshutdown THEN UNCHANGED shutdownVars
    ELSE /\ haveshutdown' = TRUE /\ parser_quit' = TRUE
         /\ phase' = "drain" /\ by' = thread

Finish(outcome) == reader' = outcome /\ BeginShutdown("idle")

\* One turn of parse_generator() up to its wait for a result.  The processes
\* that have ended are dropped; asking that of one that shutdown() has closed
\* raises.
Check ==
    /\ reader = "check"
    /\ \/ /\ processes = {} /\ empty
          /\ Finish(IF parsed >= Cardinality(Recipe) THEN "parsed" ELSE "incomplete")
          /\ UNCHANGED processes
       \/ /\ processes # {} \/ ~empty
          /\ phase = "done" /\ processes # {}
          /\ Finish("incomplete")
          /\ UNCHANGED processes
       \/ /\ processes # {} \/ ~empty
          /\ phase # "done" \/ processes = {}
          /\ processes' = processes \cap Alive
          /\ IF parsed >= Cardinality(Recipe) THEN Finish("parsed")
             ELSE reader' = "get" /\ UNCHANGED shutdownVars
    /\ UNCHANGED <<parserVars, pipe, empty, parsed, added>>

\* Mutant: a result does not reset "empty".
Get_stays_empty ==
    /\ reader = "get" /\ pipe # <<>>
    /\ pipe' = Tail(pipe)
    /\ IF Head(pipe).ok
       THEN /\ parsed' = parsed + 1
            /\ added' = added \cup {Head(pipe).recipe}
            /\ reader' = "check"
            /\ UNCHANGED shutdownVars
       ELSE Finish("error") /\ UNCHANGED <<parsed, added>>
    /\ UNCHANGED <<parserVars, processes, empty>>

\* A result: added to the caches, or the error that ends the parse.
Get ==
    /\ reader = "get" /\ pipe # <<>>
    /\ pipe' = Tail(pipe) /\ empty' = FALSE
    /\ IF Head(pipe).ok
       THEN /\ parsed' = parsed + 1
            /\ added' = added \cup {Head(pipe).recipe}
            /\ reader' = "check"
            /\ UNCHANGED shutdownVars
       ELSE Finish("error") /\ UNCHANGED <<parsed, added>>
    /\ UNCHANGED <<parserVars, processes>>

\* Nothing came for a quarter of a second.
GetTimeout ==
    /\ reader = "get" /\ pipe = <<>>
    /\ empty' = TRUE /\ reader' = "check"
    /\ UNCHANGED <<parserVars, pipe, processes, parsed, added, shutdownVars>>

\* After a stop by the main thread updateCache() calls parse_next() no more,
\* unless it was past looking at the state.
Refuse ==
    /\ reader = "check" /\ by = "main"
    /\ reader' = "stopped"
    /\ UNCHANGED <<parserVars, pipe, processes, empty, parsed, added, shutdownVars>>

-----------------------------------------------------------------------------
(* shutdown().                                                             *)

\* The main thread stops the parse, while the idle thread may be anywhere.
Stop ==
    /\ ~haveshutdown
    /\ BeginShutdown("main")
    /\ UNCHANGED <<parserVars, pipe, readerVars>>

\* read_results() throws away what comes ...
Drain ==
    /\ phase \in {"drain", "drain again"} /\ pipe # <<>>
    /\ pipe' = Tail(pipe)
    /\ UNCHANGED <<parserVars, readerVars, shutdownVars>>

\* ... until nothing does; a parser still at work may send later.
Drained ==
    /\ phase \in {"drain", "drain again"} /\ pipe = <<>>
    /\ phase' = IF phase = "drain" THEN "join" ELSE "join again"
    /\ UNCHANGED <<parserVars, pipe, readerVars, by, haveshutdown, parser_quit>>

\* Two seconds for each process; those that are left get SIGINT ...
Interrupt ==
    /\ phase = "join"
    /\ exit' = [p \in Parser |-> exit[p] \/ p \in Alive]
    /\ phase' = "drain again"
    /\ UNCHANGED <<todo, pc, job, buffer, killed, pipe, readerVars, by, haveshutdown,
                   parser_quit>>

\* Mutant: the processes that are left after SIGINT stay.
Terminate_nobody ==
    /\ phase = "join again"
    /\ phase' = "done"
    /\ UNCHANGED <<parserVars, pipe, readerVars, by, haveshutdown, parser_quit>>

\* ... and after another two SIGTERM.  All are joined and closed.
Terminate ==
    /\ phase = "join again"
    /\ pc' = [p \in Parser |-> "dead"]
    /\ phase' = "done"
    /\ UNCHANGED <<todo, job, exit, buffer, killed, pipe, readerVars, by, haveshutdown,
                   parser_quit>>

Work(p) == TakeJob(p) \/ Parse(p) \/ Leave(p) \/ End(p)
Reader == Check \/ Get \/ GetTimeout \/ Refuse
Shutdown == Drain \/ Drained \/ Interrupt \/ Terminate

Next ==
    \/ \E p \in Parser : Work(p) \/ Feed(p) \/ Kill(p)
    \/ Reader \/ Stop \/ Shutdown

\* Processes and threads go on; nobody has to be killed and no user has to stop.
Fairness ==
    /\ \A p \in Parser : WF_vars(Work(p)) /\ WF_vars(Feed(p))
    /\ WF_vars(Reader) /\ WF_vars(Shutdown)

Spec == Init /\ [][Next]_vars /\ Fairness

-----------------------------------------------------------------------------
(* Properties.                                                             *)

Results(q) == {q[i] : i \in DOMAIN q}

\* When the parse ends well every recipe has been added, once each, and no
\* result is left behind in the queue.
ParsedMeansAll ==
    reader = "parsed" =>
        /\ added = Recipe /\ parsed = Cardinality(Recipe)
        /\ pipe = <<>> /\ \A p \in Parser : buffer[p] = <<>>

\* "Not all recipes parsed, parser thread killed/died?": no parse is given up
\* as incomplete unless a parser was killed or the user stopped it: a result
\* sent just before its process ends is never missed.
NoFalseAlarm == reader = "incomplete" => killed # {} \/ by = "main"

\* A recipe not yet added is somewhere, unless a killed parser or the reader's
\* own shutdown has lost it.
RecipesSomewhere ==
    ~haveshutdown /\ killed = {} =>
        Recipe = todo \cup (UNION {job[p] : p \in Parser}) \cup added
                 \cup {r.recipe : r \in Results(pipe)
                                  \cup (UNION {Results(buffer[p]) : p \in Parser})}

\* At no point between the processes and the reader is a result lost.
NothingLost == TypeOK /\ RecipesSomewhere

\* Whatever happens the parse ends, though a parser is killed with a result ...
ParsingEnds == <>(reader \in Outcome)

\* ... and a shutdown, by whichever thread, leaves no process behind.
ShutdownEnds == haveshutdown ~> phase = "done" /\ Alive = {}

\* Neither the reader nor a thread that shuts the parser down is left waiting.
ParserEnds == ParsingEnds /\ ShutdownEnds
=============================================================================
