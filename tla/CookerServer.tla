---------------------------- MODULE CookerServer ----------------------------
(***************************************************************************)
(* The bitbake server: the main loop of lib/bb/server/process.py, which    *)
(* serves one client at a time, and the idle thread beside it, which runs  *)
(* the asynchronous commands of lib/bb/command.py on the cooker            *)
(* (lib/bb/cooker.py).                                                     *)
(*                                                                         *)
(* Two threads share the cooker's state, the command in progress and the   *)
(* table of idle functions; only the last two are under a lock.  main and  *)
(* idle say where each thread is: a label is a point where the other       *)
(* thread can get in between and be noticed.                               *)
(*                                                                         *)
(* Of the configuration, base and recipe files are taken not to change     *)
(* while the server runs.                                                  *)
(***************************************************************************)
EXTENDS Naturals, Sequences, FiniteSets

CONSTANTS
    Client,
    NoClient,
    Commands,       \* what clients send, of AsyncCommands and SyncCommands
    MaxRequests,    \* bound: requests of one client
    ServerTimeout   \* "none", "some" or "forever": BB_SERVER_TIMEOUT

NeedCache == {"buildTargets", "parseFiles"}     \* needcache = True
AsyncCommands == NeedCache \cup {"findConfigFiles", "resetCooker"}
SyncCommands == {"stateShutdown", "stateForceShutdown", "terminateServer"}

ASSUME ClientAssumption == IsFiniteSet(Client) /\ NoClient \notin Client
ASSUME CommandsAssumption == Commands \subseteq AsyncCommands \cup SyncCommands
ASSUME TimeoutAssumption ==
    MaxRequests \in Nat /\ ServerTimeout \in {"none", "some", "forever"}

VARIABLES
    \* The main thread.
    main, quit,
    controllersock, haveui, hadanyui,
    newconnections,         \* accepted, waiting for their turn
    ui,                     \* the client whose UI handler is registered
    \* Shared with the idle thread.
    idlefuns,               \* keys of _idlefuns
    currentAsyncCommand,    \* at most one [client, name]
    state,                  \* cooker.state
    parser, parsecache_valid,
    \* The idle thread.
    idle,
    function,               \* the idle function it is calling
    \* The clients.
    client, request, sent,
    backlog,                \* connections the server has not accepted yet
    awaiting,               \* how many commands of each client were accepted
                            \* and it has not been told of their end
    ended                   \* history: whose command the idle thread cleared

sessionVars == <<controllersock, haveui, hadanyui, newconnections, ui>>
mainVars == <<main, quit, sessionVars>>
commandVars == <<idlefuns, currentAsyncCommand>>
cookerVars == <<state, parser, parsecache_valid>>
idleVars == <<idle, function>>
clientVars == <<client, request, sent, backlog, awaiting, ended>>
vars == <<mainVars, commandVars, cookerVars, idleVars, clientVars>>

CommandRecord == [client: Client, name: AsyncCommands]
State == {"INITIAL", "PARSING", "RUNNING", "SHUTDOWN", "FORCE_SHUTDOWN"}
Stopping == {"SHUTDOWN", "FORCE_SHUTDOWN"}

\* Types: one client at most is served and one command in progress; the tables
\* hold the two functions the cooker ever registers.
TypeOK ==
    /\ main \in {"select", "set_async_cmd", "busy", "register", "disconnect",
                 "join", "gone"}
    /\ quit \in BOOLEAN /\ haveui \in BOOLEAN /\ hadanyui \in BOOLEAN
    /\ controllersock \in Client \cup {NoClient}
    /\ ui \in Client \cup {NoClient}
    /\ newconnections \in Seq(Client)
    /\ idlefuns \subseteq {"runAsyncCommand", "buildTargetsIdle"}
    /\ function \in {"none", "runAsyncCommand", "buildTargetsIdle"}
    /\ currentAsyncCommand \subseteq CommandRecord
    /\ Cardinality(currentAsyncCommand) <= 1
    /\ state \in State
    /\ parser \in {"none", "parsing", "halted", "done", "error"}
    /\ parsecache_valid \in BOOLEAN
    /\ idle \in {"loop", "updateCache", "parse", "parse_next",
                 "parsed", "command", "buildTargets", "return False",
                 "idleFinish", "finishcommand", "clear_async_cmd", "fire", "ended"}
    /\ client \in [Client -> {"off", "connecting", "up", "unanswered", "closed"}]
    /\ request \in [Client -> SUBSET Commands]
    /\ sent \in [Client -> 0..MaxRequests]
    /\ backlog \subseteq Client
    /\ awaiting \in [Client -> 0..MaxRequests]
    /\ ended \in Client \cup {NoClient}

Init ==
    /\ main = "select" /\ quit = FALSE
    /\ controllersock = NoClient /\ haveui = FALSE /\ hadanyui = FALSE
    /\ newconnections = <<>> /\ ui = NoClient
    /\ idlefuns = {} /\ currentAsyncCommand = {}
    /\ state = "INITIAL" /\ parser = "none" /\ parsecache_valid = FALSE
    /\ idle = "loop" /\ function = "none"
    /\ client = [c \in Client |-> "off"]
    /\ request = [c \in Client |-> {}]
    /\ sent = [c \in Client |-> 0]
    /\ backlog = {} /\ awaiting = [c \in Client |-> 0] /\ ended = NoClient

-----------------------------------------------------------------------------
(* Clients.  They wait for the reply to a request before the next one, and *)
(* may end at any time, in the middle of a request or of a build.          *)

Connect(c) ==
    /\ client[c] = "off" /\ main # "gone"
    /\ client' = [client EXCEPT ![c] = "connecting"]
    /\ backlog' = backlog \cup {c}
    /\ UNCHANGED <<mainVars, commandVars, cookerVars, idleVars, request, sent, awaiting,
                   ended>>

Request(c, command) ==
    /\ client[c] = "up" /\ request[c] = {} /\ sent[c] < MaxRequests
    /\ request' = [request EXCEPT ![c] = {command}]
    /\ sent' = [sent EXCEPT ![c] = @ + 1]
    /\ UNCHANGED <<mainVars, commandVars, cookerVars, idleVars, client, backlog,
                   awaiting, ended>>

Close(c) ==
    /\ client[c] \in {"connecting", "up", "unanswered"}
    /\ client' = [client EXCEPT ![c] = "closed"]
    /\ UNCHANGED <<mainVars, commandVars, cookerVars, idleVars, request, sent, backlog,
                   awaiting, ended>>

-----------------------------------------------------------------------------
(* The main thread: connections.                                           *)

\* sock.accept(): the first becomes the controller, the others wait.
Accept(c) ==
    /\ main = "select" /\ ~quit /\ c \in backlog
    /\ backlog' = backlog \ {c}
    /\ IF controllersock = NoClient
       THEN controllersock' = c /\ UNCHANGED newconnections
       ELSE newconnections' = Append(newconnections, c) /\ UNCHANGED controllersock
    /\ UNCHANGED <<main, quit, haveui, hadanyui, ui, commandVars, cookerVars, idleVars, client,
                   request, sent, awaiting, ended>>

\* recvfds() gives the three channels of the client; its handler is registered.
Start(c) ==
    /\ main = "select" /\ ~quit /\ controllersock = c /\ ~haveui
    /\ client[c] = "connecting"
    /\ haveui' = TRUE /\ hadanyui' = TRUE /\ ui' = c
    /\ client' = [client EXCEPT ![c] = "up"]
    /\ UNCHANGED <<main, quit, controllersock, newconnections, commandVars, cookerVars,
                   idleVars, request, sent, backlog, awaiting, ended>>

\* Mutant: no idle function is taken to mean that no command is in progress.
IdleCheck_functions_only == idlefuns = {}

\* Mutant: the command being cleared is taken to mean that its function is gone.
IdleCheck_command_only == currentAsyncCommand = {}

IdleCheck == idlefuns = {} /\ currentAsyncCommand = {}

\* Mutant: serves the next client though the idle thread is still at work.
NextClient_regardless(mustQuit) ==
    LET n == Len(newconnections)
    IN  \/ /\ n > 0
           /\ controllersock' = newconnections[n]
           /\ newconnections' = SubSeq(newconnections, 1, n - 1)
           /\ quit' = FALSE
        \/ /\ n = 0
           /\ controllersock' = NoClient
           /\ quit' = (mustQuit \/ (ServerTimeout = "none" /\ backlog = {}))
           /\ UNCHANGED newconnections

\* The end of disconnect_client(): the newest of those waiting is next, and
\* without any, and without a timeout, the server ends.
NextClient(mustQuit) ==
    LET n == Len(newconnections)
    IN  \/ /\ n > 0 /\ ~mustQuit
           /\ controllersock' = newconnections[n]
           /\ newconnections' = SubSeq(newconnections, 1, n - 1)
           /\ quit' = FALSE
        \/ /\ n = 0 \/ mustQuit
           /\ controllersock' = NoClient
           /\ quit' = \/ mustQuit
                      \/ ServerTimeout = "none" /\ backlog = {}
           /\ UNCHANGED newconnections

\* finishcommand() and the parser it shuts down.
FinishCommand ==
    /\ parser' = IF parser = "parsing" THEN "halted" ELSE parser
    /\ state' = "INITIAL"

\* End of file of the controller or of its command channel.  What it had sent
\* and was not read is lost.
Disconnect(c) ==
    /\ main = "select" /\ ~quit /\ controllersock = c /\ client[c] = "closed"
    /\ IF haveui
       THEN main' = "disconnect" /\ UNCHANGED <<quit, controllersock, newconnections>>
       ELSE NextClient(FALSE) /\ UNCHANGED main
    /\ UNCHANGED <<haveui, hadanyui, ui, commandVars, cookerVars, idleVars, clientVars>>

ClientComplete(mustQuit) ==
    /\ haveui' = FALSE /\ ui' = NoClient /\ main' = "select"
    /\ awaiting' = [awaiting EXCEPT ![controllersock] = 0]
    /\ request' = [request EXCEPT ![controllersock] = {}]
    /\ FinishCommand /\ parsecache_valid' = FALSE
    /\ NextClient(mustQuit)
    /\ UNCHANGED <<hadanyui, commandVars, idleVars, client, sent, backlog, ended>>

\* wait_for_idle(30) comes to an end ...
DisconnectWhenIdle ==
    main = "disconnect" /\ IdleCheck /\ ClientComplete(quit)

\* Mutant: waits for the idle thread without a limit.
DisconnectTimeout_never == main = "disconnect" /\ IdleCheck /\ ClientComplete(TRUE)

\* ... or not in time.
DisconnectTimeout ==
    main = "disconnect" /\ ~IdleCheck /\ ClientComplete(TRUE)

\* The server timeout, or maxuiwait for a server no UI ever came to.
Timeout ==
    /\ main = "select" /\ ~quit /\ ~haveui
    /\ \/ ServerTimeout = "some"
       \/ ServerTimeout = "none" /\ ~hadanyui
    /\ quit' = TRUE
    /\ UNCHANGED <<main, sessionVars, commandVars, cookerVars, idleVars, clientVars>>

-----------------------------------------------------------------------------
(* The main thread: requests, runCommand().                                *)

Reading(c) == main = "select" /\ ~quit /\ haveui /\ controllersock = c

Replied(c) == request' = [request EXCEPT ![c] = {}]

\* shutdown(): the state, and the parser if there is one.
ShutDown(s) ==
    /\ state' = s
    /\ parser' = IF parser = "parsing" THEN "halted" ELSE parser

\* stateShutdown and stateForceShutdown run at once, whatever the idle thread
\* is in the middle of.
Stop(c) ==
    /\ Reading(c)
    /\ \/ "stateShutdown" \in request[c] /\ ShutDown("SHUTDOWN")
       \/ "stateForceShutdown" \in request[c] /\ ShutDown("FORCE_SHUTDOWN")
    /\ Replied(c)
    /\ UNCHANGED <<mainVars, idlefuns, currentAsyncCommand, parsecache_valid, idleVars, client,
                   sent, backlog, awaiting, ended>>

TerminateServer(c) ==
    /\ Reading(c) /\ "terminateServer" \in request[c]
    /\ quit' = TRUE
    /\ Replied(c)
    /\ UNCHANGED <<main, sessionVars, commandVars, cookerVars, idleVars, client, sent, backlog,
                   awaiting, ended>>

\* An asynchronous command: the main thread waits for its turn in set_async_cmd().
Ask(c) ==
    /\ Reading(c) /\ request[c] \cap AsyncCommands # {}
    /\ main' = "set_async_cmd"
    /\ UNCHANGED <<quit, sessionVars, commandVars, cookerVars, idleVars, clientVars>>

SetAsyncCmd ==
    /\ main = "set_async_cmd" /\ IdleCheck
    /\ currentAsyncCommand' =
           {[client |-> controllersock, name |-> n] : n \in request[controllersock]}
    /\ main' = "register"
    /\ UNCHANGED <<quit, sessionVars, idlefuns, cookerVars, idleVars, clientVars>>

Register ==
    /\ main = "register"
    /\ idlefuns' = idlefuns \cup {"runAsyncCommand"}
    /\ awaiting' = [awaiting EXCEPT ![controllersock] = @ + 1]
    /\ Replied(controllersock)
    /\ main' = "select"
    /\ UNCHANGED <<quit, sessionVars, currentAsyncCommand, cookerVars, idleVars,
                   client, sent, backlog, ended>>

\* Thirty seconds have passed ...
SetAsyncCmdTimeout ==
    /\ main = "set_async_cmd" /\ ~IdleCheck
    /\ main' = "busy"
    /\ UNCHANGED <<quit, sessionVars, commandVars, cookerVars, idleVars, clientVars>>

\* ... and the reply names the command in progress.  If it ended meanwhile
\* get_async_cmd()[0] raises, which the main loop logs: no reply is sent.
Busy ==
    /\ main = "busy"
    /\ Replied(controllersock)
    /\ IF currentAsyncCommand # {} THEN UNCHANGED client
       ELSE client' = [client EXCEPT ![controllersock] =
                          IF @ = "up" THEN "unanswered" ELSE @]
    /\ main' = "select"
    /\ UNCHANGED <<quit, sessionVars, commandVars, cookerVars, idleVars, sent, backlog,
                   awaiting, ended>>

-----------------------------------------------------------------------------
(* The end of the main thread.                                             *)

Leave ==
    /\ main = "select" /\ quit
    /\ main' = "join"
    /\ UNCHANGED <<quit, sessionVars, commandVars, cookerVars, idleVars, clientVars>>

\* The idle thread is joined, the socket removed, the cooker shut down for good.
Exit ==
    /\ main = "join" /\ idle = "ended"
    /\ main' = "gone"
    /\ ShutDown("FORCE_SHUTDOWN")
    /\ UNCHANGED <<quit, sessionVars, commandVars, parsecache_valid, idleVars, clientVars>>

-----------------------------------------------------------------------------
(* The idle thread.                                                        *)

IdleEnd ==
    /\ idle = "loop" /\ quit
    /\ idle' = "ended"
    /\ UNCHANGED <<mainVars, commandVars, cookerVars, function, clientVars>>

\* The table is copied and its functions called in turn; it holds one at most
\* whenever it is copied (IdleFunctionHasCommand).
Calling(f) == idle = "loop" /\ ~quit /\ f \in idlefuns /\ function' = f
Called == idle' = "loop" /\ function' = "none"

\* An idle function returns idleFinish(): CommandFailed if there is a message.
Fails == idle' = "idleFinish"

NeedsCache == \E r \in currentAsyncCommand : r.name \in NeedCache

RunAsyncCommand ==
    /\ Calling("runAsyncCommand")
    /\ \/ /\ state \in Stopping \/ currentAsyncCommand = {}
          /\ Fails
          /\ parser' = IF parser = "parsing" /\ state \in Stopping
                       THEN "halted" ELSE parser
       \/ /\ state \notin Stopping /\ NeedsCache /\ state # "RUNNING"
          /\ idle' = "updateCache"
          /\ UNCHANGED parser
       \/ /\ state \notin Stopping /\ currentAsyncCommand # {}
          /\ NeedsCache => state = "RUNNING"
          /\ idle' = "command"
          /\ UNCHANGED parser
    /\ UNCHANGED <<mainVars, commandVars, state, parsecache_valid, clientVars>>

\* updateCache() looks at the state again, then reads the configuration and
\* lists the recipes, which takes a while, ...
UpdateCache ==
    /\ idle = "updateCache"
    /\ IF state \in Stopping
       THEN Fails /\ parser' = IF parser = "parsing" THEN "halted" ELSE parser
       ELSE idle' = "parse" /\ UNCHANGED parser
    /\ UNCHANGED <<mainVars, commandVars, state, parsecache_valid, function, clientVars>>

\* ... and starts a parser unless there is one; the state is assigned whatever
\* it has become.
StartParsing ==
    /\ idle = "parse"
    /\ IF state # "PARSING" /\ ~parsecache_valid
       THEN parser' = "parsing" /\ parsecache_valid' = TRUE
       ELSE UNCHANGED <<parser, parsecache_valid>>
    /\ state' = "PARSING"
    /\ idle' = "parse_next"
    /\ UNCHANGED <<mainVars, commandVars, function, clientVars>>

\* parse_next(): one more recipe; runAsyncCommand will be called again.
ParseNext ==
    /\ idle = "parse_next" /\ parser = "parsing"
    /\ Called
    /\ UNCHANGED <<mainVars, commandVars, cookerVars, clientVars>>

\* parse_next() returns False: all were parsed, or there was an error, which
\* a parser shut down by the other thread runs into as well.
ParseEnds ==
    /\ idle = "parse_next"
    /\ \/ /\ parser \in {"parsing", "halted", "done"}
          /\ parser' = "done"
          /\ idle' = "parsed"
       \/ /\ parser \in {"parsing", "halted", "error"}
          /\ parser' = "error"
          /\ Fails
    /\ UNCHANGED <<mainVars, commandVars, state, parsecache_valid, function, clientVars>>

\* The parser has saved its caches; again the state is assigned.
Parsed ==
    /\ idle = "parsed"
    /\ state' = "RUNNING"
    /\ Called
    /\ UNCHANGED <<mainVars, commandVars, parser, parsecache_valid, clientVars>>

\* The command itself; any may raise, which idleFinish reports.
RunCommand ==
    /\ idle = "command"
    /\ \E r \in currentAsyncCommand :
          \/ Fails /\ UNCHANGED cookerVars
          \/ /\ r.name = "buildTargets"
             /\ idle' = "buildTargets" /\ UNCHANGED cookerVars
          \/ /\ r.name = "resetCooker"
             /\ FinishCommand /\ parsecache_valid' = FALSE
             /\ idle' = "finishcommand"
          \/ /\ r.name \in {"parseFiles", "findConfigFiles"}
             /\ idle' = "finishcommand"
             /\ UNCHANGED cookerVars
    /\ UNCHANGED <<mainVars, commandVars, function, clientVars>>

\* buildTargets() leaves the build to an idle function of its own.
BuildTargets ==
    /\ idle = "buildTargets"
    /\ idlefuns' = idlefuns \cup {"buildTargetsIdle"}
    /\ idle' = "return False"
    /\ UNCHANGED <<mainVars, currentAsyncCommand, cookerVars, function, clientVars>>

\* The run queue has nothing left to do: by itself, or because a stop made
\* finish_runqueue() end it.
BuildEnds ==
    /\ Calling("buildTargetsIdle")
    /\ idle' = "idleFinish"
    /\ UNCHANGED <<mainVars, commandVars, cookerVars, clientVars>>

\* An exception out of an idle function ends the server.
BuildRaises ==
    /\ idle = "loop" /\ ~quit /\ "buildTargetsIdle" \in idlefuns
    /\ idlefuns' = idlefuns \ {"buildTargetsIdle"}
    /\ quit' = TRUE
    /\ UNCHANGED <<main, sessionVars, currentAsyncCommand, cookerVars, idleVars,
                   clientVars>>

RemoveIdleFunc ==
    /\ idle \in {"idleFinish", "return False"}
    /\ idlefuns' = idlefuns \ {function}
    /\ IF idle = "idleFinish"
       THEN idle' = "finishcommand" /\ function' = "none"
       ELSE Called
    /\ UNCHANGED <<mainVars, currentAsyncCommand, cookerVars, clientVars>>

\* finishAsyncCommand() in three steps.
FinishAsyncCommand ==
    /\ idle = "finishcommand"
    /\ FinishCommand
    /\ idle' = "clear_async_cmd"
    /\ UNCHANGED <<mainVars, commandVars, parsecache_valid, function, clientVars>>

ClearAsyncCmd ==
    /\ idle = "clear_async_cmd"
    /\ currentAsyncCommand' = {}
    /\ \E c \in Client \cup {NoClient} :
          /\ IF currentAsyncCommand = {} THEN c = NoClient
             ELSE \E r \in currentAsyncCommand : r.client = c
          /\ ended' = c
    /\ idle' = "fire"
    /\ UNCHANGED <<mainVars, idlefuns, cookerVars, function, client, request, sent,
                   backlog, awaiting>>

\* CommandCompleted or CommandFailed goes to the handler registered now, or to
\* the first to be registered: another client's, if the one whose command ended
\* has gone since clear_async_cmd().
FireCompletion ==
    /\ idle = "fire"
    /\ awaiting' = [c \in Client |->
                       IF c = ui /\ c = ended /\ awaiting[c] > 0
                       THEN awaiting[c] - 1 ELSE awaiting[c]]
    /\ ended' = NoClient
    /\ IF function # "none" THEN idle' = "return False" /\ UNCHANGED function
       ELSE Called
    /\ UNCHANGED <<mainVars, commandVars, cookerVars, client, request, sent, backlog>>

Idle ==
    \/ IdleEnd \/ RunAsyncCommand \/ UpdateCache \/ StartParsing
    \/ ParseNext \/ ParseEnds \/ Parsed \/ RunCommand \/ BuildTargets
    \/ BuildEnds \/ BuildRaises \/ RemoveIdleFunc
    \/ FinishAsyncCommand \/ ClearAsyncCmd \/ FireCompletion

\* What the controller sends; what the main thread does besides.
Serve(c) ==
    Start(c) \/ Disconnect(c) \/ Stop(c) \/ TerminateServer(c) \/ Ask(c)

MainStep ==
    \/ DisconnectWhenIdle \/ DisconnectTimeout
    \/ SetAsyncCmd \/ SetAsyncCmdTimeout \/ Busy \/ Register
    \/ Leave \/ Exit

Next ==
    \/ \E c \in Client : Connect(c) \/ Close(c) \/ Accept(c) \/ Serve(c)
    \/ \E c \in Client, command \in Commands : Request(c, command)
    \/ Timeout \/ MainStep
    \/ Idle

\* Every turn of the main loop looks at every connection, the waits end after
\* thirty seconds and clients without an answer after sixty; the idle thread
\* goes on, and parsing and builds come to an end.  Clients do as they please.
Fairness ==
    /\ SF_vars(\E c \in Client : Accept(c))
    /\ SF_vars(\E c \in Client : Serve(c))
    /\ WF_vars(MainStep) /\ WF_vars(Timeout)
    /\ WF_vars(\E c \in Client : client[c] = "unanswered" /\ Close(c))
    /\ WF_vars(Idle) /\ SF_vars(ParseEnds) /\ SF_vars(BuildEnds)

Spec == Init /\ [][Next]_vars /\ Fairness

-----------------------------------------------------------------------------
(* Properties.                                                             *)

\* One command at a time: whenever the idle thread looks, there is one function
\* to call at most, and it belongs to the command in progress.
IdleFunctionHasCommand ==
    idle = "loop" =>
        /\ Cardinality(idlefuns) <= 1
        /\ idlefuns # {} => currentAsyncCommand # {}
        /\ "buildTargetsIdle" \in idlefuns =>
               \E r \in currentAsyncCommand : r.name = "buildTargets"

\* The cooker leaves PARSING and RUNNING with the command that took it there,
\* whichever thread resets it: what comes next may set features (setFeatures
\* refuses in those states) and starts from a state of its own.
ParsesForACommand ==
    state \in {"PARSING", "RUNNING"} => currentAsyncCommand # {}

\* One command at a time, and nothing at work without one.
OneCommand == TypeOK /\ IdleFunctionHasCommand /\ ParsesForACommand

\* A client that is being served finds nothing of an earlier one's: no command
\* or idle function, no parse, no stop request.  Only the event that the
\* last command has ended may still be on its way.
FreshClient ==
    [][ui' \notin {ui, NoClient} =>
          /\ state = "INITIAL" /\ ~parsecache_valid /\ parser # "parsing"
          /\ currentAsyncCommand = {} /\ idlefuns = {}]_vars

\* Every command that was accepted is reported as ended to its own client, which
\* may have more than one to be told of, unless one of the two has gone.
CommandsAnswered ==
    \A c \in Client :
        awaiting[c] > 0 ~> awaiting[c] = 0 \/ client[c] = "closed" \/ main = "gone"

\* A server that has decided to quit does: no wait for the idle thread, for a
\* parse or for a build holds it up for ever.
QuitEnds == quit ~> main = "gone"

\* A server without a timeout ends when its clients have.
EndsUnattended ==
    ServerTimeout = "none" /\ (\A c \in Client : client[c] = "closed") ~> main = "gone"

\* No server stays that has no reason to.
ServerEnds == QuitEnds /\ EndsUnattended
=============================================================================
