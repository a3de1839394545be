------------------------- MODULE CookerServerProofs -------------------------
(***************************************************************************)
(* One asynchronous command at a time, and a clean cooker for each client, *)
(* for any clients, commands and timeout: the two threads of the server    *)
(* interleave freely, and clients come, go and send as they please.        *)
(***************************************************************************)
EXTENDS CookerServer, FiniteSetTheorems, TLAPS

Building == \E r \in currentAsyncCommand : r.name = "buildTargets"

\* A client has one request at a time before the server, and each command it has
\* to be told the end of was one of those it sent.
OneRequest ==
    \A c \in Client :
        /\ request[c] = {} \/ \E k \in Commands : request[c] = {k}
        /\ awaiting[c] <= sent[c]
        /\ request[c] # {} => awaiting[c] < sent[c]

\* The main thread sees to a client while it has one, and to its command while it
\* is asking for its turn.
MainInv ==
    /\ haveui => controllersock \in Client
    /\ ~haveui => main \in {"select", "join", "gone"}
    /\ main \in {"join", "gone"} => quit
    /\ main \in {"set_async_cmd", "busy", "register"}
           => \E k \in AsyncCommands : request[controllersock] = {k}
    /\ main = "register" => /\ currentAsyncCommand # {} /\ idlefuns = {}
                            /\ idle \in {"loop", "fire", "ended"}

\* Where the idle thread is inside a function, and has not yet cleared its command.
Inside == {"updateCache", "parse", "parse_next", "parsed", "command", "buildTargets"}

Run == "runAsyncCommand"
Build == "buildTargetsIdle"

\* The functions to call, the one that is being called, and the command they are
\* for, wherever the idle thread is.
IdleInv ==
    /\ \/ currentAsyncCommand = {}
       \/ \E r \in CommandRecord : currentAsyncCommand = {r}
    /\ idle \in {"loop", "ended"} =>
           /\ function = "none"
           /\ \/ idlefuns = {}
              \/ idlefuns = {Run} /\ currentAsyncCommand # {}
              \/ idlefuns = {Build} /\ Building
    /\ idle \in Inside =>
           function = Run /\ idlefuns = {Run} /\ currentAsyncCommand # {}
    /\ idle = "buildTargets" => Building
    /\ idle = "return False" =>
           /\ function = Run
           /\ \/ idlefuns = {Run} /\ currentAsyncCommand = {}
              \/ idlefuns = {Run, Build} /\ Building
    /\ idle = "idleFinish" =>
           /\ function \in {Run, Build}
           /\ idlefuns = {function} /\ currentAsyncCommand # {}
    /\ idle \in {"finishcommand", "clear_async_cmd"} =>
           /\ currentAsyncCommand # {}
           /\ \/ function = "none" /\ idlefuns = {}
              \/ function = Run /\ idlefuns = {Run}
    /\ idle = "fire" =>
           \/ function = "none" /\ idlefuns = {}
           \/ function = "none" /\ idlefuns = {Run} /\ currentAsyncCommand # {}
           \/ function = Run /\ idlefuns = {Run} /\ currentAsyncCommand = {}

\* The states of a parse belong to a command, whose clearing comes after them.
StateInv ==
    /\ ParsesForACommand
    /\ idle = "clear_async_cmd" => state \notin {"PARSING", "RUNNING"}

\* Nothing is left of the last client when there is none, or the server is to end.
Fresh ==
    ~haveui /\ ~quit =>
        /\ state = "INITIAL" /\ ~parsecache_valid /\ parser # "parsing"
        /\ currentAsyncCommand = {} /\ idlefuns = {}

\* The inductive invariant.
IInv == TypeOK /\ OneRequest /\ MainInv /\ IdleInv /\ StateInv /\ Fresh

(***************************************************************************)
(* Facts the provers need spelt out.                                       *)
(***************************************************************************)

LEMMA AtMostOne ==
    ASSUME NEW S, S = {} \/ \E x : S = {x}
    PROVE  Cardinality(S) <= 1
<1>1. CASE S = {}
  BY <1>1, FS_EmptySet
<1>2. CASE \E x : S = {x}
  BY <1>2, FS_Singleton
<1> QED
  BY <1>1, <1>2

\* The name of what a client may ask for is of one kind only.
LEMMA Kinds ==
    /\ Commands \subseteq AsyncCommands \cup SyncCommands
    /\ NeedCache \subseteq AsyncCommands
    /\ \A n \in AsyncCommands : n \notin SyncCommands
    /\ AsyncCommands = {"buildTargets", "parseFiles", "findConfigFiles", "resetCooker"}
    /\ MaxRequests \in Nat /\ NoClient \notin Client
  BY CommandsAssumption, TimeoutAssumption, ClientAssumption
  DEF AsyncCommands, SyncCommands, NeedCache

\* The types of what the connections are about.
SessionTypes ==
    /\ main \in {"select", "set_async_cmd", "busy", "register", "disconnect",
                 "join", "gone"}
    /\ quit \in BOOLEAN /\ haveui \in BOOLEAN /\ hadanyui \in BOOLEAN
    /\ controllersock \in Client \cup {NoClient}
    /\ ui \in Client \cup {NoClient}
    /\ newconnections \in Seq(Client)
    /\ client \in [Client -> {"off", "connecting", "up", "unanswered", "closed"}]
    /\ request \in [Client -> SUBSET Commands]
    /\ sent \in [Client -> 0..MaxRequests]
    /\ backlog \subseteq Client
    /\ awaiting \in [Client -> 0..MaxRequests]
    /\ ended \in Client \cup {NoClient}

\* The types of what the idle thread is about.
CookerTypes ==
    /\ idlefuns \subseteq {"runAsyncCommand", "buildTargetsIdle"}
    /\ function \in {"none", "runAsyncCommand", "buildTargetsIdle"}
    /\ currentAsyncCommand \subseteq CommandRecord
    /\ state \in State
    /\ parser \in {"none", "parsing", "halted", "done", "error"}
    /\ parsecache_valid \in BOOLEAN
    /\ idle \in {"loop", "updateCache", "parse", "parse_next",
                 "parsed", "command", "buildTargets", "return False",
                 "idleFinish", "finishcommand", "clear_async_cmd", "fire", "ended"}

LEMMA Types == IdleInv => (TypeOK <=> SessionTypes /\ CookerTypes)
<1> SUFFICES ASSUME IdleInv PROVE TypeOK <=> SessionTypes /\ CookerTypes
  OBVIOUS
<1>1. Cardinality(currentAsyncCommand) <= 1
  BY AtMostOne DEF IdleInv
<1> QED
  BY <1>1 DEF TypeOK, SessionTypes, CookerTypes

\* As IInv, in parts that a step leaves alone or not.
Sessions == SessionTypes /\ OneRequest /\ MainInv
Cooker == CookerTypes /\ IdleInv /\ StateInv

LEMMA Parts == IInv <=> Sessions /\ Cooker /\ Fresh
  BY Types DEF IInv, Sessions, Cooker

LEMMA PartsNext == (Sessions /\ Cooker /\ Fresh)' => IInv'
  BY Parts, PTL

\* Each variable of a tuple is unchanged if the tuple is.
LEMMA Flat ==
    /\ UNCHANGED sessionVars => /\ controllersock' = controllersock
                                /\ haveui' = haveui /\ hadanyui' = hadanyui
                                /\ newconnections' = newconnections /\ ui' = ui
    /\ UNCHANGED mainVars => main' = main /\ quit' = quit /\ UNCHANGED sessionVars
    /\ UNCHANGED commandVars => /\ idlefuns' = idlefuns
                                /\ currentAsyncCommand' = currentAsyncCommand
    /\ UNCHANGED cookerVars => /\ state' = state /\ parser' = parser
                               /\ parsecache_valid' = parsecache_valid
    /\ UNCHANGED idleVars => idle' = idle /\ function' = function
    /\ UNCHANGED clientVars => /\ client' = client /\ request' = request
                               /\ sent' = sent /\ backlog' = backlog
                               /\ awaiting' = awaiting /\ ended' = ended
  BY DEF sessionVars, mainVars, commandVars, cookerVars, idleVars, clientVars

LEMMA CookerSame ==
    ASSUME Cooker, UNCHANGED <<commandVars, cookerVars, idleVars>>
    PROVE  Cooker'
  BY Flat
  DEF Cooker, CookerTypes, IdleInv, StateInv, ParsesForACommand, Building
LEMMA InitInv == Init => IInv
<1> SUFFICES ASSUME Init PROVE IInv
  OBVIOUS
<1>1. Cooker
  BY DEF Init, Cooker, CookerTypes, IdleInv, StateInv, ParsesForACommand, State,
         Inside
<1>2. Sessions
  <2>1. SessionTypes
    <3>1. main \in {"select", "set_async_cmd", "busy", "register", "disconnect",
                 "join", "gone"}
      BY DEF Init
    <3>2. quit \in BOOLEAN /\ haveui \in BOOLEAN /\ hadanyui \in BOOLEAN
      BY DEF Init
    <3>3. newconnections \in Seq(Client)
      BY DEF Init
    <3>4. 0 \in 0..MaxRequests
      BY Kinds
    <3> QED
      BY <3>1, <3>2, <3>3, <3>4 DEF Init, SessionTypes
  <2>2. OneRequest
    BY DEF Init, OneRequest
  <2>3. MainInv
    BY DEF Init, MainInv
  <2> QED
    BY <2>1, <2>2, <2>3 DEF Sessions
<1>3. Fresh
  BY DEF Init, Fresh
<1> QED
  BY <1>1, <1>2, <1>3, Parts

(***************************************************************************)
(* Clients and connections.                                                *)
(***************************************************************************)

\* What a client does by itself.
LEMMA ClientSteps ==
    ASSUME IInv, NEW c \in Client,
           \/ Connect(c) \/ Close(c)
           \/ \E command \in Commands : Request(c, command)
    PROVE  IInv'
<1>1. Sessions /\ Cooker /\ Fresh
  BY Parts
<1>2. /\ UNCHANGED <<mainVars, commandVars, cookerVars, idleVars>>
      /\ awaiting' = awaiting /\ ended' = ended
  BY DEF Connect, Close, Request
<1>3. Cooker'
  BY <1>1, <1>2, CookerSame
<1>4. Fresh'
  BY <1>1, <1>2, Flat DEF Fresh
<1>5. /\ client' \in [Client -> {"off", "connecting", "up", "unanswered", "closed"}]
      /\ request' \in [Client -> SUBSET Commands]
      /\ sent' \in [Client -> 0..MaxRequests]
      /\ backlog' \subseteq Client
  <2>1. CASE Connect(c)
    BY <1>1, <2>1 DEF Sessions, SessionTypes, Connect
  <2>2. CASE Close(c)
    BY <1>1, <2>2 DEF Sessions, SessionTypes, Close
  <2>3. CASE \E command \in Commands : Request(c, command)
    <3>1. PICK command \in Commands : Request(c, command)
      BY <2>3
    <3>2. sent[c] + 1 \in 0..MaxRequests
      BY <1>1, <3>1, Kinds DEF Sessions, SessionTypes, Request
    <3> QED
      BY <1>1, <3>1, <3>2 DEF Sessions, SessionTypes, Request
  <2> QED
    BY <2>1, <2>2, <2>3
<1>6. SessionTypes'
  BY <1>1, <1>2, <1>5, Flat DEF Sessions, SessionTypes
<1>7. CASE UNCHANGED <<request, sent>>
  BY <1>1, <1>2, <1>3, <1>4, <1>6, <1>7, Flat, PartsNext
  DEF Sessions, OneRequest, MainInv
<1>8. CASE \E command \in Commands : Request(c, command)
  <2>1. PICK command \in Commands : Request(c, command)
    BY <1>8
  <2>2. /\ request[c] = {} /\ request' = [request EXCEPT ![c] = {command}]
        /\ sent' = [sent EXCEPT ![c] = sent[c] + 1]
        /\ \A d \in Client : sent[d] \in Nat /\ awaiting[d] \in Nat
    BY <1>1, <2>1, Kinds DEF Request, Sessions, SessionTypes
  <2>3. \A d \in Client : d # c => request'[d] = request[d] /\ sent'[d] = sent[d]
    BY <1>1, <2>2 DEF Sessions, SessionTypes
  <2>4. request'[c] = {command} /\ sent'[c] = sent[c] + 1
    BY <1>1, <2>2 DEF Sessions, SessionTypes
  <2>5. OneRequest'
    <3> SUFFICES ASSUME NEW d \in Client
                 PROVE  /\ request'[d] = {} \/ \E k \in Commands : request'[d] = {k}
                        /\ awaiting[d] <= sent'[d]
                        /\ request'[d] # {} => awaiting[d] < sent'[d]
      BY <1>2 DEF OneRequest
    <3>1. /\ request[d] = {} \/ \E k \in Commands : request[d] = {k}
          /\ awaiting[d] <= sent[d]
          /\ request[d] # {} => awaiting[d] < sent[d]
      BY <1>1 DEF Sessions, OneRequest
    <3>2. CASE d = c
      BY <2>2, <2>4, <3>1, <3>2
    <3>3. CASE d # c
      BY <2>3, <3>1, <3>3
    <3> QED
      BY <3>2, <3>3
  <2>6. MainInv'
    <3>1. CASE main \in {"set_async_cmd", "busy", "register"}
      <4>1. controllersock \in Client /\ controllersock # c
        BY <1>1, <2>2, <3>1 DEF Sessions, MainInv
      <4>2. request'[controllersock] = request[controllersock]
        BY <2>3, <4>1
      <4> QED
        BY <1>1, <1>2, <4>2, Flat DEF Sessions, MainInv
    <3>2. CASE main \notin {"set_async_cmd", "busy", "register"}
      BY <1>1, <1>2, <3>2, Flat DEF Sessions, MainInv
    <3> QED
      BY <3>1, <3>2
  <2> QED
    BY <1>3, <1>4, <1>6, <2>5, <2>6, PartsNext DEF Sessions
<1> QED
  BY <1>7, <1>8 DEF Connect, Close

(***************************************************************************)
(* The main thread.                                                        *)
(***************************************************************************)

LEMMA NextClientType ==
    ASSUME SessionTypes, NEW mustQuit \in BOOLEAN, NextClient(mustQuit)
    PROVE  /\ controllersock' \in Client \cup {NoClient}
           /\ newconnections' \in Seq(Client)
           /\ quit' \in BOOLEAN
           /\ mustQuit => quit'
<1> DEFINE n == Len(newconnections)
<1>1. newconnections \in Seq(Client) /\ n \in Nat
  BY DEF SessionTypes
<1>2. CASE /\ n > 0 /\ ~mustQuit
           /\ controllersock' = newconnections[n]
           /\ newconnections' = SubSeq(newconnections, 1, n - 1)
           /\ quit' = FALSE
  <2>1. newconnections[n] \in Client
    BY <1>1, <1>2
  <2>2. SubSeq(newconnections, 1, n - 1) \in Seq(Client)
    BY <1>1, <1>2
  <2> QED
    BY <1>2, <2>1, <2>2
<1>3. CASE /\ n = 0 \/ mustQuit
           /\ controllersock' = NoClient
           /\ quit' = (mustQuit \/ (ServerTimeout = "none" /\ backlog = {}))
           /\ UNCHANGED newconnections
  BY <1>1, <1>3
<1> QED
  BY <1>2, <1>3 DEF NextClient

\* A reply, and whatever else is not about requests.
LEMMA ReplyKeeps ==
    ASSUME Sessions, NEW c \in Client, Replied(c),
           sent' = sent,
           \/ awaiting' = awaiting
           \/ awaiting' = [awaiting EXCEPT ![c] = 0]
           \/ awaiting' = [awaiting EXCEPT ![c] = awaiting[c] + 1] /\ request[c] # {}
    PROVE  /\ OneRequest'
           /\ request' \in [Client -> SUBSET Commands]
           /\ awaiting' \in [Client -> 0..MaxRequests]
<1>1. /\ request \in [Client -> SUBSET Commands]
      /\ sent \in [Client -> 0..MaxRequests] /\ awaiting \in [Client -> 0..MaxRequests]
      /\ request' = [request EXCEPT ![c] = {}]
  BY DEF Sessions, SessionTypes, Replied
<1>2. request' \in [Client -> SUBSET Commands]
  BY <1>1
<1>3. \A d \in Client : /\ sent[d] \in Nat /\ sent[d] <= MaxRequests
                        /\ awaiting[d] \in Nat /\ awaiting[d] <= MaxRequests
  BY <1>1, Kinds
<1>4. ASSUME NEW d \in Client
      PROVE  /\ awaiting'[d] \in Nat /\ awaiting'[d] <= sent[d]
             /\ request'[d] # {} => awaiting'[d] < sent[d]
             /\ request'[d] = {} \/ \E k \in Commands : request'[d] = {k}
  <2>1. /\ awaiting[d] <= sent[d] /\ (request[d] # {} => awaiting[d] < sent[d])
        /\ request[d] = {} \/ \E k \in Commands : request[d] = {k}
    BY DEF Sessions, OneRequest
  <2>2. CASE d = c
    <3>1. request'[d] = {}
      BY <1>1, <2>2
    <3>2. \/ awaiting'[d] = awaiting[d] \/ awaiting'[d] = 0
          \/ awaiting'[d] = awaiting[d] + 1 /\ request[d] # {}
      BY <1>1, <2>2
    <3> QED
      BY <1>3, <2>1, <3>1, <3>2
  <2>3. CASE d # c
    <3>1. request'[d] = request[d] /\ awaiting'[d] = awaiting[d]
      BY <1>1, <2>3
    <3> QED
      BY <1>3, <2>1, <3>1
  <2> QED
    BY <2>2, <2>3
<1>5. OneRequest'
  BY <1>4 DEF OneRequest
<1>6. \A d \in Client : awaiting'[d] \in 0..MaxRequests
  <2> SUFFICES ASSUME NEW d \in Client PROVE awaiting'[d] \in 0..MaxRequests
    OBVIOUS
  <2>1. awaiting'[d] \in Nat /\ awaiting'[d] <= sent[d] /\ sent[d] <= MaxRequests
        /\ sent[d] \in Nat
    BY <1>3, <1>4
  <2> QED
    BY <2>1, Kinds
<1>7. awaiting' = [d \in Client |-> awaiting'[d]]
  BY <1>1
<1> QED
  BY <1>2, <1>5, <1>6, <1>7

\* Connections come, and the first is served.
LEMMA AcceptInv ==
    ASSUME IInv, NEW c \in Client, Accept(c)
    PROVE  IInv'
<1>1. Sessions /\ Cooker /\ Fresh
  BY Parts
<1>2. /\ UNCHANGED <<commandVars, cookerVars, idleVars>>
      /\ main = "select" /\ main' = main /\ quit' = quit /\ haveui' = haveui
      /\ hadanyui' = hadanyui /\ ui' = ui /\ client' = client /\ request' = request
      /\ sent' = sent /\ awaiting' = awaiting /\ ended' = ended
      /\ backlog' \subseteq backlog
      /\ \/ controllersock = NoClient /\ controllersock' = c
            /\ newconnections' = newconnections
         \/ controllersock' = controllersock /\ newconnections' = Append(newconnections, c)
  BY DEF Accept
<1>3. newconnections' \in Seq(Client)
  <2>1. newconnections \in Seq(Client)
    BY <1>1 DEF Sessions, SessionTypes
  <2>2. Append(newconnections, c) \in Seq(Client)
    BY <2>1
  <2> QED
    BY <1>2, <2>1, <2>2
<1>4. SessionTypes'
  BY <1>1, <1>2, <1>3 DEF Sessions, SessionTypes
<1>5. OneRequest' /\ MainInv'
  BY <1>1, <1>2, Flat DEF Sessions, OneRequest, MainInv
<1>6. Cooker' /\ Fresh'
  BY <1>1, <1>2, CookerSame, Flat DEF Fresh
<1> QED
  BY <1>4, <1>5, <1>6, PartsNext DEF Sessions

\* Whoever is served now finds nothing of the last client.
LEMMA StartInv ==
    ASSUME IInv, NEW c \in Client, Start(c)
    PROVE  /\ IInv'
           /\ state = "INITIAL" /\ ~parsecache_valid /\ parser # "parsing"
           /\ currentAsyncCommand = {} /\ idlefuns = {}
<1>1. Sessions /\ Cooker /\ Fresh
  BY Parts
<1>2. /\ UNCHANGED <<commandVars, cookerVars, idleVars>>
      /\ main = "select" /\ main' = main /\ quit' = quit /\ ~quit /\ ~haveui
      /\ controllersock = c
      /\ controllersock' = controllersock /\ newconnections' = newconnections
      /\ request' = request /\ sent' = sent /\ awaiting' = awaiting /\ ended' = ended
      /\ backlog' = backlog
      /\ haveui' = TRUE /\ hadanyui' = TRUE /\ ui' = c
      /\ client' = [client EXCEPT ![c] = "up"]
  BY DEF Start
<1>3. SessionTypes'
  <2>1. haveui' \in BOOLEAN /\ hadanyui' \in BOOLEAN
    BY <1>2
  <2> QED
    BY <1>1, <1>2, <2>1 DEF Sessions, SessionTypes
<1>4. OneRequest' /\ MainInv'
  BY <1>1, <1>2, Flat DEF Sessions, OneRequest, MainInv
<1>5. Cooker' /\ Fresh'
  BY <1>1, <1>2, CookerSame DEF Fresh
<1> QED
  BY <1>1, <1>2, <1>3, <1>4, <1>5, PartsNext DEF Sessions, Fresh

LEMMA DisconnectInv ==
    ASSUME IInv, NEW c \in Client, Disconnect(c)
    PROVE  IInv'
<1>1. Sessions /\ Cooker /\ Fresh
  BY Parts
<1>2. /\ UNCHANGED <<commandVars, cookerVars, idleVars, clientVars>>
      /\ haveui' = haveui /\ hadanyui' = hadanyui /\ ui' = ui
      /\ main = "select" /\ ~quit
  BY DEF Disconnect
<1>3. /\ controllersock' \in Client \cup {NoClient} /\ newconnections' \in Seq(Client)
      /\ quit' \in BOOLEAN
      /\ haveui => controllersock' = controllersock /\ quit' = quit
      /\ main' = IF haveui THEN "disconnect" ELSE main
  <2>1. CASE haveui
    BY <1>1, <2>1 DEF Disconnect, Sessions, SessionTypes
  <2>2. CASE ~haveui
    BY <1>1, <2>2, NextClientType DEF Disconnect, Sessions
  <2> QED
    BY <2>1, <2>2
<1>4. SessionTypes'
  BY <1>1, <1>2, <1>3, Flat DEF Sessions, SessionTypes
<1>5. OneRequest' /\ MainInv'
  BY <1>1, <1>2, <1>3, Flat DEF Sessions, OneRequest, MainInv
<1>6. Cooker' /\ Fresh'
  BY <1>1, <1>2, CookerSame, Flat DEF Fresh
<1> QED
  BY <1>4, <1>5, <1>6, PartsNext DEF Sessions

\* finishcommand() leaves a state that belongs to no command.
LEMMA FinishCommandType ==
    ASSUME CookerTypes, FinishCommand
    PROVE  /\ state' = "INITIAL" /\ parser' # "parsing"
           /\ parser' \in {"none", "parsing", "halted", "done", "error"}
  BY DEF FinishCommand, CookerTypes

\* The client is gone.  The next one is served at once if the idle thread has
\* nothing to do, and no one is if it has.
LEMMA ClientCompleteInv ==
    ASSUME IInv, main = "disconnect", NEW mustQuit \in BOOLEAN,
           ClientComplete(mustQuit), IdleCheck \/ mustQuit = TRUE, quit => mustQuit
    PROVE  IInv'
<1>1. Sessions /\ Cooker /\ Fresh
  BY Parts
<1>2. haveui /\ controllersock \in Client
  BY <1>1 DEF Sessions, MainInv
<1>3. /\ UNCHANGED <<commandVars, idleVars>>
      /\ haveui' = FALSE /\ ui' = NoClient /\ main' = "select"
      /\ hadanyui' = hadanyui /\ client' = client /\ sent' = sent /\ backlog' = backlog
      /\ ended' = ended
      /\ awaiting' = [awaiting EXCEPT ![controllersock] = 0]
      /\ Replied(controllersock)
      /\ FinishCommand /\ parsecache_valid' = FALSE
      /\ NextClient(mustQuit)
  BY DEF ClientComplete, Replied
<1>4. /\ OneRequest' /\ request' \in [Client -> SUBSET Commands]
      /\ awaiting' \in [Client -> 0..MaxRequests]
  BY <1>1, <1>2, <1>3, ReplyKeeps
<1>5. /\ controllersock' \in Client \cup {NoClient} /\ newconnections' \in Seq(Client)
      /\ quit' \in BOOLEAN /\ (mustQuit => quit')
  BY <1>1, <1>3, NextClientType DEF Sessions
<1>6. SessionTypes'
  <2>1. haveui' \in BOOLEAN
    BY <1>3
  <2> QED
    BY <1>1, <1>3, <1>4, <1>5, <2>1 DEF Sessions, SessionTypes
<1>7. MainInv'
  BY <1>3 DEF MainInv
<1>8. state' = "INITIAL" /\ parser' # "parsing"
      /\ parser' \in {"none", "parsing", "halted", "done", "error"}
  BY <1>1, <1>3, FinishCommandType DEF Cooker
<1>9. CookerTypes'
  <2>1. parsecache_valid' \in BOOLEAN /\ "INITIAL" \in State
    BY <1>3 DEF State
  <2> QED
    BY <1>1, <1>3, <1>8, <2>1, Flat DEF Cooker, CookerTypes
<1>10. IdleInv'
  BY <1>1, <1>3, Flat DEF Cooker, IdleInv, Building
<1>11. StateInv'
  BY <1>8 DEF StateInv, ParsesForACommand
<1>12. Fresh'
  BY <1>3, <1>5, <1>8, Flat DEF Fresh, IdleCheck
<1> QED
  BY <1>4, <1>6, <1>7, <1>9, <1>10, <1>11, <1>12, PartsNext DEF Sessions, Cooker

LEMMA DisconnectsInv ==
    ASSUME IInv, DisconnectWhenIdle \/ DisconnectTimeout
    PROVE  IInv'
<1>1. quit \in BOOLEAN
  BY Parts DEF Sessions, SessionTypes
<1> QED
  BY <1>1, ClientCompleteInv DEF DisconnectWhenIdle, DisconnectTimeout

\* Steps that decide to end the server, or leave the main loop.
LEMMA QuitInv ==
    ASSUME IInv,
           \/ Timeout \/ Leave \/ Exit
           \/ \E c \in Client : TerminateServer(c)
    PROVE  IInv'
<1>1. Sessions /\ Cooker /\ Fresh
  BY Parts
<1>2. CASE Timeout \/ Leave
  <2>1. /\ UNCHANGED <<sessionVars, commandVars, cookerVars, idleVars, clientVars>>
        /\ quit' = TRUE \/ (quit' = quit /\ quit)
        /\ main = "select" /\ main' \in {"select", "join"}
    BY <1>2 DEF Timeout, Leave
  <2>2. SessionTypes'
    <3>1. quit' \in BOOLEAN
      BY <1>1, <2>1 DEF Sessions, SessionTypes
    <3> QED
      BY <1>1, <2>1, <3>1, Flat DEF Sessions, SessionTypes
  <2>3. OneRequest' /\ MainInv' /\ Fresh'
    BY <1>1, <2>1, Flat DEF Sessions, OneRequest, MainInv, Fresh
  <2> QED
    BY <1>1, <2>1, <2>2, <2>3, CookerSame, PartsNext DEF Sessions
<1>3. CASE Exit
  <2>1. /\ quit' = quit /\ main = "join" /\ main' = "gone"
        /\ UNCHANGED <<sessionVars, commandVars, idleVars, clientVars>>
        /\ state' = "FORCE_SHUTDOWN" /\ parsecache_valid' = parsecache_valid
        /\ parser' \in {"none", "parsing", "halted", "done", "error"}
    BY <1>1, <1>3 DEF Exit, ShutDown, Cooker, CookerTypes
  <2>2. SessionTypes' /\ OneRequest' /\ MainInv' /\ Fresh'
    <3>1. SessionTypes'
      BY <1>1, <2>1, Flat DEF Sessions, SessionTypes
    <3> QED
      BY <1>1, <2>1, <3>1, Flat DEF Sessions, OneRequest, MainInv, Fresh
  <2>3. CookerTypes'
    <3>1. "FORCE_SHUTDOWN" \in State
      BY DEF State
    <3> QED
      BY <1>1, <2>1, <3>1, Flat DEF Cooker, CookerTypes
  <2>4. IdleInv' /\ StateInv'
    BY <1>1, <2>1, Flat DEF Cooker, IdleInv, StateInv, ParsesForACommand, Building
  <2> QED
    BY <2>2, <2>3, <2>4, PartsNext DEF Sessions, Cooker
<1>4. CASE \E c \in Client : TerminateServer(c)
  <2>1. PICK c \in Client : TerminateServer(c)
    BY <1>4
  <2>2. /\ UNCHANGED <<sessionVars, commandVars, cookerVars, idleVars>>
        /\ quit' = TRUE /\ main = "select" /\ main' = main /\ haveui
        /\ client' = client /\ sent' = sent /\ backlog' = backlog
        /\ awaiting' = awaiting /\ ended' = ended /\ Replied(c)
    BY <2>1 DEF TerminateServer, Reading
  <2>3. OneRequest' /\ request' \in [Client -> SUBSET Commands]
    BY <1>1, <2>2, ReplyKeeps
  <2>4. SessionTypes'
    <3>1. quit' \in BOOLEAN
      BY <2>2
    <3> QED
      BY <1>1, <2>2, <2>3, <3>1, Flat DEF Sessions, SessionTypes
  <2>5. MainInv' /\ Fresh'
    BY <1>1, <2>2, Flat DEF Sessions, MainInv, Fresh
  <2> QED
    BY <1>1, <2>2, <2>3, <2>4, <2>5, CookerSame, PartsNext DEF Sessions
<1> QED
  BY <1>2, <1>3, <1>4

\* A stop takes effect whatever the idle thread is in the middle of.
LEMMA StopInv ==
    ASSUME IInv, NEW c \in Client, Stop(c)
    PROVE  IInv'
<1>1. Sessions /\ Cooker /\ Fresh
  BY Parts
<1>2. /\ UNCHANGED <<mainVars, idleVars>> /\ main = "select" /\ haveui /\ Replied(c)
      /\ idlefuns' = idlefuns /\ currentAsyncCommand' = currentAsyncCommand
      /\ client' = client /\ sent' = sent /\ backlog' = backlog
      /\ awaiting' = awaiting /\ ended' = ended /\ parsecache_valid' = parsecache_valid
      /\ state' \in {"SHUTDOWN", "FORCE_SHUTDOWN"}
      /\ parser' \in {"none", "parsing", "halted", "done", "error"}
  BY <1>1 DEF Stop, Reading, ShutDown, Cooker, CookerTypes
<1>3. OneRequest' /\ request' \in [Client -> SUBSET Commands]
  BY <1>1, <1>2, ReplyKeeps
<1>4. SessionTypes'
  BY <1>1, <1>2, <1>3, Flat DEF Sessions, SessionTypes
<1>5. MainInv' /\ Fresh'
  BY <1>1, <1>2, Flat DEF Sessions, MainInv, Fresh
<1>6. CookerTypes'
  <2>1. state' \in State
    BY <1>2 DEF State
  <2> QED
    BY <1>1, <1>2, <2>1, Flat DEF Cooker, CookerTypes
<1>7. IdleInv' /\ StateInv'
  BY <1>1, <1>2, Flat DEF Cooker, IdleInv, StateInv, ParsesForACommand, Building
<1> QED
  BY <1>3, <1>4, <1>5, <1>6, <1>7, PartsNext DEF Sessions, Cooker

\* Asking for a turn, and not getting it.
LEMMA AskInv ==
    ASSUME IInv, (\E c \in Client : Ask(c)) \/ SetAsyncCmdTimeout \/ Busy
    PROVE  IInv'
<1>1. Sessions /\ Cooker /\ Fresh
  BY Parts
<1>2. CASE (\E c \in Client : Ask(c)) \/ SetAsyncCmdTimeout
  <2>1. /\ UNCHANGED <<sessionVars, commandVars, cookerVars, idleVars, clientVars>>
        /\ quit' = quit /\ haveui /\ controllersock \in Client
        /\ main' \in {"set_async_cmd", "busy"}
        /\ \E k \in AsyncCommands : request[controllersock] = {k}
    <3>1. CASE SetAsyncCmdTimeout
      BY <1>1, <3>1 DEF SetAsyncCmdTimeout, Sessions, MainInv
    <3>2. CASE \E c \in Client : Ask(c)
      <4>1. PICK c \in Client : Ask(c)
        BY <3>2
      <4>2. haveui /\ controllersock = c /\ request[c] \cap AsyncCommands # {}
        BY <4>1 DEF Ask, Reading
      <4>3. \E k \in Commands : request[c] = {k}
        BY <1>1, <4>2 DEF Sessions, OneRequest
      <4>4. \E k \in AsyncCommands : request[c] = {k}
        BY <4>2, <4>3
      <4> QED
        BY <4>1, <4>2, <4>4 DEF Ask
    <3> QED
      BY <1>2, <3>1, <3>2
  <2>2. SessionTypes' /\ OneRequest' /\ MainInv' /\ Fresh'
    <3>1. SessionTypes'
      BY <1>1, <2>1, Flat DEF Sessions, SessionTypes
    <3> QED
      BY <1>1, <2>1, <3>1, Flat DEF Sessions, OneRequest, MainInv, Fresh
  <2> QED
    BY <1>1, <2>1, <2>2, CookerSame, PartsNext DEF Sessions
<1>3. CASE Busy
  <2>1. haveui /\ controllersock \in Client
    BY <1>1, <1>3 DEF Busy, Sessions, MainInv
  <2>2. /\ UNCHANGED <<sessionVars, commandVars, cookerVars, idleVars>>
        /\ quit' = quit /\ main' = "select" /\ sent' = sent /\ backlog' = backlog
        /\ awaiting' = awaiting /\ ended' = ended /\ Replied(controllersock)
        /\ client' \in [Client -> {"off", "connecting", "up", "unanswered", "closed"}]
    BY <1>1, <1>3 DEF Busy, Sessions, SessionTypes
  <2>3. OneRequest' /\ request' \in [Client -> SUBSET Commands]
    BY <1>1, <2>1, <2>2, ReplyKeeps
  <2>4. SessionTypes'
    BY <1>1, <2>2, <2>3, Flat DEF Sessions, SessionTypes
  <2>5. MainInv' /\ Fresh'
    BY <1>1, <2>1, <2>2, Flat DEF Sessions, MainInv, Fresh
  <2> QED
    BY <1>1, <2>2, <2>3, <2>4, <2>5, CookerSame, PartsNext DEF Sessions
<1> QED
  BY <1>2, <1>3

\* set_async_cmd() waits for its turn: there is no command, and the idle thread is
\* between two of them.
LEMMA SetAsyncCmdInv ==
    ASSUME IInv, SetAsyncCmd
    PROVE  IInv'
<1>1. Sessions /\ Cooker /\ Fresh
  BY Parts
<1>2. /\ UNCHANGED <<sessionVars, cookerVars, idleVars, clientVars>>
      /\ main = "set_async_cmd" /\ main' = "register" /\ quit' = quit
      /\ idlefuns = {} /\ currentAsyncCommand = {} /\ idlefuns' = idlefuns
      /\ currentAsyncCommand' =
             {[client |-> controllersock, name |-> n] : n \in request[controllersock]}
  BY DEF SetAsyncCmd, IdleCheck
<1>3. haveui /\ controllersock \in Client
  BY <1>1, <1>2 DEF Sessions, MainInv
<1>4. PICK k \in AsyncCommands : request[controllersock] = {k}
  BY <1>1, <1>2 DEF Sessions, MainInv
<1>5. /\ currentAsyncCommand' = {[client |-> controllersock, name |-> k]}
      /\ [client |-> controllersock, name |-> k] \in CommandRecord
  BY <1>2, <1>3, <1>4 DEF CommandRecord
<1>6. /\ idle \in {"loop", "ended", "fire"} /\ function = "none"
      /\ idle' = idle /\ function' = function
  BY <1>1, <1>2, Flat DEF Cooker, CookerTypes, IdleInv, Inside
<1>7. SessionTypes'
  BY <1>1, <1>2, Flat DEF Sessions, SessionTypes
<1>8. OneRequest' /\ Fresh'
  BY <1>1, <1>2, <1>3, Flat DEF Sessions, OneRequest, Fresh
<1>9. MainInv'
  <2>1. request'[controllersock'] = {k} /\ idle' \in {"loop", "fire", "ended"}
    BY <1>2, <1>4, <1>6, Flat
  <2>2. currentAsyncCommand' # {} /\ idlefuns' = {}
    BY <1>2, <1>5
  <2> QED
    BY <1>2, <1>3, <2>1, <2>2, Flat DEF MainInv
<1>10. CookerTypes'
  BY <1>1, <1>2, <1>5, Flat DEF Cooker, CookerTypes
<1>11. IdleInv'
  BY <1>2, <1>5, <1>6 DEF IdleInv, Inside
<1>12. StateInv'
  BY <1>1, <1>2, <1>5, Flat DEF Cooker, StateInv, ParsesForACommand
<1> QED
  BY <1>7, <1>8, <1>9, <1>10, <1>11, <1>12, PartsNext DEF Sessions, Cooker

LEMMA RegisterInv ==
    ASSUME IInv, Register
    PROVE  IInv'
<1>1. Sessions /\ Cooker /\ Fresh
  BY Parts
<1>2. /\ UNCHANGED <<sessionVars, cookerVars, idleVars>>
      /\ main = "register" /\ main' = "select" /\ quit' = quit
      /\ idlefuns' = idlefuns \cup {Run} /\ currentAsyncCommand' = currentAsyncCommand
      /\ client' = client /\ sent' = sent /\ backlog' = backlog /\ ended' = ended
      /\ awaiting' = [awaiting EXCEPT ![controllersock] = awaiting[controllersock] + 1]
      /\ Replied(controllersock)
  BY DEF Register, Run
<1>3. /\ haveui /\ controllersock \in Client /\ request[controllersock] # {}
      /\ currentAsyncCommand # {} /\ idlefuns = {}
      /\ idle \in {"loop", "fire", "ended"}
  BY <1>1, <1>2 DEF Sessions, MainInv
<1>4. /\ OneRequest' /\ request' \in [Client -> SUBSET Commands]
      /\ awaiting' \in [Client -> 0..MaxRequests]
  BY <1>1, <1>2, <1>3, ReplyKeeps
<1>5. SessionTypes'
  BY <1>1, <1>2, <1>4, Flat DEF Sessions, SessionTypes
<1>6. MainInv' /\ Fresh'
  BY <1>1, <1>2, <1>3, Flat DEF Sessions, MainInv, Fresh
<1>7. idlefuns' = {Run}
  BY <1>2, <1>3
<1>8. CookerTypes'
  BY <1>1, <1>2, <1>7, Flat DEF Cooker, CookerTypes, Run
<1>9. IdleInv'
  <2>1. function = "none"
    BY <1>1, <1>3 DEF Cooker, IdleInv, Run
  <2> QED
    BY <1>1, <1>2, <1>3, <1>7, <2>1, Flat DEF Cooker, IdleInv, Inside
<1>10. StateInv'
  BY <1>1, <1>2, Flat DEF Cooker, StateInv, ParsesForACommand
<1> QED
  BY <1>4, <1>5, <1>6, <1>8, <1>9, <1>10, PartsNext DEF Sessions, Cooker

LEMMA MainInvariance ==
    ASSUME IInv,
           \/ MainStep \/ Timeout
           \/ \E c \in Client : Accept(c) \/ Serve(c)
    PROVE  IInv'
  BY AcceptInv, StartInv, DisconnectInv, DisconnectsInv, QuitInv, StopInv, AskInv,
     SetAsyncCmdInv, RegisterInv
  DEF MainStep, Serve

(***************************************************************************)
(* The idle thread.                                                        *)
(***************************************************************************)

\* While the idle thread has a function to call, the main thread is neither
\* without a client nor about to register another command.
LEMMA IdleBusy ==
    ASSUME IInv, idlefuns # {} \/ idle \notin {"loop", "fire", "ended"}
    PROVE  main # "register" /\ (haveui \/ quit)
<1>1. Sessions /\ Cooker /\ Fresh
  BY Parts
<1>2. main # "register"
  BY <1>1 DEF Sessions, MainInv
<1>3. idlefuns # {} \/ currentAsyncCommand # {}
  BY <1>1 DEF Cooker, CookerTypes, IdleInv, Inside
<1> QED
  BY <1>1, <1>2, <1>3 DEF Fresh

\* A step of the idle thread that is none of the main thread's business.
LEMMA IdleStepInv ==
    ASSUME IInv, idlefuns # {} \/ idle \notin {"loop", "fire", "ended"},
           UNCHANGED <<main, sessionVars, client, request, sent, backlog, awaiting>>,
           quit' = quit \/ quit' = TRUE,
           ended' \in Client \cup {NoClient}, CookerTypes', IdleInv', StateInv'
    PROVE  IInv'
<1>1. Sessions
  BY Parts
<1>2. main # "register" /\ (haveui \/ quit)
  BY IdleBusy
<1>3. quit' \in BOOLEAN
  BY <1>1 DEF Sessions, SessionTypes
<1>4. SessionTypes'
  BY <1>1, <1>3, Flat DEF Sessions, SessionTypes
<1>5. OneRequest' /\ MainInv'
  BY <1>1, <1>2, Flat DEF Sessions, OneRequest, MainInv
<1>6. Fresh'
  BY <1>2, Flat DEF Fresh
<1> QED
  BY <1>4, <1>5, <1>6, PartsNext DEF Sessions, Cooker

\* The idle function of the command: up to the command itself.
LEMMA AsyncCommandSteps ==
    ASSUME IInv, RunAsyncCommand \/ UpdateCache \/ ParseNext \/ ParseEnds
    PROVE  IInv'
<1>1. Cooker
  BY Parts
<1>2. /\ UNCHANGED <<mainVars, commandVars, clientVars>>
      /\ state' = state /\ parsecache_valid' = parsecache_valid
  BY DEF RunAsyncCommand, UpdateCache, ParseNext, ParseEnds, cookerVars
<1>3. parser' \in {"none", "parsing", "halted", "done", "error"}
  BY <1>1 DEF Cooker, CookerTypes, RunAsyncCommand, UpdateCache, ParseNext, ParseEnds,
              cookerVars
<1>4. /\ idlefuns = {Run} /\ currentAsyncCommand # {}
      /\ idle \in {"loop", "updateCache", "parse_next"}
  <2>1. CASE RunAsyncCommand
    BY <1>1, <2>1 DEF RunAsyncCommand, Calling, Cooker, IdleInv, Run, Build
  <2>2. CASE UpdateCache \/ ParseNext \/ ParseEnds
    BY <1>1, <2>2 DEF UpdateCache, ParseNext, ParseEnds, Cooker, IdleInv, Inside
  <2> QED
    BY <2>1, <2>2
<1>5. \/ idle' = "loop" /\ function' = "none"
      \/ /\ idle' \in {"idleFinish", "updateCache", "command", "parse", "parsed"}
         /\ function' = Run
  <2>1. CASE RunAsyncCommand
    BY <2>1 DEF RunAsyncCommand, Calling, Fails, Run
  <2>2. CASE UpdateCache \/ ParseEnds
    BY <1>1, <2>2 DEF UpdateCache, ParseEnds, Fails, Cooker, IdleInv, Inside
  <2>3. CASE ParseNext
    BY <2>3 DEF ParseNext, Called
  <2> QED
    BY <2>1, <2>2, <2>3
<1>6. CookerTypes'
  <2>1. function' \in {"none", "runAsyncCommand", "buildTargetsIdle"}
    BY <1>5 DEF Run
  <2> QED
    BY <1>1, <1>2, <1>3, <1>5, <2>1, Flat DEF Cooker, CookerTypes
<1>7. IdleInv'
  BY <1>1, <1>2, <1>4, <1>5, Flat DEF Cooker, IdleInv, Inside, Building
<1>8. StateInv'
  BY <1>1, <1>2, <1>5, Flat DEF Cooker, StateInv, ParsesForACommand
<1>9. ended' \in Client \cup {NoClient}
  BY <1>2, Parts, Flat DEF Sessions, SessionTypes
<1> QED
  BY <1>2, <1>4, <1>6, <1>7, <1>8, <1>9, IdleStepInv, Flat

\* The parse assigns the state whatever it has become, but for a command.
LEMMA ParseSteps ==
    ASSUME IInv, StartParsing \/ Parsed
    PROVE  IInv'
<1>1. Cooker
  BY Parts
<1>2. /\ UNCHANGED <<mainVars, commandVars, clientVars>>
      /\ state' \in {"PARSING", "RUNNING"}
      /\ \/ idle' = "parse_next" /\ function' = function
         \/ idle' = "loop" /\ function' = "none"
      /\ idle \in {"parse", "parsed"}
  BY DEF StartParsing, Parsed, Called
<1>3. /\ parser' \in {"none", "parsing", "halted", "done", "error"}
      /\ parsecache_valid' \in BOOLEAN
  <2>1. CASE StartParsing
    BY <1>1, <2>1 DEF Cooker, CookerTypes, StartParsing
  <2>2. CASE Parsed
    BY <1>1, <2>2 DEF Cooker, CookerTypes, Parsed
  <2> QED
    BY <2>1, <2>2
<1>4. idlefuns = {Run} /\ currentAsyncCommand # {} /\ function = Run
  BY <1>1, <1>2 DEF Cooker, IdleInv, Inside
<1>5. CookerTypes'
  <2>1. state' \in State
    BY <1>2 DEF State
  <2>2. function' \in {"none", "runAsyncCommand", "buildTargetsIdle"}
    BY <1>2, <1>4 DEF Run
  <2> QED
    BY <1>1, <1>2, <1>3, <2>1, <2>2, Flat DEF Cooker, CookerTypes
<1>6. IdleInv'
  BY <1>1, <1>2, <1>4, Flat DEF Cooker, IdleInv, Inside, Building
<1>7. StateInv'
  BY <1>2, <1>4, Flat DEF StateInv, ParsesForACommand
<1>8. ended' \in Client \cup {NoClient}
  BY <1>2, Parts, Flat DEF Sessions, SessionTypes
<1> QED
  BY <1>2, <1>4, <1>5, <1>6, <1>7, <1>8, IdleStepInv, Flat

\* The command, and a build that it leaves behind.
LEMMA CommandSteps ==
    ASSUME IInv, RunCommand \/ BuildTargets
    PROVE  IInv'
<1>1. Cooker
  BY Parts
<1>2. /\ UNCHANGED <<mainVars, clientVars>> /\ function' = function
      /\ currentAsyncCommand' = currentAsyncCommand
      /\ idle \in {"command", "buildTargets"}
  BY DEF RunCommand, BuildTargets, commandVars
<1>3. idlefuns = {Run} /\ currentAsyncCommand # {} /\ function = Run
  BY <1>1, <1>2 DEF Cooker, IdleInv, Inside
<1>4. ended' \in Client \cup {NoClient}
  BY <1>2, Parts, Flat DEF Sessions, SessionTypes
<1>5. /\ parser' \in {"none", "parsing", "halted", "done", "error"}
      /\ parsecache_valid' \in BOOLEAN /\ state' \in State
      /\ state' \in {"PARSING", "RUNNING"} => state \in {"PARSING", "RUNNING"}
  <2>1. CASE UNCHANGED cookerVars
    BY <1>1, <2>1, Flat DEF Cooker, CookerTypes
  <2>2. CASE FinishCommand /\ parsecache_valid' = FALSE
    <3>1. parsecache_valid' \in BOOLEAN /\ "INITIAL" \in State
      BY <2>2 DEF State
    <3> QED
      BY <1>1, <2>2, <3>1, FinishCommandType DEF Cooker
  <2> QED
    BY <2>1, <2>2 DEF RunCommand, BuildTargets
<1>6. \/ idle' \in {"idleFinish", "finishcommand"} /\ idlefuns' = idlefuns
      \/ idle' = "buildTargets" /\ idlefuns' = idlefuns /\ Building
      \/ idle' = "return False" /\ idlefuns' = idlefuns \cup {Build} /\ Building
  <2>1. CASE RunCommand
    BY <2>1, Flat DEF RunCommand, Fails, Building
  <2>2. CASE BuildTargets
    BY <1>1, <2>2 DEF BuildTargets, Cooker, IdleInv, Build
  <2> QED
    BY <2>1, <2>2
<1>7. CookerTypes'
  <2>1. idlefuns' \subseteq {"runAsyncCommand", "buildTargetsIdle"}
    BY <1>3, <1>6 DEF Run, Build
  <2>2. idle' \in {"buildTargets", "return False", "idleFinish", "finishcommand"}
    BY <1>6
  <2> QED
    BY <1>1, <1>2, <1>5, <2>1, <2>2 DEF Cooker, CookerTypes
<1>8. IdleInv'
  <2>1. Building => Building'
    BY <1>2 DEF Building
  <2> QED
    BY <1>1, <1>2, <1>3, <1>6, <2>1 DEF Cooker, IdleInv, Inside
<1>9. StateInv'
  <2>1. idle' # "clear_async_cmd"
    BY <1>6
  <2> QED
    BY <1>1, <1>2, <1>5, <2>1 DEF Cooker, StateInv, ParsesForACommand
<1> QED
  BY <1>2, <1>3, <1>4, <1>7, <1>8, <1>9, IdleStepInv, Flat

\* The build.
LEMMA BuildSteps ==
    ASSUME IInv, BuildEnds \/ BuildRaises
    PROVE  IInv'
<1>1. Cooker
  BY Parts
<1>2. /\ UNCHANGED <<main, sessionVars, cookerVars, clientVars>>
      /\ quit' = quit \/ quit' = TRUE
      /\ currentAsyncCommand' = currentAsyncCommand
      /\ idle = "loop" /\ Build \in idlefuns
  BY Flat DEF BuildEnds, BuildRaises, Calling, Build
<1>3. idlefuns = {Build} /\ function = "none" /\ Building /\ currentAsyncCommand # {}
  BY <1>1, <1>2 DEF Cooker, IdleInv, Run, Build, Building
<1>4. \/ idle' = "idleFinish" /\ function' = Build /\ idlefuns' = idlefuns
      \/ idle' = "loop" /\ function' = "none" /\ idlefuns' = {}
  <2>1. CASE BuildEnds
    BY <2>1, Flat DEF BuildEnds, Calling, Build
  <2>2. CASE BuildRaises
    BY <1>3, <2>2, Flat DEF BuildRaises, Build
  <2> QED
    BY <2>1, <2>2
<1>5. CookerTypes'
  <2>1. /\ idlefuns' \subseteq {"runAsyncCommand", "buildTargetsIdle"}
        /\ function' \in {"none", "runAsyncCommand", "buildTargetsIdle"}
    BY <1>3, <1>4 DEF Build
  <2> QED
    BY <1>1, <1>2, <1>4, <2>1, Flat DEF Cooker, CookerTypes
<1>6. IdleInv'
  BY <1>1, <1>2, <1>3, <1>4 DEF Cooker, IdleInv, Inside
<1>7. StateInv'
  BY <1>1, <1>2, <1>4, Flat DEF Cooker, StateInv, ParsesForACommand
<1>8. ended' \in Client \cup {NoClient}
  BY <1>2, Parts, Flat DEF Sessions, SessionTypes
<1> QED
  BY <1>2, <1>3, <1>5, <1>6, <1>7, <1>8, IdleStepInv, Flat

\* The function is taken out of the table, and the command finished.
LEMMA FinishSteps ==
    ASSUME IInv, RemoveIdleFunc \/ FinishAsyncCommand \/ ClearAsyncCmd
    PROVE  IInv'
<1>1. Sessions /\ Cooker
  BY Parts
<1>2. CASE RemoveIdleFunc
  <2>1. /\ UNCHANGED <<mainVars, cookerVars, clientVars>>
        /\ currentAsyncCommand' = currentAsyncCommand
        /\ idlefuns' = idlefuns \ {function} /\ function' = "none"
        /\ \/ idle = "idleFinish" /\ idle' = "finishcommand"
           \/ idle = "return False" /\ idle' = "loop"
    BY <1>2 DEF RemoveIdleFunc, Called
  <2>2. \/ idle = "idleFinish" /\ idlefuns' = {} /\ currentAsyncCommand # {}
        \/ idle = "return False" /\ idlefuns' = {}
        \/ idle = "return False" /\ idlefuns' = {Build} /\ Building
    BY <1>1, <2>1 DEF Cooker, IdleInv, Run, Build
  <2>3. CookerTypes'
    <3>1. /\ idlefuns' \subseteq {"runAsyncCommand", "buildTargetsIdle"}
          /\ function' \in {"none", "runAsyncCommand", "buildTargetsIdle"}
      BY <2>1, <2>2 DEF Build
    <3> QED
      BY <1>1, <2>1, <3>1, Flat DEF Cooker, CookerTypes
  <2>4. IdleInv'
    <3>1. Building => Building'
      BY <2>1 DEF Building
    <3> QED
      BY <1>1, <2>1, <2>2, <3>1 DEF Cooker, IdleInv, Inside
  <2>5. StateInv'
    BY <1>1, <2>1, Flat DEF Cooker, StateInv, ParsesForACommand
  <2>6. ended' \in Client \cup {NoClient}
    BY <1>1, <2>1, Flat DEF Sessions, SessionTypes
  <2> QED
    BY <2>1, <2>3, <2>4, <2>5, <2>6, IdleStepInv, Flat
<1>3. CASE FinishAsyncCommand
  <2>1. /\ UNCHANGED <<mainVars, commandVars, clientVars>> /\ function' = function
        /\ parsecache_valid' = parsecache_valid /\ FinishCommand
        /\ idle = "finishcommand" /\ idle' = "clear_async_cmd"
    BY <1>3 DEF FinishAsyncCommand
  <2>2. CookerTypes'
    <3>1. "INITIAL" \in State
      BY DEF State
    <3> QED
      BY <1>1, <2>1, <3>1, FinishCommandType, Flat DEF Cooker, CookerTypes
  <2>3. IdleInv'
    BY <1>1, <2>1, Flat DEF Cooker, IdleInv, Inside
  <2>4. StateInv'
    BY <1>1, <2>1, FinishCommandType DEF Cooker, StateInv, ParsesForACommand
  <2>5. ended' \in Client \cup {NoClient}
    BY <1>1, <2>1, Flat DEF Sessions, SessionTypes
  <2> QED
    BY <2>1, <2>2, <2>3, <2>4, <2>5, IdleStepInv, Flat
<1>4. CASE ClearAsyncCmd
  <2>1. /\ UNCHANGED <<mainVars, cookerVars>> /\ function' = function
        /\ client' = client /\ request' = request /\ sent' = sent
        /\ backlog' = backlog /\ awaiting' = awaiting
        /\ idlefuns' = idlefuns /\ currentAsyncCommand' = {}
        /\ idle = "clear_async_cmd" /\ idle' = "fire"
        /\ ended' \in Client \cup {NoClient}
    BY <1>4 DEF ClearAsyncCmd
  <2>2. CookerTypes'
    BY <1>1, <2>1, Flat DEF Cooker, CookerTypes
  <2>3. IdleInv'
    BY <1>1, <2>1 DEF Cooker, IdleInv, Inside
  <2>4. StateInv'
    BY <1>1, <2>1, Flat DEF Cooker, StateInv, ParsesForACommand
  <2> QED
    BY <2>1, <2>2, <2>3, <2>4, IdleStepInv, Flat
<1> QED
  BY <1>2, <1>3, <1>4

\* The last event of a command; the main thread may have gone on already.
LEMMA FireInv ==
    ASSUME IInv, FireCompletion
    PROVE  IInv'
<1>1. Sessions /\ Cooker /\ Fresh
  BY Parts
<1>2. /\ UNCHANGED <<mainVars, commandVars, cookerVars>>
      /\ client' = client /\ request' = request /\ sent' = sent
      /\ backlog' = backlog /\ ended' = NoClient
      /\ idle = "fire"
      /\ \/ function # "none" /\ idle' = "return False" /\ function' = function
         \/ function = "none" /\ idle' = "loop" /\ function' = "none"
  BY DEF FireCompletion, Called
<1>3. \A c \in Client : /\ awaiting'[c] \in 0..MaxRequests
                        /\ awaiting'[c] <= awaiting[c]
                        /\ awaiting[c] \in Nat /\ awaiting'[c] \in Nat
                        /\ sent[c] \in Nat
  <2> SUFFICES ASSUME NEW c \in Client
               PROVE  /\ awaiting'[c] \in 0..MaxRequests
                      /\ awaiting'[c] <= awaiting[c]
                      /\ awaiting[c] \in Nat /\ awaiting'[c] \in Nat
                      /\ sent[c] \in Nat
    OBVIOUS
  <2>1. awaiting[c] \in 0..MaxRequests /\ sent[c] \in 0..MaxRequests
    BY <1>1 DEF Sessions, SessionTypes
  <2>2. awaiting'[c] = awaiting[c] \/ (awaiting[c] > 0 /\ awaiting'[c] = awaiting[c] - 1)
    BY DEF FireCompletion
  <2> QED
    BY <2>1, <2>2, Kinds
<1>4. awaiting' \in [Client -> 0..MaxRequests]
  <2>1. awaiting' = [c \in Client |-> awaiting'[c]]
    BY DEF FireCompletion
  <2> QED
    BY <1>3, <2>1
<1>5. SessionTypes'
  BY <1>1, <1>2, <1>4, Flat DEF Sessions, SessionTypes
<1>6. OneRequest'
  <2> SUFFICES ASSUME NEW c \in Client
               PROVE  /\ request'[c] = {} \/ \E k \in Commands : request'[c] = {k}
                      /\ awaiting'[c] <= sent'[c]
                      /\ request'[c] # {} => awaiting'[c] < sent'[c]
    BY DEF OneRequest
  <2>1. /\ request[c] = {} \/ \E k \in Commands : request[c] = {k}
        /\ awaiting[c] <= sent[c]
        /\ request[c] # {} => awaiting[c] < sent[c]
    BY <1>1 DEF Sessions, OneRequest
  <2>2. request'[c] = request[c] /\ sent'[c] = sent[c]
    BY <1>2
  <2>3. awaiting'[c] <= awaiting[c] /\ awaiting[c] \in Nat /\ awaiting'[c] \in Nat
        /\ sent[c] \in Nat
    BY <1>3
  <2> QED
    BY <2>1, <2>2, <2>3
<1>7. MainInv'
  <2>1. main = "register" => idle' = "loop"
    BY <1>1, <1>2 DEF Sessions, MainInv, Cooker, IdleInv, Run
  <2>2. /\ main' = main /\ haveui' = haveui /\ quit' = quit
        /\ controllersock' = controllersock /\ request' = request
        /\ currentAsyncCommand' = currentAsyncCommand /\ idlefuns' = idlefuns
    BY <1>2, Flat
  <2> QED
    BY <1>1, <2>1, <2>2 DEF Sessions, MainInv
<1>8. Fresh'
  <2>1. /\ haveui' = haveui /\ quit' = quit /\ state' = state /\ parser' = parser
        /\ parsecache_valid' = parsecache_valid
        /\ currentAsyncCommand' = currentAsyncCommand /\ idlefuns' = idlefuns
    BY <1>2, Flat
  <2> QED
    BY <1>1, <2>1 DEF Fresh
<1>9. CookerTypes'
  BY <1>1, <1>2, Flat DEF Cooker, CookerTypes
<1>10. IdleInv'
  BY <1>1, <1>2, Flat DEF Cooker, IdleInv, Inside, Building, Run
<1>11. StateInv'
  BY <1>1, <1>2, Flat DEF Cooker, StateInv, ParsesForACommand
<1> QED
  BY <1>5, <1>6, <1>7, <1>8, <1>9, <1>10, <1>11, PartsNext DEF Sessions, Cooker

LEMMA IdleEndInv ==
    ASSUME IInv, IdleEnd
    PROVE  IInv'
<1>1. Sessions /\ Cooker /\ Fresh
  BY Parts
<1>2. /\ UNCHANGED <<mainVars, commandVars, cookerVars, clientVars>>
      /\ function' = function /\ idle = "loop" /\ idle' = "ended"
  BY DEF IdleEnd
<1>3. SessionTypes'
  BY <1>1, <1>2, Flat DEF Sessions, SessionTypes
<1>4. OneRequest' /\ MainInv' /\ Fresh'
  BY <1>1, <1>2, Flat DEF Sessions, OneRequest, MainInv, Fresh
<1>5. CookerTypes'
  BY <1>1, <1>2, Flat DEF Cooker, CookerTypes
<1>6. IdleInv' /\ StateInv'
  BY <1>1, <1>2, Flat
  DEF Cooker, IdleInv, StateInv, ParsesForACommand, Inside, Building
<1> QED
  BY <1>3, <1>4, <1>5, <1>6, PartsNext DEF Sessions, Cooker

LEMMA IdleInvariance == ASSUME IInv, Idle PROVE IInv'
  BY AsyncCommandSteps, ParseSteps, CommandSteps, BuildSteps, FinishSteps, FireInv,
     IdleEndInv
  DEF Idle

(***************************************************************************)
(* The invariant, and what it says.                                        *)
(***************************************************************************)

LEMMA StepInv == IInv /\ [Next]_vars => IInv'
<1> SUFFICES ASSUME IInv, [Next]_vars PROVE IInv'
  OBVIOUS
<1>1. CASE UNCHANGED vars
  <2>1. UNCHANGED <<mainVars, commandVars, cookerVars, idleVars, clientVars>>
    BY <1>1 DEF vars
  <2>2. Sessions /\ Cooker /\ Fresh
    BY Parts
  <2>3. SessionTypes'
    BY <2>1, <2>2, Flat DEF Sessions, SessionTypes
  <2>4. OneRequest' /\ MainInv' /\ Fresh'
    BY <2>1, <2>2, Flat DEF Sessions, OneRequest, MainInv, Fresh
  <2> QED
    BY <2>1, <2>2, <2>3, <2>4, CookerSame, PartsNext DEF Sessions
<1>2. CASE Next
  BY <1>2, ClientSteps, MainInvariance, IdleInvariance DEF Next
<1> QED
  BY <1>1, <1>2

LEMMA Invariance == Spec => []IInv
  BY InitInv, StepInv, PTL DEF Spec

\* One asynchronous command at a time: wherever the two threads are, at most one
\* command is in progress, the idle thread finds one function at most and it is of
\* that command, and a parse is never left running for none.
THEOREM OneCommandTheorem == Spec => []OneCommand
<1>1. IInv => OneCommand
  <2> SUFFICES ASSUME IInv PROVE OneCommand
    OBVIOUS
  <2>1. IdleInv
    BY DEF IInv
  <2>2. IdleFunctionHasCommand
    <3> SUFFICES ASSUME idle = "loop"
                 PROVE  /\ Cardinality(idlefuns) <= 1
                        /\ idlefuns # {} => currentAsyncCommand # {}
                        /\ "buildTargetsIdle" \in idlefuns => Building
      BY DEF IdleFunctionHasCommand, Building
    <3>1. \/ idlefuns = {}
          \/ idlefuns = {Run} /\ currentAsyncCommand # {}
          \/ idlefuns = {Build} /\ Building
      BY <2>1 DEF IdleInv
    <3>2. Cardinality(idlefuns) <= 1
      BY <3>1, AtMostOne
    <3>3. Building => currentAsyncCommand # {}
      BY DEF Building
    <3> QED
      BY <3>1, <3>2, <3>3 DEF Run, Build
  <2> QED
    BY <2>2 DEF IInv, StateInv, OneCommand
<1> QED
  BY <1>1, Invariance, PTL

\* A client that is being served finds nothing of an earlier one's: no command, no
\* idle function, no parse and no stop request, whatever the threads were at when
\* the earlier one went.
THEOREM FreshClientTheorem == Spec => FreshClient
<1>1. IInv /\ [Next]_vars => [ui' \notin {ui, NoClient} =>
          /\ state = "INITIAL" /\ ~parsecache_valid /\ parser # "parsing"
          /\ currentAsyncCommand = {} /\ idlefuns = {}]_vars
  <2> SUFFICES ASSUME IInv, Next, ui' \notin {ui, NoClient}
               PROVE  /\ state = "INITIAL" /\ ~parsecache_valid /\ parser # "parsing"
                      /\ currentAsyncCommand = {} /\ idlefuns = {}
    BY DEF vars
  <2>1. CASE \E c \in Client : Start(c)
    BY <2>1, StartInv
  <2>2. CASE /\ ~ \E c \in Client : Start(c)
             /\ \/ \E c \in Client : Connect(c) \/ Close(c) \/ Accept(c) \/ Serve(c)
                \/ \E c \in Client, command \in Commands : Request(c, command)
                \/ Timeout
    <3>1. ui' = ui
      BY <2>2, Flat
      DEF Connect, Close, Accept, Serve, Disconnect, Stop, TerminateServer, Ask, Request,
          Timeout
    <3> QED
      BY <3>1
  <2>3. CASE MainStep
    <3>1. ui' = ui \/ ui' = NoClient
      BY <2>3, Flat
      DEF MainStep, DisconnectWhenIdle, DisconnectTimeout, ClientComplete, SetAsyncCmd,
          SetAsyncCmdTimeout, Busy, Register, Leave, Exit
    <3> QED
      BY <3>1
  <2>4. CASE Idle
    <3>1. ui' = ui
      BY <2>4, Flat
      DEF Idle, IdleEnd, RunAsyncCommand, UpdateCache, StartParsing, ParseNext,
          ParseEnds, Parsed, RunCommand, BuildTargets, BuildEnds, BuildRaises,
          RemoveIdleFunc, FinishAsyncCommand, ClearAsyncCmd, FireCompletion
    <3> QED
      BY <3>1
  <2> QED
    BY <2>1, <2>2, <2>3, <2>4 DEF Next
<1> QED
  BY <1>1, Invariance, PTL DEF Spec, FreshClient
=============================================================================
