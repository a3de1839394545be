----------------------------- MODULE ServerLock -----------------------------
(***************************************************************************)
(* One server for a build directory: bitbake.lock and bitbake.sock, from   *)
(* setup_bitbake() of lib/bb/main.py, which starts a server or connects to *)
(* the one there is, through the start of a server, to the end of one in   *)
(* lib/bb/server/process.py.  CookerServer is what a server does between.  *)
(*                                                                         *)
(* Clients and servers are processes that may be killed at any point, and  *)
(* a process started by a server may outlive it with bitbake.lock open.    *)
(* When a server ends well is left open here, as are the time limits of a  *)
(* client: it may give up at any time.                                     *)
(***************************************************************************)
EXTENDS Lockfile

CONSTANTS
    Client,
    Server,         \* bound: the servers ever started
    NoServer,
    Leftover,       \* a process started by a server
    Retries,        \* bound: 8 in the code
    Patience,       \* bound: 50 in the code
    MaxKills        \* bound

ASSUME ServerLockAssumption ==
    /\ Proc = Client \cup Server \cup {Leftover}
    /\ Client \cap Server = {} /\ Leftover \notin Client \cup Server
    /\ NoServer \notin Server
    /\ Retries \in Nat \ {0} /\ Patience \in Nat \ {0} /\ MaxKills \in Nat

VARIABLES
    pc,             \* where each client and server is
    retries,        \* of each client
    tries,          \* of a client that waits for a server to go, else 0
    started,        \* the server a client has started, or NoServer
    connected,      \* the server a client waits for an answer of, or NoServer
    sock,           \* the server that made bitbake.sock, or NoServer
    ready,          \* servers whose "r" is in the pipe to their client
    kills

sockVars == <<sock, ready>>
clientVars == <<retries, tries, started, connected>>
vars == <<lockVars, pc, clientVars, sockVars, kills>>

ClientAt == {"open", "flock", "check", "granted", "starting", "sock", "unlink",
             "unlock", "connect", "sent", "done", "failed", "killed"}
ServerAt == {"none", "boot", "bind", "cooker", "serving", "unsock", "closing",
             "exists", "open", "flock", "check", "unlink", "unlock", "ended",
             "killed"}

TypeOK ==
    /\ LockTypeOK
    /\ pc \in [Client \cup Server -> ClientAt \cup ServerAt]
    /\ \A c \in Client : pc[c] \in ClientAt
    /\ \A s \in Server : pc[s] \in ServerAt
    /\ retries \in [Client -> 0..Retries]
    /\ tries \in [Client -> 0..Patience]
    /\ started \in [Client -> Server \cup {NoServer}]
    /\ connected \in [Client -> Server \cup {NoServer}]
    /\ sock \in Server \cup {NoServer}
    /\ ready \subseteq Server
    /\ kills \in 0..MaxKills

Init ==
    /\ LockInit
    /\ pc = [p \in Client \cup Server |-> IF p \in Client THEN "open" ELSE "none"]
    /\ retries = [c \in Client |-> Retries]
    /\ tries = [c \in Client |-> 0]
    /\ started = [c \in Client |-> NoServer]
    /\ connected = [c \in Client |-> NoServer]
    /\ sock = NoServer
    /\ ready = {}
    /\ kills = 0

Go(p, from, to) == pc[p] = from /\ pc' = [pc EXCEPT ![p] = to]

(***************************************************************************)
(* A client: setup_bitbake().                                              *)
(***************************************************************************)

\* Mutant: without the count.
Retry_for_ever(c) ==
    /\ tries' = [tries EXCEPT ![c] = 0]
    /\ started' = [started EXCEPT ![c] = NoServer]
    /\ connected' = [connected EXCEPT ![c] = NoServer]
    /\ pc' = [pc EXCEPT ![c] = "open"]
    /\ UNCHANGED retries

\* An exception in the loop: try again, or give up.
Retry(c) ==
    /\ retries' = [retries EXCEPT ![c] = @ - 1]
    /\ tries' = [tries EXCEPT ![c] = 0]
    /\ started' = [started EXCEPT ![c] = NoServer]
    /\ connected' = [connected EXCEPT ![c] = NoServer]
    /\ pc' = [pc EXCEPT ![c] = IF retries[c] = 1 THEN "failed" ELSE "open"]

\* lockBitbake() returned None: at first, see about a server; while waiting for
\* one to go, ask again until patience is out.
NoLock(c) ==
    \/ /\ tries[c] = 0
       /\ pc' = [pc EXCEPT ![c] = "sock"]
       /\ UNCHANGED clientVars
    \/ /\ tries[c] \in 1..(Patience - 1)
       /\ tries' = [tries EXCEPT ![c] = @ + 1]
       /\ pc' = [pc EXCEPT ![c] = "open"]
       /\ UNCHANGED <<retries, started, connected>>
    \/ tries[c] = Patience /\ Retry(c)

ClientOpen(c) ==
    Go(c, "open", "flock") /\ Open(c) /\ UNCHANGED <<clientVars, sockVars, kills>>

ClientFlock(c) ==
    /\ pc[c] = "flock"
    /\ \/ Go(c, "flock", "check") /\ FlockGranted(c) /\ UNCHANGED clientVars
       \/ FlockRefused(c) /\ NoLock(c)
    /\ UNCHANGED <<sockVars, kills>>

\* Who has the lock starts a server; who only waited for the lock gives it up.
ClientCheck(c) ==
    /\ pc[c] = "check"
    /\ \/ /\ Verified(c)
          /\ Go(c, "check", IF tries[c] = 0 THEN "granted" ELSE "unlink")
          /\ UNCHANGED clientVars
       \/ NotVerified(c) /\ NoLock(c)
    /\ UNCHANGED <<sockVars, kills>>

\* BitBakeServer(): the new process is given the open lock file.
StartServer(c) ==
    \E s \in Server :
        /\ pc[s] = "none"
        /\ pc[c] = "granted"
        /\ pc' = [pc EXCEPT ![c] = "starting", ![s] = "boot"]
        /\ HandOver(c, s)
        /\ started' = [started EXCEPT ![c] = s]
        /\ UNCHANGED <<retries, tries, connected, sockVars, kills>>

\* --status-only and --kill-server only wanted to know; the file stays.
NotRunning(c) ==
    Go(c, "granted", "done") /\ Unlock(c) /\ UNCHANGED <<clientVars, sockVars, kills>>

\* The "r" of the server, the end of its pipe, or 95 seconds.
ServerReady(c) ==
    /\ Go(c, "starting", "connect") /\ started[c] \in ready
    /\ ready' = ready \ {started[c]}
    /\ started' = [started EXCEPT ![c] = NoServer]
    /\ UNCHANGED <<lockVars, retries, tries, connected, sock, kills>>

ServerNotReady(c) ==
    /\ pc[c] = "starting" /\ started[c] \notin ready
    /\ Retry(c)
    /\ UNCHANGED <<lockVars, sockVars, kills>>

\* No socket means that the server is on its way out: wait for the lock, and
\* start again.
LookForSocket(c) ==
    /\ pc[c] = "sock"
    /\ \/ sock # NoServer /\ Go(c, "sock", "connect") /\ UNCHANGED tries
       \/ /\ sock = NoServer /\ Go(c, "sock", "open")
          /\ tries' = [tries EXCEPT ![c] = 1]
    /\ UNCHANGED <<lockVars, retries, started, connected, sockVars, kills>>

ClientUnlink(c) ==
    Go(c, "unlink", "unlock") /\ Unlink(c) /\ UNCHANGED <<clientVars, sockVars, kills>>

ClientUnlock(c) ==
    pc[c] = "unlock" /\ Unlock(c) /\ Retry(c) /\ UNCHANGED <<sockVars, kills>>

\* Servers whose socket is open.
Listening == {s \in Server : pc[s] \in {"cooker", "serving", "unsock"}}

\* connectProcessServer(): connect(), then a first command.
Connect(c) ==
    /\ pc[c] = "connect"
    /\ \/ /\ sock \in Listening /\ Go(c, "connect", "sent")
          /\ connected' = [connected EXCEPT ![c] = sock]
          /\ UNCHANGED <<retries, tries, started>>
       \/ sock \notin Listening /\ Retry(c)
    /\ UNCHANGED <<lockVars, sockVars, kills>>

\* The server is gone before it answers, or has not answered in time.
NoAnswer(c) ==
    pc[c] = "sent" /\ Retry(c) /\ UNCHANGED <<lockVars, sockVars, kills>>

(***************************************************************************)
(* A server: execServer() and the end of ProcessServer.main().             *)
(***************************************************************************)

\* A descriptor is closed: the lock is free, unless a process that this server
\* has started (a PR or hash server, a parser) has the file open too.
LetGo(s) ==
    \/ Unlock(s)
    \/ /\ s \in Server /\ pc[s] \in {"cooker", "serving", "unsock", "closing"}
       /\ fd[Leftover] = NoInode /\ HandOver(s, Leftover)

\* A process ends: all it has open is closed.  Its socket file stays.
Die(s, how) ==
    /\ LetGo(s)
    /\ pc' = [pc EXCEPT ![s] = how]
    /\ UNCHANGED sockVars

RemoveStaleSocket(s) ==
    /\ Go(s, "boot", "bind")
    /\ sock' = NoServer
    /\ UNCHANGED <<lockVars, clientVars, ready, kills>>

\* bind() makes the file.  It would fail if there were one.
Bind(s) ==
    /\ sock = NoServer /\ Go(s, "bind", "cooker")
    /\ sock' = s
    /\ UNCHANGED <<lockVars, clientVars, ready, kills>>

\* The configuration may not parse: BBHandledException.  When the client has
\* given up, its end of the pipe is closed and the "r" an exception.
CreateCooker(s) ==
    /\ pc[s] = "cooker"
    /\ \/ /\ \E c \in Client : started[c] = s
          /\ Go(s, "cooker", "serving") /\ ready' = ready \cup {s}
          /\ UNCHANGED <<lockVars, sock>>
       \/ Die(s, "ended")
    /\ UNCHANGED <<clientVars, kills>>

\* The session that follows, in CookerServer, needs no more of this module.
Answer(s) ==
    \E c \in Client :
        /\ pc[s] = "serving" /\ connected[c] = s
        /\ Go(c, "sent", "done")
        /\ connected' = [connected EXCEPT ![c] = NoServer]
        /\ UNCHANGED <<lockVars, retries, tries, started, sockVars, kills>>

\* The main loop ends.
Quit(s) ==
    Go(s, "serving", "unsock") /\ UNCHANGED <<lockVars, clientVars, sockVars, kills>>

\* The file is left alone if it is not the one this server made.
RemoveSocket(s) ==
    /\ Go(s, "unsock", "closing")
    /\ sock' = IF sock = s THEN NoServer ELSE sock
    /\ UNCHANGED <<lockVars, clientVars, ready, kills>>

\* lock.close().
CloseLock(s) ==
    /\ Go(s, "closing", "exists")
    /\ LetGo(s)
    /\ UNCHANGED <<clientVars, sockVars, kills>>

LockfileExists(s) ==
    /\ \/ path # NoInode /\ Go(s, "exists", "open") /\ UNCHANGED lockVars
       \/ path = NoInode /\ pc[s] = "exists" /\ pc' = [pc EXCEPT ![s] = "ended"]
          /\ UNCHANGED lockVars
    /\ UNCHANGED <<clientVars, sockVars, kills>>

ServerOpen(s) ==
    Go(s, "open", "flock") /\ Open(s) /\ UNCHANGED <<clientVars, sockVars, kills>>

\* Refused, the server ends: startswith() is given a list and raises TypeError,
\* whoever has the lock.
ServerFlock(s) ==
    /\ \/ Go(s, "flock", "check") /\ FlockGranted(s)
       \/ Go(s, "flock", "ended") /\ FlockRefused(s)
    /\ UNCHANGED <<clientVars, sockVars, kills>>

ServerCheck(s) ==
    /\ \/ Go(s, "check", "unlink") /\ Verified(s)
       \/ Go(s, "check", "ended") /\ NotVerified(s)
    /\ UNCHANGED <<clientVars, sockVars, kills>>

ServerUnlink(s) ==
    Go(s, "unlink", "unlock") /\ Unlink(s) /\ UNCHANGED <<clientVars, sockVars, kills>>

ServerUnlock(s) ==
    Go(s, "unlock", "ended") /\ Unlock(s) /\ UNCHANGED <<clientVars, sockVars, kills>>

(***************************************************************************)
(* What is outside: kill -9, and the end of a process left behind.         *)
(***************************************************************************)
\* A client that has neither the lock file open nor started a server leaves
\* nothing behind: killed then, it is as one that had less to do.
HasSomething(p) ==
    \/ fd[p] # NoInode
    \/ p \in Client /\ pc[p] = "starting"
    \/ p \in Server /\ pc[p] \notin {"none", "ended", "killed"}

Kill(p) ==
    /\ kills < MaxKills /\ kills' = kills + 1
    /\ HasSomething(p)
    /\ Die(p, "killed")
    /\ started' = [c \in Client |-> IF c = p THEN NoServer ELSE started[c]]
    /\ connected' = [c \in Client |-> IF c = p THEN NoServer ELSE connected[c]]
    /\ UNCHANGED <<retries, tries>>

LeftoverEnds ==
    /\ fd[Leftover] # NoInode
    /\ Unlock(Leftover)
    /\ UNCHANGED <<pc, clientVars, sockVars, kills>>

ClientStep(c) ==
    \/ ClientOpen(c) \/ ClientFlock(c) \/ ClientCheck(c)
    \/ StartServer(c) \/ NotRunning(c) \/ ServerReady(c) \/ ServerNotReady(c)
    \/ LookForSocket(c) \/ ClientUnlink(c) \/ ClientUnlock(c)
    \/ Connect(c) \/ NoAnswer(c)

ServerStep(s) ==
    \/ RemoveStaleSocket(s) \/ Bind(s) \/ CreateCooker(s) \/ Answer(s)
    \/ RemoveSocket(s) \/ CloseLock(s) \/ LockfileExists(s)
    \/ ServerOpen(s) \/ ServerFlock(s) \/ ServerCheck(s)
    \/ ServerUnlink(s) \/ ServerUnlock(s)

Next ==
    \/ \E c \in Client : ClientStep(c)
    \/ \E s \in Server : ServerStep(s) \/ Quit(s)
    \/ \E p \in Client \cup Server : Kill(p)
    \/ LeftoverEnds

\* A client goes on whatever the servers do: it has a time limit for each wait.
Fairness == \A c \in Client : WF_vars(ClientStep(c))

Spec == Init /\ [][Next]_vars /\ Fairness

(***************************************************************************)
(* Properties.                                                             *)
(***************************************************************************)

\* From the start of a server until it lets go of bitbake.lock.
Owns(s) == pc[s] \in {"boot", "bind", "cooker", "serving", "unsock", "closing"}

\* Of the servers of a build directory one at a time has the right to it: it
\* holds the lock of the lock file on disk, which no one else removes under it,
\* whatever others do that exit, wait for the lock or are killed.
OneServer ==
    /\ TypeOK
    /\ GrantedIsCurrent
    /\ \A s \in Server : Owns(s) => s \in granted

\* A server that says it is ready can be connected to until it quits: no other
\* server that starts, ends late or was killed takes its socket away.
Reachable ==
    \A s \in Server : pc[s] = "serving" => sock = s

\* bitbake always comes to an end of its attempts: it is connected, knows that no server runs, or says that it could not connect or start one.
ClientsEnd ==
    \A c \in Client : <>(pc[c] \in {"done", "failed", "killed"})
=============================================================================
