-------------------------- MODULE ServerLockProofs --------------------------
(***************************************************************************)
(* bitbake.lock and bitbake.sock, for any number of clients, servers,      *)
(* retries and kills: one server at a time has the right to the build      *)
(* directory, and a server that is ready can be connected to.              *)
(***************************************************************************)
EXTENDS ServerLock, TLAPS

(***************************************************************************)
(* The lock file alone.                                                    *)
(***************************************************************************)

\* Who has a file locked has it open: no lock outlives its descriptor, and a
\* new file is locked by no one.
LockedIsOpen == \A i \in Inode, p \in Proc : flock[i] = p => fd[p] = i

LockInv == LockTypeOK /\ LockedIsOpen /\ GrantedIsCurrent

(***************************************************************************)
(* What a client or server has in hand where it is.                        *)
(***************************************************************************)

\* Where the lock file is not open.
Without == {"open", "starting", "sock", "connect", "sent", "done", "failed",
            "killed", "none", "exists", "ended"}

\* Where the file is locked and known to be the one on disk.
Within == {"granted", "unlink", "boot", "bind", "cooker", "serving", "unsock",
           "closing"}

InHand ==
    /\ \A p \in Client \cup Server :
        /\ pc[p] \in Without => fd[p] = NoInode
        /\ pc[p] \notin Without => fd[p] \in Inode
        /\ pc[p] = "check" => flock[fd[p]] = p
        /\ p \in granted <=> pc[p] \in Within
    /\ fd[Leftover] = NoInode => Leftover \notin granted
    /\ \A c \in Client : pc[c] # "failed" => retries[c] # 0

\* From bind() to the unlink of its end the socket of the server is there.
SocketIsThere ==
    \A s \in Server : pc[s] \in {"cooker", "serving", "unsock"} => sock = s

\* The inductive invariant.
IInv == TypeOK /\ LockInv /\ InHand /\ SocketIsThere

(***************************************************************************)
(* Each operation of lockfile() and unlockfile() keeps LockInv.  They are  *)
(* all that happens to the lock file.                                      *)
(***************************************************************************)

LEMMA LockInitInv == LockInit => LockInv
  BY ProcAssumption DEF LockInit, LockInv, LockTypeOK, LockedIsOpen,
                        GrantedIsCurrent

\* Whoever has been returned the file is alone in that.
LEMMA GrantedAlone ==
    ASSUME LockInv, NEW p \in granted, NEW q \in granted
    PROVE  p = q
  BY DEF LockInv, GrantedIsCurrent

\* A file that is made is locked by no one.
LEMMA OpenInv ==
    ASSUME LockInv, NEW p \in Proc, fd[p] = NoInode, Open(p)
    PROVE  LockInv' /\ fd' = [fd EXCEPT ![p] = path'] /\ path' \in Inode
<1>1. fd' = [fd EXCEPT ![p] = path'] /\ UNCHANGED <<flock, granted>>
  BY DEF Open
<1>2. CASE path # NoInode /\ UNCHANGED path
  BY <1>1, <1>2, InodeAssumption, ProcAssumption
  DEF LockInv, LockTypeOK, LockedIsOpen, GrantedIsCurrent
<1>3. CASE path = NoInode /\ path' \in FreeInodes
  <2>1. path' \in Inode /\ \A q \in Proc : fd[q] # path'
    BY <1>3 DEF FreeInodes
  <2>2. granted = {}
    BY <1>3, InodeAssumption DEF LockInv, GrantedIsCurrent
  <2>3. LockTypeOK'
    BY <1>1, <2>1 DEF LockInv, LockTypeOK
  <2>4. LockedIsOpen'
    BY <1>1, <2>1, InodeAssumption DEF LockInv, LockTypeOK, LockedIsOpen
  <2> QED
    BY <1>1, <2>1, <2>2, <2>3, <2>4 DEF LockInv, GrantedIsCurrent
<1> QED
  BY <1>1, <1>2, <1>3 DEF Open

LEMMA FlockGrantedInv ==
    ASSUME LockInv, NEW p \in Proc, fd[p] \in Inode, FlockGranted(p)
    PROVE  LockInv'
<1>1. LockTypeOK' /\ LockedIsOpen'
  BY ProcAssumption DEF LockInv, LockTypeOK, LockedIsOpen, FlockGranted
<1>2. \A q \in granted : path # fd[p]
  BY ProcAssumption DEF LockInv, LockTypeOK, GrantedIsCurrent, FlockGranted
<1> QED
  BY <1>1, <1>2 DEF LockInv, GrantedIsCurrent, FlockGranted, LockTypeOK

LEMMA CloseInv ==
    ASSUME LockInv, NEW p \in Proc, Close(p), UNCHANGED path
    PROVE  LockInv'
<1>1. LockTypeOK'
  BY DEF LockInv, LockTypeOK, Close, Unlocked
<1>2. LockedIsOpen'
  BY ProcAssumption DEF LockInv, LockTypeOK, LockedIsOpen, Close, Unlocked
<1>3. GrantedIsCurrent'
  BY DEF LockInv, LockTypeOK, GrantedIsCurrent, Close, Unlocked
<1> QED
  BY <1>1, <1>2, <1>3 DEF LockInv

\* The file may have been removed and made again between open() and flock():
\* what is returned is the one on disk.
LEMMA VerifiedInv ==
    ASSUME LockInv, NEW p \in Proc, fd[p] \in Inode, flock[fd[p]] = p, Verified(p)
    PROVE  LockInv'
  BY DEF LockInv, LockTypeOK, LockedIsOpen, GrantedIsCurrent, Verified, SameFile

\* Whoever removes the file was the only one it was returned to.
LEMMA UnlinkInv ==
    ASSUME LockInv, NEW p \in Proc, p \in granted, Unlink(p)
    PROVE  LockInv' /\ granted' = {}
<1>1. granted' = {}
  BY GrantedAlone DEF Unlink
<1> QED
  BY <1>1 DEF LockInv, LockTypeOK, LockedIsOpen, GrantedIsCurrent, Unlink

LEMMA HandOverInv ==
    ASSUME LockInv, NEW p \in Proc, NEW q \in Proc, p \in granted,
           p # q, fd[q] = NoInode, HandOver(p, q)
    PROVE  LockInv' /\ granted' = {q}
<1>1. granted' = {q}
  BY GrantedAlone DEF HandOver
<1>2. LockTypeOK'
  BY <1>1 DEF LockInv, LockTypeOK, HandOver
<1>3. LockedIsOpen'
  BY ProcAssumption, InodeAssumption
  DEF LockInv, LockTypeOK, LockedIsOpen, HandOver
<1>4. GrantedIsCurrent'
  BY <1>1 DEF LockInv, LockTypeOK, GrantedIsCurrent, HandOver
<1> QED
  BY <1>1, <1>2, <1>3, <1>4 DEF LockInv

(***************************************************************************)
(* Clients.                                                                *)
(***************************************************************************)

\* Nothing is done to the lock file.
LEMMA LockUnchanged == LockInv /\ UNCHANGED lockVars => LockInv'
  BY DEF LockInv, LockTypeOK, LockedIsOpen, GrantedIsCurrent, lockVars

\* Who goes where and who has what, spelt out for the provers.
LEMMA Typing ==
    ASSUME IInv
    PROVE  /\ \A p \in Client \cup Server : p \in Proc /\ p # Leftover
           /\ Leftover \in Proc
           /\ \A c \in Client : c \notin Server
           /\ \A c \in Client : retries[c] - 1 \in 0..Retries \/ pc[c] = "failed"
           /\ 0 \in 0..Patience /\ 1 \in 0..Patience
           /\ NoProc \notin Proc /\ NoInode \notin Inode
  BY ServerLockAssumption, ProcAssumption, InodeAssumption
  DEF IInv, TypeOK, InHand

LEMMA RetryType ==
    ASSUME IInv, NEW c \in Client, pc[c] # "failed", Retry(c)
    PROVE  /\ retries' \in [Client -> 0..Retries]
           /\ tries' \in [Client -> 0..Patience]
           /\ started' \in [Client -> Server \cup {NoServer}]
           /\ connected' \in [Client -> Server \cup {NoServer}]
           /\ pc' \in [Client \cup Server -> ClientAt \cup ServerAt]
           /\ \A d \in Client : pc'[d] # "failed" => retries'[d] # 0
           /\ \E w \in {"open", "failed"} : pc' = [pc EXCEPT ![c] = w]
<1>1. retries[c] \in 1..Retries /\ retries[c] - 1 \in 0..Retries
  BY ServerLockAssumption DEF IInv, TypeOK, InHand
<1>2. /\ retries' \in [Client -> 0..Retries]
      /\ tries' \in [Client -> 0..Patience]
      /\ started' \in [Client -> Server \cup {NoServer}]
      /\ connected' \in [Client -> Server \cup {NoServer}]
  BY <1>1, Typing DEF IInv, TypeOK, Retry
<1>3. PICK w \in {"open", "failed"} :
          pc' = [pc EXCEPT ![c] = w] /\ (w = "failed" <=> retries[c] = 1)
  BY DEF Retry
<1>4. \A d \in Client : pc'[d] # "failed" => retries'[d] # 0
  BY <1>1, <1>3 DEF IInv, TypeOK, InHand, Retry
<1>5. w \in ClientAt /\ pc \in [Client \cup Server -> ClientAt \cup ServerAt]
  BY <1>3 DEF IInv, TypeOK, ClientAt
<1>6. pc' \in [Client \cup Server -> ClientAt \cup ServerAt]
  BY <1>3, <1>5
<1>7. \E v \in {"open", "failed"} : pc' = [pc EXCEPT ![c] = v]
  BY <1>3
<1> QED
  BY <1>2, <1>4, <1>6, <1>7

LEMMA NoLockType ==
    ASSUME IInv, NEW c \in Client, pc[c] # "failed", NoLock(c)
    PROVE  /\ retries' \in [Client -> 0..Retries]
           /\ tries' \in [Client -> 0..Patience]
           /\ started' \in [Client -> Server \cup {NoServer}]
           /\ connected' \in [Client -> Server \cup {NoServer}]
           /\ pc' \in [Client \cup Server -> ClientAt \cup ServerAt]
           /\ \A d \in Client : pc'[d] # "failed" => retries'[d] # 0
           /\ \E w \in {"open", "failed", "sock"} : pc' = [pc EXCEPT ![c] = w]
<1>1. CASE tries[c] = 0 /\ pc' = [pc EXCEPT ![c] = "sock"] /\ UNCHANGED clientVars
  BY <1>1 DEF IInv, TypeOK, InHand, ClientAt, clientVars
<1>2. CASE /\ tries[c] \in 1..(Patience - 1)
           /\ tries' = [tries EXCEPT ![c] = @ + 1]
           /\ pc' = [pc EXCEPT ![c] = "open"]
           /\ UNCHANGED <<retries, started, connected>>
  <2>1. tries[c] + 1 \in 0..Patience
    BY <1>2, ServerLockAssumption
  <2> QED
    BY <1>2, <2>1 DEF IInv, TypeOK, InHand, ClientAt
<1>3. CASE tries[c] = Patience /\ Retry(c)
  BY <1>3, RetryType
<1> QED
  BY <1>1, <1>2, <1>3 DEF NoLock

\* A process goes on without the lock file, or with it: all that InHand says of
\* it has to be shown, and nothing of the others.
LEMMA OneGoes ==
    ASSUME IInv, LockInv', NEW p \in Client \cup Server, NEW w,
           pc' = [pc EXCEPT ![p] = w],
           \A q \in Proc : q # p => fd'[q] = fd[q] /\ (q \in granted' <=> q \in granted),
           \A q \in Proc : q # p /\ fd[q] \in Inode
                => (flock[fd[q]] = q => flock'[fd[q]] = q),
           w \in Without => fd'[p] = NoInode,
           w \notin Without => fd'[p] \in Inode,
           w = "check" => flock'[fd'[p]] = p,
           p \in granted' <=> w \in Within,
           \A c \in Client : pc'[c] # "failed" => retries'[c] # 0
    PROVE  InHand'
<1>1. ASSUME NEW q \in Client \cup Server
      PROVE  /\ pc'[q] \in Without => fd'[q] = NoInode
             /\ pc'[q] \notin Without => fd'[q] \in Inode
             /\ pc'[q] = "check" => flock'[fd'[q]] = q
             /\ q \in granted' <=> pc'[q] \in Within
  <2>1. CASE q = p
    BY <2>1 DEF IInv, TypeOK
  <2>2. CASE q # p
    <3>1. q \in Proc /\ pc'[q] = pc[q]
      BY <2>2, Typing DEF IInv, TypeOK
    <3>2. pc[q] = "check" => fd[q] \in Inode
      BY DEF IInv, InHand, Without
    <3> QED
      BY <2>2, <3>1, <3>2 DEF IInv, InHand
  <2> QED
    BY <2>1, <2>2
<1>2. fd'[Leftover] = NoInode => Leftover \notin granted'
  BY Typing DEF IInv, InHand
<1> QED
  BY <1>1, <1>2 DEF InHand

\* A process goes on after it has closed the file, or without having it.
LEMMA OneCloses ==
    ASSUME IInv, LockInv', NEW p \in Client \cup Server, NEW w \in Without,
           pc' = [pc EXCEPT ![p] = w], Close(p),
           \A c \in Client : pc'[c] # "failed" => retries'[c] # 0
    PROVE  InHand'
<1>1. w \notin Within /\ w # "check"
  BY DEF Without, Within
<1>2. \A q \in Proc : q # p /\ fd[q] \in Inode
          => (flock[fd[q]] = q => flock'[fd[q]] = q)
  BY DEF Close, Unlocked
<1>3. \A q \in Proc : q # p => fd'[q] = fd[q] /\ (q \in granted' <=> q \in granted)
  BY DEF IInv, LockInv, LockTypeOK, Close
<1>4. fd'[p] = NoInode /\ p \notin granted'
  BY Typing DEF IInv, LockInv, LockTypeOK, Close
<1> QED
  BY <1>1, <1>2, <1>3, <1>4, OneGoes

LEMMA OneElse ==
    ASSUME IInv, NEW p \in Client \cup Server, NEW w,
           pc' = [pc EXCEPT ![p] = w], UNCHANGED lockVars,
           w \in Without <=> pc[p] \in Without, w \in Within <=> pc[p] \in Within,
           w # "check",
           \A c \in Client : pc'[c] # "failed" => retries'[c] # 0
    PROVE  InHand'
<1>1. LockInv'
  BY LockUnchanged DEF IInv
<1>2. w \in Without => fd'[p] = NoInode
  BY DEF IInv, InHand, lockVars
<1>3. w \notin Without => fd'[p] \in Inode
  BY DEF IInv, InHand, lockVars
<1>4. p \in granted' <=> w \in Within
  BY DEF IInv, InHand, lockVars
<1> QED
  BY <1>1, <1>2, <1>3, <1>4, OneGoes DEF lockVars

\* lockfile() and unlockfile() step by step, by a client or a server.
LEMMA OpenHand ==
    ASSUME IInv, NEW p \in Client \cup Server, Go(p, "open", "flock"), Open(p),
           UNCHANGED retries
    PROVE  LockInv' /\ InHand'
<1>1. fd[p] = NoInode /\ p \notin granted /\ pc' = [pc EXCEPT ![p] = "flock"]
      /\ UNCHANGED <<granted, flock>>
  BY DEF Go, Open, IInv, InHand, Without, Within
<1>2. LockInv' /\ fd' = [fd EXCEPT ![p] = path'] /\ path' \in Inode
  BY <1>1, OpenInv, Typing DEF IInv
<1>3. "flock" \notin Without \cup Within
  BY DEF Without, Within
<1>4. fd'[p] \in Inode /\ \A q \in Proc : q # p => fd'[q] = fd[q]
  BY <1>2, Typing DEF IInv, LockInv, LockTypeOK
<1>5. \A d \in Client : pc'[d] # "failed" => retries'[d] # 0
  BY <1>1 DEF Go, IInv, InHand, TypeOK
<1> QED
  BY <1>1, <1>2, <1>3, <1>4, <1>5, OneGoes

LEMMA FlockHand ==
    ASSUME IInv, NEW p \in Client \cup Server, Go(p, "flock", "check"),
           FlockGranted(p), UNCHANGED retries
    PROVE  LockInv' /\ InHand'
<1>1. fd[p] \in Inode /\ pc' = [pc EXCEPT ![p] = "check"] /\ p \notin granted
  BY DEF Go, IInv, InHand, Without, Within
<1>2. LockInv'
  BY <1>1, FlockGrantedInv, Typing DEF IInv
<1> QED
  BY <1>1, <1>2, OneGoes, Typing
  DEF Go, IInv, InHand, LockInv, LockTypeOK, FlockGranted, Without, Within

LEMMA CheckHand ==
    ASSUME IInv, NEW p \in Client \cup Server, NEW w \in Within,
           Go(p, "check", w), Verified(p), UNCHANGED retries
    PROVE  LockInv' /\ InHand'
<1>1. fd[p] \in Inode /\ flock[fd[p]] = p /\ pc' = [pc EXCEPT ![p] = w]
  BY DEF Go, IInv, InHand, Without
<1>2. LockInv'
  BY <1>1, VerifiedInv, Typing DEF IInv
<1>3. w \notin Without /\ w # "check"
  BY DEF Without, Within
<1>4. fd' = fd /\ flock' = flock /\ granted' = granted \cup {p}
  BY DEF Verified
<1>5. \A d \in Client : pc'[d] # "failed" => retries'[d] # 0
  BY <1>1 DEF Go, IInv, InHand, TypeOK
<1> QED
  BY <1>1, <1>2, <1>3, <1>4, <1>5, OneGoes

LEMMA UnlinkHand ==
    ASSUME IInv, NEW p \in Client \cup Server, Go(p, "unlink", "unlock"),
           Unlink(p), UNCHANGED retries
    PROVE  LockInv' /\ InHand'
<1>1. p \in granted /\ fd[p] \in Inode /\ pc' = [pc EXCEPT ![p] = "unlock"]
  BY DEF Go, IInv, InHand, Without, Within
<1>2. LockInv' /\ granted' = {}
  BY <1>1, UnlinkInv, Typing DEF IInv
<1>3. \A q \in Proc : q # p => q \notin granted
  BY <1>1, GrantedAlone DEF IInv
<1>4. \A d \in Client : pc'[d] # "failed" => retries'[d] # 0
  BY <1>1 DEF Go, IInv, InHand, TypeOK
<1>5. "unlock" \notin Without \cup Within
  BY DEF Without, Within
<1>6. fd' = fd /\ flock' = flock /\ p \notin granted'
  BY <1>2 DEF Unlink
<1>7. /\ \A q \in Proc : q # p => fd'[q] = fd[q] /\ (q \in granted' <=> q \in granted)
      /\ \A q \in Proc : q # p /\ fd[q] \in Inode
             => (flock[fd[q]] = q => flock'[fd[q]] = q)
      /\ fd'[p] \in Inode
  BY <1>1, <1>2, <1>3, <1>6
<1> QED
  BY <1>1, <1>2, <1>4, <1>5, <1>6, <1>7, OneGoes

\* No step of a client reaches the socket.
LEMMA SocketUntouched ==
    ASSUME IInv, UNCHANGED sock, \A s \in Server : pc'[s] = pc[s] \/ pc'[s] = "boot"
    PROVE  SocketIsThere'
  BY DEF IInv, SocketIsThere

LEMMA ClientAlone ==
    ASSUME IInv, NEW c \in Client, NEW w \in ClientAt, pc' = [pc EXCEPT ![c] = w]
    PROVE  /\ \A s \in Server : pc'[s] = pc[s]
           /\ pc'[c] = w
           /\ \A d \in Client : pc'[d] \in ClientAt
           /\ \A s \in Server : pc'[s] \in ServerAt
           /\ pc' \in [Client \cup Server -> ClientAt \cup ServerAt]
  BY Typing DEF IInv, TypeOK

LEMMA ClientLockSteps ==
    ASSUME IInv, NEW c \in Client,
           ClientOpen(c) \/ ClientFlock(c) \/ ClientCheck(c) \/ NotRunning(c)
             \/ ClientUnlink(c) \/ ClientUnlock(c)
    PROVE  IInv'
<1>1. CASE ClientOpen(c)
  <2>1. pc' = [pc EXCEPT ![c] = "flock"] /\ UNCHANGED <<clientVars, sockVars, kills>>
    BY <1>1 DEF ClientOpen, Go
  <2>2. LockInv' /\ InHand'
    BY <1>1, OpenHand DEF ClientOpen, clientVars
  <2>3. TypeOK' /\ SocketIsThere'
    BY <2>1, <2>2, ClientAlone, SocketUntouched
    DEF IInv, TypeOK, LockInv, clientVars, sockVars, ClientAt
  <2> QED
    BY <2>2, <2>3 DEF IInv
<1>2. CASE Go(c, "flock", "check") /\ FlockGranted(c)
           /\ UNCHANGED <<clientVars, sockVars, kills>>
  <2>1. pc' = [pc EXCEPT ![c] = "check"]
    BY <1>2 DEF Go
  <2>2. LockInv' /\ InHand'
    BY <1>2, FlockHand DEF clientVars
  <2>3. TypeOK' /\ SocketIsThere'
    BY <1>2, <2>1, <2>2, ClientAlone, SocketUntouched
    DEF IInv, TypeOK, LockInv, clientVars, sockVars, ClientAt
  <2> QED
    BY <2>2, <2>3 DEF IInv
\* The file is closed, and the client sees what else there is to do.
<1>3. CASE /\ pc[c] \in {"flock", "check"} /\ NoLock(c) /\ Close(c)
           /\ UNCHANGED <<path, sockVars, kills>>
  <2>1. LockInv' /\ fd' = [fd EXCEPT ![c] = NoInode] /\ granted' = granted \ {c}
    BY <1>3, CloseInv, Typing DEF IInv, Close
  <2>2. PICK w \in {"open", "failed", "sock"} : pc' = [pc EXCEPT ![c] = w]
    BY <1>3, NoLockType
  <2>3. w \in ClientAt /\ w \in Without
    BY <2>2 DEF ClientAt, Without
  <2>4. TypeOK'
    BY <1>3, <2>1, <2>2, <2>3, NoLockType, ClientAlone
    DEF IInv, TypeOK, LockInv, sockVars
  <2>5. SocketIsThere'
    BY <1>3, <2>2, <2>3, ClientAlone, SocketUntouched DEF sockVars
  <2>6. \A d \in Client : pc'[d] # "failed" => retries'[d] # 0
    BY <1>3, NoLockType
  <2>7. InHand'
    BY <1>3, <2>1, <2>2, <2>3, <2>6, OneCloses
  <2> QED
    BY <2>1, <2>4, <2>5, <2>7 DEF IInv
<1>4. CASE Verified(c) /\ UNCHANGED <<clientVars, sockVars, kills>>
           /\ Go(c, "check", IF tries[c] = 0 THEN "granted" ELSE "unlink")
  <2>1. PICK w \in {"granted", "unlink"} : Go(c, "check", w)
    BY <1>4
  <2>2. w \in ClientAt /\ w \in Within
    BY <2>1 DEF ClientAt, Within
  <2>3. LockInv' /\ InHand'
    BY <1>4, <2>1, <2>2, CheckHand DEF clientVars
  <2>4. TypeOK' /\ SocketIsThere'
    BY <1>4, <2>1, <2>2, <2>3, ClientAlone, SocketUntouched
    DEF IInv, TypeOK, LockInv, clientVars, sockVars, Go
  <2> QED
    BY <2>3, <2>4 DEF IInv
<1>5. CASE NotRunning(c)
  <2>1. LockInv' /\ fd' = [fd EXCEPT ![c] = NoInode] /\ granted' = granted \ {c}
    BY <1>5, CloseInv, Typing DEF IInv, Close, NotRunning, Unlock
  <2>2. pc' = [pc EXCEPT ![c] = "done"] /\ UNCHANGED <<clientVars, sockVars, kills>>
    BY <1>5 DEF NotRunning, Go
  <2>3. TypeOK' /\ SocketIsThere'
    BY <2>1, <2>2, ClientAlone, SocketUntouched
    DEF IInv, TypeOK, LockInv, clientVars, sockVars, ClientAt
  <2>4. \A d \in Client : pc'[d] # "failed" => retries'[d] # 0
    BY <1>5, <2>2 DEF NotRunning, Go, IInv, InHand, TypeOK, clientVars
  <2>5. "done" \in Without /\ Close(c)
    BY <1>5 DEF Without, NotRunning, Unlock
  <2>6. InHand'
    BY <2>1, <2>2, <2>4, <2>5, OneCloses
  <2> QED
    BY <2>1, <2>3, <2>6 DEF IInv
<1>6. CASE ClientUnlink(c)
  <2>1. pc' = [pc EXCEPT ![c] = "unlock"] /\ UNCHANGED <<clientVars, sockVars, kills>>
    BY <1>6 DEF ClientUnlink, Go
  <2>2. LockInv' /\ InHand'
    BY <1>6, UnlinkHand DEF ClientUnlink, clientVars
  <2>3. TypeOK' /\ SocketIsThere'
    BY <2>1, <2>2, ClientAlone, SocketUntouched
    DEF IInv, TypeOK, LockInv, clientVars, sockVars, ClientAt
  <2> QED
    BY <2>2, <2>3 DEF IInv
<1>7. CASE ClientUnlock(c)
  <2>1. LockInv' /\ fd' = [fd EXCEPT ![c] = NoInode] /\ granted' = granted \ {c}
    BY <1>7, CloseInv, Typing DEF IInv, Close, ClientUnlock, Unlock
  <2>2. pc[c] # "failed" /\ Retry(c) /\ UNCHANGED <<sockVars, kills>>
    BY <1>7 DEF ClientUnlock
  <2>3. PICK w \in {"open", "failed"} : pc' = [pc EXCEPT ![c] = w]
    BY <2>2, RetryType
  <2>4. w \in ClientAt /\ w \in Without
    BY <2>3 DEF ClientAt, Without
  <2>5. TypeOK'
    BY <2>1, <2>2, <2>3, <2>4, RetryType, ClientAlone
    DEF IInv, TypeOK, LockInv, sockVars
  <2>6. SocketIsThere'
    BY <2>2, <2>3, <2>4, ClientAlone, SocketUntouched DEF sockVars
  <2>7. InHand'
    BY <1>7, <2>1, <2>2, <2>3, <2>4, OneCloses, RetryType
    DEF ClientUnlock, Unlock
  <2> QED
    BY <2>1, <2>5, <2>6, <2>7 DEF IInv
<1> QED
  BY <1>1, <1>2, <1>3, <1>4, <1>5, <1>6, <1>7
  DEF ClientFlock, ClientCheck, FlockRefused, NotVerified, Go

\* The steps of a client between its uses of the lock file.
LEMMA ClientOtherSteps ==
    ASSUME IInv, NEW c \in Client,
           ServerReady(c) \/ ServerNotReady(c) \/ LookForSocket(c) \/ Connect(c)
             \/ NoAnswer(c)
    PROVE  IInv'
<1>1. UNCHANGED <<lockVars, sock, kills>> /\ ready' \subseteq ready
  BY DEF ServerReady, ServerNotReady, LookForSocket, Connect, NoAnswer, sockVars
<1>2. LockInv'
  BY <1>1, LockUnchanged DEF IInv
<1>3. pc[c] \in {"starting", "sock", "connect", "sent"}
  BY DEF ServerReady, ServerNotReady, LookForSocket, Connect, NoAnswer, Go
\* What is to be shown of the client.
<1> DEFINE Fine ==
        /\ retries' \in [Client -> 0..Retries]
        /\ tries' \in [Client -> 0..Patience]
        /\ started' \in [Client -> Server \cup {NoServer}]
        /\ connected' \in [Client -> Server \cup {NoServer}]
        /\ \A d \in Client : pc'[d] # "failed" => retries'[d] # 0
        /\ \E w \in {"open", "failed", "connect", "sent"} : pc' = [pc EXCEPT ![c] = w]
<1>4. ASSUME Retry(c) PROVE Fine
  <2>1. \E w \in {"open", "failed", "connect", "sent"} : pc' = [pc EXCEPT ![c] = w]
    BY <1>3, <1>4, RetryType
  <2> QED
    BY <1>3, <1>4, <2>1, RetryType
<1>5. ASSUME ServerReady(c) PROVE Fine
  BY <1>5 DEF ServerReady, Go, IInv, TypeOK, InHand
<1>6. ASSUME LookForSocket(c) PROVE Fine
  <2>1. retries' = retries /\ started' = started /\ connected' = connected
        /\ tries' \in [Client -> 0..Patience]
    BY <1>6, Typing DEF LookForSocket, IInv, TypeOK
  <2>2. PICK w \in {"connect", "open"} : pc' = [pc EXCEPT ![c] = w]
    BY <1>6 DEF LookForSocket, Go
  <2>3. \A d \in Client : pc'[d] # "failed" => retries'[d] # 0
    BY <1>3, <2>1, <2>2 DEF IInv, InHand, TypeOK
  <2>4. \E v \in {"open", "failed", "connect", "sent"} : pc' = [pc EXCEPT ![c] = v]
    BY <2>2
  <2> QED
    BY <2>1, <2>3, <2>4 DEF IInv, TypeOK
<1>7. ASSUME Connect(c) /\ ~Retry(c) PROVE Fine
  BY <1>7 DEF Connect, Go, IInv, TypeOK, InHand
<1>8. Fine
  BY <1>4, <1>5, <1>6, <1>7 DEF ServerNotReady, NoAnswer
<1> HIDE DEF Fine
<1>9. PICK w \in {"open", "failed", "connect", "sent"} : pc' = [pc EXCEPT ![c] = w]
  BY <1>8 DEF Fine
<1>10. w \in ClientAt /\ w \in Without /\ w \notin Within /\ w # "check"
  BY DEF ClientAt, Without, Within
<1>11. pc[c] \in Without /\ pc[c] \notin Within
  BY <1>3 DEF Without, Within
<1>12. TypeOK'
  BY <1>1, <1>2, <1>8, <1>9, <1>10, ClientAlone DEF Fine, IInv, TypeOK, LockInv
<1>13. SocketIsThere'
  BY <1>1, <1>9, <1>10, ClientAlone, SocketUntouched
<1>14. InHand'
  BY <1>1, <1>8, <1>9, <1>10, <1>11, OneElse DEF Fine
<1> QED
  BY <1>2, <1>12, <1>13, <1>14 DEF IInv

\* A server is started with the lock of its client.
LEMMA StartServerInv ==
    ASSUME IInv, NEW c \in Client, StartServer(c)
    PROVE  IInv'
<1>1. PICK s \in Server : /\ pc[s] = "none" /\ pc[c] = "granted"
                          /\ pc' = [pc EXCEPT ![c] = "starting", ![s] = "boot"]
                          /\ HandOver(c, s)
                          /\ started' = [started EXCEPT ![c] = s]
                          /\ UNCHANGED <<retries, tries, connected, sockVars, kills>>
  BY DEF StartServer
<1>2. c # s /\ c \in granted /\ fd[s] = NoInode
  BY <1>1, Typing DEF IInv, InHand, Without, Within
<1>3. LockInv' /\ granted' = {s}
  BY <1>1, <1>2, HandOverInv, Typing DEF IInv
<1>4. "starting" \in ClientAt /\ "boot" \in ServerAt
      /\ "starting" \in Without /\ "boot" \notin Without /\ "boot" \in Within
      /\ "starting" \notin Within
  BY DEF ClientAt, ServerAt, Without, Within
<1>5. /\ pc' \in [Client \cup Server -> ClientAt \cup ServerAt]
      /\ pc'[c] = "starting" /\ pc'[s] = "boot"
      /\ \A q \in Client \cup Server : q # c /\ q # s => pc'[q] = pc[q]
  BY <1>1, <1>2, <1>4 DEF IInv, TypeOK
<1>6. TypeOK'
  BY <1>1, <1>3, <1>4, <1>5, Typing DEF IInv, TypeOK, LockInv, sockVars
<1>7. SocketIsThere'
  BY <1>1, <1>5, Typing DEF IInv, SocketIsThere, sockVars
<1>8. \A q \in Proc : q # c => q \notin granted
  BY <1>2, GrantedAlone DEF IInv
<1>9. InHand'
  <2>1. fd[c] \in Inode
    BY <1>1 DEF IInv, InHand, Without
  <2>2. /\ fd'[c] = NoInode /\ fd'[s] = fd[c]
        /\ \A q \in Proc : q # c /\ q # s => fd'[q] = fd[q]
    BY <1>1, <1>2, Typing DEF HandOver, IInv, LockInv, LockTypeOK
  <2>3. \A q \in Proc : q # c /\ fd[q] \in Inode
            => (flock[fd[q]] = q => flock'[fd[q]] = q)
    BY <1>1 DEF HandOver
  <2>4. ASSUME NEW q \in Client \cup Server
        PROVE  /\ pc'[q] \in Without => fd'[q] = NoInode
               /\ pc'[q] \notin Without => fd'[q] \in Inode
               /\ pc'[q] = "check" => flock'[fd'[q]] = q
               /\ q \in granted' <=> pc'[q] \in Within
    <3>1. CASE q = c
      BY <3>1, <1>2, <1>3, <1>4, <1>5, <2>2
    <3>2. CASE q = s
      BY <3>2, <1>2, <1>3, <1>4, <1>5, <2>1, <2>2
    <3>3. CASE q # c /\ q # s
      <4>1. pc'[q] = pc[q] /\ fd'[q] = fd[q] /\ q \notin granted /\ q \notin granted'
        BY <3>3, <1>3, <1>5, <1>8, <2>2, Typing
      <4>2. pc[q] = "check" => fd[q] \in Inode
        BY DEF IInv, InHand, Without
      <4> QED
        BY <3>3, <4>1, <4>2, <2>3, Typing DEF IInv, InHand
    <3> QED
      BY <3>1, <3>2, <3>3
  <2>5. Leftover \notin granted'
    BY <1>3, Typing
  <2>6. \A d \in Client : pc'[d] # "failed" => retries'[d] # 0
    BY <1>1, <1>5, Typing DEF IInv, InHand
  <2> QED
    BY <2>4, <2>5, <2>6 DEF InHand
<1> QED
  BY <1>3, <1>6, <1>7, <1>9 DEF IInv

LEMMA ClientStepInv ==
    ASSUME IInv, NEW c \in Client, ClientStep(c)
    PROVE  IInv'
  BY ClientLockSteps, ClientOtherSteps, StartServerInv DEF ClientStep

(***************************************************************************)
(* Servers.                                                                *)
(***************************************************************************)

\* There is one server at a time between its start and its end.
LEMMA OwnerAlone ==
    ASSUME IInv, NEW s \in Server, NEW t \in Server,
           pc[s] \in Within, pc[t] \in Within
    PROVE  s = t
<1>1. s \in granted /\ t \in granted
  BY DEF IInv, InHand
<1> QED
  BY <1>1, GrantedAlone DEF IInv

LEMMA ServerAlone ==
    ASSUME IInv, NEW s \in Server, NEW w \in ServerAt, pc' = [pc EXCEPT ![s] = w]
    PROVE  /\ \A d \in Client : pc'[d] = pc[d]
           /\ pc'[s] = w
           /\ \A t \in Server : t # s => pc'[t] = pc[t]
           /\ \A t \in Server : pc'[t] \in ServerAt
           /\ pc' \in [Client \cup Server -> ClientAt \cup ServerAt]
  BY Typing DEF IInv, TypeOK

\* A server that leaves the socket alone, and is none that has one.
LEMMA SocketLeft ==
    ASSUME IInv, UNCHANGED sock, NEW p \in Client \cup Server, NEW w,
           w \notin {"cooker", "serving", "unsock"} \/ pc[p] \in {"cooker", "serving"},
           pc' = [pc EXCEPT ![p] = w]
    PROVE  SocketIsThere'
  BY DEF IInv, SocketIsThere, TypeOK

\* Only the server that has the lock does anything to the socket.
LEMMA ServerSocketSteps ==
    ASSUME IInv, NEW s \in Server,
           RemoveStaleSocket(s) \/ Bind(s) \/ RemoveSocket(s)
    PROVE  IInv'
<1>1. UNCHANGED <<lockVars, clientVars, ready, kills>>
      /\ sock' \in Server \cup {NoServer}
  BY DEF RemoveStaleSocket, Bind, RemoveSocket, IInv, TypeOK
<1>2. PICK w \in {"bind", "cooker", "closing"} :
          /\ pc' = [pc EXCEPT ![s] = w]
          /\ w = "cooker" => sock' = s
  BY DEF RemoveStaleSocket, Bind, RemoveSocket, Go
<1>3. pc[s] \in Within /\ pc[s] \notin Without
  BY DEF RemoveStaleSocket, Bind, RemoveSocket, Go, Within, Without
<1>4. w \in ServerAt /\ w \in Within /\ w \notin Without /\ w # "check"
  BY DEF ServerAt, Within, Without
<1>5. LockInv'
  BY <1>1, LockUnchanged DEF IInv
<1>6. TypeOK'
  BY <1>1, <1>2, <1>4, <1>5, ServerAlone DEF IInv, TypeOK, LockInv, clientVars
<1>7. SocketIsThere'
  <2> SUFFICES ASSUME NEW t \in Server, pc'[t] \in {"cooker", "serving", "unsock"}
               PROVE  sock' = t
    BY DEF SocketIsThere
  <2>1. CASE t = s
    BY <2>1, <1>2, <1>4, ServerAlone
  <2>2. CASE t # s
    <3>1. pc[t] \in Within
      BY <2>2, <1>2, <1>4, ServerAlone DEF Within
    <3> QED
      BY <2>2, <3>1, <1>3, OwnerAlone
  <2> QED
    BY <2>1, <2>2
<1>8. \A d \in Client : pc'[d] # "failed" => retries'[d] # 0
  BY <1>1, <1>2, <1>4, ServerAlone DEF IInv, InHand, clientVars
<1>9. InHand'
  BY <1>1, <1>2, <1>3, <1>4, <1>8, OneElse
<1> QED
  BY <1>5, <1>6, <1>7, <1>9 DEF IInv

\* A server goes on, and nothing else happens.
LEMMA ServerGoes ==
    ASSUME IInv, NEW s \in Server, NEW w \in ServerAt, pc' = [pc EXCEPT ![s] = w],
           UNCHANGED <<lockVars, clientVars, sock, kills>>, ready' \subseteq Server,
           w \in Without <=> pc[s] \in Without, w \in Within <=> pc[s] \in Within,
           w # "check",
           w \notin {"cooker", "serving", "unsock"} \/ pc[s] \in {"cooker", "serving"}
    PROVE  IInv'
<1>1. LockInv'
  BY LockUnchanged DEF IInv
<1>2. TypeOK'
  BY <1>1, ServerAlone DEF IInv, TypeOK, LockInv, clientVars
<1>3. \A d \in Client : pc'[d] # "failed" => retries'[d] # 0
  BY ServerAlone DEF IInv, InHand, clientVars
<1>4. InHand'
  BY <1>3, OneElse
<1> QED
  BY <1>1, <1>2, <1>4, SocketLeft DEF IInv

\* A server or client is left with nothing, or a client that was killed.
LEMMA ProcessEnds ==
    ASSUME IInv, NEW p \in Client \cup Server, NEW w \in {"ended", "killed"},
           w = "killed" \/ p \in Server,
           pc' = [pc EXCEPT ![p] = w], Close(p), UNCHANGED path,
           UNCHANGED <<retries, tries, sockVars>>, kills' \in 0..MaxKills,
           started' \in [Client -> Server \cup {NoServer}],
           connected' \in [Client -> Server \cup {NoServer}],
           p \in Client => pc[p] # "failed"
    PROVE  IInv'
<1>1. LockInv'
  BY CloseInv, Typing DEF IInv
<1>2. /\ pc' \in [Client \cup Server -> ClientAt \cup ServerAt]
      /\ \A c \in Client : pc'[c] \in ClientAt
      /\ \A s \in Server : pc'[s] \in ServerAt
  BY Typing DEF IInv, TypeOK, ClientAt, ServerAt
<1>3. TypeOK'
  BY <1>1, <1>2 DEF IInv, TypeOK, LockInv, sockVars
<1>4. \A d \in Client : pc'[d] # "failed" => retries'[d] # 0
  BY DEF IInv, TypeOK, InHand
<1>5. w \in Without
  BY DEF Without
<1>6. InHand'
  BY <1>1, <1>4, <1>5, OneCloses
<1>7. SocketIsThere'
  BY SocketLeft DEF sockVars
<1> QED
  BY <1>1, <1>3, <1>6, <1>7 DEF IInv

\* The lock may stay with a process that the server has started.
LEMMA LeftoverInherits ==
    ASSUME IInv, NEW s \in Server, NEW w \in {"exists", "ended", "killed"},
           pc[s] \in {"cooker", "serving", "unsock", "closing"},
           pc' = [pc EXCEPT ![s] = w],
           fd[Leftover] = NoInode, HandOver(s, Leftover),
           UNCHANGED <<retries, tries, sockVars>>, kills' \in 0..MaxKills,
           started' \in [Client -> Server \cup {NoServer}],
           connected' \in [Client -> Server \cup {NoServer}]
    PROVE  IInv'
<1>1. s \in granted /\ w \in ServerAt /\ w \in Without /\ w \notin Within
      /\ fd[s] \in Inode /\ w # "check"
  BY DEF IInv, InHand, Within, Without, ServerAt
<1>2. \A d \in Client : pc'[d] # "failed" => retries'[d] # 0
  BY <1>1, ServerAlone DEF IInv, InHand
<1>3. LockInv' /\ granted' = {Leftover}
  BY <1>1, HandOverInv, Typing DEF IInv
<1>4. TypeOK'
  BY <1>1, <1>3, ServerAlone DEF IInv, TypeOK, LockInv, sockVars
<1>5. SocketIsThere'
  BY <1>1, SocketLeft DEF sockVars
<1>6. \A q \in Proc : q # s => q \notin granted
  BY <1>1, GrantedAlone DEF IInv
<1>7. /\ fd'[s] = NoInode
      /\ \A q \in Proc : q # s /\ q # Leftover => fd'[q] = fd[q]
      /\ fd'[Leftover] = fd[s]
  BY Typing DEF HandOver, IInv, LockInv, LockTypeOK
<1>8. \A q \in Proc : q # s /\ fd[q] \in Inode
          => (flock[fd[q]] = q => flock'[fd[q]] = q)
  BY DEF HandOver
<1>9. ASSUME NEW q \in Client \cup Server
      PROVE  /\ pc'[q] \in Without => fd'[q] = NoInode
             /\ pc'[q] \notin Without => fd'[q] \in Inode
             /\ pc'[q] = "check" => flock'[fd'[q]] = q
             /\ q \in granted' <=> pc'[q] \in Within
  <2>1. CASE q = s
    BY <2>1, <1>1, <1>3, <1>7, ServerAlone, Typing
  <2>2. CASE q # s
    <3>1. pc'[q] = pc[q] /\ fd'[q] = fd[q] /\ q \notin granted /\ q \notin granted'
      BY <2>2, <1>1, <1>3, <1>6, <1>7, Typing, ServerAlone DEF IInv, TypeOK
    <3>2. pc[q] = "check" => fd[q] \in Inode
      BY DEF IInv, InHand, Without
    <3> QED
      BY <2>2, <3>1, <3>2, <1>8, Typing DEF IInv, InHand
  <2> QED
    BY <2>1, <2>2
<1>10. fd'[Leftover] # NoInode
  BY <1>1, <1>7, Typing
<1>11. InHand'
  BY <1>2, <1>9, <1>10 DEF InHand
<1> QED
  BY <1>3, <1>4, <1>5, <1>11 DEF IInv

LEMMA ServerPlainSteps ==
    ASSUME IInv, NEW s \in Server,
           CreateCooker(s) \/ Quit(s) \/ LockfileExists(s) \/ ServerUnlock(s)
    PROVE  IInv'
<1>1. CASE CreateCooker(s) /\ ~Die(s, "ended")
  <2>1. /\ pc[s] = "cooker" /\ pc' = [pc EXCEPT ![s] = "serving"]
        /\ ready' = ready \cup {s} /\ UNCHANGED <<lockVars, sock, clientVars, kills>>
    BY <1>1 DEF CreateCooker, Go
  <2>2. "serving" \in ServerAt /\ "serving" \in Within /\ "cooker" \in Within
        /\ "serving" \notin Without /\ "cooker" \notin Without
    BY DEF ServerAt, Within, Without
  <2>3. ready' \subseteq Server
    BY <2>1 DEF IInv, TypeOK
  <2> QED
    BY <2>1, <2>2, <2>3, ServerGoes
<1>2. CASE CreateCooker(s) /\ Die(s, "ended")
  <2>1. /\ pc[s] = "cooker" /\ pc' = [pc EXCEPT ![s] = "ended"]
        /\ UNCHANGED <<retries, tries, sockVars>> /\ kills' \in 0..MaxKills
        /\ started' \in [Client -> Server \cup {NoServer}]
        /\ connected' \in [Client -> Server \cup {NoServer}]
    BY <1>2 DEF CreateCooker, Die, clientVars, IInv, TypeOK
  <2>2. CASE Unlock(s)
    BY <2>1, <2>2, ProcessEnds, Typing DEF Unlock
  <2>3. CASE fd[Leftover] = NoInode /\ HandOver(s, Leftover)
    BY <2>1, <2>3, LeftoverInherits
  <2> QED
    BY <1>2, <2>2, <2>3 DEF Die, LetGo
<1>3. CASE Quit(s)
  <2>1. "unsock" \in ServerAt /\ "unsock" \in Within /\ "serving" \in Within
        /\ "unsock" \notin Without /\ "serving" \notin Without
    BY DEF ServerAt, Within, Without
  <2>2. /\ pc[s] = "serving" /\ pc' = [pc EXCEPT ![s] = "unsock"]
        /\ ready' \subseteq Server /\ UNCHANGED <<lockVars, clientVars, sock, kills>>
    BY <1>3 DEF Quit, Go, sockVars, IInv, TypeOK
  <2> QED
    BY <2>1, <2>2, ServerGoes
<1>4. CASE LockfileExists(s)
  <2>1. {"open", "ended"} \subseteq ServerAt /\ {"open", "ended"} \subseteq Without
        /\ "open" \notin Within /\ "ended" \notin Within
        /\ "exists" \in Without /\ "exists" \notin Within
    BY DEF ServerAt, Within, Without
  <2>2. PICK w \in {"open", "ended"} : pc' = [pc EXCEPT ![s] = w]
    BY <1>4 DEF LockfileExists, Go
  <2>3. pc[s] = "exists" /\ ready' \subseteq Server
        /\ UNCHANGED <<lockVars, clientVars, sock, kills>>
    BY <1>4 DEF LockfileExists, Go, sockVars, IInv, TypeOK
  <2> QED
    BY <2>1, <2>2, <2>3, ServerGoes
<1>5. CASE ServerUnlock(s)
  BY <1>5, ProcessEnds, Typing
  DEF ServerUnlock, Go, Unlock, clientVars, IInv, TypeOK
<1> QED
  BY <1>1, <1>2, <1>3, <1>4, <1>5

\* A server that ends takes the lock once more, to remove the file.
LEMMA ServerLockSteps ==
    ASSUME IInv, NEW s \in Server,
           ServerOpen(s) \/ ServerFlock(s) \/ ServerCheck(s) \/ ServerUnlink(s)
    PROVE  IInv'
<1>1. UNCHANGED <<clientVars, sockVars, kills>>
  BY DEF ServerOpen, ServerFlock, ServerCheck, ServerUnlink
<1>2. CASE Close(s) /\ pc' = [pc EXCEPT ![s] = "ended"] /\ UNCHANGED path
  BY <1>1, <1>2, ProcessEnds, Typing DEF clientVars, IInv, TypeOK
<1>3. CASE \E w \in {"flock", "check", "unlink", "unlock"} :
               LockInv' /\ InHand' /\ pc' = [pc EXCEPT ![s] = w]
  <2>1. PICK w \in {"flock", "check", "unlink", "unlock"} :
            pc' = [pc EXCEPT ![s] = w]
    BY <1>3
  <2>2. w \in ServerAt /\ w \notin {"cooker", "serving", "unsock"}
    BY DEF ServerAt
  <2>3. TypeOK'
    BY <1>1, <1>3, <2>1, <2>2, ServerAlone
    DEF IInv, TypeOK, LockInv, clientVars, sockVars
  <2>4. SocketIsThere'
    BY <1>1, <2>1, <2>2, SocketLeft DEF sockVars
  <2> QED
    BY <1>3, <2>3, <2>4 DEF IInv
<1>4. CASE ServerOpen(s)
  BY <1>1, <1>3, <1>4, OpenHand DEF ServerOpen, Go, clientVars
<1>5. CASE ServerUnlink(s)
  BY <1>1, <1>3, <1>5, UnlinkHand DEF ServerUnlink, Go, clientVars
<1>6. CASE ServerFlock(s)
  BY <1>1, <1>2, <1>3, <1>6, FlockHand DEF ServerFlock, FlockRefused, Go, clientVars
<1>7. CASE ServerCheck(s)
  <2>1. "unlink" \in Within
    BY DEF Within
  <2> QED
    BY <1>1, <1>2, <1>3, <1>7, <2>1, CheckHand
    DEF ServerCheck, NotVerified, Go, clientVars
<1> QED
  BY <1>4, <1>5, <1>6, <1>7

\* lock.close().
LEMMA CloseLockInv ==
    ASSUME IInv, NEW s \in Server, CloseLock(s)
    PROVE  IInv'
<1>1. /\ s \in granted /\ pc[s] = "closing" /\ pc' = [pc EXCEPT ![s] = "exists"]
      /\ "exists" \in ServerAt /\ "exists" \in Without /\ "exists" \notin Within
      /\ UNCHANGED <<clientVars, sockVars, kills>>
  BY DEF CloseLock, Go, IInv, InHand, Within, Without, ServerAt
<1>2. \A d \in Client : pc'[d] # "failed" => retries'[d] # 0
  BY <1>1, ServerAlone DEF IInv, InHand, clientVars
<1>3. ASSUME LockInv' PROVE TypeOK' /\ SocketIsThere'
  <2>1. TypeOK'
    BY <1>1, <1>3, ServerAlone DEF IInv, TypeOK, LockInv, clientVars, sockVars
  <2> QED
    BY <1>1, <2>1, SocketLeft DEF sockVars
<1>4. CASE Unlock(s)
  <2>1. LockInv'
    BY <1>4, CloseInv, Typing DEF IInv, Unlock
  <2> QED
    BY <1>1, <1>2, <1>3, <1>4, <2>1, OneCloses DEF IInv, Unlock
<1>5. CASE fd[Leftover] = NoInode /\ HandOver(s, Leftover)
  BY <1>1, <1>5, LeftoverInherits DEF clientVars, IInv, TypeOK
<1> QED
  BY <1>4, <1>5 DEF CloseLock, LetGo

LEMMA AnswerInv ==
    ASSUME IInv, NEW s \in Server, Answer(s)
    PROVE  IInv'
<1>1. PICK c \in Client : /\ Go(c, "sent", "done")
                          /\ connected' = [connected EXCEPT ![c] = NoServer]
                          /\ UNCHANGED <<lockVars, retries, tries, started, sockVars,
                                         kills>>
  BY DEF Answer
<1>2. "done" \in ClientAt /\ pc' = [pc EXCEPT ![c] = "done"] /\ pc[c] = "sent"
      /\ "done" \in Without /\ "sent" \in Without
      /\ "done" \notin Within /\ "sent" \notin Within
  BY <1>1 DEF Go, ClientAt, Without, Within
<1>3. LockInv'
  BY <1>1, LockUnchanged DEF IInv
<1>4. TypeOK'
  BY <1>1, <1>2, <1>3, ClientAlone DEF IInv, TypeOK, LockInv, sockVars
<1>5. \A d \in Client : pc'[d] # "failed" => retries'[d] # 0
  BY <1>1, <1>2 DEF IInv, TypeOK, InHand
<1>6. InHand'
  BY <1>1, <1>2, <1>5, OneElse
<1>7. SocketIsThere'
  BY <1>1, <1>2, ClientAlone, SocketUntouched DEF sockVars
<1> QED
  BY <1>3, <1>4, <1>6, <1>7 DEF IInv

LEMMA ServerStepInv ==
    ASSUME IInv, NEW s \in Server, ServerStep(s) \/ Quit(s)
    PROVE  IInv'
  BY ServerSocketSteps, ServerPlainSteps, ServerLockSteps, CloseLockInv, AnswerInv
  DEF ServerStep

(***************************************************************************)
(* kill -9, and the end of a process left behind.                          *)
(***************************************************************************)

LEMMA KillInv ==
    ASSUME IInv, NEW p \in Client \cup Server, Kill(p)
    PROVE  IInv'
<1>1. p \in Client => pc[p] # "failed"
  BY Typing DEF Kill, HasSomething, IInv, InHand, Without, TypeOK
<1>2. started' \in [Client -> Server \cup {NoServer}]
      /\ connected' \in [Client -> Server \cup {NoServer}]
  BY DEF Kill, IInv, TypeOK
<1>3. kills' \in 0..MaxKills
  BY ServerLockAssumption DEF Kill, IInv, TypeOK
<1>4. pc' = [pc EXCEPT ![p] = "killed"] /\ UNCHANGED <<retries, tries, sockVars>>
  BY DEF Kill, Die
<1>5. CASE Unlock(p)
  BY <1>1, <1>2, <1>3, <1>4, <1>5, ProcessEnds DEF Unlock
<1>6. CASE /\ p \in Server /\ pc[p] \in {"cooker", "serving", "unsock", "closing"}
           /\ fd[Leftover] = NoInode /\ HandOver(p, Leftover)
  BY <1>2, <1>3, <1>4, <1>6, LeftoverInherits
<1> QED
  BY <1>5, <1>6 DEF Kill, Die, LetGo

LEMMA LeftoverEndsInv ==
    ASSUME IInv, LeftoverEnds
    PROVE  IInv'
<1>1. LockInv'
  BY CloseInv, Typing DEF IInv, LeftoverEnds, Unlock
<1>2. UNCHANGED <<pc, clientVars, sockVars, kills>> /\ Close(Leftover)
  BY DEF LeftoverEnds, Unlock
<1>3. TypeOK' /\ SocketIsThere'
  BY <1>1, <1>2 DEF IInv, TypeOK, SocketIsThere, LockInv, clientVars, sockVars
<1>4. \A q \in Client \cup Server : pc[q] = "check" => fd[q] \in Inode
  BY DEF IInv, InHand, Without
<1>5. InHand'
  BY <1>2, <1>4, Typing
  DEF IInv, InHand, LockInv, LockTypeOK, Close, Unlocked, clientVars
<1> QED
  BY <1>1, <1>3, <1>5 DEF IInv

(***************************************************************************)
(* The invariant, and what it says.                                        *)
(***************************************************************************)

LEMMA InitInv == Init => IInv
<1> SUFFICES ASSUME Init PROVE IInv
  OBVIOUS
<1>1. LockInv
  BY LockInitInv DEF Init
<1>2. TypeOK
  BY <1>1, ServerLockAssumption DEF Init, TypeOK, LockInv, ClientAt, ServerAt
<1>3. InHand
  BY ServerLockAssumption DEF Init, LockInit, InHand, Without, Within
<1>4. SocketIsThere
  BY ServerLockAssumption DEF Init, SocketIsThere
<1> QED
  BY <1>1, <1>2, <1>3, <1>4 DEF IInv

LEMMA StepInv == IInv /\ [Next]_vars => IInv'
<1> SUFFICES ASSUME IInv, [Next]_vars PROVE IInv'
  OBVIOUS
<1>1. CASE UNCHANGED vars
  <2>1. LockInv'
    BY <1>1, LockUnchanged DEF IInv, vars
  <2> QED
    BY <1>1, <2>1
    DEF IInv, TypeOK, LockInv, InHand, SocketIsThere, vars, lockVars, clientVars,
        sockVars
<1> QED
  BY <1>1, ClientStepInv, ServerStepInv, KillInv, LeftoverEndsInv DEF Next

LEMMA Invariance == Spec => []IInv
  BY InitInv, StepInv, PTL DEF Spec

\* Of the servers of a build directory one at a time has the right to it, from its
\* start until it lets go of bitbake.lock: it holds the lock of the lock file on
\* disk, whatever exits, waits for the lock or is killed.
THEOREM OneServerTheorem == Spec => []OneServer
<1>1. IInv => OneServer
  <2> SUFFICES ASSUME IInv PROVE OneServer
    OBVIOUS
  <2>1. \A s \in Server : Owns(s) => s \in granted
    BY DEF Owns, IInv, InHand, Within
  <2> QED
    BY <2>1 DEF IInv, LockInv, OneServer
<1> QED
  BY <1>1, Invariance, PTL

\* Two servers never have that right at once.
THEOREM ServersExclude ==
    Spec => [](\A s, t \in Server : Owns(s) /\ Owns(t) => s = t)
<1>1. IInv => \A s, t \in Server : Owns(s) /\ Owns(t) => s = t
  BY OwnerAlone DEF Owns, Within
<1> QED
  BY <1>1, Invariance, PTL

\* A server that has said it is ready can be connected to until it quits: no other
\* server that starts, ends late or was killed has taken its socket away.
THEOREM ReachableTheorem == Spec => []Reachable
<1>1. IInv => Reachable
  BY DEF IInv, SocketIsThere, Reachable
<1> QED
  BY <1>1, Invariance, PTL
=============================================================================
