------------------------------ MODULE Lockfile ------------------------------
(***************************************************************************)
(* lockfile(name, shared=False, retry=False) and unlockfile() of           *)
(* lib/bb/utils.py, for one lock file.                                     *)
(*                                                                         *)
(* The file is removed by whoever gives up the lock, while others may have *)
(* it open: a lock on a file that has been removed is worth nothing, which *)
(* is why the inodes are compared once the lock is held.  flock() belongs  *)
(* to the open file, so a process that is given the descriptor is given    *)
(* the lock, and the end of a process gives it up.                         *)
(***************************************************************************)
EXTENDS Naturals, FiniteSets

CONSTANTS
    Proc, NoProc,
    Inode, NoInode  \* bound: one for each file that is there or open

ASSUME ProcAssumption == NoProc \notin Proc
ASSUME InodeAssumption == NoInode \notin Inode

VARIABLES
    path,       \* the inode the name leads to, or NoInode
    fd,         \* the inode each process has open, or NoInode
    flock,      \* the process whose open file has each inode locked, or NoProc
    granted     \* the processes lockfile() has returned a file to

lockVars == <<path, fd, flock, granted>>

LockTypeOK ==
    /\ path \in Inode \cup {NoInode}
    /\ fd \in [Proc -> Inode \cup {NoInode}]
    /\ flock \in [Inode -> Proc \cup {NoProc}]
    /\ granted \subseteq Proc

LockInit ==
    /\ path = NoInode
    /\ fd = [p \in Proc |-> NoInode]
    /\ flock = [i \in Inode |-> NoProc]
    /\ granted = {}

\* The numbers the file system may give to a new file: of no file that is there,
\* or removed and still open.  Nothing tells one of them from another.
FreeInodes == {i \in Inode : i # path /\ \A p \in Proc : fd[p] # i}

\* flock() is given up when the last descriptor of the open file is closed.
Unlocked(p) == [i \in Inode |-> IF flock[i] = p THEN NoProc ELSE flock[i]]

Close(p) ==
    /\ fd' = [fd EXCEPT ![p] = NoInode]
    /\ flock' = Unlocked(p)
    /\ granted' = granted \ {p}

\* open(name, 'a+') creates the file when there is none.
Open(p) ==
    /\ \/ path # NoInode /\ UNCHANGED path
       \/ /\ path = NoInode /\ FreeInodes # {}
          /\ path' = CHOOSE i \in FreeInodes : TRUE
    /\ fd' = [fd EXCEPT ![p] = path']
    /\ UNCHANGED <<flock, granted>>

\* flock(fileno, LOCK_EX | LOCK_NB), and the close after an OSError.
FlockGranted(p) ==
    /\ flock[fd[p]] = NoProc
    /\ flock' = [flock EXCEPT ![fd[p]] = p]
    /\ UNCHANGED <<path, fd, granted>>

FlockRefused(p) ==
    /\ flock[fd[p]] # NoProc
    /\ Close(p)
    /\ UNCHANGED path

SameFile_any_file(p) == path # NoInode       \* mutant: exists() alone

\* Is the file we locked still the one on disk?  A file removed between
\* exists() and stat() is an OSError and as good as no file.
SameFile(p) == path = fd[p]

Verified(p) ==
    /\ SameFile(p)
    /\ granted' = granted \cup {p}
    /\ UNCHANGED <<path, fd, flock>>

NotVerified(p) ==
    /\ ~SameFile(p)
    /\ Close(p)
    /\ UNCHANGED path

\* unlockfile(): the unlink goes by name and comes before the lock is released;
\* from then on the lock is one of no file.
Unlink(p) ==
    /\ path' = NoInode
    /\ granted' = granted \ {p}
    /\ UNCHANGED <<fd, flock>>

Unlock(p) == Close(p) /\ UNCHANGED path

\* Mutant: the descriptor is not inheritable.
HandOver_not_inherited(p, q) == Close(p) /\ UNCHANGED path

\* The open file passes to another process.
HandOver(p, q) ==
    /\ fd' = [fd EXCEPT ![q] = fd[p], ![p] = NoInode]
    /\ flock' = [i \in Inode |-> IF flock[i] = p THEN q ELSE flock[i]]
    /\ granted' = IF p \in granted THEN (granted \ {p}) \cup {q} ELSE granted
    /\ UNCHANGED path

(***************************************************************************)
(* What the inode check is for: a process that was returned the file holds *)
(* the lock of the file the name leads to, so there is one such process,   *)
(* and what it removes is its own file.                                    *)
(***************************************************************************)
GrantedIsCurrent ==
    \A p \in granted : path = fd[p] /\ path \in Inode /\ flock[path] = p
=============================================================================
