------------------------------- MODULE Fetch -------------------------------
(***************************************************************************)
(* do_fetch and do_unpack of recipes that name one file, from http: Fetch  *)
(* of lib/bb/fetch2/__init__.py with the method of wget.py.                *)
(*                                                                         *)
(* The tasks share DL_DIR, where the file is next to its done stamp, which *)
(* remembers a checksum, its lock file, and the partial download that      *)
(* wget resumes.  A file is its bytes, and so is a checksum.  The lock is  *)
(* the one Lockfile takes apart; here lockfile() is asked to wait for it.  *)
(* A task may be killed, with its wget, between any two steps, and a       *)
(* later build starts it again.                                            *)
(***************************************************************************)
EXTENDS Naturals, Sequences, SequencesExt

CONSTANTS
    Fetcher,        \* the recipes
    Source,
    Bytes,          \* the bytes each source serves
    Mixed,          \* what resuming from one source with another leaves
    Premirrors, Upstream, Mirrors,
    Expected,       \* the checksum each recipe gives, or None
    MayClean,       \* the recipes do_cleanall is run for
    Torn,           \* a done stamp that was opened to be written
    None

Content == {Bytes[s] : s \in Source} \cup {Mixed}

ASSUME SourcesAssumption ==
    /\ Upstream \in Source
    /\ Premirrors \in Seq(Source) /\ Mirrors \in Seq(Source)
ASSUME ContentAssumption ==
    /\ None \notin Content /\ Torn \notin Content /\ Torn # None
    /\ \A s \in Source : Bytes[s] # Mixed
    /\ None \notin [bytes : Content, full : BOOLEAN]
ASSUME ExpectedAssumption ==
    /\ Expected \in [Fetcher -> (Content \ {Mixed}) \cup {None}]
    /\ None \notin Fetcher /\ MayClean \subseteq Fetcher

VARIABLES
    localpath,      \* the file, or None
    tmp,            \* the partial download, or None
    donestamp,      \* None, Torn or a checksum
    lock,           \* the fetcher that has the lock file, or None
    pc,
    stage,          \* which sources a fetcher tries
    todo,           \* those of them it has not tried
    smooth          \* history: no source has failed a fetcher

files == <<localpath, tmp, donestamp>>
control == <<stage, todo, smooth>>
vars == <<files, lock, pc, control>>

Rest == {"idle", "done", "failed", "killed"}
\* lockfile() has been called, and what for.
Waiting == [fetch_lock |-> "verify", unpack_lock |-> "unpack",
            clean_lock |-> "clean"]
\* What is left to do is to give up the lock.
Leaving == [ok |-> "unpack_lock", unpacked |-> "done", cleaned |-> "done",
            error |-> "failed"]
Working == {"verify", "unstamp", "try", "wget", "check", "clean_partial",
            "update", "stamp", "dump", "unpack", "clean", "clean_stamp"}

TypeOK ==
    /\ localpath \in Content \cup {None}
    /\ tmp \in [bytes : Content, full : BOOLEAN] \cup {None}
    /\ donestamp \in Content \cup {None, Torn}
    /\ lock \in Fetcher \cup {None}
    /\ pc \in [Fetcher ->
                  Rest \cup DOMAIN Waiting \cup DOMAIN Leaving \cup Working]
    /\ stage \in [Fetcher -> {"verify", "premirrors", "upstream", "mirrors"}]
    /\ todo \in [Fetcher -> Seq(Source)]
    /\ smooth \in [Fetcher -> BOOLEAN]

Init ==
    /\ localpath = None /\ tmp = None /\ donestamp = None
    /\ lock = None
    /\ pc = [f \in Fetcher |-> "idle"]
    /\ stage = [f \in Fetcher |-> "verify"]
    /\ todo = [f \in Fetcher |-> <<>>]
    /\ smooth = [f \in Fetcher |-> TRUE]

Goto(f, where) == pc' = [pc EXCEPT ![f] = where]

\* verify_checksum(), of a recipe without BB_STRICT_CHECKSUM.
Accepts(f, bytes) == Expected[f] \in {None, bytes}

Sources == [premirrors |-> Premirrors, upstream |-> <<Upstream>>,
            mirrors |-> Mirrors]

ToSources(f, which) ==
    /\ stage' = [stage EXCEPT ![f] = which]
    /\ todo' = [todo EXCEPT ![f] = Sources[which]]
    /\ Goto(f, "try")

-----------------------------------------------------------------------------
(* The tasks of a recipe, and the lock.                                    *)

Start(f) ==
    /\ pc[f] \in Rest
    /\ \/ Goto(f, "fetch_lock")
       \/ f \in MayClean /\ Goto(f, "clean_lock")
    /\ UNCHANGED <<files, lock, control>>

TakeLock(f) ==
    /\ pc[f] \in DOMAIN Waiting /\ lock = None
    /\ lock' = f
    /\ Goto(f, Waiting[pc[f]])
    /\ stage' = [stage EXCEPT ![f] = "verify"]
    /\ smooth' = [smooth EXCEPT ![f] = TRUE]
    /\ UNCHANGED <<files, todo>>

\* Mutant: the lock is given up where the download succeeds only.
Unlocks_after_success(f) == IF pc[f] = "error" THEN f ELSE None

\* unlockfile(), in a "finally".
Unlocks(f) == None

Leave(f) ==
    /\ pc[f] \in DOMAIN Leaving
    /\ lock' = Unlocks(f)
    /\ Goto(f, Leaving[pc[f]])
    /\ UNCHANGED <<files, control>>

\* The process is killed, and the kernel closes its files.
Kill(f) ==
    /\ pc[f] \notin Rest
    /\ Goto(f, "killed")
    /\ lock' = IF lock = f THEN None ELSE lock
    /\ UNCHANGED <<files, control>>

-----------------------------------------------------------------------------
(* verify_donestamp().                                                     *)

\* The stamp's checksum is taken for the file's, where there is a whole one:
\* it is newer than the file, which has the time the server gave it.
Recorded == IF donestamp \in Content THEN donestamp ELSE localpath

\* Mutant: a done stamp without its file is left alone.
StampWithoutFile_kept == donestamp

\* "done stamp exists, but the downloaded file does not".
StampWithoutFile == None

VerifyMissing(f) ==
    /\ pc[f] = "verify" /\ localpath = None
    /\ donestamp' = StampWithoutFile
    /\ ToSources(f, "premirrors")
    /\ UNCHANGED <<localpath, tmp, lock, smooth>>

VerifyGood(f) ==
    /\ pc[f] = "verify" /\ localpath # None
    /\ Accepts(f, Recorded)
    /\ Goto(f, IF donestamp = Recorded THEN "ok" ELSE "stamp")
    /\ UNCHANGED <<files, lock, control>>

\* rename_bad_checksum(); the stamp goes next.
VerifyBad(f) ==
    /\ pc[f] = "verify" /\ localpath # None
    /\ ~Accepts(f, Recorded)
    /\ localpath' = None
    /\ Goto(f, "unstamp")
    /\ UNCHANGED <<tmp, donestamp, lock, control>>

\* Mutant: a premirror that is wrong is an error.
AfterBad_at_once(which) == IF which = "verify" THEN "premirrors" ELSE "none"

\* Where a wrong checksum leaves Fetch.download(), by where it was found.
AfterBad(which) ==
    CASE which = "verify" -> "premirrors"
      [] which = "premirrors" -> "upstream"
      [] OTHER -> "none"

Unstamp(f) ==
    /\ pc[f] = "unstamp"
    /\ donestamp' = None
    /\ IF AfterBad(stage[f]) = "none"
       THEN Goto(f, "error") /\ UNCHANGED <<stage, todo>>
       ELSE ToSources(f, AfterBad(stage[f]))
    /\ UNCHANGED <<localpath, tmp, lock, smooth>>

-----------------------------------------------------------------------------
(* Trying the sources: Fetch.download(), try_mirrors(), try_mirror_url().  *)

\* The file is never there (NothingInPlace), so what verify_donestamp() does of
\* a mirror is to remove the stamp.
TrySource(f) ==
    /\ pc[f] = "try" /\ todo[f] # <<>>
    /\ donestamp' = IF stage[f] = "upstream" THEN donestamp ELSE StampWithoutFile
    /\ Goto(f, "wget")
    /\ UNCHANGED <<localpath, tmp, lock, control>>

NoMoreSources(f) ==
    /\ pc[f] = "try" /\ todo[f] = <<>>
    /\ IF stage[f] = "premirrors"
       THEN ToSources(f, "upstream")
       ELSE Goto(f, "error") /\ UNCHANGED <<stage, todo>>
    /\ UNCHANGED <<files, lock, smooth>>

\* wget --continue: a file that is whole is "already fully retrieved; nothing
\* to do", and what is there of another is not read again.
Continued(bytes) ==
    IF tmp = None THEN bytes
    ELSE IF tmp.full \/ tmp.bytes = bytes THEN tmp.bytes
    ELSE Mixed

\* What wget may leave when the connection breaks.
Partial(bytes) ==
    IF tmp # None /\ tmp.full THEN {tmp}
    ELSE {tmp, [bytes |-> Continued(bytes), full |-> FALSE]}

WgetDone(f) ==
    /\ pc[f] = "wget"
    /\ tmp' = [bytes |-> Continued(Bytes[Head(todo[f])]), full |-> TRUE]
    /\ Goto(f, "check")
    /\ UNCHANGED <<localpath, donestamp, lock, control>>

\* The source cannot be reached, or the connection breaks.
WgetFails(f) ==
    /\ pc[f] = "wget"
    /\ tmp' \in Partial(Bytes[Head(todo[f])])
    /\ smooth' = [smooth EXCEPT ![f] = FALSE]
    /\ Goto(f, "clean_partial")
    /\ UNCHANGED <<localpath, donestamp, lock, stage, todo>>

\* Wget.download() checks what it has before it is moved into place; a mirror's
\* checksum is not looked at (ignore_checksums).
Checked(f) == stage[f] # "upstream" \/ Accepts(f, tmp.bytes)

MoveInPlace(f) ==
    /\ pc[f] = "check" /\ Checked(f)
    /\ localpath' = tmp.bytes /\ tmp' = None
    /\ Goto(f, "update")
    /\ UNCHANGED <<donestamp, lock, control>>

CheckBad(f) ==
    /\ pc[f] = "check" /\ ~Checked(f)
    /\ Goto(f, "clean_partial")
    /\ UNCHANGED <<files, lock, control>>

\* "Remove any incomplete fetch": clean() removes the file itself.
CleanPartial(f) ==
    /\ pc[f] = "clean_partial"
    /\ localpath' = None
    /\ IF stage[f] = "upstream"
       THEN ToSources(f, "mirrors")
       ELSE /\ todo' = [todo EXCEPT ![f] = Tail(@)]
            /\ Goto(f, "try") /\ UNCHANGED stage
    /\ UNCHANGED <<tmp, donestamp, lock, smooth>>

-----------------------------------------------------------------------------
(* update_stamp(), and the writing of a stamp.                             *)

\* A stamp that is there is touched.
UpdateGood(f) ==
    /\ pc[f] = "update"
    /\ donestamp # None \/ Accepts(f, localpath)
    /\ Goto(f, IF donestamp = None THEN "stamp" ELSE "ok")
    /\ UNCHANGED <<files, lock, control>>

UpdateBad(f) ==
    /\ pc[f] = "update"
    /\ donestamp = None /\ ~Accepts(f, localpath)
    /\ localpath' = None
    /\ Goto(f, "unstamp")
    /\ UNCHANGED <<tmp, donestamp, lock, control>>

OpenStamp(f) ==
    /\ pc[f] = "stamp"
    /\ donestamp' = Torn
    /\ Goto(f, "dump")
    /\ UNCHANGED <<localpath, tmp, lock, control>>

DumpStamp(f) ==
    /\ pc[f] = "dump"
    /\ donestamp' = localpath
    /\ Goto(f, "ok")
    /\ UNCHANGED <<localpath, tmp, lock, control>>

-----------------------------------------------------------------------------
(* Fetch.unpack() and Fetch.clean().                                       *)

Unpack(f) ==
    /\ pc[f] = "unpack"
    /\ Goto(f, IF localpath = None THEN "error" ELSE "unpacked")
    /\ UNCHANGED <<files, lock, control>>

Clean(f) ==
    /\ pc[f] = "clean"
    /\ localpath' = None
    /\ Goto(f, "clean_stamp")
    /\ UNCHANGED <<tmp, donestamp, lock, control>>

CleanStamp(f) ==
    /\ pc[f] = "clean_stamp"
    /\ donestamp' = None
    /\ Goto(f, "cleaned")
    /\ UNCHANGED <<localpath, tmp, lock, control>>

-----------------------------------------------------------------------------
Step(f) ==
    \/ VerifyMissing(f) \/ VerifyGood(f) \/ VerifyBad(f) \/ Unstamp(f)
    \/ TrySource(f) \/ NoMoreSources(f) \/ WgetDone(f) \/ WgetFails(f)
    \/ MoveInPlace(f) \/ CheckBad(f) \/ CleanPartial(f)
    \/ UpdateGood(f) \/ UpdateBad(f) \/ OpenStamp(f) \/ DumpStamp(f)
    \/ Unpack(f) \/ Clean(f) \/ CleanStamp(f) \/ Leave(f)

Next == \E f \in Fetcher : Start(f) \/ TakeLock(f) \/ Step(f) \/ Kill(f)

\* wget is run with a time limit, and flock() returns when the lock is there and
\* nobody else wants it.  There is no order among those who wait: lockfile() says
\* of itself that it is unfair, so weak fairness is all there is.
Fairness == \A f \in Fetcher : WF_vars(Step(f)) /\ WF_vars(TakeLock(f))

Spec == Init /\ [][Next]_vars /\ Fairness

-----------------------------------------------------------------------------
(* Properties.                                                             *)

\* Only the holder of the lock is past lockfile().
Exclusive == \A f \in Fetcher :
    pc[f] \notin Rest \cup DOMAIN Waiting <=> lock = f

\* A source is tried only when nothing is in its file's place.
NothingInPlace == \A f \in Fetcher :
    pc[f] \in {"try", "wget", "check", "clean_partial"} => localpath = None

\* verify_donestamp() believes a stamp's checksum without reading the file: a
\* whole stamp next to a file is of that file, whoever was killed where.
StampIsTrue == donestamp \in Content /\ localpath # None => donestamp = localpath

\* What do_unpack reads, after others may have had the lock, is what do_fetch
\* has verified, unless another recipe's do_cleanall may have run between them.
UnpacksVerified == \A f \in Fetcher :
    pc[f] = "unpack" /\ Expected[f] # None /\ MayClean \subseteq {f}
        => localpath = Expected[f]

OneChecksum == \A f, g \in Fetcher :
    Expected[f] # None /\ Expected[g] # None => Expected[f] = Expected[g]

\* What a fetch leaves in DL_DIR is right, and stays right while others, some of
\* them killed, fetch the file too; if no two recipes give it different
\* checksums.
FetchVerified ==
    /\ TypeOK /\ Exclusive /\ NothingInPlace /\ StampIsTrue
    /\ OneChecksum => UnpacksVerified

\* "Checksum failure encountered with download of %s - will attempt other
\* sources if available": a fetch that no source has failed finds a source
\* that has what it wants, if there is one.
OtherSourcesTried == \A f \in Fetcher :
    (pc[f] = "error" /\ stage[f] # "verify" /\ smooth[f]) =>
        \A s \in Range(Premirrors \o <<Upstream>> \o Mirrors) :
            ~Accepts(f, Bytes[s])

\* Whoever has the lock gives it up, wherever the fetch went wrong.
LockGivenUp == \A f \in Fetcher : lock = f ~> lock # f

\* A task gets to its end, or is killed, unless others take the lock before it
\* again and again: one that waits alone does not wait for ever.
EndsUnlessOvertaken == \A f \in Fetcher :
    []<>(pc[f] \in Rest) \/ []<>(\E g \in Fetcher \ {f} : lock = g)

\* Together, whoever waits: somebody always gets the lock, and nobody keeps it.
FetchEnds == LockGivenUp /\ EndsUnlessOvertaken

=============================================================================
