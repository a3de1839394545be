---------------------------- MODULE FetchProofs ----------------------------
(***************************************************************************)
(* FetchVerified is an invariant, for any recipes, sources, checksums and  *)
(* contents; OtherSourcesTried is one where the upstream source serves     *)
(* what is wanted if any source does.                                      *)
(***************************************************************************)
EXTENDS Fetch, TLAPS

\* Where the stamp has been removed, a file is in place, a source is being
\* tried, or a whole download is there.
Places ==
    \A f \in Fetcher :
        /\ pc[f] \in {"try", "wget", "check", "clean_partial", "update"}
              => donestamp = None
        /\ pc[f] \in {"update", "stamp", "dump"} => localpath # None
        /\ pc[f] \in {"wget", "check", "clean_partial"} => todo[f] # <<>>
        /\ pc[f] = "check" => tmp # None
        /\ pc[f] = "unstamp" => localpath = None
        /\ pc[f] \in {"clean_lock", "clean"} => f \in MayClean

\* The file of a recipe that gives a checksum, from the moment it is accepted
\* until it has been unpacked.
AcceptedKept ==
    \A f \in Fetcher :
        /\ Expected[f] # None /\ MayClean \subseteq {f}
        /\ pc[f] \in {"stamp", "dump", "ok", "unpack_lock", "unpack"}
        => localpath = Expected[f]

\* The inductive invariant.
IInv == /\ TypeOK /\ Exclusive /\ NothingInPlace /\ StampIsTrue
        /\ Places
        /\ OneChecksum => AcceptedKept

\* The tables of the control states, spelt out.
LEMMA Tables ==
    /\ DOMAIN Waiting = {"fetch_lock", "unpack_lock", "clean_lock"}
    /\ DOMAIN Leaving = {"ok", "unpacked", "cleaned", "error"}
    /\ Waiting["fetch_lock"] = "verify" /\ Waiting["unpack_lock"] = "unpack"
    /\ Waiting["clean_lock"] = "clean"
    /\ Leaving["ok"] = "unpack_lock" /\ Leaving["unpacked"] = "done"
    /\ Leaving["cleaned"] = "done" /\ Leaving["error"] = "failed"
  BY DEF Waiting, Leaving

\* Taking the lock leads to work, and giving it up to rest or a second wait.
LEMMA TableRanges ==
    /\ \A w \in DOMAIN Waiting : Waiting[w] \in Working
    /\ \A l \in DOMAIN Leaving : Leaving[l] \in Rest \cup {"unpack_lock"}
<1>1. ASSUME NEW w \in DOMAIN Waiting PROVE Waiting[w] \in Working
  BY Tables DEF Working
<1>2. ASSUME NEW l \in DOMAIN Leaving
      PROVE  Leaving[l] \in Rest \cup {"unpack_lock"}
  BY Tables DEF Rest
<1> QED
  BY <1>1, <1>2

LEMMA SourcesType ==
    \A which \in {"premirrors", "upstream", "mirrors"} :
        Sources[which] \in Seq(Source)
<1>1. Sources["premirrors"] = Premirrors /\ Sources["upstream"] = <<Upstream>>
      /\ Sources["mirrors"] = Mirrors
  BY DEF Sources
<1>2. <<Upstream>> \in Seq(Source)
  BY SourcesAssumption
<1> QED
  BY <1>1, <1>2, SourcesAssumption

\* A wrong checksum is an error, or leads to other sources.
LEMMA AfterBadType ==
    \A which : AfterBad(which) \in {"none", "premirrors", "upstream"}
  BY DEF AfterBad

\* What wget leaves is a file of known content.
LEMMA ContinuedType ==
    ASSUME TypeOK, NEW s \in Source
    PROVE  /\ Continued(Bytes[s]) \in Content
           /\ \A t \in Partial(Bytes[s]) :
                  t \in [bytes : Content, full : BOOLEAN] \cup {None}
<1>1. Bytes[s] \in Content /\ Mixed \in Content
  BY DEF Content
<1>2. tmp # None => tmp.bytes \in Content
  BY DEF TypeOK
<1>3. Continued(Bytes[s]) \in Content
  BY <1>1, <1>2 DEF Continued
<1>4. [bytes |-> Continued(Bytes[s]), full |-> FALSE]
          \in [bytes : Content, full : BOOLEAN]
  BY <1>3
<1> QED
  BY <1>3, <1>4 DEF Partial, TypeOK

LEMMA InitInv == Init => IInv
<1> SUFFICES ASSUME Init PROVE IInv
  OBVIOUS
<1>1. TypeOK
  BY DEF Init, TypeOK, Rest
<1> QED
  BY <1>1, ContentAssumption, ExpectedAssumption, Tables
  DEF Init, IInv, Exclusive, NothingInPlace, StampIsTrue, Places, AcceptedKept,
      Rest

\* No step changes the types.
LEMMA TypeStep == IInv /\ [Next]_vars => TypeOK'
<1> SUFFICES ASSUME IInv, [Next]_vars PROVE TypeOK'
  OBVIOUS
<1> USE Tables
<1>1. CASE UNCHANGED vars
  BY <1>1 DEF IInv, TypeOK, vars, files, control
<1>2. ASSUME NEW f \in Fetcher,
             Start(f) \/ TakeLock(f) \/ Kill(f) \/ Leave(f)
      PROVE  TypeOK'
  <2>1. CASE Start(f)
    BY <2>1 DEF IInv, TypeOK, Start, Goto, Rest, files, control
  <2>2. CASE TakeLock(f)
    BY <2>2, TableRanges DEF IInv, TypeOK, TakeLock, Goto, files
  <2>3. CASE Kill(f)
    BY <2>3 DEF IInv, TypeOK, Kill, Goto, Rest, files, control
  <2>4. CASE Leave(f)
    BY <2>4, TableRanges DEF IInv, TypeOK, Leave, Unlocks, Goto, files, control
  <2> QED
    BY <1>2, <2>1, <2>2, <2>3, <2>4
<1>3. ASSUME NEW f \in Fetcher,
             VerifyMissing(f) \/ Unstamp(f) \/ NoMoreSources(f)
      PROVE  TypeOK'
  <2>1. CASE VerifyMissing(f)
    BY <2>1, SourcesType
    DEF IInv, TypeOK, VerifyMissing, StampWithoutFile, ToSources, Goto, Working
  <2>2. CASE Unstamp(f)
    <3>1. CASE AfterBad(stage[f]) = "none"
      BY <2>2, <3>1 DEF IInv, TypeOK, Unstamp, Goto
    <3>2. CASE AfterBad(stage[f]) # "none"
      <4>1. AfterBad(stage[f]) \in {"premirrors", "upstream"}
        BY <3>2, AfterBadType
      <4>2. Sources[AfterBad(stage[f])] \in Seq(Source)
        BY <4>1, SourcesType
      <4>3. /\ stage' = [stage EXCEPT ![f] = AfterBad(stage[f])]
            /\ todo' = [todo EXCEPT ![f] = Sources[AfterBad(stage[f])]]
            /\ pc' = [pc EXCEPT ![f] = "try"]
            /\ donestamp' = None /\ UNCHANGED <<localpath, tmp, lock, smooth>>
        BY <2>2, <3>2 DEF Unstamp, ToSources, Goto
      <4> QED
        BY <4>1, <4>2, <4>3 DEF IInv, TypeOK, Working
    <3> QED
      BY <3>1, <3>2
  <2>3. CASE NoMoreSources(f)
    BY <2>3, SourcesType
    DEF IInv, TypeOK, NoMoreSources, ToSources, Goto, Working, files
  <2> QED
    BY <1>3, <2>1, <2>2, <2>3
<1>4. ASSUME NEW f \in Fetcher,
             \/ VerifyGood(f) \/ VerifyBad(f) \/ TrySource(f) \/ CheckBad(f)
             \/ UpdateGood(f) \/ UpdateBad(f) \/ OpenStamp(f) \/ Unpack(f)
             \/ Clean(f) \/ CleanStamp(f)
      PROVE  TypeOK'
  BY <1>4
  DEF IInv, TypeOK, VerifyGood, VerifyBad, TrySource, StampWithoutFile, CheckBad,
      UpdateGood, UpdateBad, OpenStamp, Unpack, Clean, CleanStamp, Goto, Working,
      files, control
<1>5. ASSUME NEW f \in Fetcher, WgetDone(f) \/ WgetFails(f)
      PROVE  TypeOK'
  <2>1. Head(todo[f]) \in Source
    BY <1>5 DEF IInv, TypeOK, Places, WgetDone, WgetFails
  <2>2. tmp' \in [bytes : Content, full : BOOLEAN] \cup {None}
    <3>1. CASE WgetDone(f)
      BY <2>1, <3>1, ContinuedType DEF IInv, WgetDone
    <3>2. CASE WgetFails(f)
      BY <2>1, <3>2, ContinuedType DEF IInv, WgetFails
    <3> QED
      BY <1>5, <3>1, <3>2
  <2> QED
    BY <1>5, <2>2
    DEF IInv, TypeOK, WgetDone, WgetFails, Goto, Working, control
<1>6. ASSUME NEW f \in Fetcher, MoveInPlace(f)
      PROVE  TypeOK'
  BY <1>6 DEF IInv, TypeOK, Places, MoveInPlace, Goto, Working, control
<1>7. ASSUME NEW f \in Fetcher, CleanPartial(f)
      PROVE  TypeOK'
  <2>1. todo[f] \in Seq(Source) /\ todo[f] # <<>>
    BY <1>7 DEF IInv, TypeOK, Places, CleanPartial
  <2>2. Tail(todo[f]) \in Seq(Source)
    BY <2>1
  <2>3. CASE stage[f] = "upstream"
    BY <1>7, <2>3, SourcesType
    DEF IInv, TypeOK, CleanPartial, ToSources, Goto, Working
  <2>4. CASE stage[f] # "upstream"
    <3>1. /\ todo' = [todo EXCEPT ![f] = Tail(todo[f])]
          /\ pc' = [pc EXCEPT ![f] = "try"] /\ localpath' = None
          /\ UNCHANGED <<stage, tmp, donestamp, lock, smooth>>
      BY <1>7, <2>4 DEF CleanPartial, Goto
    <3>2. todo' \in [Fetcher -> Seq(Source)]
      BY <2>2, <3>1 DEF IInv, TypeOK
    <3> QED
      BY <3>1, <3>2 DEF IInv, TypeOK, Working
  <2> QED
    BY <2>3, <2>4
<1>8. ASSUME NEW f \in Fetcher, DumpStamp(f)
      PROVE  TypeOK'
  BY <1>8 DEF IInv, TypeOK, Places, DumpStamp, Goto, Working, control
<1> QED
  BY <1>1, <1>2, <1>3, <1>4, <1>5, <1>6, <1>7, <1>8 DEF Next, Step

\* Who is past lockfile(), by action.
LEMMA ExclusiveStep == IInv /\ [Next]_vars => Exclusive'
<1> SUFFICES ASSUME IInv, [Next]_vars PROVE Exclusive'
  OBVIOUS
<1> USE Tables, ExpectedAssumption
<1>1. CASE UNCHANGED vars
  BY <1>1 DEF IInv, Exclusive, vars
<1>2. ASSUME NEW f \in Fetcher, Start(f) \/ Kill(f)
      PROVE  Exclusive'
  <2>1. CASE Start(f)
    BY <2>1 DEF IInv, TypeOK, Exclusive, Start, Goto, Rest
  <2>2. CASE Kill(f)
    BY <2>2 DEF IInv, TypeOK, Exclusive, Kill, Goto, Rest
  <2> QED
    BY <1>2, <2>1, <2>2
<1>3. ASSUME NEW f \in Fetcher, TakeLock(f)
      PROVE  Exclusive'
  <2>1. Waiting[pc[f]] \in Working
    BY <1>3, TableRanges DEF TakeLock
  <2> QED
    BY <1>3, <2>1 DEF IInv, TypeOK, Exclusive, TakeLock, Goto, Rest, Working
<1>4. ASSUME NEW f \in Fetcher, Leave(f)
      PROVE  Exclusive'
  <2>1. Leaving[pc[f]] \in Rest \cup {"unpack_lock"}
    BY <1>4, TableRanges DEF Leave
  <2> QED
    BY <1>4, <2>1 DEF IInv, TypeOK, Exclusive, Leave, Unlocks, Goto, Rest
<1>5. ASSUME NEW f \in Fetcher, Step(f), ~Leave(f)
      PROVE  Exclusive'
  <2>1. /\ pc[f] \notin Rest \cup DOMAIN Waiting /\ lock' = lock
        /\ \E where \in Working \cup DOMAIN Leaving : Goto(f, where)
    BY <1>5
    DEF Step, VerifyMissing, VerifyGood, VerifyBad, Unstamp, TrySource,
        NoMoreSources, WgetDone, WgetFails, MoveInPlace, CheckBad, CleanPartial,
        UpdateGood, UpdateBad, OpenStamp, DumpStamp, Unpack, Clean, CleanStamp,
        ToSources, Goto, Rest, Working
  <2> QED
    BY <2>1 DEF IInv, TypeOK, Exclusive, Goto, Rest, Working
<1> QED
  BY <1>1, <1>2, <1>3, <1>4, <1>5 DEF Next

\* While a fetcher is at work, the others are at rest or wait for the lock.
LEMMA Alone ==
    ASSUME Exclusive, NEW f \in Fetcher, pc[f] \notin Rest \cup DOMAIN Waiting
    PROVE  \A g \in Fetcher \ {f} :
               pc[g] \in Rest \cup {"fetch_lock", "unpack_lock", "clean_lock"}
  BY Tables DEF Exclusive

\* What a step of the holder of the lock may do to the files, and where it may
\* lead, for the rest of the invariant to be kept.
LEMMA HolderStep ==
    ASSUME IInv, NEW f \in Fetcher, pc[f] \notin Rest \cup DOMAIN Waiting,
           NEW where, Goto(f, where),
           \A g \in Fetcher \ {f} : todo'[g] = todo[g],
           where \in {"unstamp", "try", "wget", "check", "clean_partial"}
               => localpath' = None,
           where \in {"try", "wget", "check", "clean_partial", "update"}
               => donestamp' = None,
           where \in {"update", "stamp", "dump"} => localpath' # None,
           where \in {"wget", "check", "clean_partial"} => todo'[f] # <<>>,
           where = "check" => tmp' # None,
           where \notin {"clean_lock", "clean"},
           StampIsTrue',
           OneChecksum /\ Expected[f] # None /\ MayClean \subseteq {f}
               /\ where \in {"stamp", "dump", "ok", "unpack_lock", "unpack"}
               => localpath' = Expected[f],
           \A g \in Fetcher \ {f} :
               /\ OneChecksum /\ Expected[g] # None /\ MayClean \subseteq {g}
               /\ localpath = Expected[g]
               => localpath' = Expected[g]
    PROVE  IInv' \/ ~TypeOK' \/ ~Exclusive'
<1>1. \A g \in Fetcher : pc'[g] = IF g = f THEN where ELSE pc[g]
  BY DEF IInv, TypeOK, Goto
<1>2. \A g \in Fetcher \ {f} :
          pc'[g] \in Rest \cup {"fetch_lock", "unpack_lock", "clean_lock"}
  BY <1>1, Alone DEF IInv
<1>3. NothingInPlace'
  BY <1>1, <1>2 DEF NothingInPlace, Rest
<1>4. Places'
  BY <1>1, <1>2 DEF IInv, Places, Rest
<1>5. OneChecksum => AcceptedKept'
  BY <1>1, <1>2 DEF IInv, AcceptedKept, Rest
<1> QED
  BY <1>3, <1>4, <1>5 DEF IInv

\* A step that changes neither the files nor what is left to try, and leads to
\* where nothing is asked of a fetcher.
LEMMA QuietStep ==
    ASSUME IInv, NEW f \in Fetcher, NEW where, Goto(f, where),
           UNCHANGED <<files, todo>>,
           \/ where \in Rest \cup {"fetch_lock", "verify", "error", "unpacked"}
           \/ where \in {"clean_lock", "clean"} /\ f \in MayClean
           \/ where = "unpack_lock" /\ pc[f] = "ok"
           \/ where = "unpack" /\ pc[f] = "unpack_lock",
           TypeOK', Exclusive'
    PROVE  IInv'
<1>1. \A g \in Fetcher : pc'[g] = IF g = f THEN where ELSE pc[g]
  BY DEF IInv, TypeOK, Goto
<1>2. NothingInPlace' /\ StampIsTrue' /\ Places'
  BY <1>1 DEF IInv, NothingInPlace, StampIsTrue, Places, files, Rest
<1>3. OneChecksum => AcceptedKept'
  BY <1>1 DEF IInv, AcceptedKept, files, Rest
<1> QED
  BY <1>2, <1>3 DEF IInv

\* The steps that only move a fetcher on.
LEMMA QuietSteps ==
    ASSUME IInv, TypeOK', Exclusive', NEW f \in Fetcher,
           Start(f) \/ TakeLock(f) \/ Kill(f) \/ Leave(f) \/ Unpack(f)
    PROVE  IInv'
<1> USE Tables
<1>1. CASE Start(f)
  <2>1. UNCHANGED <<files, todo>>
    BY <1>1 DEF Start, control
  <2>2. CASE Goto(f, "fetch_lock")
    BY <2>1, <2>2, QuietStep
  <2>3. CASE f \in MayClean /\ Goto(f, "clean_lock")
    BY <2>1, <2>3, QuietStep
  <2> QED
    BY <1>1, <2>2, <2>3 DEF Start
<1>2. CASE TakeLock(f)
  <2>1. UNCHANGED <<files, todo>> /\ Goto(f, Waiting[pc[f]])
    BY <1>2 DEF TakeLock
  <2>2. pc[f] \in {"fetch_lock", "unpack_lock", "clean_lock"}
    BY <1>2 DEF TakeLock
  <2>3. pc[f] = "clean_lock" => f \in MayClean
    BY DEF IInv, Places
  <2> QED
    BY <2>1, <2>2, <2>3, QuietStep
<1>3. CASE Kill(f)
  <2>1. UNCHANGED <<files, todo>> /\ Goto(f, "killed")
    BY <1>3 DEF Kill, control
  <2>2. "killed" \in Rest
    BY DEF Rest
  <2> QED
    BY <2>1, <2>2, QuietStep
<1>4. CASE Leave(f)
  <2>1. UNCHANGED <<files, todo>> /\ Goto(f, Leaving[pc[f]])
    BY <1>4 DEF Leave, control
  <2>2. pc[f] \in {"ok", "unpacked", "cleaned", "error"}
    BY <1>4 DEF Leave
  <2>3. "done" \in Rest /\ "failed" \in Rest
    BY DEF Rest
  <2> QED
    BY <2>1, <2>2, <2>3, QuietStep
<1>5. CASE Unpack(f)
  <2>1. UNCHANGED <<files, todo>>
    BY <1>5 DEF Unpack, control
  <2>2. Goto(f, "error") \/ Goto(f, "unpacked")
    BY <1>5 DEF Unpack
  <2> QED
    BY <2>1, <2>2, QuietStep
<1> QED
  BY <1>1, <1>2, <1>3, <1>4, <1>5

\* verify_donestamp(), update_stamp() and the writing of a stamp.  A file that is
\* wrong for one recipe is not what another has accepted.
LEMMA StampSteps ==
    ASSUME IInv, TypeOK', Exclusive', NEW f \in Fetcher,
           \/ VerifyMissing(f) \/ VerifyGood(f) \/ VerifyBad(f) \/ Unstamp(f)
           \/ UpdateGood(f) \/ UpdateBad(f) \/ OpenStamp(f) \/ DumpStamp(f)
    PROVE  IInv'
<1> USE ContentAssumption
<1>a. ASSUME NEW w, pc[f] = w,
             w \in {"verify", "unstamp", "update", "stamp", "dump"}
      PROVE  pc[f] \notin Rest \cup DOMAIN Waiting
  BY <1>a, Tables DEF Rest
<1>b. ASSUME NEW which, todo' = [todo EXCEPT ![f] = which]
      PROVE  \A g \in Fetcher \ {f} : todo'[g] = todo[g]
  BY <1>b DEF IInv, TypeOK
<1>c. localpath # None => localpath = Recorded
  BY DEF IInv, StampIsTrue, Recorded
<1>1. CASE VerifyMissing(f)
  <2>1. /\ pc[f] = "verify" /\ Goto(f, "try") /\ localpath = None
        /\ donestamp' = None /\ UNCHANGED localpath
        /\ todo' = [todo EXCEPT ![f] = Sources["premirrors"]]
    BY <1>1 DEF VerifyMissing, StampWithoutFile, ToSources
  <2>2. StampIsTrue'
    BY <2>1 DEF StampIsTrue, Content
  <2> QED
    BY <1>a, <1>b, <2>1, <2>2, HolderStep
<1>2. CASE VerifyGood(f)
  <2>1. /\ pc[f] = "verify" /\ localpath # None /\ Accepts(f, localpath)
        /\ UNCHANGED files /\ UNCHANGED todo
        /\ Goto(f, "ok") \/ Goto(f, "stamp")
    BY <1>2, <1>c DEF VerifyGood, control
  <2>2. StampIsTrue'
    BY <2>1 DEF IInv, StampIsTrue, files
  <2>3. Expected[f] # None => localpath' = Expected[f]
    BY <2>1 DEF Accepts, files
  <2>4. localpath' = localpath
    BY <2>1 DEF files
  <2>5. CASE Goto(f, "ok")
    BY <1>a, <2>1, <2>2, <2>3, <2>4, <2>5, HolderStep
  <2>6. CASE Goto(f, "stamp")
    BY <1>a, <2>1, <2>2, <2>3, <2>4, <2>6, HolderStep
  <2> QED
    BY <2>1, <2>5, <2>6
<1>3. CASE VerifyBad(f)
  <2>1. /\ pc[f] = "verify" /\ localpath # None /\ ~Accepts(f, localpath)
        /\ localpath' = None /\ UNCHANGED todo /\ Goto(f, "unstamp")
    BY <1>3, <1>c DEF VerifyBad, control
  <2>2. \A g \in Fetcher :
            OneChecksum /\ Expected[g] # None => localpath # Expected[g]
    BY <2>1 DEF Accepts, OneChecksum
  <2>3. StampIsTrue'
    BY <2>1 DEF StampIsTrue
  <2> QED
    BY <1>a, <2>1, <2>2, <2>3, HolderStep
<1>4. CASE Unstamp(f)
  <2>1. /\ pc[f] = "unstamp" /\ donestamp' = None /\ UNCHANGED localpath
    BY <1>4 DEF Unstamp
  <2>2. StampIsTrue'
    BY <2>1 DEF StampIsTrue
  <2>3. CASE AfterBad(stage[f]) = "none"
    <3>1. Goto(f, "error") /\ UNCHANGED todo
      BY <1>4, <2>3 DEF Unstamp
    <3> QED
      BY <1>a, <2>1, <2>2, <3>1, HolderStep
  <2>4. CASE AfterBad(stage[f]) # "none"
    <3>1. /\ Goto(f, "try")
          /\ todo' = [todo EXCEPT ![f] = Sources[AfterBad(stage[f])]]
      BY <1>4, <2>4 DEF Unstamp, ToSources
    <3>2. localpath = None
      BY <2>1 DEF IInv, Places
    <3> QED
      BY <1>a, <1>b, <2>1, <2>2, <3>1, <3>2, HolderStep
  <2> QED
    BY <2>3, <2>4
<1>5. CASE UpdateGood(f)
  <2>1. pc[f] = "update" /\ UNCHANGED files /\ UNCHANGED todo
    BY <1>5 DEF UpdateGood, control
  <2>2. donestamp = None /\ localpath # None
    BY <2>1 DEF IInv, Places
  <2>3. Accepts(f, localpath) /\ Goto(f, "stamp")
    BY <1>5, <2>2 DEF UpdateGood
  <2>4. localpath' = localpath /\ StampIsTrue'
    BY <2>1 DEF IInv, StampIsTrue, files
  <2> QED
    BY <1>a, <2>1, <2>2, <2>3, <2>4, HolderStep DEF Accepts
<1>6. CASE UpdateBad(f)
  <2>1. /\ pc[f] = "update" /\ ~Accepts(f, localpath)
        /\ localpath' = None /\ UNCHANGED todo /\ Goto(f, "unstamp")
    BY <1>6 DEF UpdateBad, control
  <2>2. \A g \in Fetcher :
            OneChecksum /\ Expected[g] # None => localpath # Expected[g]
    BY <2>1 DEF Accepts, OneChecksum
  <2>3. StampIsTrue'
    BY <2>1 DEF StampIsTrue
  <2> QED
    BY <1>a, <2>1, <2>2, <2>3, HolderStep
<1>7. CASE OpenStamp(f)
  <2>1. /\ pc[f] = "stamp" /\ donestamp' = Torn
        /\ localpath' = localpath /\ UNCHANGED todo /\ Goto(f, "dump")
    BY <1>7 DEF OpenStamp, control
  <2>2. localpath # None
    BY <2>1 DEF IInv, Places
  <2>3. StampIsTrue'
    BY <2>1 DEF StampIsTrue, Content
  <2>4. OneChecksum /\ Expected[f] # None /\ MayClean \subseteq {f}
            => localpath = Expected[f]
    BY <2>1 DEF IInv, AcceptedKept
  <2> QED
    BY <1>a, <2>1, <2>2, <2>3, <2>4, HolderStep
<1>8. CASE DumpStamp(f)
  <2>1. /\ pc[f] = "dump" /\ donestamp' = localpath
        /\ localpath' = localpath /\ UNCHANGED todo /\ Goto(f, "ok")
    BY <1>8 DEF DumpStamp, control
  <2>2. StampIsTrue'
    BY <2>1 DEF StampIsTrue
  <2>3. OneChecksum /\ Expected[f] # None /\ MayClean \subseteq {f}
            => localpath = Expected[f]
    BY <2>1 DEF IInv, AcceptedKept
  <2> QED
    BY <1>a, <2>1, <2>2, <2>3, HolderStep
<1> QED
  BY <1>1, <1>2, <1>3, <1>4, <1>5, <1>6, <1>7, <1>8

\* Trying the sources: nothing is in place that another could have accepted.
LEMMA SourceSteps ==
    ASSUME IInv, TypeOK', Exclusive', NEW f \in Fetcher,
           \/ TrySource(f) \/ NoMoreSources(f) \/ WgetDone(f) \/ WgetFails(f)
           \/ MoveInPlace(f) \/ CheckBad(f) \/ CleanPartial(f)
    PROVE  IInv'
<1> USE ContentAssumption
<1>1. pc[f] \in {"try", "wget", "check", "clean_partial"}
  BY DEF TrySource, NoMoreSources, WgetDone, WgetFails, MoveInPlace, CheckBad,
         CleanPartial
<1>2. pc[f] \notin Rest \cup DOMAIN Waiting
  BY <1>1, Tables DEF Rest
<1>3. localpath = None /\ donestamp = None
  BY <1>1 DEF IInv, NothingInPlace, Places
<1>4. \A g \in Fetcher : Expected[g] # None => localpath # Expected[g]
  BY <1>3
<1>a. ASSUME NEW which, todo' = [todo EXCEPT ![f] = which]
      PROVE  \A g \in Fetcher \ {f} : todo'[g] = todo[g]
  BY <1>a DEF IInv, TypeOK
<1>b. donestamp' = None => StampIsTrue'
  BY DEF StampIsTrue, Content
<1>5. CASE TrySource(f)
  <2>1. /\ Goto(f, "wget") /\ todo[f] # <<>> /\ UNCHANGED <<localpath, todo>>
        /\ donestamp' = None
    BY <1>3, <1>5 DEF TrySource, StampWithoutFile, control
  <2> QED
    BY <1>2, <1>3, <1>4, <1>b, <2>1, HolderStep
<1>6. CASE NoMoreSources(f)
  <2>1. localpath' = None /\ donestamp' = None
    BY <1>3, <1>6 DEF NoMoreSources, files
  <2>2. CASE stage[f] = "premirrors"
    <3>1. Goto(f, "try") /\ todo' = [todo EXCEPT ![f] = Sources["upstream"]]
      BY <1>6, <2>2 DEF NoMoreSources, ToSources
    <3> QED
      BY <1>2, <1>4, <1>a, <1>b, <2>1, <3>1, HolderStep
  <2>3. CASE stage[f] # "premirrors"
    <3>1. Goto(f, "error") /\ UNCHANGED todo
      BY <1>6, <2>3 DEF NoMoreSources
    <3> QED
      BY <1>2, <1>4, <1>b, <2>1, <3>1, HolderStep
  <2> QED
    BY <2>2, <2>3
<1>7. CASE WgetDone(f)
  <2>1. /\ pc[f] = "wget" /\ Goto(f, "check") /\ UNCHANGED todo
        /\ localpath' = None /\ donestamp' = None
        /\ tmp' = [bytes |-> Continued(Bytes[Head(todo[f])]), full |-> TRUE]
    BY <1>3, <1>7 DEF WgetDone, control
  <2>2. todo[f] # <<>> /\ todo[f] \in Seq(Source)
    BY <2>1 DEF IInv, TypeOK, Places
  <2>3. Continued(Bytes[Head(todo[f])]) \in Content
    BY <2>2, ContinuedType DEF IInv
  <2>4. [bytes |-> Continued(Bytes[Head(todo[f])]), full |-> TRUE]
            \in [bytes : Content, full : BOOLEAN]
    BY <2>3
  <2>5. tmp' # None
    BY <2>1, <2>4
  <2> QED
    BY <1>2, <1>4, <1>b, <2>1, <2>2, <2>5, HolderStep
<1>8. CASE WgetFails(f)
  <2>1. /\ pc[f] = "wget" /\ Goto(f, "clean_partial") /\ UNCHANGED todo
        /\ localpath' = None /\ donestamp' = None
    BY <1>3, <1>8 DEF WgetFails
  <2>2. todo[f] # <<>>
    BY <2>1 DEF IInv, Places
  <2> QED
    BY <1>2, <1>4, <1>b, <2>1, <2>2, HolderStep
<1>9. CASE MoveInPlace(f)
  <2>1. /\ pc[f] = "check" /\ Goto(f, "update") /\ UNCHANGED todo
        /\ localpath' = tmp.bytes /\ donestamp' = None
    BY <1>3, <1>9 DEF MoveInPlace, control
  <2>2. tmp # None
    BY <2>1 DEF IInv, Places
  <2>3. tmp.bytes \in Content
    BY <2>2 DEF IInv, TypeOK
  <2> QED
    BY <1>2, <1>4, <1>b, <2>1, <2>3, HolderStep
<1>10. CASE CheckBad(f)
  <2>1. /\ pc[f] = "check" /\ Goto(f, "clean_partial") /\ UNCHANGED todo
        /\ localpath' = None /\ donestamp' = None
    BY <1>3, <1>10 DEF CheckBad, files, control
  <2>2. todo[f] # <<>>
    BY <2>1 DEF IInv, Places
  <2> QED
    BY <1>2, <1>4, <1>b, <2>1, <2>2, HolderStep
<1>11. CASE CleanPartial(f)
  <2>1. /\ Goto(f, "try") /\ localpath' = None /\ donestamp' = None
        /\ \E which : todo' = [todo EXCEPT ![f] = which]
    BY <1>3, <1>11 DEF CleanPartial, ToSources
  <2> QED
    BY <1>2, <1>4, <1>a, <1>b, <2>1, HolderStep
<1> QED
  BY <1>5, <1>6, <1>7, <1>8, <1>9, <1>10, <1>11

\* do_cleanall: no other recipe whose file is to be kept has one.
LEMMA CleanSteps ==
    ASSUME IInv, TypeOK', Exclusive', NEW f \in Fetcher,
           Clean(f) \/ CleanStamp(f)
    PROVE  IInv'
<1> USE ContentAssumption
<1>1. pc[f] \notin Rest \cup DOMAIN Waiting
  BY Tables DEF Clean, CleanStamp, Rest
<1>2. CASE Clean(f)
  <2>1. /\ pc[f] = "clean" /\ Goto(f, "clean_stamp") /\ UNCHANGED todo
        /\ localpath' = None
    BY <1>2 DEF Clean, control
  <2>2. f \in MayClean
    BY <2>1 DEF IInv, Places
  <2>3. \A g \in Fetcher \ {f} : ~(MayClean \subseteq {g})
    BY <2>2
  <2>4. StampIsTrue'
    BY <2>1 DEF StampIsTrue
  <2> QED
    BY <1>1, <2>1, <2>3, <2>4, HolderStep
<1>3. CASE CleanStamp(f)
  <2>1. /\ Goto(f, "cleaned") /\ UNCHANGED todo
        /\ localpath' = localpath /\ donestamp' = None
    BY <1>3 DEF CleanStamp, control
  <2>2. StampIsTrue'
    BY <2>1 DEF StampIsTrue, Content
  <2> QED
    BY <1>1, <2>1, <2>2, HolderStep
<1> QED
  BY <1>2, <1>3

LEMMA InvStep == IInv /\ [Next]_vars => IInv'
<1> SUFFICES ASSUME IInv, [Next]_vars PROVE IInv'
  OBVIOUS
<1>1. TypeOK' /\ Exclusive'
  BY TypeStep, ExclusiveStep
<1>2. CASE UNCHANGED vars
  BY <1>2
  DEF IInv, TypeOK, Exclusive, NothingInPlace, StampIsTrue, Places, AcceptedKept,
      vars, files, control
<1>3. ASSUME NEW f \in Fetcher,
             Start(f) \/ TakeLock(f) \/ Step(f) \/ Kill(f)
      PROVE  IInv'
  BY <1>1, <1>3, QuietSteps, StampSteps, SourceSteps, CleanSteps DEF Step
<1> QED
  BY <1>2, <1>3 DEF Next

\* A file that is in DL_DIR with a whole done stamp is of the checksum the stamp
\* remembers, and what do_unpack unpacks is what do_fetch has verified
\* (verify_donestamp(), update_stamp() and the locks of Fetch.download() and
\* Fetch.unpack()), whoever is killed where.
THEOREM Verified == Spec => []FetchVerified
<1>1. IInv => FetchVerified
  BY DEF IInv, FetchVerified, AcceptedKept, UnpacksVerified
<1> QED
  BY InitInv, InvStep, <1>1, PTL DEF Spec

-----------------------------------------------------------------------------
(* A fetch that no source fails ends well where the upstream source has what *)
(* the recipe wants, though a premirror serves something else and though     *)
(* fetches that were killed left partial downloads.                          *)

\* No recipe wants what only another source has: a download that is wrong is
\* not removed before the mirrors are tried, and they are then not read.
UpstreamServes ==
    \A f \in Fetcher :
        \/ Accepts(f, Bytes[Upstream])
        \/ \A s \in Range(Premirrors \o <<Upstream>> \o Mirrors) :
               ~Accepts(f, Bytes[s])

\* A partial download of a mirror is not resumed from the upstream source, or
\* is of the same file.
MirrorsAgree ==
    \/ Premirrors # <<>>
    \/ \A i \in 1 .. Len(Mirrors) : Bytes[Mirrors[i]] = Bytes[Upstream]

\* Without premirrors, all there is to download is the one file.
OwnBytes ==
    Premirrors = <<>> =>
        /\ tmp # None => tmp.bytes = Bytes[Upstream]
        /\ \A f \in Fetcher : \A i \in 1 .. Len(todo[f]) :
               Bytes[todo[f][i]] = Bytes[Upstream]

\* Where a fetch is that no source has failed: a premirror that is wrong is
\* moved in place, and so leaves nothing for the upstream source to resume.
OnCourse(f) ==
    /\ pc[f] \in {"verify", "unpack", "error"} => stage[f] = "verify"
    /\ pc[f] = "unstamp" => stage[f] \in {"verify", "premirrors"}
    /\ pc[f] \in {"try", "wget", "check", "update"} =>
           \/ stage[f] = "premirrors" /\ todo[f] = Premirrors
           \/ stage[f] = "upstream" /\ todo[f] = <<Upstream>>
    /\ pc[f] # "clean_partial"
    /\ pc[f] = "update" \/ (pc[f] = "unstamp" /\ stage[f] = "premirrors")
           => tmp = None
    /\ stage[f] = "upstream" =>
           /\ pc[f] \in {"try", "wget", "check"} /\ tmp # None
                  => tmp.bytes = Bytes[Upstream]
           /\ pc[f] = "update" => localpath = Bytes[Upstream]

Unfailed == \A f \in Fetcher :
    smooth[f] /\ Accepts(f, Bytes[Upstream]) => OnCourse(f)

LEMMA SourceTable ==
    /\ Sources["premirrors"] = Premirrors
    /\ Sources["upstream"] = <<Upstream>>
    /\ Sources["mirrors"] = Mirrors
  BY DEF Sources

\* What a source that serves the file adds to a download of it.
LEMMA ContinuedSame ==
    ASSUME NEW b, tmp # None => tmp.bytes = b
    PROVE  /\ Continued(b) = b
           /\ \A t \in Partial(b) : t # None => t.bytes = b
<1>1. Continued(b) = b
  BY DEF Continued
<1>2. [bytes |-> Continued(b), full |-> FALSE].bytes = b
  BY <1>1
<1>3. ASSUME NEW t \in Partial(b), t # None PROVE t.bytes = b
  BY <1>2, <1>3 DEF Partial
<1> QED
  BY <1>1, <1>3

\* What is next to be tried, and what is left after it.
LEMMA HeadTail ==
    ASSUME NEW s \in Seq(Source), s # <<>>
    PROVE  /\ 1 \in 1 .. Len(s) /\ Head(s) = s[1]
           /\ \A i \in 1 .. Len(Tail(s)) :
                  i + 1 \in 1 .. Len(s) /\ Tail(s)[i] = s[i + 1]
<1>1. Len(s) \in Nat /\ Len(s) > 0 /\ Head(s) = s[1]
  OBVIOUS
<1>2. Len(Tail(s)) = Len(s) - 1
  OBVIOUS
<1>3. ASSUME NEW i \in 1 .. Len(Tail(s))
      PROVE  i + 1 \in 1 .. Len(s) /\ Tail(s)[i] = s[i + 1]
  BY <1>1, <1>2
<1> QED
  BY <1>1, <1>3

\* The sources of each stage serve the one file, where there are no premirrors.
LEMMA SourcesAgree ==
    ASSUME MirrorsAgree, Premirrors = <<>>
    PROVE  \A which \in {"premirrors", "upstream", "mirrors"} :
               \A i \in 1 .. Len(Sources[which]) :
                   Bytes[Sources[which][i]] = Bytes[Upstream]
<1>1. ASSUME NEW i \in 1 .. Len(<<>>) PROVE FALSE
  BY <1>1
<1>2. ASSUME NEW i \in 1 .. Len(<<Upstream>>) PROVE <<Upstream>>[i] = Upstream
  BY <1>2
<1>3. \A i \in 1 .. Len(Sources["premirrors"]) :
          Bytes[Sources["premirrors"][i]] = Bytes[Upstream]
  BY <1>1, SourceTable
<1>4. \A i \in 1 .. Len(Sources["upstream"]) :
          Bytes[Sources["upstream"][i]] = Bytes[Upstream]
  BY <1>2, SourceTable
<1>5. \A i \in 1 .. Len(Sources["mirrors"]) :
          Bytes[Sources["mirrors"][i]] = Bytes[Upstream]
  BY SourceTable DEF MirrorsAgree
<1> QED
  BY <1>3, <1>4, <1>5

\* Turning to the sources of a stage.
LEMMA OwnBytesToSources ==
    ASSUME TypeOK, MirrorsAgree, OwnBytes, NEW f \in Fetcher,
           NEW which \in {"premirrors", "upstream", "mirrors"},
           todo' = [todo EXCEPT ![f] = Sources[which]], tmp' = tmp
    PROVE  OwnBytes'
<1> SUFFICES ASSUME Premirrors = <<>>
             PROVE  /\ tmp' # None => tmp'.bytes = Bytes[Upstream]
                    /\ \A g \in Fetcher : \A i \in 1 .. Len(todo'[g]) :
                           Bytes[todo'[g][i]] = Bytes[Upstream]
  BY DEF OwnBytes
<1>1. todo'[f] = Sources[which]
      /\ \A g \in Fetcher \ {f} : todo'[g] = todo[g]
  BY DEF TypeOK
<1>2. \A i \in 1 .. Len(todo'[f]) : Bytes[todo'[f][i]] = Bytes[Upstream]
  BY <1>1, SourcesAgree
<1>3. \A g \in Fetcher \ {f} : \A i \in 1 .. Len(todo'[g]) :
          Bytes[todo'[g][i]] = Bytes[Upstream]
  BY <1>1 DEF OwnBytes
<1> QED
  BY <1>2, <1>3 DEF OwnBytes

LEMMA OwnBytesStep ==
    MirrorsAgree /\ IInv /\ OwnBytes /\ [Next]_vars => OwnBytes'
<1> SUFFICES ASSUME MirrorsAgree, IInv, OwnBytes, [Next]_vars PROVE OwnBytes'
  OBVIOUS
<1>0. TypeOK
  BY DEF IInv
<1>1. ASSUME UNCHANGED <<tmp, todo>> PROVE OwnBytes'
  BY <1>1 DEF OwnBytes
<1>2. CASE UNCHANGED vars
  BY <1>1, <1>2 DEF vars, files, control
<1>3. ASSUME NEW f \in Fetcher,
             \/ Start(f) \/ TakeLock(f) \/ Kill(f) \/ Leave(f) \/ VerifyGood(f)
             \/ VerifyBad(f) \/ TrySource(f) \/ CheckBad(f) \/ UpdateGood(f)
             \/ UpdateBad(f) \/ OpenStamp(f) \/ DumpStamp(f) \/ Unpack(f)
             \/ Clean(f) \/ CleanStamp(f)
      PROVE  OwnBytes'
  <2>1. UNCHANGED <<tmp, todo>>
    BY <1>3
    DEF Start, TakeLock, Kill, Leave, VerifyGood, VerifyBad, TrySource, CheckBad,
        UpdateGood, UpdateBad, OpenStamp, DumpStamp, Unpack, Clean, CleanStamp,
        files, control
  <2> QED
    BY <1>1, <2>1
<1>4. ASSUME NEW f \in Fetcher, VerifyMissing(f) PROVE OwnBytes'
  BY <1>0, <1>4, OwnBytesToSources DEF VerifyMissing, ToSources
<1>5. ASSUME NEW f \in Fetcher, Unstamp(f) PROVE OwnBytes'
  <2>1. CASE AfterBad(stage[f]) = "none"
    BY <1>1, <1>5, <2>1 DEF Unstamp
  <2>2. CASE AfterBad(stage[f]) # "none"
    <3>1. AfterBad(stage[f]) \in {"premirrors", "upstream"}
      BY <2>2, AfterBadType
    <3>2. /\ todo' = [todo EXCEPT ![f] = Sources[AfterBad(stage[f])]]
          /\ tmp' = tmp
      BY <1>5, <2>2 DEF Unstamp, ToSources
    <3> QED
      BY <1>0, <3>1, <3>2, OwnBytesToSources
  <2> QED
    BY <2>1, <2>2
<1>6. ASSUME NEW f \in Fetcher, NoMoreSources(f) PROVE OwnBytes'
  <2>1. CASE stage[f] = "premirrors"
    BY <1>0, <1>6, <2>1, OwnBytesToSources DEF NoMoreSources, ToSources, files
  <2>2. CASE stage[f] # "premirrors"
    BY <1>1, <1>6, <2>2 DEF NoMoreSources, files
  <2> QED
    BY <2>1, <2>2
<1>7. ASSUME NEW f \in Fetcher, WgetDone(f) \/ WgetFails(f) PROVE OwnBytes'
  <2> SUFFICES ASSUME Premirrors = <<>>
               PROVE  tmp' # None => tmp'.bytes = Bytes[Upstream]
    BY <1>7 DEF OwnBytes, WgetDone, WgetFails, control
  <2>1. todo[f] \in Seq(Source) /\ todo[f] # <<>>
    BY <1>7 DEF IInv, TypeOK, Places, WgetDone, WgetFails
  <2>2. Bytes[Head(todo[f])] = Bytes[Upstream]
    BY <2>1, HeadTail DEF OwnBytes
  <2>3. tmp # None => tmp.bytes = Bytes[Upstream]
    BY DEF OwnBytes
  <2>4. CASE WgetDone(f)
    <3>1. tmp' = [bytes |-> Bytes[Upstream], full |-> TRUE]
      BY <2>2, <2>3, <2>4, ContinuedSame DEF WgetDone
    <3> QED
      BY <3>1
  <2>5. CASE WgetFails(f)
    BY <2>2, <2>3, <2>5, ContinuedSame DEF WgetFails
  <2> QED
    BY <1>7, <2>4, <2>5
<1>8. ASSUME NEW f \in Fetcher, MoveInPlace(f) PROVE OwnBytes'
  BY <1>8 DEF OwnBytes, MoveInPlace, control
<1>9. ASSUME NEW f \in Fetcher, CleanPartial(f) PROVE OwnBytes'
  <2>1. CASE stage[f] = "upstream"
    BY <1>0, <1>9, <2>1, OwnBytesToSources DEF CleanPartial, ToSources
  <2>2. CASE stage[f] # "upstream"
    <3> SUFFICES ASSUME Premirrors = <<>>, NEW g \in Fetcher,
                        NEW i \in 1 .. Len(todo'[g])
                 PROVE  Bytes[todo'[g][i]] = Bytes[Upstream]
      BY <1>9 DEF OwnBytes, CleanPartial
    <3>1. todo' = [todo EXCEPT ![f] = Tail(todo[f])]
      BY <1>9, <2>2 DEF CleanPartial
    <3>2. todo[f] \in Seq(Source) /\ todo[f] # <<>>
      BY <1>9 DEF IInv, TypeOK, Places, CleanPartial
    <3>3. CASE g = f
      <4>1. todo'[g] = Tail(todo[f])
        BY <1>0, <3>1, <3>3 DEF TypeOK
      <4>2. i + 1 \in 1 .. Len(todo[f]) /\ todo'[g][i] = todo[f][i + 1]
        BY <3>2, <4>1, HeadTail
      <4> QED
        BY <4>2 DEF OwnBytes
    <3>4. CASE g # f
      BY <1>0, <3>1, <3>4 DEF OwnBytes, TypeOK
    <3> QED
      BY <3>3, <3>4
  <2> QED
    BY <2>1, <2>2
<1> QED
  BY <1>2, <1>3, <1>4, <1>5, <1>6, <1>7, <1>8, <1>9 DEF Next, Step

\* A fetcher that is at rest or waits for the lock is on course.
LEMMA RestOnCourse ==
    ASSUME NEW f \in Fetcher,
           pc[f] \in Rest \cup {"fetch_lock", "unpack_lock", "clean_lock"}
    PROVE  OnCourse(f)
  BY DEF OnCourse, Rest

\* A step of a fetcher disturbs nobody else: the others are at rest or wait, or
\* it is not at work itself and touches no file.
LEMMA OthersOnCourse ==
    ASSUME IInv, Unfailed, NEW f \in Fetcher,
           Start(f) \/ TakeLock(f) \/ Step(f) \/ Kill(f),
           NEW g \in Fetcher \ {f}, smooth'[g], Accepts(g, Bytes[Upstream])
    PROVE  OnCourse(g)'
<1>1. /\ pc'[g] = pc[g] /\ stage'[g] = stage[g] /\ todo'[g] = todo[g]
      /\ smooth'[g] = smooth[g]
  BY DEF IInv, TypeOK, Start, TakeLock, Kill, Leave, Step, VerifyMissing,
         VerifyGood, VerifyBad, Unstamp, TrySource, NoMoreSources, WgetDone,
         WgetFails, MoveInPlace, CheckBad, CleanPartial, UpdateGood, UpdateBad,
         OpenStamp, DumpStamp, Unpack, Clean, CleanStamp, ToSources, Goto, files,
         control
<1>2. CASE pc[f] \notin Rest \cup DOMAIN Waiting
  <2>1. pc[g] \in Rest \cup {"fetch_lock", "unpack_lock", "clean_lock"}
    BY <1>2, Alone DEF IInv
  <2>2. pc'[g] \in Rest \cup {"fetch_lock", "unpack_lock", "clean_lock"}
    BY <1>1, <2>1
  <2> QED
    BY <2>2 DEF OnCourse, Rest
<1>3. CASE pc[f] \in Rest \cup DOMAIN Waiting
  <2>1. UNCHANGED <<localpath, tmp>>
    BY <1>3, Tables
    DEF Start, TakeLock, Kill, Leave, Step, VerifyMissing, VerifyGood, VerifyBad,
        Unstamp, TrySource, NoMoreSources, WgetDone, WgetFails, MoveInPlace,
        CheckBad, CleanPartial, UpdateGood, UpdateBad, OpenStamp, DumpStamp,
        Unpack, Clean, CleanStamp, files, Rest
  <2>2. OnCourse(g)
    BY <1>1 DEF Unfailed
  <2> QED
    BY <1>1, <2>1, <2>2 DEF OnCourse
<1> QED
  BY <1>2, <1>3

\* The fetcher's own step, by action.
LEMMA OwnOnCourse ==
    ASSUME MirrorsAgree, IInv, OwnBytes, Unfailed, NEW f \in Fetcher,
           Start(f) \/ TakeLock(f) \/ Step(f) \/ Kill(f),
           smooth'[f], Accepts(f, Bytes[Upstream])
    PROVE  OnCourse(f)'
<1> USE Tables, SourceTable
<1>0. TypeOK
  BY DEF IInv
<1>1. CASE Start(f)
  BY <1>0, <1>1 DEF TypeOK, Start, Goto, OnCourse
<1>2. CASE TakeLock(f)
  BY <1>0, <1>2 DEF TypeOK, TakeLock, Goto, OnCourse
<1>3. CASE Kill(f)
  BY <1>0, <1>3 DEF TypeOK, Kill, Goto, OnCourse
<1>4. CASE Leave(f)
  BY <1>0, <1>4 DEF TypeOK, Leave, Goto, OnCourse
<1>5. ASSUME Step(f), ~Leave(f) PROVE OnCourse(f)'
  <2>1. OnCourse(f)
    <3>1. smooth[f]
      BY <1>0, <1>5
      DEF TypeOK, Step, VerifyMissing, VerifyGood, VerifyBad, Unstamp, TrySource,
          NoMoreSources, WgetDone, WgetFails, MoveInPlace, CheckBad,
          CleanPartial, UpdateGood, UpdateBad, OpenStamp, DumpStamp, Unpack,
          Clean, CleanStamp, ToSources, control
    <3> QED
      BY <3>1 DEF Unfailed
  <2>2. ASSUME \/ VerifyGood(f) \/ OpenStamp(f) \/ DumpStamp(f) \/ Unpack(f)
               \/ Clean(f) \/ CleanStamp(f) \/ UpdateGood(f)
        PROVE  OnCourse(f)'
    BY <1>0, <2>1, <2>2
    DEF TypeOK, VerifyGood, OpenStamp, DumpStamp, Unpack, Clean, CleanStamp,
        UpdateGood, Goto, OnCourse, files, control
  <2>3. CASE VerifyMissing(f)
    BY <1>0, <2>3 DEF TypeOK, VerifyMissing, ToSources, Goto, OnCourse
  <2>4. CASE VerifyBad(f)
    BY <1>0, <2>1, <2>4 DEF TypeOK, VerifyBad, Goto, OnCourse, control
  <2>5. CASE Unstamp(f)
    <3>1. CASE stage[f] = "verify"
      <4>1. AfterBad(stage[f]) = "premirrors"
        BY <3>1 DEF AfterBad
      <4>2. /\ pc'[f] = "try" /\ stage'[f] = "premirrors"
            /\ todo'[f] = Premirrors
        BY <1>0, <2>5, <4>1 DEF TypeOK, Unstamp, ToSources, Goto
      <4> QED
        BY <4>2 DEF OnCourse
    <3>2. CASE stage[f] = "premirrors"
      <4>1. AfterBad(stage[f]) = "upstream"
        BY <3>2 DEF AfterBad
      <4>2. /\ pc'[f] = "try" /\ stage'[f] = "upstream"
            /\ todo'[f] = <<Upstream>>
        BY <1>0, <2>5, <4>1 DEF TypeOK, Unstamp, ToSources, Goto
      <4>3. tmp' = None
        BY <2>1, <2>5, <3>2 DEF Unstamp, OnCourse
      <4> QED
        BY <4>2, <4>3 DEF OnCourse
    <3> QED
      BY <2>1, <2>5, <3>1, <3>2 DEF Unstamp, OnCourse
  <2>6. CASE TrySource(f)
    BY <1>0, <2>1, <2>6 DEF TypeOK, TrySource, Goto, OnCourse, control
  <2>7. CASE NoMoreSources(f)
    <3>1. Premirrors = <<>> /\ stage[f] = "premirrors"
      BY <2>1, <2>7 DEF NoMoreSources, OnCourse
    <3>2. /\ pc'[f] = "try" /\ stage'[f] = "upstream"
          /\ todo'[f] = <<Upstream>> /\ tmp' = tmp
      BY <1>0, <2>7, <3>1 DEF TypeOK, NoMoreSources, ToSources, Goto, files
    <3>3. tmp' # None => tmp'.bytes = Bytes[Upstream]
      BY <3>1, <3>2 DEF OwnBytes
    <3> QED
      BY <3>2, <3>3 DEF OnCourse
  <2>8. CASE WgetDone(f)
    <3>1. /\ pc[f] = "wget" /\ pc'[f] = "check" /\ UNCHANGED <<stage, todo>>
          /\ tmp' = [bytes |-> Continued(Bytes[Head(todo[f])]), full |-> TRUE]
      BY <1>0, <2>8 DEF TypeOK, WgetDone, Goto, control
    <3>2. CASE stage[f] = "upstream"
      <4>1. /\ Head(todo[f]) = Upstream
            /\ tmp # None => tmp.bytes = Bytes[Upstream]
        BY <2>1, <3>1, <3>2 DEF OnCourse
      <4>2. tmp'.bytes = Bytes[Upstream]
        BY <3>1, <4>1, ContinuedSame
      <4> QED
        BY <2>1, <3>1, <3>2, <4>2 DEF OnCourse
    <3>3. CASE stage[f] # "upstream"
      BY <2>1, <3>1, <3>3 DEF OnCourse
    <3> QED
      BY <3>2, <3>3
  <2>9. CASE WgetFails(f)
    BY <1>0, <2>9 DEF TypeOK, WgetFails
  <2>10. CASE MoveInPlace(f)
    <3>1. /\ pc[f] = "check" /\ pc'[f] = "update" /\ UNCHANGED <<stage, todo>>
          /\ localpath' = tmp.bytes /\ tmp' = None
      BY <1>0, <2>10 DEF TypeOK, MoveInPlace, Goto, control
    <3>2. stage[f] = "upstream" => localpath' = Bytes[Upstream]
      BY <2>1, <3>1 DEF IInv, Places, OnCourse
    <3> QED
      BY <2>1, <3>1, <3>2 DEF OnCourse
  <2>11. CASE CheckBad(f)
    <3>1. pc[f] = "check" /\ stage[f] = "upstream" /\ ~Accepts(f, tmp.bytes)
      BY <2>11 DEF CheckBad, Checked
    <3>2. tmp.bytes = Bytes[Upstream]
      BY <2>1, <3>1 DEF IInv, Places, OnCourse
    <3> QED
      BY <3>1, <3>2
  <2>12. CASE CleanPartial(f)
    BY <2>1, <2>12 DEF CleanPartial, OnCourse
  <2>13. CASE UpdateBad(f)
    <3>1. /\ pc[f] = "update" /\ pc'[f] = "unstamp" /\ UNCHANGED <<stage, tmp>>
          /\ ~Accepts(f, localpath)
      BY <1>0, <2>13 DEF TypeOK, UpdateBad, Goto, control
    <3>2. stage[f] = "premirrors" /\ tmp = None
      BY <2>1, <3>1 DEF OnCourse
    <3> QED
      BY <3>1, <3>2 DEF OnCourse
  <2> QED
    BY <1>5, <2>2, <2>3, <2>4, <2>5, <2>6, <2>7, <2>8, <2>9, <2>10, <2>11,
       <2>12, <2>13 DEF Step
<1> QED
  BY <1>1, <1>2, <1>3, <1>4, <1>5

LEMMA UnfailedStep ==
    MirrorsAgree /\ IInv /\ OwnBytes /\ Unfailed /\ [Next]_vars => Unfailed'
<1> SUFFICES ASSUME MirrorsAgree, IInv, OwnBytes, Unfailed, [Next]_vars,
                    NEW g \in Fetcher, smooth'[g], Accepts(g, Bytes[Upstream])
             PROVE  OnCourse(g)'
  BY DEF Unfailed, Accepts
<1>1. CASE UNCHANGED vars
  BY <1>1 DEF Unfailed, OnCourse, vars, files, control
<1>2. ASSUME NEW f \in Fetcher, Start(f) \/ TakeLock(f) \/ Step(f) \/ Kill(f)
      PROVE  OnCourse(g)'
  BY <1>2, OthersOnCourse, OwnOnCourse
<1> QED
  BY <1>1, <1>2 DEF Next

LEMMA UnfailedInit == Init => OwnBytes /\ Unfailed
<1> SUFFICES ASSUME Init PROVE OwnBytes /\ Unfailed
  OBVIOUS
<1>1. \A f \in Fetcher : todo[f] = <<>> /\ pc[f] = "idle"
  BY DEF Init
<1>2. OwnBytes
  BY <1>1 DEF Init, OwnBytes
<1>3. Unfailed
  BY <1>1 DEF Init, Unfailed, OnCourse
<1> QED
  BY <1>2, <1>3

\* "Checksum failure encountered ... will attempt other sources if available"
\* (Fetch.download()): where the upstream source has what a recipe wants if any
\* source has, a fetch that no source has failed does not end without it,
\* whatever premirrors serve and killed fetches left to be resumed.
THEOREM OtherSourcesTheorem ==
    UpstreamServes /\ MirrorsAgree /\ Spec => []OtherSourcesTried
<1> SUFFICES ASSUME UpstreamServes /\ MirrorsAgree
             PROVE  Spec => []OtherSourcesTried
  OBVIOUS
<1> DEFINE J == IInv /\ OwnBytes /\ Unfailed
<1>1. Init => J
  BY InitInv, UnfailedInit
<1>2. J /\ [Next]_vars => J'
  BY InvStep, OwnBytesStep, UnfailedStep
<1>3. J => OtherSourcesTried
  <2> SUFFICES ASSUME J, NEW f \in Fetcher,
                      pc[f] = "error", stage[f] # "verify", smooth[f]
               PROVE  \A s \in Range(Premirrors \o <<Upstream>> \o Mirrors) :
                          ~Accepts(f, Bytes[s])
    BY DEF OtherSourcesTried
  <2>1. ~Accepts(f, Bytes[Upstream])
    BY DEF Unfailed, OnCourse
  <2> QED
    BY <2>1 DEF UpstreamServes
<1> HIDE DEF J
<1> QED
  BY <1>1, <1>2, <1>3, PTL DEF Spec

=============================================================================
