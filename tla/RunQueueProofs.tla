--------------------------- MODULE RunQueueProofs ---------------------------
(***************************************************************************)
(* What TLAPS proves of the run queue, for every graph, every set of       *)
(* setscene tasks and every configuration: type correctness, and from an   *)
(* inductive invariant the dependency order and the refinement of the task *)
(* graph.  The second half, from "The run queue and the scene queue" on,   *)
(* is about the two together, up to the end of a build: what it leaves,    *)
(* why it fails, and what it has done.                                     *)
(***************************************************************************)
EXTENDS RunQueue, SequenceTheorems, FiniteSetTheorems, TLAPS

(***************************************************************************)
(* The operators on the scene queue's record keep its type, and none but   *)
(* Unsettle takes a task out of sq_running.                                *)
(***************************************************************************)

\* UpdateCounters, on which all of them rest: running is left alone.
LEMMA UpdateCountersType ==
    ASSUME NEW q \in SceneRecord, NEW S \in SUBSET Setscene
    PROVE  /\ UpdateCounters(q, S) \in SceneRecord
           /\ UpdateCounters(q, S).running = q.running
<1>1. DoneBelow(S, q.done) \in SUBSET Task
  BY GraphAssumption DEF DoneBelow, SceneRecord
<1> QED
  BY <1>1 DEF UpdateCounters, SceneRecord

\* sq_task_skip() marks tasks running and covered.
LEMMA SkipType ==
    ASSUME NEW q \in SceneRecord, NEW S \in SUBSET Setscene
    PROVE  /\ sq_task_skip(q, S) \in SceneRecord
           /\ sq_task_skip(q, S).running = q.running \cup S
<1> DEFINE q1 == [q EXCEPT !.running = @ \cup S, !.buildable = @ \cup S]
           q2 == [q1 EXCEPT !.covered = @ \cup S]
<1>1. q2 \in SceneRecord /\ q2.running = q.running \cup S
  BY DEF SceneRecord
<1> QED
  BY <1>1, UpdateCountersType DEF sq_task_skip, sq_task_completeoutright

\* sq_task_failoutright() marks tasks running and not covered.
LEMMA FailType ==
    ASSUME NEW q \in SceneRecord, NEW S \in SUBSET Setscene, NEW h, NEW disk
    PROVE  /\ sq_task_failoutright(q, S, h, disk) \in SceneRecord
           /\ q.running \subseteq sq_task_failoutright(q, S, h, disk).running
<1> DEFINE lost == HardFailures(q, S, h, disk)
           q1 == [q EXCEPT !.running = @ \cup lost, !.buildable = @ \cup lost,
                           !.notcovered = @ \cup lost]
<1>1. lost \in SUBSET Setscene
  BY DEF HardFailures
<1>2. q1 \in SceneRecord /\ q.running \subseteq q1.running
  BY <1>1 DEF SceneRecord
<1> QED
  BY <1>1, <1>2, UpdateCountersType DEF sq_task_failoutright

\* update_scenequeue_data()
LEMMA UpdateDataType ==
    ASSUME NEW q \in SceneRecord, NEW tids \in SUBSET Setscene,
           NEW valid, NEW deferred, NEW h, NEW disk
    PROVE  /\ update_scenequeue_data(q, tids, valid, deferred, h, disk) \in SceneRecord
           /\ q.running \subseteq
                update_scenequeue_data(q, tids, valid, deferred, h, disk).running
<1> DEFINE skipped == {t \in tids : NothingToRestore(t, h, disk)}
           q1 == sq_task_skip(q, skipped)
<1>1. q1 \in SceneRecord /\ q.running \subseteq q1.running
  BY SkipType
<1> HIDE DEF q1
<1>2. update_scenequeue_data(q, tids, valid, deferred, h, disk) =
        [q1 EXCEPT !.outrightfail =
            (@ \ tids) \cup ((tids \ skipped) \ (valid \cup Decided(q1)
                                                    \cup DOMAIN deferred))]
  BY DEF update_scenequeue_data, q1
<1> HIDE DEF skipped
<1>3. (tids \ skipped) \ (valid \cup Decided(q1) \cup DOMAIN deferred) \in SUBSET Setscene
  OBVIOUS
<1> QED
  BY <1>1, <1>2, <1>3 DEF SceneRecord

\* Unsettle() takes out the tasks given, no others.
LEMMA UnsettleType ==
    ASSUME sq \in SceneRecord, NEW mig \in SUBSET Setscene
    PROVE  /\ Unsettle(mig) \in SceneRecord
           /\ Unsettle(mig).running = sq.running \ mig
<1> DEFINE gone == mig \cup {d \in UNION {sq_covered_tasks[t] : t \in mig} :
                               d \notin runq_complete /\ d \notin unskippable}
           q1 == [sq EXCEPT !.buildable = @ \ mig, !.running = @ \ mig]
           q2 == [q1 EXCEPT !.outrightfail = @ \ mig, !.covered = @ \ mig]
           q3 == [q2 EXCEPT !.notcovered = @ \ mig, !.notneeded = @ \ mig]
<1>1. Unsettle(mig) = [q3 EXCEPT !.done = @ \ gone]
  BY Zenon DEF Unsettle
<1> HIDE DEF gone
<1>2. q1 \in SceneRecord /\ q1.running = sq.running \ mig
  BY DEF SceneRecord
<1> HIDE DEF q1
<1>3. q2 \in SceneRecord /\ q2.running = q1.running
  BY <1>2 DEF SceneRecord
<1> HIDE DEF q2
<1>4. q3 \in SceneRecord /\ q3.running = q2.running
  BY <1>3 DEF SceneRecord
<1> HIDE DEF q3
<1> QED
  BY <1>1, <1>2, <1>3, <1>4 DEF SceneRecord

\* ... and Resettle() is Unsettle() with tasks marked again afterwards.
LEMMA ResettleType ==
    ASSUME sq \in SceneRecord, NEW mig \in SUBSET Setscene,
           NEW h, NEW deferred, NEW valid, NEW disk
    PROVE  /\ Resettle(mig, h, deferred, valid, disk) \in SceneRecord
           /\ sq.running \ mig \subseteq Resettle(mig, h, deferred, valid, disk).running
<1> DEFINE q1 == Unsettle(mig)
           ready == {t \in mig : \/ sq_revdeps[t] = {}
                                 \/ /\ ~MissingHardDep(q1, t)
                                    /\ sq_revdeps[t] \subseteq Decided(q1)}
           q2 == [q1 EXCEPT !.buildable = @ \cup ready]
           q3 == update_scenequeue_data(q2, mig, valid, deferred, h, disk)
           lost == {t \in mig : MissingHardDep(q1, t)}
           q4 == sq_task_failoutright(q3, lost, h, disk)
<1>1. q1 \in SceneRecord /\ q1.running = sq.running \ mig
  BY UnsettleType
<1>2. ready \in SUBSET Setscene /\ lost \in SUBSET Setscene
  OBVIOUS
<1>3. Resettle(mig, h, deferred, valid, disk) = [q4 EXCEPT !.harddep_deferred = {}]
  BY DEF Resettle
<1> HIDE DEF q1, ready, lost
<1>4. q2 \in SceneRecord /\ q2.running = q1.running
  BY <1>1, <1>2 DEF SceneRecord
<1> HIDE DEF q2
<1>5. q3 \in SceneRecord /\ q2.running \subseteq q3.running
  BY <1>4, UpdateDataType
<1> HIDE DEF q3
<1>6. q4 \in SceneRecord /\ q3.running \subseteq q4.running
  BY <1>2, <1>5, FailType
<1> HIDE DEF q4
<1>7. [q4 EXCEPT !.harddep_deferred = {}] \in SceneRecord
  BY <1>6 DEF SceneRecord
<1>8. [q4 EXCEPT !.harddep_deferred = {}].running = q4.running
  BY <1>6 DEF SceneRecord
<1> QED
  BY <1>1, <1>3, <1>4, <1>5, <1>6, <1>7, <1>8

\* The first task with an index is one of the setscene tasks with it.
LEMMA HashesType ==
    ASSUME NEW k \in DOMAIN hashes
    PROVE  hashes[k] \in Setscene
<1> DEFINE same == {u \in Setscene : pending_hash_index(u, InitHash) = k}
<1>1. same # {}
  BY DEF hashes
<1>2. PICK t \in same : \A u \in same : Rank[t] <= Rank[u]
  BY <1>1, RankAssumption
<1>3. /\ t \in Setscene /\ pending_hash_index(t, InitHash) = k
      /\ \A u \in Setscene :
            pending_hash_index(u, InitHash) = k => Rank[t] <= Rank[u]
  BY <1>2
<1>4. hashes[k] = CHOOSE x \in Setscene :
                    /\ pending_hash_index(x, InitHash) = k
                    /\ \A u \in Setscene :
                          pending_hash_index(u, InitHash) = k => Rank[x] <= Rank[u]
  BY DEF hashes
<1> QED
  BY <1>3, <1>4

\* Redefer() keeps the type of sq_deferred.
LEMMA RedeferType ==
    ASSUME DOMAIN sq_deferred \subseteq Setscene,
           \A t \in DOMAIN sq_deferred : sq_deferred[t] \in Setscene,
           NEW mig \in SUBSET Setscene, NEW h
    PROVE  /\ DOMAIN Redefer(mig, h) \subseteq Setscene
           /\ \A t \in DOMAIN Redefer(mig, h) : Redefer(mig, h)[t] \in Setscene
  BY HashesType DEF Redefer

\* An update leaves the queue, the others keep their type.
LEMMA WithoutType ==
    ASSUME NEW S, NEW s \in Seq(S), NEW i \in DOMAIN s
    PROVE  Without(s, i) \in Seq(S)
<1>1. i \in 1..Len(s) /\ Len(s) \in Nat
  OBVIOUS
<1>2. SubSeq(s, 1, i - 1) \in Seq(S)
  <2>1. \A j \in 1..(i - 1) : s[j] \in S
    BY <1>1
  <2> QED
    BY <1>1, <2>1, SubSeqProperties
<1>3. SubSeq(s, i + 1, Len(s)) \in Seq(S)
  <2>1. \A j \in (i + 1)..Len(s) : s[j] \in S
    BY <1>1
  <2> QED
    BY <1>1, <2>1, SubSeqProperties
<1> QED
  BY <1>2, <1>3, ConcatProperties DEF Without

(***************************************************************************)
(* Type correctness.                                                       *)
(***************************************************************************)

\* What is on disk keeps its type when a stamp is made.
LEMMA StampsType ==
    ASSUME NEW disk \in SUBSET Disk, NEW h \in [Task -> Hash]
    PROVE  /\ \A kind \in {"real", "scene", "rebuilt"}, t \in Task, g \in Hash :
                  WithStamp(disk, kind, t, g) \subseteq Disk
           /\ \A S \in SUBSET Task : NoExecStamped(disk, S, h) \subseteq Disk
  BY DEF WithStamp, NoExecStamped, Disk

\* The initial states are of the type.
LEMMA InitType == Init => TypeOK
<1> SUFFICES ASSUME Init PROVE TypeOK
  OBVIOUS
<1>1. sq \in SceneRecord
  <2>1. PICK valid : sq = InitScene(valid, stamps)
    BY DEF Init
  <2> DEFINE q == [buildable |-> {t \in Setscene : sq_revdeps[t] = {}},
                   running |-> {}, covered |-> {}, notcovered |-> {},
                   notneeded |-> {}, done |-> unskippable \cap Plain,
                   harddep_deferred |-> {}, outrightfail |-> {}]
  <2>2. q \in SceneRecord
    BY DEF SceneRecord, Plain
  <2>3. sq = update_scenequeue_data(q, Setscene, valid, InitDeferred, InitHash, stamps)
    BY <2>1 DEF InitScene
  <2> QED
    BY <2>2, <2>3, UpdateDataType
<1>2. /\ DOMAIN sq_deferred \subseteq Setscene
      /\ \A t \in DOMAIN sq_deferred : sq_deferred[t] \in Setscene
  <2>1. sq_deferred = InitDeferred
    BY DEF Init
  <2>2. \A t \in DOMAIN InitDeferred :
           /\ t \in Setscene
           /\ InitDeferred[t] = hashes[pending_hash_index(t, InitHash)]
           /\ pending_hash_index(t, InitHash) \in DOMAIN hashes
    BY DEF InitDeferred, hashes
  <2> QED
    BY <2>1, <2>2, HashesType
<1>3. /\ unihash \in [Task -> Hash]
      /\ stamps \subseteq Disk
      /\ updated_taskhash_queue \in Seq(Task \X Hash)
  <2>1. PICK left \in SUBSET InitStamps :
               stamps = NoExecStamped(left, Setscene, InitHash)
    BY DEF Init
  <2>2. stamps \subseteq Disk
    <3>1. left \in SUBSET Disk
      BY ConfigAssumption DEF Disk
    <3> QED
      BY <2>1, <3>1, StampsType, HashAssumption, GraphAssumption
  <2> QED
    BY <2>2, HashAssumption DEF Init
<1> QED
  BY <1>1, <1>2, <1>3, GraphAssumption, HashAssumption DEF Init, TypeOK

\* ... and when a process leaves its stamp.
LEMMA StampsLeftType ==
    ASSUME TypeOK, NEW kind \in Kind, NEW t \in Task, NEW h \in Hash, NEW ok \in BOOLEAN
    PROVE  StampsLeft(kind, t, h, ok) \in SUBSET Disk
<1> stamps \in SUBSET Disk /\ unihash \in [Task -> Hash]
  BY DEF TypeOK
<1> QED
  BY StampsType DEF StampsLeft, Kind

\* task_completeoutright() keeps the type of what it changes.
LEMMA CompleteType ==
    ASSUME TypeOK, NEW t \in Task, NEW disk \in SUBSET Disk,
           task_completeoutright(t, disk)
    PROVE  /\ stamps' \subseteq Disk
           /\ runq_complete' \subseteq Task /\ runq_buildable' \subseteq Task
           /\ sq' \in SceneRecord /\ sq.running \subseteq sq'.running
           /\ DOMAIN sq_deferred' \subseteq Setscene
           /\ \A d \in DOMAIN sq_deferred' : sq_deferred'[d] \in Setscene
           /\ holdoff_need_update' \in BOOLEAN
<1> DEFINE waiting == {d \in DOMAIN sq_deferred : sq_deferred[d] = t}
<1>1. runq_complete' \subseteq Task /\ runq_buildable' \subseteq Task
  BY DEF TypeOK, task_completeoutright, Freed, RevDeps
<1>2. CASE waiting = {}
  BY <1>1, <1>2 DEF TypeOK, task_completeoutright
<1>3. CASE waiting # {}
  <2>1. PICK found \in waiting, valid \in SUBSET MayBeValid :
          LET kept == Restrict(sq_deferred, DOMAIN sq_deferred \ {found})
              deferred == [d \in DOMAIN kept |->
                             IF d \in waiting THEN found ELSE kept[d]]
          IN  /\ sq_deferred' = deferred
              /\ stamps' = NoExecStamped(disk, {found}, unihash)
              /\ sq' = update_scenequeue_data(sq, {found}, valid, kept,
                                              unihash, stamps')
              /\ holdoff_need_update' =
                    (holdoff_need_update \/ NothingToRestore(found, unihash, stamps'))
    BY <1>3 DEF task_completeoutright
  <2>2. found \in Setscene
    BY DEF TypeOK
  <2>3. sq' \in SceneRecord /\ sq.running \subseteq sq'.running
    BY <2>1, <2>2, UpdateDataType DEF TypeOK
  <2>4. /\ DOMAIN sq_deferred' \subseteq Setscene
        /\ \A d \in DOMAIN sq_deferred' : sq_deferred'[d] \in Setscene
    BY <2>1, <2>2 DEF TypeOK, Restrict
  <2>5. holdoff_need_update' \in BOOLEAN
    BY <2>1 DEF TypeOK
  <2>6. stamps' \subseteq Disk
    BY <2>1, <2>2, StampsType, GraphAssumption DEF TypeOK
  <2> QED
    BY <1>1, <2>3, <2>4, <2>5, <2>6
<1> QED
  BY <1>2, <1>3

\* The exit of a setscene task keeps the type of the scene queue's record.
LEMMA SetsceneExitType ==
    ASSUME TypeOK, NEW t \in Task, NEW ok \in BOOLEAN, NEW disk,
           SetsceneExit(t, ok, disk)
    PROVE  sq' \in SceneRecord /\ sq.running \subseteq sq'.running
<1>1. t \in Setscene
  BY DEF TypeOK, SetsceneExit
<1>2. CASE ok
  <2> DEFINE q2 == [sq EXCEPT !.covered = @ \cup {t}]
  <2>1. q2 \in SceneRecord /\ q2.running = sq.running
    BY <1>1 DEF TypeOK, SceneRecord
  <2>2. sq' = UpdateCounters(q2, {t})
    BY <1>2 DEF SetsceneExit, sq_task_completeoutright
  <2> QED
    BY <1>1, <2>1, <2>2, UpdateCountersType
<1>3. CASE ~ok
  <2> DEFINE failed == [sq EXCEPT !.notcovered = @ \cup {t}]
             lost == HardFailures(failed, {t}, unihash, disk) \ {t}
             q2 == [failed EXCEPT !.running = @ \cup lost,
                                  !.buildable = @ \cup lost,
                                  !.notcovered = @ \cup lost]
  <2>1. failed \in SceneRecord /\ failed.running = sq.running
    BY <1>1 DEF TypeOK, SceneRecord
  <2>2. lost \in SUBSET Setscene
    BY DEF HardFailures
  <2>3. sq' = UpdateCounters(q2, lost \cup {t})
    BY <1>3 DEF SetsceneExit
  <2> HIDE DEF failed, lost
  <2>4. q2 \in SceneRecord /\ sq.running \subseteq q2.running
    BY <2>1, <2>2 DEF SceneRecord
  <2> HIDE DEF q2
  <2> QED
    BY <1>1, <2>2, <2>3, <2>4, UpdateCountersType
<1> QED
  BY <1>2, <1>3

\* A step that starts or settles a setscene task keeps the type, and takes none
\* out of sq_running.
LEMMA SceneType ==
    ASSUME TypeOK, NEW t \in Setscene, NEW D \in SUBSET PassedOver,
           \/ SceneNotNeeded(t, D) \/ SceneNeedHardDeps(t, D)
           \/ SceneSettle(t, D) \/ SceneStart(t, D)
    PROVE  sq' \in SceneRecord /\ sq.running \subseteq sq'.running
<1> DEFINE q == PutAside(D)
<1>1. D \in SUBSET Setscene
  BY DEF PassedOver, SceneCandidates, TypeOK, SceneRecord
<1>2. q \in SceneRecord /\ q.running = sq.running
  BY <1>1 DEF PutAside, TypeOK, SceneRecord
<1>3. CASE SceneNotNeeded(t, D)
  <2> DEFINE q2 == sq_task_skip(q, {t})
  <2>1. q2 \in SceneRecord /\ q.running \subseteq q2.running
    BY <1>2, SkipType
  <2>2. sq' = [q2 EXCEPT !.notneeded = @ \cup {t}]
    BY <1>3 DEF SceneNotNeeded
  <2> HIDE DEF q2
  <2> QED
    BY <1>2, <2>1, <2>2 DEF SceneRecord
<1>4. CASE SceneNeedHardDeps(t, D)
  <2> DEFINE q2 == PutAside(D \cup {t})
  <2>1. q2 \in SceneRecord /\ q2.running = sq.running
    BY <1>1 DEF PutAside, TypeOK, SceneRecord
  <2>2. sq' = [q2 EXCEPT !.buildable = @ \cup (HardDepsRev[t] \ sq_needed_harddeps)]
    BY <1>4 DEF SceneNeedHardDeps
  <2>3. HardDepsRev[t] \in SUBSET Setscene
    BY GraphAssumption
  <2> HIDE DEF q2
  <2> QED
    BY <2>1, <2>2, <2>3 DEF SceneRecord
<1>5. CASE SceneSettle(t, D)
  <2>1. \/ sq' = sq_task_failoutright(q, {t}, unihash, stamps)
        \/ sq' = sq_task_skip(q, {t})
    BY <1>5 DEF SceneSettle
  <2> HIDE DEF q
  <2> QED
    BY <1>2, <2>1, FailType, SkipType
<1>6. CASE SceneStart(t, D)
  <2>1. sq' = [q EXCEPT !.running = @ \cup {t}]
    BY <1>6 DEF SceneStart, MarkRunning
  <2> HIDE DEF q
  <2> QED
    BY <1>2, <2>1 DEF SceneRecord
<1> QED
  BY <1>3, <1>4, <1>5, <1>6

\* Migrate keeps the type; it takes out of sq_running only tasks that were not
\* started and are not being restored.
LEMMA MigrateType ==
    ASSUME TypeOK, Migrate
    PROVE  /\ sq' \in SceneRecord
           /\ \A t \in sq.running : t \in runq_running \cup sq_live => t \in sq'.running
           /\ unihash' \in [Task -> Hash]
           /\ pending_migrations' \subseteq Setscene
           /\ DOMAIN sq_deferred' \subseteq Setscene
           /\ \A d \in DOMAIN sq_deferred' : sq_deferred'[d] \in Setscene
           /\ failed_tids' \subseteq Task
           /\ state' \in {state, "CLEAN_UP"}
           /\ sq_needed_harddeps' \subseteq Setscene
           /\ sqdone' \in BOOLEAN /\ holdoff_need_update' \in BOOLEAN
           /\ DOMAIN build_stamps' \subseteq DOMAIN build_stamps
           /\ \A d \in DOMAIN build_stamps' : build_stamps'[d] = build_stamps[d]
           /\ scene_stamps' \in [Setscene -> Hash]
           /\ stamps' \subseteq Disk
<1>1. PICK newhash \in [Dependants(toprocess) -> Hash] :
         LET changed == Rehashed(newhash, unihash)
             pend == pending_migrations \cup (changed \cap Setscene)
             mig == pend \ (TooLate(pend) \cup Blocked(pend))
             rerun == {t \in mig : sq_covered_tasks[t] \cap
                                      (runq_complete \ runq_tasksrun) # {}}
         IN  /\ unihash' = [t \in Task |-> IF t \in changed THEN newhash[t]
                                          ELSE unihash[t]]
             /\ IF rerun # {} THEN HaltOnRerun(pend, mig, rerun, unihash')
                ELSE Rejudge(pend, mig, changed, unihash')
  BY DEF Migrate
<1> DEFINE changed == Rehashed(newhash, unihash)
           pend == pending_migrations \cup (changed \cap Setscene)
           mig == pend \ (TooLate(pend) \cup Blocked(pend))
           rerun == {t \in mig : sq_covered_tasks[t] \cap
                                    (runq_complete \ runq_tasksrun) # {}}
<1>2. unihash' \in [Task -> Hash]
  <2>1. changed \subseteq DOMAIN newhash
    BY DEF Rehashed
  <2>2. unihash' = [t \in Task |-> IF t \in changed THEN newhash[t] ELSE unihash[t]]
    BY <1>1
  <2> HIDE DEF changed
  <2> QED
    BY <2>1, <2>2 DEF TypeOK
<1>3. /\ pend \subseteq Setscene /\ mig \subseteq pend /\ rerun \subseteq mig
      /\ \A t \in mig : t \notin runq_running \cup sq_live
  BY DEF TypeOK, TooLate
<1>4. \/ HaltOnRerun(pend, mig, rerun, unihash')
      \/ Rejudge(pend, mig, changed, unihash')
  BY <1>1
<1> HIDE DEF changed, pend, mig, rerun
<1>7. scene_stamps' \in [Setscene -> Hash]
  <2>1. PICK S : RenameStamps(S, unihash')
    BY <1>4 DEF HaltOnRerun, Rejudge
  <2> QED
    BY <1>2, <2>1, GraphAssumption DEF RenameStamps, TypeOK
<1>5. CASE HaltOnRerun(pend, mig, rerun, unihash')
  <2>1. PICK t \in rerun, before \in SUBSET (mig \ rerun), late \in SUBSET TooLate(pend) :
          /\ failed_tids' = failed_tids \cup {t}
          /\ state' = "CLEAN_UP"
          /\ \E gone \in SUBSET (sq_covered_tasks[t] \ (runq_complete \cup unskippable)) :
                sq' = [Unsettle(before) EXCEPT !.done = @ \ (gone \cup {t})]
          /\ pending_migrations' = pend \ ({t} \cup before \cup late)
          /\ build_stamps' = Restrict(build_stamps, DOMAIN build_stamps \ before)
          /\ UNCHANGED <<sq_deferred, sq_needed_harddeps, sqdone, holdoff_need_update,
                         stamps>>
    BY <1>5 DEF HaltOnRerun
  <2>2. PICK gone : sq' = [Unsettle(before) EXCEPT !.done = @ \ gone]
    BY <2>1
  <2>3. before \in SUBSET Setscene
    BY <1>3
  <2>4. Unsettle(before) \in SceneRecord /\ Unsettle(before).running = sq.running \ before
    BY <2>3, UnsettleType DEF TypeOK
  <2>5. sq' \in SceneRecord /\ sq'.running = sq.running \ before
    BY <2>2, <2>4 DEF SceneRecord
  <2>6. t \in Task
    BY <1>3, GraphAssumption
  <2>7. /\ DOMAIN build_stamps' \subseteq DOMAIN build_stamps
        /\ \A d \in DOMAIN build_stamps' : build_stamps'[d] = build_stamps[d]
    BY <2>1 DEF Restrict
  <2> QED
    BY <1>2, <1>3, <1>7, <2>1, <2>5, <2>6, <2>7 DEF TypeOK
<1>6. CASE Rejudge(pend, mig, changed, unihash')
  <2>0. stamps' \subseteq Disk
    <3>1. mig \in SUBSET Task
      BY <1>3, GraphAssumption
    <3>2. stamps' = NoExecStamped(stamps, mig, unihash')
      BY <1>6 DEF Rejudge
    <3> QED
      BY <1>2, <3>1, <3>2, StampsType DEF TypeOK
  <2>1. CASE mig = {}
    <3>1. sq' = sq \/ sq' = [sq EXCEPT !.harddep_deferred = {}]
      BY <1>6, <2>1 DEF Rejudge
    <3>2. sq' \in SceneRecord /\ sq'.running = sq.running
      BY <3>1 DEF TypeOK, SceneRecord
    <3>3. UNCHANGED <<sq_deferred, sqdone>>
      BY <1>6, <2>1 DEF Rejudge
    <3> QED
      BY <1>2, <1>3, <1>6, <1>7, <2>0, <3>2, <3>3 DEF Rejudge, TypeOK, Blocked, Restrict
  <2>2. CASE mig # {}
    <3>1. PICK valid : sq' = Resettle(mig, unihash', sq_deferred', valid, stamps')
      BY <1>6, <2>2 DEF Rejudge
    <3>2. sq' \in SceneRecord /\ sq.running \ mig \subseteq sq'.running
      BY <1>3, <3>1, ResettleType DEF TypeOK
    <3>3. sq_deferred' = Redefer(mig, unihash') /\ sqdone' = FALSE
      BY <1>6, <2>2 DEF Rejudge
    <3>4. /\ DOMAIN sq_deferred' \subseteq Setscene
          /\ \A d \in DOMAIN sq_deferred' : sq_deferred'[d] \in Setscene
      BY <1>3, <3>3, RedeferType DEF TypeOK
    <3> QED
      BY <1>2, <1>3, <1>6, <1>7, <2>0, <3>2, <3>3, <3>4
         DEF Rejudge, TypeOK, Blocked, Restrict
  <2> QED
    BY <2>1, <2>2
<1> QED
  BY <1>4, <1>5, <1>6

\* The configuration is the same throughout a build.
LEMMA ConfigurationKept == [Next]_vars => configuration' = configuration
<1> SUFFICES ASSUME [Next]_vars PROVE configuration' = configuration
  OBVIOUS
<1> USE DEF buildVars
<1>1. CASE BeginTurn \/ CleanUp \/ EndRead \/ Teardown \/ NothingToMigrate
             \/ SchedNone \/ EndWait \/ Conclude \/ Stop \/ ForceStop
  BY <1>1 DEF BeginTurn, CleanUp, EndRead, Teardown, NothingToMigrate,
              SchedNone, EndWait, Conclude, Stop, ForceStop
<1>2. ASSUME NEW i \in DOMAIN updated_taskhash_queue, ApplyUpdate(i)
      PROVE  configuration' = configuration
  BY <1>2 DEF ApplyUpdate
<1>3. CASE Migrate \/ SceneNone \/ Holdoff
  BY <1>3 DEF Migrate, SceneNone, Holdoff
<1>4. ASSUME NEW t \in Setscene, NEW D \in SUBSET PassedOver,
             \/ SceneNotNeeded(t, D) \/ SceneNeedHardDeps(t, D)
             \/ SceneSettle(t, D) \/ SceneStart(t, D)
      PROVE  configuration' = configuration
  <2>1. SceneTurn(t, D)
    BY <1>4 DEF SceneNotNeeded, SceneNeedHardDeps, SceneSettle, SceneStart, SceneChosen
  <2> QED
    BY <2>1 DEF SceneTurn
<1>5. ASSUME NEW t \in Task,
             SchedUnexpected(t) \/ SchedSkip(t) \/ SchedNoExec(t) \/ SchedStart(t)
      PROVE  configuration' = configuration
  <2>1. Sched(t)
    BY <1>5 DEF SchedUnexpected, SchedSkip, SchedNoExec, SchedStart
  <2> QED
    BY <2>1 DEF Sched
<1>6. ASSUME NEW t \in Setscene, EndForceDeferred(t)
      PROVE  configuration' = configuration
  BY <1>6 DEF EndForceDeferred
<1>7. ASSUME NEW kind \in Kind, NEW t \in Task, NEW h \in Hash, NEW ok \in BOOLEAN,
             Exit(kind, t, h, ok)
      PROVE  configuration' = configuration
  BY <1>7 DEF Exit
<1>8. ASSUME NEW t \in Task, NEW h \in Hash, UniHashUpdate(t, h)
      PROVE  configuration' = configuration
  BY <1>8 DEF UniHashUpdate
<1>9. CASE UNCHANGED vars
  BY <1>9 DEF vars
<1> QED
  BY <1>1, <1>2, <1>3, <1>4, <1>5, <1>6, <1>7, <1>8, <1>9
     DEF Next, Turn, WorkerExit, WorkerEvent, Over

\* Every step keeps the type.
LEMMA TypeStep == TypeOK /\ [Next]_vars => TypeOK'
<1> SUFFICES ASSUME TypeOK, [Next]_vars PROVE TypeOK'
  OBVIOUS
<1>0. configuration' = configuration
  BY ConfigurationKept
<1> USE <1>0
<1> USE DEF buildVars, runqVars, sceneVars, holdoffVars, hashVars, workerVars
<1>1. CASE BeginTurn \/ CleanUp \/ EndRead \/ Teardown \/ NothingToMigrate
             \/ SchedNone \/ EndWait \/ Conclude \/ Stop \/ ForceStop
  BY <1>1 DEF TypeOK, BeginTurn, CleanUp, EndRead, Teardown, NothingToMigrate,
              SchedNone, EndWait, Conclude, Stop, ForceStop, FinishedState
<1>2. ASSUME NEW i \in DOMAIN updated_taskhash_queue, ApplyUpdate(i)
      PROVE  TypeOK'
  <2> DEFINE u == updated_taskhash_queue[i]
  <2>1. u \in Task \X Hash
    BY DEF TypeOK
  <2>2. u[1] \in Task /\ u[2] \in Hash
    BY <2>1
  <2>3. updated_taskhash_queue' \in Seq(Task \X Hash)
    BY <1>2, WithoutType DEF ApplyUpdate, TypeOK
  <2>4. unihash' \in [Task -> Hash] /\ toprocess' \subseteq Task
    <3> DEFINE torehash == {u[1]} \cup {d \in DOMAIN sq_deferred : sq_deferred[d] = u[1]}
    <3>1. torehash \subseteq Task
      BY <2>2, GraphAssumption DEF TypeOK
    <3>2. \/ UNCHANGED <<unihash, toprocess>>
          \/ /\ unihash' = [x \in Task |-> IF x \in torehash THEN u[2] ELSE unihash[x]]
             /\ toprocess' = toprocess \cup torehash
      BY <1>2 DEF ApplyUpdate
    <3> HIDE DEF torehash, u
    <3> QED
      BY <2>2, <3>1, <3>2 DEF TypeOK
  <2> QED
    BY <1>2, <2>3, <2>4 DEF ApplyUpdate, TypeOK
<1>3. CASE Migrate
  BY <1>3, MigrateType DEF Migrate, TypeOK
<1>4. ASSUME NEW t \in Setscene, NEW D \in SUBSET PassedOver,
             \/ SceneNotNeeded(t, D) \/ SceneNeedHardDeps(t, D)
             \/ SceneSettle(t, D) \/ SceneStart(t, D)
      PROVE  TypeOK'
  <2>1. sq' \in SceneRecord
    BY <1>4, SceneType
  <2>2. t \in Task /\ unihash[t] \in Hash /\ HardDepsRev[t] \subseteq Setscene
    BY GraphAssumption DEF TypeOK
  <2>3. SceneTurn(t, D)
    BY <1>4 DEF SceneNotNeeded, SceneNeedHardDeps, SceneSettle, SceneStart, SceneChosen
  <2>4. /\ DOMAIN sq_deferred' \subseteq Setscene
        /\ \A d \in DOMAIN sq_deferred' : sq_deferred'[d] \in Setscene
    BY <1>4 DEF SceneNotNeeded, SceneNeedHardDeps, SceneSettle, SceneStart,
                SceneChosen, TypeOK, Restrict
  <2>5. /\ sq_live' \subseteq Setscene /\ sq_needed_harddeps' \subseteq Setscene
        /\ holdoff_need_update' \in BOOLEAN
        /\ stage' \in {"turn", "holdoff"}
    BY <1>4, <2>2 DEF SceneNotNeeded, SceneNeedHardDeps, SceneSettle, SceneStart,
                SceneChosen, TypeOK
  <2>6. /\ worker' \subseteq Kind \X Task \X Hash
        /\ DOMAIN build_stamps' \subseteq Task
        /\ \A d \in DOMAIN build_stamps' : build_stamps'[d] \in StampNames
    <3>1. \/ UNCHANGED <<worker, build_stamps>>
          \/ /\ worker' = worker \cup {<<"scene", t, unihash[t]>>}
             /\ build_stamps' = [x \in DOMAIN build_stamps \cup {t} |->
                                   IF x = t THEN StampName("scene", t, unihash[t])
                                   ELSE build_stamps[x]]
      BY <1>4 DEF SceneNotNeeded, SceneNeedHardDeps, SceneSettle, SceneStart
    <3>2. StampName("scene", t, unihash[t]) \in StampNames
      BY <2>2 DEF StampNames, Kind
    <3> QED
      BY <2>2, <3>1, <3>2 DEF TypeOK, Kind
  <2> QED
    BY <2>1, <2>3, <2>4, <2>5, <2>6 DEF SceneTurn, TypeOK
<1>5. CASE SceneNone
  <2>1. sq' \in SceneRecord
    BY <1>5 DEF SceneNone, PutAside, PassedOver, SceneCandidates, TypeOK, SceneRecord
  <2> QED
    BY <1>5, <2>1 DEF SceneNone, TypeOK
<1>6. CASE Holdoff
  <2>1. CoveredTasks \subseteq Task /\ NotCoveredTasks \subseteq Task
    BY DEF CoveredTasks, NotCoveredTasks, TypeOK, SceneRecord
  <2>2. HoldoffTasks \subseteq Task
    BY GraphAssumption DEF HoldoffTasks, Below, sq_covered_tasks, Plain
  <2>3. /\ tasks_covered' \subseteq Task /\ tasks_notcovered' \subseteq Task
        /\ holdoff_tasks' \subseteq Task /\ runq_buildable' \subseteq Task
        /\ holdoff_need_update' \in BOOLEAN
    <3>1. CASE holdoff_need_update
      BY <1>6, <2>1, <2>2, <3>1 DEF Holdoff, update_holdofftasks, TypeOK
    <3>2. CASE ~holdoff_need_update
      BY <1>6, <3>2 DEF Holdoff, update_holdofftasks, TypeOK
    <3> QED
      BY <3>1, <3>2
  <2>4. /\ state' \in {state, "FAILED", "COMPLETE"} /\ sqdone' \in BOOLEAN
        /\ stage' \in {"turn", "sched"}
    BY <1>6 DEF Holdoff, TypeOK
  <2> QED
    BY <1>6, <2>3, <2>4 DEF Holdoff, TypeOK
<1>7. ASSUME NEW t \in Task, SchedUnexpected(t) PROVE TypeOK'
  BY <1>7, ThreadsAssumption DEF SchedUnexpected, Sched, HaltState, TypeOK
<1>8. ASSUME NEW t \in Task, SchedSkip(t) PROVE TypeOK'
  <2>1. stamps \in SUBSET Disk /\ task_completeoutright(t, stamps)
    BY <1>8 DEF SchedSkip, TypeOK
  <2> QED
    BY <1>8, <2>1, CompleteType DEF SchedSkip, Sched, TypeOK
<1>9. ASSUME NEW t \in Task, SchedNoExec(t) PROVE TypeOK'
  <2> DEFINE disk == StampsLeft("real", t, unihash[t], TRUE)
  <2>1. disk \in SUBSET Disk /\ task_completeoutright(t, disk)
    BY <1>9, StampsLeftType DEF SchedNoExec, TypeOK, Kind
  <2> QED
    BY <1>9, <2>1, CompleteType DEF SchedNoExec, Sched, TypeOK
<1>10. ASSUME NEW t \in Task, SchedStart(t) PROVE TypeOK'
  <2>1. worker' \subseteq Kind \X Task \X Hash
    BY <1>10 DEF SchedStart, TypeOK, Kind
  <2>2. /\ DOMAIN build_stamps' \subseteq Task
        /\ \A d \in DOMAIN build_stamps' : build_stamps'[d] \in StampNames
    <3>1. StampName("real", t, unihash[t]) \in StampNames
      BY DEF StampNames, Kind, TypeOK
    <3> QED
      BY <1>10, <3>1 DEF SchedStart, TypeOK
  <2>3. active' \in Int /\ stage' \in {"turn", "end"}
    BY <1>10 DEF SchedStart, TypeOK
  <2>4. /\ runq_running' \subseteq Task
        /\ UNCHANGED <<state, runq_buildable, runq_complete, runq_tasksrun,
                       failed_tids, sceneVars, holdoffVars, hashVars, stamps,
                       updates>>
    BY <1>10 DEF SchedStart, Sched, TypeOK
  <2> QED
    BY <2>1, <2>2, <2>3, <2>4 DEF TypeOK
<1>11. ASSUME NEW t \in Setscene, EndForceDeferred(t) PROVE TypeOK'
  BY <1>11 DEF EndForceDeferred, Restrict, TypeOK
<1>12. ASSUME NEW kind \in Kind, NEW t \in Task, NEW h \in Hash, NEW ok \in BOOLEAN,
              Exit(kind, t, h, ok)
       PROVE  TypeOK'
  <2> DEFINE disk == StampsLeft(kind, t, h, ok)
  <2>1. disk \in SUBSET Disk /\ worker' \subseteq Kind \X Task \X Hash
    BY <1>12, StampsLeftType DEF Exit, TypeOK
  <2>2. /\ DOMAIN build_stamps' \subseteq Task
        /\ \A d \in DOMAIN build_stamps' : build_stamps'[d] \in StampNames
    BY <1>12 DEF Exit, ForgetStamp, Restrict, TypeOK
  <2>3. CASE SetsceneExit(t, ok, disk)
    <3>1. sq' \in SceneRecord
      BY <2>3, SetsceneExitType
    <3>2. stamps' \subseteq Disk
      BY <2>1, <2>3 DEF SetsceneExit
    <3> QED
      BY <1>12, <2>1, <2>2, <2>3, <3>1, <3>2 DEF Exit, SetsceneExit, TypeOK
  <2>4. CASE TaskComplete(t, disk)
    BY <1>12, <2>1, <2>2, <2>4, CompleteType DEF Exit, TaskComplete, TypeOK
  <2>5. CASE TaskFail(t)
    BY <1>12, <2>1, <2>2, <2>5 DEF Exit, TaskFail, HaltState, TypeOK
  <2> QED
    BY <1>12, <2>3, <2>4, <2>5 DEF Exit
<1>13. ASSUME NEW t \in Task, NEW h \in Hash, UniHashUpdate(t, h) PROVE TypeOK'
  <2>1. updated_taskhash_queue' \in Seq(Task \X Hash)
    BY <1>13, AppendProperties DEF UniHashUpdate, TypeOK
  <2> QED
    BY <1>13, <2>1 DEF UniHashUpdate, TypeOK
<1>14. CASE UNCHANGED vars
  BY <1>14 DEF vars, TypeOK
<1> QED
  BY <1>1, <1>2, <1>3, <1>4, <1>5, <1>6, <1>7, <1>8, <1>9, <1>10, <1>11, <1>12,
     <1>13, <1>14 DEF Next, Turn, WorkerExit, WorkerEvent, Over

\* Every variable keeps its type, whatever the graph and the configuration.
THEOREM TypeCorrect == Spec => []TypeOK
  BY InitType, TypeStep, PTL DEF Spec

(***************************************************************************)
(* Dependency order.  That a task is buildable, running or complete only   *)
(* with all it depends on complete is not inductive by itself: an exit     *)
(* code completes whatever task it names, unless that is in sq_live.  So   *)
(* the invariant has WorkerInv too, by which a process outside sq_live is  *)
(* that of a task started, also after a rehash took setscene tasks back.   *)
(***************************************************************************)

OrderInv ==
    /\ runq_complete \subseteq runq_running
    /\ \A t \in runq_buildable \cup runq_running : Depends[t] \subseteq runq_complete

IInv == TypeOK /\ OrderInv /\ WorkerInv

\* task_completeoutright(t) keeps the order if t was started with all it
\* depends on complete.
LEMMA CompleteOrder ==
    ASSUME IInv, NEW t \in Task, NEW disk, task_completeoutright(t, disk),
           Depends[t] \subseteq runq_complete,
           runq_running' = runq_running \cup {t}
    PROVE  OrderInv'
<1>1. runq_complete' = runq_complete \cup {t}
  BY DEF task_completeoutright
<1>2. runq_buildable' = runq_buildable \cup Freed(t, runq_complete')
  BY <1>1 DEF task_completeoutright
<1>3. \A r \in Freed(t, runq_complete') : Depends[r] \subseteq runq_complete'
  BY DEF Freed
<1> QED
  BY <1>1, <1>2, <1>3 DEF IInv, OrderInv

\* A task that runs was started with all it depends on complete.
LEMMA SchedReady ==
    ASSUME IInv, NEW t \in Task, Sched(t)
    PROVE  t \notin runq_running /\ Depends[t] \subseteq runq_complete
  BY DEF Sched, Runnable, IInv, OrderInv

\* An exit code that is not a setscene task's is that of a task started.
LEMMA ExitStarted ==
    ASSUME IInv, NEW kind \in Kind, NEW t \in Task, NEW h \in Hash,
           <<kind, t, h>> \in worker, t \notin sq_live
    PROVE  t \in runq_running /\ runq_running \cup {t} = runq_running
           /\ Depends[t] \subseteq runq_complete
<1>1. kind = "real" \/ kind = "scene"
  BY DEF Kind
<1>2. t \in runq_running
  BY <1>1 DEF IInv, WorkerInv
<1> QED
  BY <1>2 DEF IInv, OrderInv

\* Every step keeps the invariant.
LEMMA InvStep == IInv /\ [Next]_vars => IInv'
<1> SUFFICES ASSUME IInv, [Next]_vars PROVE OrderInv' /\ WorkerInv'
  BY TypeStep DEF IInv
<1> USE DEF buildVars, runqVars, sceneVars, holdoffVars, hashVars, workerVars
<1>0. TypeOK /\ OrderInv /\ WorkerInv
  BY DEF IInv
<1>1. CASE BeginTurn \/ CleanUp \/ EndRead \/ Teardown \/ NothingToMigrate
             \/ SchedNone \/ EndWait \/ Conclude \/ Stop
  BY <1>0, <1>1 DEF BeginTurn, CleanUp, EndRead, Teardown, NothingToMigrate,
              SchedNone, EndWait, Conclude, Stop, OrderInv, WorkerInv
<1>2. CASE ForceStop
  BY <1>0, <1>2 DEF ForceStop, OrderInv, WorkerInv
<1>3. ASSUME NEW i \in DOMAIN updated_taskhash_queue, ApplyUpdate(i)
      PROVE  OrderInv' /\ WorkerInv'
  BY <1>0, <1>3 DEF ApplyUpdate, OrderInv, WorkerInv
<1>4. CASE Migrate
  <2>1. \A t \in sq.running : t \in runq_running \cup sq_live => t \in sq'.running
    BY <1>0, <1>4, MigrateType
  <2>2. UNCHANGED <<runq_buildable, runq_running, runq_complete, sq_live, worker>>
    BY <1>4 DEF Migrate
  <2> QED
    BY <1>0, <2>1, <2>2 DEF OrderInv, WorkerInv
<1>5. ASSUME NEW t \in Setscene, NEW D \in SUBSET PassedOver,
             \/ SceneNotNeeded(t, D) \/ SceneNeedHardDeps(t, D)
             \/ SceneSettle(t, D)
      PROVE  OrderInv' /\ WorkerInv'
  <2>1. sq.running \subseteq sq'.running
    BY <1>0, <1>5, SceneType
  <2>2. UNCHANGED <<runq_buildable, runq_running, runq_complete, sq_live, worker>>
    BY <1>5 DEF SceneNotNeeded, SceneNeedHardDeps, SceneSettle, SceneChosen, SceneTurn
  <2> QED
    BY <1>0, <2>1, <2>2 DEF OrderInv, WorkerInv
<1>6. ASSUME NEW t \in Setscene, NEW D \in SUBSET PassedOver, SceneStart(t, D)
      PROVE  OrderInv' /\ WorkerInv'
  <2>1. sq.running \subseteq sq'.running
    BY <1>0, <1>6, SceneType
  <2>2. UNCHANGED <<runq_buildable, runq_running, runq_complete>>
    BY <1>6 DEF SceneStart, SceneChosen, SceneTurn
  <2>3. /\ worker' = worker \cup {<<"scene", t, unihash[t]>>}
        /\ sq_live' = sq_live \cup {t}
    BY <1>6 DEF SceneStart
  <2>4. t \notin sq.running /\ t \in Task
    BY <1>6, GraphAssumption DEF SceneStart, SceneChosen, SceneTurn, SceneCandidates
  <2>5. t \in sq'.running
    <3>1. sq' = MarkRunning(PutAside(D), t)
      BY <1>6 DEF SceneStart
    <3>2. PutAside(D) = [sq EXCEPT !.harddep_deferred = @ \cup D]
      BY DEF PutAside
    <3> QED
      BY <1>0, <3>1, <3>2 DEF MarkRunning, TypeOK, SceneRecord
  <2>6. OrderInv'
    BY <1>0, <2>2 DEF OrderInv
  <2>7. \A h \in Hash : <<"scene", t, h>> \notin worker
    BY <1>0, <2>4 DEF WorkerInv
  <2>8. WorkerInv'
    BY <1>0, <2>1, <2>2, <2>3, <2>4, <2>5, <2>7 DEF WorkerInv
  <2> QED
    BY <2>6, <2>8
<1>7. CASE SceneNone
  <2>1. sq'.running = sq.running
    BY <1>0, <1>7 DEF SceneNone, PutAside, TypeOK, SceneRecord
  <2> QED
    BY <1>0, <1>7, <2>1 DEF SceneNone, OrderInv, WorkerInv
<1>8. CASE Holdoff
  <2>1. /\ runq_buildable \subseteq runq_buildable'
        /\ \A t \in runq_buildable' : \/ t \in runq_buildable
                                      \/ Depends[t] \subseteq runq_complete
    <3>1. CASE holdoff_need_update
      BY <1>8, <3>1 DEF Holdoff, update_holdofftasks
    <3>2. CASE ~holdoff_need_update
      BY <1>8, <3>2 DEF Holdoff, update_holdofftasks
    <3> QED
      BY <3>1, <3>2
  <2>2. UNCHANGED <<runq_running, runq_complete, sq, sq_live, worker>>
    BY <1>8 DEF Holdoff
  <2> QED
    BY <1>0, <2>1, <2>2 DEF OrderInv, WorkerInv
<1>9. ASSUME NEW t \in Task, SchedUnexpected(t) PROVE OrderInv' /\ WorkerInv'
  BY <1>0, <1>9 DEF SchedUnexpected, Sched, OrderInv, WorkerInv
<1>10. ASSUME NEW t \in Task, SchedSkip(t) \/ SchedNoExec(t)
       PROVE  OrderInv' /\ WorkerInv'
  <2>1. Sched(t) /\ runq_running' = runq_running \cup {t}
        /\ UNCHANGED <<sq_live, worker>>
    BY <1>10 DEF SchedSkip, SchedNoExec, Sched
  <2> PICK disk \in SUBSET Disk : task_completeoutright(t, disk)
    BY <1>0, <1>10, StampsLeftType DEF SchedSkip, SchedNoExec, Kind, TypeOK
  <2>2. sq.running \subseteq sq'.running
    BY <1>0, <2>1, CompleteType
  <2>3. OrderInv'
    BY <2>1, SchedReady, CompleteOrder
  <2>4. WorkerInv'
    BY <1>0, <2>1, <2>2 DEF WorkerInv
  <2> QED
    BY <2>3, <2>4
<1>11. ASSUME NEW t \in Task, SchedStart(t) PROVE OrderInv' /\ WorkerInv'
  <2>1. Sched(t) /\ runq_running' = runq_running \cup {t}
        /\ worker' = worker \cup {<<"real", t, unihash[t]>>}
        /\ UNCHANGED <<runq_buildable, runq_complete, sq, sq_live>>
    BY <1>11 DEF SchedStart, Sched
  <2>2. Depends[t] \subseteq runq_complete
    BY <2>1, SchedReady
  <2>3. OrderInv'
    BY <1>0, <2>1, <2>2 DEF OrderInv
  <2>4. WorkerInv'
    BY <1>0, <2>1 DEF WorkerInv
  <2> QED
    BY <2>3, <2>4
<1>12. ASSUME NEW t \in Setscene, EndForceDeferred(t) PROVE OrderInv' /\ WorkerInv'
  BY <1>0, <1>12 DEF EndForceDeferred, OrderInv, WorkerInv
<1>13. ASSUME NEW kind \in Kind, NEW t \in Task, NEW h \in Hash, NEW ok \in BOOLEAN,
              Exit(kind, t, h, ok)
       PROVE  OrderInv' /\ WorkerInv'
  <2> DEFINE disk == StampsLeft(kind, t, h, ok)
  <2>1. /\ <<kind, t, h>> \in worker /\ worker' = worker \ {<<kind, t, h>>}
        /\ disk \in SUBSET Disk
    BY <1>0, <1>13, StampsLeftType DEF Exit
  <2>2. CASE SetsceneExit(t, ok, disk)
    <3>1. sq.running \subseteq sq'.running
      BY <1>0, <2>2, SetsceneExitType
    <3>2. sq_live' = sq_live \ {t}
          /\ UNCHANGED <<runq_buildable, runq_running, runq_complete>>
      BY <2>2 DEF SetsceneExit
    <3>3. OrderInv'
      BY <1>0, <3>2 DEF OrderInv
    <3>4. \A g \in Hash : <<"scene", t, g>> \in worker' => t \in runq_running
      <4>1. CASE kind = "real"
        BY <1>0, <2>1, <4>1 DEF WorkerInv
      <4>2. CASE kind = "scene"
        BY <1>0, <2>1, <4>2 DEF WorkerInv
      <4> QED
        BY <4>1, <4>2 DEF Kind
    <3>5. WorkerInv'
      BY <1>0, <2>1, <3>1, <3>2, <3>4 DEF WorkerInv
    <3> QED
      BY <3>3, <3>5
  <2>3. CASE TaskComplete(t, disk)
    <3>1. task_completeoutright(t, disk) /\ t \notin sq_live
          /\ UNCHANGED <<runq_running, sq_live>>
      BY <2>3 DEF TaskComplete
    <3>2. sq.running \subseteq sq'.running
      BY <1>0, <2>1, <3>1, CompleteType
    <3>3. runq_running' = runq_running \cup {t} /\ Depends[t] \subseteq runq_complete
      BY <2>1, <3>1, ExitStarted
    <3>4. OrderInv'
      BY <3>1, <3>3, CompleteOrder
    <3>5. WorkerInv'
      BY <1>0, <2>1, <3>1, <3>2 DEF WorkerInv
    <3> QED
      BY <3>4, <3>5
  <2>4. CASE TaskFail(t)
    BY <1>0, <2>1, <2>4 DEF TaskFail, OrderInv, WorkerInv
  <2> QED
    BY <1>13, <2>2, <2>3, <2>4 DEF Exit
<1>14. ASSUME NEW t \in Task, NEW h \in Hash, UniHashUpdate(t, h)
       PROVE  OrderInv' /\ WorkerInv'
  BY <1>0, <1>14 DEF UniHashUpdate, OrderInv, WorkerInv
<1>15. CASE UNCHANGED vars
  BY <1>0, <1>15 DEF vars, OrderInv, WorkerInv
<1> QED
  BY <1>1, <1>2, <1>3, <1>4, <1>5, <1>6, <1>7, <1>8, <1>9, <1>10, <1>11, <1>12,
     <1>13, <1>14, <1>15 DEF Next, Turn, WorkerExit, WorkerEvent, Over

\* ... and the initial states have it.
LEMMA InvInit == Init => IInv
<1> SUFFICES ASSUME Init PROVE OrderInv /\ WorkerInv
  BY InitType DEF IInv
<1> QED
  BY DEF Init, OrderInv, WorkerInv

\* So every state has it.
LEMMA Invariance == Spec => []IInv
  BY InvInit, InvStep, PTL DEF Spec

\* Every process belongs to a task that was started or whose setscene variant
\* runs, so that an exit code is never taken for that of another kind.
THEOREM ExitCodesAttributed == Spec => []WorkerInv
<1>1. IInv => WorkerInv
  BY DEF IInv
<1> QED
  BY <1>1, Invariance, PTL

\* No task is called buildable, started, skipped or completed before all it
\* depends on is complete, however rehashes, restores and failures interleave.
THEOREM DependencyOrder == Spec => []DepsComplete
<1>1. IInv => DepsComplete
  BY DEF IInv, OrderInv, DepsComplete
<1> QED
  BY <1>1, Invariance, PTL

(***************************************************************************)
(* Refinement.  A step of the run queue starts, skips or completes one     *)
(* task, or ends the build, or is nothing to the task graph.               *)
(***************************************************************************)

\* Every step of the run queue is one of the graph's, or leaves it as it is.
LEMMA StepRefines == IInv /\ [Next]_vars => [Graph!Next]_Graph!vars
<1> SUFFICES ASSUME IInv, [Next]_vars PROVE Graph!Next \/ UNCHANGED Graph!vars
  OBVIOUS
<1> USE DEF buildVars, runqVars, sceneVars, holdoffVars, hashVars, workerVars
<1> DEFINE graph == <<runq_running, runq_complete, stage = "done">>
<1>0. graph' = graph => UNCHANGED Graph!vars
  BY DEF Graph!vars
<1>1. CASE \/ BeginTurn \/ EndRead \/ NothingToMigrate \/ Migrate \/ SceneNone
           \/ Holdoff \/ SchedNone \/ EndWait \/ Conclude \/ Stop
  <2>1. UNCHANGED <<runq_running, runq_complete>> /\ stage # "done" /\ stage' # "done"
    BY <1>1 DEF BeginTurn, EndRead, NothingToMigrate, Migrate, SceneNone, Holdoff,
                SchedNone, EndWait, Conclude, Stop, Reading
  <2> QED
    BY <1>0, <2>1
<1>2. CASE CleanUp \/ Teardown \/ ForceStop
  <2>1. UNCHANGED <<runq_running, runq_complete>> /\ stage = "turn"
        /\ stage' \in {"wait", "done"}
    BY <1>2 DEF CleanUp, Teardown, ForceStop
  <2>2. CASE stage' = "wait"
    BY <1>0, <2>1, <2>2
  <2>3. CASE stage' = "done"
    BY <2>1, <2>3 DEF Graph!Next, Graph!End
  <2> QED
    BY <2>1, <2>2, <2>3
<1>3. ASSUME NEW i \in DOMAIN updated_taskhash_queue, ApplyUpdate(i)
      PROVE  UNCHANGED Graph!vars
  BY <1>0, <1>3 DEF ApplyUpdate
<1>4. ASSUME NEW t \in Setscene, NEW D \in SUBSET PassedOver,
             \/ SceneNotNeeded(t, D) \/ SceneNeedHardDeps(t, D)
             \/ SceneSettle(t, D) \/ SceneStart(t, D)
      PROVE  UNCHANGED Graph!vars
  <2>1. UNCHANGED <<runq_running, runq_complete>> /\ stage = "scene"
        /\ stage' \in {"turn", "holdoff"}
    BY <1>4 DEF SceneNotNeeded, SceneNeedHardDeps, SceneSettle, SceneStart,
                SceneChosen, SceneTurn
  <2> QED
    BY <1>0, <2>1
<1>5. ASSUME NEW t \in Task, SchedUnexpected(t) PROVE UNCHANGED Graph!vars
  BY <1>0, <1>5 DEF SchedUnexpected, Sched
<1>6. ASSUME NEW t \in Task, SchedSkip(t) \/ SchedNoExec(t) PROVE Graph!Skip(t)
  <2>1. Sched(t) /\ stage = "sched" /\ stage' = "turn"
        /\ runq_running' = runq_running \cup {t}
    BY <1>6 DEF SchedSkip, SchedNoExec, Sched
  <2>2. runq_complete' = runq_complete \cup {t}
    BY <1>6 DEF SchedSkip, SchedNoExec, task_completeoutright
  <2> QED
    BY <2>1, <2>2, SchedReady DEF Graph!Skip, Graph!Ready
<1>7. ASSUME NEW t \in Task, SchedStart(t) PROVE Graph!Start(t)
  <2>1. Sched(t) /\ stage = "sched" /\ stage' \in {"turn", "end"}
        /\ runq_running' = runq_running \cup {t} /\ UNCHANGED runq_complete
    BY <1>7 DEF SchedStart, Sched
  <2> QED
    BY <2>1, SchedReady DEF Graph!Start, Graph!Ready
<1>8. ASSUME NEW t \in Setscene, EndForceDeferred(t) PROVE UNCHANGED Graph!vars
  BY <1>0, <1>8 DEF EndForceDeferred
<1>9. ASSUME NEW kind \in Kind, NEW t \in Task, NEW h \in Hash, NEW ok \in BOOLEAN,
             Exit(kind, t, h, ok)
      PROVE  Graph!Complete(t) \/ UNCHANGED Graph!vars
  <2> DEFINE disk == StampsLeft(kind, t, h, ok)
  <2>1. <<kind, t, h>> \in worker /\ UNCHANGED stage /\ stage # "done"
    BY <1>9 DEF Exit, Reading
  <2>2. CASE SetsceneExit(t, ok, disk)
    BY <1>0, <2>1, <2>2 DEF SetsceneExit
  <2>3. CASE TaskComplete(t, disk)
    <3>1. UNCHANGED runq_running /\ runq_complete' = runq_complete \cup {t}
          /\ t \notin sq_live
      BY <2>3 DEF TaskComplete, task_completeoutright
    <3>2. t \in runq_running
      BY <2>1, <3>1, ExitStarted
    <3>3. CASE t \in runq_complete
      BY <1>0, <2>1, <3>1, <3>3
    <3>4. CASE t \notin runq_complete
      BY <2>1, <3>1, <3>2, <3>4 DEF Graph!Complete
    <3> QED
      BY <3>3, <3>4
  <2>4. CASE TaskFail(t)
    BY <1>0, <2>1, <2>4 DEF TaskFail
  <2> QED
    BY <1>9, <2>2, <2>3, <2>4 DEF Exit
<1>10. ASSUME NEW t \in Task, NEW h \in Hash, UniHashUpdate(t, h)
       PROVE  UNCHANGED Graph!vars
  BY <1>0, <1>10 DEF UniHashUpdate
<1>11. CASE UNCHANGED vars
  BY <1>0, <1>11 DEF vars
<1> QED
  BY <1>1, <1>2, <1>3, <1>4, <1>5, <1>6, <1>7, <1>8, <1>9, <1>10, <1>11
     DEF Next, Turn, WorkerExit, WorkerEvent, Over, Graph!Next

\* The run queue implements the task graph, for every graph, configuration and
\* order of exits, updates, restores and interruptions.
THEOREM Refinement == Spec => RefinesTaskGraph
<1>1. Init => Graph!Init
  BY DEF Init, Graph!Init
<1> QED
  BY <1>1, Invariance, StepRefines, PTL DEF Spec, RefinesTaskGraph, Graph!Spec

(***************************************************************************)
(* The run queue and the scene queue together: a task                      *)
(* never runs while a setscene task that covers it is being restored, the  *)
(* slots in use are counted, number_threads holds, and no setscene task is *)
(* both covered and not covered.                                           *)
(*                                                                         *)
(* The theorems have hypotheses.  Hard dependencies between setscene tasks *)
(* let one be failed because another did, wherever it stands, and a hash   *)
(* that changes puts decided ones back.  HardApart says where the two do   *)
(* not meet; FailsAlone is for what is deferred, or was restored before,   *)
(* which the code fails although it covers it, too.                        *)
(***************************************************************************)

\* No setscene task has a hard dependency.
NoHardDependencies == \A t \in Setscene : HardDepsRev[t] = {}

HasHardDeps(d) == HardDepsRev[d] # {}

\* No setscene task that has hard dependencies was built, rather than restored,
\* by an earlier build.
NoRealStamps ==
    \A s \in InitStamps : s[1] = "real" /\ s[2] \in Setscene => ~HasHardDeps(s[2])

\* No hash changes in the build, or: the setscene tasks that have hard
\* dependencies were not built before, and none is deferred until another
\* multiconfig's.  Without hard dependencies it says nothing.
HardApart ==
    \/ MaxUpdates = 0
    \/ NoRealStamps /\ \A d \in DOMAIN sq_deferred : ~HasHardDeps(d)

\* Earlier builds left nothing of the setscene tasks that have hard dependencies.
NoStampsLeft == \A s \in InitStamps : s[2] \in Setscene => ~HasHardDeps(s[2])

\* What may fail with a hard dependency is not deferred, nor can it be found
\* restored by an earlier build under a hash it changes to.
FailsAlone ==
    /\ \A d \in DOMAIN sq_deferred : ~HasHardDeps(d)
    /\ (MaxUpdates = 0 \/ NoStampsLeft)

\* BB_SETSCENE_ENFORCE is off.
NotEnforced == \A c \in Configurations : ~c.setscene_enforce

-----------------------------------------------------------------------------
(* The inductive invariant.                                                *)

\* What is being restored is marked running, is neither decided nor deferred,
\* and what it has a hard dependency on is decided.
LiveInv ==
    /\ Decided(sq) \cup sq_live \subseteq sq.running
    /\ sq_live \cap (Decided(sq) \cup DOMAIN sq_deferred) = {}
    /\ \A d \in sq_live : HardDepsRev[d] \subseteq Decided(sq)

\* Without reports nothing is ever rehashed.
QuietInv ==
    MaxUpdates = 0 => /\ updates = {} /\ updated_taskhash_queue = << >>
                      /\ pending_migrations = {} /\ toprocess = {}

\* A process is that of a task in progress, or of a setscene task in sq_live.
ProcessInv ==
    /\ \A t \in Task, h \in Hash : <<"real", t, h>> \in worker => t \in InProgress
    /\ \A t \in Task, h \in Hash : <<"scene", t, h>> \in worker => t \in sq_live
    /\ \A t \in Task, g, h \in Hash :
          <<"real", t, g>> \in worker /\ <<"real", t, h>> \in worker => g = h

\* Whatever is started, it is decided what restores it or makes it unnecessary.
Settled ==
    /\ runq_running \cap Setscene \subseteq Decided(sq)
    /\ \A s \in Setscene \ Decided(sq) : sq_covered_tasks[s] \cap InProgress = {}

\* What is not decided is held off, unless holdoff_tasks is to be computed anew.
Fresh == holdoff_need_update \/ HoldoffTasks \subseteq holdoff_tasks

\* ... at least as far as it is being restored.
FreshLive ==
    \/ holdoff_need_update
    \/ \A s \in sq_live : s \in holdoff_tasks
                          /\ sq_covered_tasks[s] \ runq_complete \subseteq holdoff_tasks

\* Nothing in progress is, or is covered by, a task being restored.
Apart == \A s \in sq_live : (sq_covered_tasks[s] \cup {s}) \cap InProgress = {}

\* A migration that ends the build leaves setscene tasks undecided that nothing
\* holds off: the rest of the turn may start a process of the one kind or of the
\* other, not both.
TurnInv ==
    /\ state = "RUNNING" \/ stage \in {"read", "migrate", "scene"} => Settled
    /\ state = "RUNNING" \/ stage \in {"read", "migrate"} => Fresh
    /\ stage = "scene" => FreshLive
    /\ stage \in {"holdoff", "sched"} => FreshLive \/ ~can_start_task
    /\ stage = "sched" => ~holdoff_need_update

SInv == LiveInv /\ QuietInv /\ ProcessInv /\ Apart /\ TurnInv

\* A changed hash is reported by a task that was started.
UpdatesRan == \A i \in DOMAIN updated_taskhash_queue :
    updated_taskhash_queue[i][1] \in runq_running

\* A task with hard dependencies that was not started left no stamp of its own.
RanStamped == \A d \in Setscene \ runq_running : HasHardDeps(d) =>
    \A h \in Hash : <<"real", d, h>> \notin stamps /\ <<"rebuilt", d, h>> \notin stamps

\* So there is something to restore for what is undecided, and none of its hard
\* dependencies failed, or it would have failed with them.
Awaited == \A d \in Setscene \ Decided(sq) : HasHardDeps(d) =>
    /\ HardDepsRev[d] \cap sq.notcovered = {}
    /\ d \notin NoExec /\ <<"scene", d, unihash[d]>> \notin stamps

\* The turns that may migrate.
MayMigrate == state = "RUNNING" \/ stage \in {"read", "migrate"}

HardInv ==
    /\ UpdatesRan /\ RanStamped
    /\ MayMigrate => Awaited /\ pending_migrations \subseteq sq.notcovered

\* No task that failed is deferred, so that its release does not cover it.
XorInv == sq.notcovered \cap (sq.covered \cup DOMAIN sq_deferred) = {}

RealProcesses == {w \in worker : w[1] = "real"}

\* stats.active is the number of real processes, unless they were killed.
ActiveInv == /\ IsFiniteSet(worker)
             /\ \/ active = Cardinality(RealProcesses)
                \/ stage = "done" /\ worker = {}

InProgressOf(n) == {t \in InProgress : TaskName[t] = n}

ThreadsInv == \A n \in DOMAIN NumberThreads :
    NumberThreads[n] # 0 => Cardinality(InProgressOf(n)) <= NumberThreads[n]

\* build_stamps has the name of the stamp each real process is to make.
StampsInv == \A t \in Task, h \in Hash :
    <<"real", t, h>> \in worker =>
        t \in DOMAIN build_stamps /\ build_stamps[t] = StampName("real", t, h)

-----------------------------------------------------------------------------
(* What the operators on the scene queue's record decide.                  *)

\* HardFailures() fails the tasks given, and no more than any set that holds
\* them and what has a hard dependency in it and is not decided.
LEMMA HardFailuresBound ==
    ASSUME NEW q, NEW S \in SUBSET Setscene, NEW h, NEW disk,
           NEW X \in SUBSET Setscene, S \subseteq X,
           \A d \in Setscene \ Decided(q) : HardDepsRev[d] \cap X # {} => d \in X
    PROVE  S \subseteq HardFailures(q, S, h, disk) /\ HardFailures(q, S, h, disk) \subseteq X
  BY DEF HardFailures

\* Beside the tasks given, it fails undecided ones that have hard dependencies.
LEMMA HardFailuresAmong ==
    ASSUME NEW q, NEW S \in SUBSET Setscene, NEW h, NEW disk,
           NEW d \in HardFailures(q, S, h, disk)
    PROVE  d \in S \/ (d \in Setscene \ Decided(q) /\ HasHardDeps(d))
<1> DEFINE X == S \cup {e \in Setscene \ Decided(q) : HasHardDeps(e)}
<1>1. X \in SUBSET Setscene /\ S \subseteq X
  OBVIOUS
<1>2. \A e \in Setscene \ Decided(q) : HardDepsRev[e] \cap X # {} => e \in X
  BY DEF HasHardDeps
<1> HIDE DEF X
<1>3. d \in X
  BY <1>1, <1>2, HardFailuresBound
<1> QED
  BY <1>3 DEF X

\* It fails what has a hard dependency on what it fails, and has something to
\* restore.
LEMMA FailuresClosed ==
    ASSUME NEW q, NEW S \in SUBSET Setscene, NEW h, NEW disk,
           NEW d \in Setscene \ Decided(q), ~NothingToRestore(d, h, disk),
           HardDepsRev[d] \cap HardFailures(q, S, h, disk) # {}
    PROVE  d \in HardFailures(q, S, h, disk)
<1> PICK e \in HardDepsRev[d] : e \in HardFailures(q, S, h, disk)
  OBVIOUS
<1> QED
  BY DEF HardFailures

\* UpdateCounters() decides nothing.
LEMMA UpdateCountersDecides ==
    ASSUME NEW q \in SceneRecord, NEW S
    PROVE  /\ UpdateCounters(q, S).covered = q.covered
           /\ UpdateCounters(q, S).notcovered = q.notcovered
  BY DEF UpdateCounters, SceneRecord

\* sq_task_skip() covers the tasks given.
LEMMA SkipDecides ==
    ASSUME NEW q \in SceneRecord, NEW S \in SUBSET Setscene
    PROVE  /\ sq_task_skip(q, S).covered = q.covered \cup S
           /\ sq_task_skip(q, S).notcovered = q.notcovered
<1> DEFINE q1 == [q EXCEPT !.running = @ \cup S, !.buildable = @ \cup S]
           q2 == [q1 EXCEPT !.covered = @ \cup S]
<1>1. /\ q2 \in SceneRecord /\ q2.covered = q.covered \cup S
      /\ q2.notcovered = q.notcovered
  BY DEF SceneRecord
<1> QED
  BY <1>1, UpdateCountersDecides DEF sq_task_skip, sq_task_completeoutright

\* sq_task_failoutright() fails the tasks given and their hard failures.
LEMMA FailDecides ==
    ASSUME NEW q \in SceneRecord, NEW S \in SUBSET Setscene, NEW h, NEW disk
    PROVE  /\ sq_task_failoutright(q, S, h, disk).covered = q.covered
           /\ sq_task_failoutright(q, S, h, disk).notcovered =
                 q.notcovered \cup HardFailures(q, S, h, disk)
           /\ sq_task_failoutright(q, S, h, disk).running =
                 q.running \cup HardFailures(q, S, h, disk)
<1> DEFINE lost == HardFailures(q, S, h, disk)
           q1 == [q EXCEPT !.running = @ \cup lost, !.buildable = @ \cup lost,
                           !.notcovered = @ \cup lost]
<1>1. lost \in SUBSET Setscene
  BY DEF HardFailures
<1> HIDE DEF lost
<1>2. /\ q1 \in SceneRecord /\ q1.covered = q.covered
      /\ q1.notcovered = q.notcovered \cup lost /\ q1.running = q.running \cup lost
  BY <1>1 DEF SceneRecord
<1>3. sq_task_failoutright(q, S, h, disk) = UpdateCounters(q1, lost)
  BY DEF sq_task_failoutright, lost
<1> HIDE DEF q1
<1>4. sq_task_failoutright(q, S, h, disk).covered = q.covered
  BY <1>1, <1>2, <1>3, UpdateCountersDecides
<1>5. sq_task_failoutright(q, S, h, disk).notcovered = q.notcovered \cup lost
  BY <1>1, <1>2, <1>3, UpdateCountersDecides
<1>6. sq_task_failoutright(q, S, h, disk).running = q.running \cup lost
  BY <1>1, <1>2, <1>3, UpdateCountersType
<1> QED
  BY <1>4, <1>5, <1>6 DEF lost

\* r is q with the tasks of S covered.
Covers(r, q, S) ==
    /\ r \in SceneRecord
    /\ r.covered = q.covered \cup S /\ r.notcovered = q.notcovered
    /\ r.running = q.running \cup S

\* Those of tids with nothing to restore.
Current(tids, h, disk) == {t \in tids : NothingToRestore(t, h, disk)}

\* update_scenequeue_data() covers what has nothing to restore.
LEMMA UpdateDataDecides ==
    ASSUME NEW q \in SceneRecord, NEW tids \in SUBSET Setscene,
           NEW valid, NEW deferred, NEW h, NEW disk
    PROVE  Covers(update_scenequeue_data(q, tids, valid, deferred, h, disk),
                  q, Current(tids, h, disk))
<1> DEFINE skipped == Current(tids, h, disk)
           q1 == sq_task_skip(q, skipped)
           f == (q1.outrightfail \ tids) \cup ((tids \ skipped) \ (valid \cup Decided(q1)
                                                    \cup DOMAIN deferred))
<1>1. skipped \in SUBSET Setscene
  BY DEF Current
<1>2. update_scenequeue_data(q, tids, valid, deferred, h, disk) =
        [q1 EXCEPT !.outrightfail = f]
  BY DEF update_scenequeue_data, q1, Current
<1> HIDE DEF skipped, f
<1>3. /\ q1 \in SceneRecord /\ q1.covered = q.covered \cup skipped
      /\ q1.notcovered = q.notcovered /\ q1.running = q.running \cup skipped
  BY <1>1, SkipType, SkipDecides
<1> HIDE DEF q1
<1>4. /\ [q1 EXCEPT !.outrightfail = f].covered = q1.covered
      /\ [q1 EXCEPT !.outrightfail = f].notcovered = q1.notcovered
      /\ [q1 EXCEPT !.outrightfail = f].running = q1.running
  BY <1>3 DEF SceneRecord
<1>5. update_scenequeue_data(q, tids, valid, deferred, h, disk) \in SceneRecord
  BY UpdateDataType
<1> QED
  BY <1>2, <1>3, <1>4, <1>5 DEF skipped, Covers

\* Unsettle() undecides the tasks given.
LEMMA UnsettleDecides ==
    ASSUME sq \in SceneRecord, NEW mig \in SUBSET Setscene
    PROVE  /\ Unsettle(mig).covered = sq.covered \ mig
           /\ Unsettle(mig).notcovered = sq.notcovered \ mig
<1> DEFINE gone == mig \cup {d \in UNION {sq_covered_tasks[t] : t \in mig} :
                               d \notin runq_complete /\ d \notin unskippable}
           q1 == [sq EXCEPT !.buildable = @ \ mig, !.running = @ \ mig]
           q2 == [q1 EXCEPT !.outrightfail = @ \ mig, !.covered = @ \ mig]
           q3 == [q2 EXCEPT !.notcovered = @ \ mig, !.notneeded = @ \ mig]
<1>1. Unsettle(mig) = [q3 EXCEPT !.done = @ \ gone]
  BY Zenon DEF Unsettle
<1> HIDE DEF gone
<1>2. /\ q1 \in SceneRecord /\ q1.covered = sq.covered /\ q1.notcovered = sq.notcovered
  BY DEF SceneRecord
<1> HIDE DEF q1
<1>3. /\ q2 \in SceneRecord /\ q2.covered = q1.covered \ mig /\ q2.notcovered = q1.notcovered
  BY <1>2 DEF SceneRecord
<1> HIDE DEF q2
<1>4. /\ q3 \in SceneRecord /\ q3.covered = q2.covered
      /\ q3.notcovered = q2.notcovered \ mig
  BY <1>3 DEF SceneRecord
<1> HIDE DEF q3
<1> QED
  BY <1>1, <1>2, <1>3, <1>4 DEF SceneRecord

\* What a migration of the tasks mig fails, judging them under the hashes h:
\* those that lack a hard dependency, and what has a hard dependency on them.
MigrationFailures(mig, h, disk) ==
    HardFailures([covered |-> (sq.covered \ mig) \cup Current(mig, h, disk),
                  notcovered |-> sq.notcovered \ mig],
                 {t \in mig : HardDepsRev[t] \cap (sq.notcovered \ mig) # {}}, h, disk)

\* r is sq with the tasks of mig undecided, those of C covered again and those
\* of F failed.
Remade(r, mig, C, F) ==
    /\ r.covered = (sq.covered \ mig) \cup C
    /\ r.notcovered = (sq.notcovered \ mig) \cup F
    /\ r.running = (sq.running \ mig) \cup C \cup F

\* Resettle() covers what has nothing to restore and fails what it has to.
LEMMA ResettleDecides ==
    ASSUME sq \in SceneRecord, NEW mig \in SUBSET Setscene,
           NEW h, NEW deferred, NEW valid, NEW disk
    PROVE  Remade(Resettle(mig, h, deferred, valid, disk), mig,
                  Current(mig, h, disk), MigrationFailures(mig, h, disk))
<1> DEFINE q1 == Unsettle(mig)
           ready == {t \in mig : \/ sq_revdeps[t] = {}
                                 \/ /\ ~MissingHardDep(q1, t)
                                    /\ sq_revdeps[t] \subseteq Decided(q1)}
           q2 == [q1 EXCEPT !.buildable = @ \cup ready]
           q3 == update_scenequeue_data(q2, mig, valid, deferred, h, disk)
           lost == {t \in mig : MissingHardDep(q1, t)}
           q4 == sq_task_failoutright(q3, lost, h, disk)
           C == Current(mig, h, disk)
           F == HardFailures(q3, lost, h, disk)
<1>1. q1 \in SceneRecord /\ q1.running = sq.running \ mig
      /\ q1.covered = sq.covered \ mig /\ q1.notcovered = sq.notcovered \ mig
  BY UnsettleType, UnsettleDecides
<1>2. /\ ready \in SUBSET Setscene /\ lost \in SUBSET Setscene
      /\ lost = {t \in mig : HardDepsRev[t] \cap (sq.notcovered \ mig) # {}}
  BY <1>1 DEF MissingHardDep
<1>3. Resettle(mig, h, deferred, valid, disk) = [q4 EXCEPT !.harddep_deferred = {}]
  BY DEF Resettle
<1> HIDE DEF q1, ready, lost
<1>4. q2 \in SceneRecord /\ q2.running = q1.running
      /\ q2.covered = q1.covered /\ q2.notcovered = q1.notcovered
  BY <1>1, <1>2 DEF SceneRecord
<1> HIDE DEF q2
<1>5. q3 \in SceneRecord
  BY <1>4, UpdateDataType
<1>6. /\ q3.covered = q2.covered \cup C /\ q3.notcovered = q2.notcovered
      /\ q3.running = q2.running \cup C
  <2>1. Covers(q3, q2, C)
    BY <1>4, UpdateDataDecides
  <2> HIDE DEF C, q3
  <2> QED
    BY <2>1 DEF Covers
<1> HIDE DEF q3, C
<1>7. /\ q4 \in SceneRecord /\ q4.covered = q3.covered
      /\ q4.notcovered = q3.notcovered \cup F /\ q4.running = q3.running \cup F
  <2>1. q4 = sq_task_failoutright(q3, lost, h, disk)
    OBVIOUS
  <2> HIDE DEF q4
  <2>2. q4 \in SceneRecord
    BY <1>2, <1>5, <2>1, FailType
  <2>3. q4.covered = q3.covered
    <3>1. sq_task_failoutright(q3, lost, h, disk).covered = q3.covered
      BY <1>2, <1>5, FailDecides
    <3> QED
      BY <2>1, <3>1
  <2>4. q4.notcovered = q3.notcovered \cup F
    BY <1>2, <1>5, <2>1, FailDecides
  <2>5. q4.running = q3.running \cup F
    BY <1>2, <1>5, <2>1, FailDecides
  <2> QED
    BY <2>2, <2>3, <2>4, <2>5
<1> HIDE DEF q4
<1>8. F = MigrationFailures(mig, h, disk)
  <2> DEFINE q == [covered |-> (sq.covered \ mig) \cup C, notcovered |-> sq.notcovered \ mig]
  <2>1. Decided(q) = Decided(q3)
    BY <1>1, <1>4, <1>6 DEF Decided
  <2>2. HardFailures(q, lost, h, disk) = F
    <3> HIDE DEF q
    <3> QED
      BY <2>1 DEF HardFailures
  <2> QED
    BY <1>2, <2>2 DEF MigrationFailures, C
<1> HIDE DEF F
<1>9. /\ [q4 EXCEPT !.harddep_deferred = {}].covered = q4.covered
      /\ [q4 EXCEPT !.harddep_deferred = {}].notcovered = q4.notcovered
      /\ [q4 EXCEPT !.harddep_deferred = {}].running = q4.running
  BY <1>7 DEF SceneRecord
<1>10. Remade(Resettle(mig, h, deferred, valid, disk), mig, C, F)
  BY <1>1, <1>3, <1>4, <1>6, <1>7, <1>9 DEF Remade
<1> QED
  BY <1>8, <1>10 DEF C

-----------------------------------------------------------------------------
(* What each kind of step decides.                                         *)

\* What is decided stays so, and nothing of L comes to it.
Grows(q, L) ==
    /\ Decided(sq) \subseteq Decided(q)
    /\ Decided(q) \subseteq q.running
    /\ L \cap Decided(q) = {}

\* Failing tasks that are neither decided nor live fails no live one.
LEMMA FailuresApart ==
    ASSUME LiveInv, NEW q, Decided(sq) \subseteq Decided(q),
           NEW L, L \subseteq sq_live, NEW S \in SUBSET Setscene,
           S \cap (Decided(sq) \cup L) = {}, NEW h, NEW disk
    PROVE  /\ S \subseteq HardFailures(q, S, h, disk)
           /\ HardFailures(q, S, h, disk) \subseteq Setscene
           /\ HardFailures(q, S, h, disk) \cap L = {}
<1> DEFINE X == S \cup (Setscene \ (Decided(sq) \cup L))
<1>1. X \in SUBSET Setscene /\ S \subseteq X
  OBVIOUS
<1>2. ASSUME NEW d \in Setscene \ Decided(q), HardDepsRev[d] \cap X # {} PROVE d \in X
  <2>1. CASE d \in L
    <3>1. HardDepsRev[d] \subseteq Decided(sq)
      BY <2>1 DEF LiveInv
    <3> QED
      BY <1>2, <3>1
  <2>2. CASE d \notin L
    BY <1>2, <2>2
  <2> QED
    BY <2>1, <2>2
<1>3. S \subseteq HardFailures(q, S, h, disk) /\ HardFailures(q, S, h, disk) \subseteq X
  <2> HIDE DEF X
  <2> QED
    BY <1>1, <1>2, HardFailuresBound
<1>4. X \cap L = {}
  OBVIOUS
<1> QED
  BY <1>1, <1>3, <1>4

\* A candidate is neither decided nor live.
LEMMA CandidateOpen ==
    ASSUME TypeOK, LiveInv, NEW t \in Setscene, NEW D, SceneTurn(t, D)
    PROVE  t \notin sq.running /\ t \notin Decided(sq) /\ t \notin sq_live
<1>1. t \notin sq.running
  BY DEF SceneTurn, SceneCandidates
<1> QED
  BY <1>1 DEF LiveInv

\* Putting tasks aside decides nothing.
LEMMA PutAsideDecides ==
    ASSUME TypeOK, NEW D \in SUBSET Setscene
    PROVE  /\ PutAside(D) \in SceneRecord
           /\ PutAside(D).running = sq.running
           /\ PutAside(D).covered = sq.covered
           /\ PutAside(D).notcovered = sq.notcovered
  BY DEF PutAside, TypeOK, SceneRecord

\* A setscene task that is settled, or not needed, is decided; no live one is.
LEMMA SettleDecides ==
    ASSUME TypeOK, LiveInv, NEW t \in Setscene, NEW D \in SUBSET PassedOver,
           SceneNotNeeded(t, D) \/ SceneSettle(t, D)
    PROVE  Grows(sq', sq_live)
<1> DEFINE q == PutAside(D)
<1>1. D \in SUBSET Setscene
  BY DEF PassedOver, SceneCandidates, TypeOK, SceneRecord
<1>2. /\ q \in SceneRecord /\ q.running = sq.running
      /\ q.covered = sq.covered /\ q.notcovered = sq.notcovered
  BY <1>1, PutAsideDecides
<1>3. t \notin sq.running /\ t \notin Decided(sq) /\ t \notin sq_live
  <2>1. SceneTurn(t, D)
    BY DEF SceneNotNeeded, SceneSettle, SceneChosen
  <2> QED
    BY <2>1, CandidateOpen
<1>4. Decided(q) = Decided(sq) /\ Decided(sq) \subseteq q.running
  BY <1>2 DEF Decided, LiveInv
<1> HIDE DEF q
<1>5. ASSUME NEW r, r.covered = q.covered \cup {t}, r.notcovered = q.notcovered,
             r.running = q.running \cup {t}
      PROVE  Grows(r, sq_live)
  BY <1>3, <1>4, <1>5 DEF Grows, Decided, LiveInv
<1>6. /\ sq_task_skip(q, {t}) \in SceneRecord
      /\ sq_task_skip(q, {t}).covered = q.covered \cup {t}
      /\ sq_task_skip(q, {t}).notcovered = q.notcovered
      /\ sq_task_skip(q, {t}).running = q.running \cup {t}
  BY <1>2, SkipType, SkipDecides
<1>7. CASE SceneNotNeeded(t, D)
  <2> DEFINE q2 == sq_task_skip(q, {t})
  <2>1. sq' = [q2 EXCEPT !.notneeded = @ \cup {t}]
    BY <1>7 DEF SceneNotNeeded, q
  <2> HIDE DEF q2
  <2>2. /\ q2 \in SceneRecord /\ q2.covered = q.covered \cup {t}
        /\ q2.notcovered = q.notcovered /\ q2.running = q.running \cup {t}
    BY <1>6 DEF q2
  <2>3. /\ sq'.covered = q2.covered /\ sq'.notcovered = q2.notcovered
        /\ sq'.running = q2.running
    BY <2>1, <2>2 DEF SceneRecord
  <2> QED
    BY <1>5, <2>2, <2>3
<1>8. CASE SceneSettle(t, D)
  <2>1. \/ sq' = sq_task_failoutright(q, {t}, unihash, stamps)
        \/ sq' = sq_task_skip(q, {t})
    BY <1>8 DEF SceneSettle, q
  <2>2. CASE sq' = sq_task_skip(q, {t})
    BY <1>5, <1>6, <2>2
  <2>3. CASE sq' = sq_task_failoutright(q, {t}, unihash, stamps)
    <3> DEFINE lost == HardFailures(q, {t}, unihash, stamps)
    <3>1. lost \cap sq_live = {} /\ lost \subseteq Setscene
      <4>1. {t} \cap (Decided(sq) \cup sq_live) = {} /\ {t} \in SUBSET Setscene
        BY <1>3
      <4> QED
        BY <1>4, <4>1, FailuresApart
    <3>2. sq'.covered = q.covered
      BY <1>2, <2>3, FailDecides
    <3>3. sq'.notcovered = q.notcovered \cup lost
      BY <1>2, <2>3, FailDecides
    <3>4. sq'.running = q.running \cup lost
      BY <1>2, <2>3, FailDecides
    <3> HIDE DEF lost
    <3> QED
      BY <1>4, <3>1, <3>2, <3>3, <3>4 DEF Grows, Decided, LiveInv
  <2> QED
    BY <2>1, <2>2, <2>3
<1> QED
  BY <1>7, <1>8

\* The exit of a setscene task decides it, and no other live one.
LEMMA SetsceneExitDecides ==
    ASSUME TypeOK, LiveInv, NEW t \in Task, NEW ok \in BOOLEAN, NEW disk,
           SetsceneExit(t, ok, disk)
    PROVE  Grows(sq', sq_live')
<1>1. t \in Setscene /\ t \in sq_live /\ t \in sq.running /\ t \notin Decided(sq)
      /\ sq_live' = sq_live \ {t} /\ t \notin sq_live'
  BY DEF TypeOK, SetsceneExit, LiveInv
<1>2. CASE ok
  <2> DEFINE q2 == [sq EXCEPT !.covered = @ \cup {t}]
  <2>1. /\ q2 \in SceneRecord /\ q2.running = sq.running
        /\ q2.covered = sq.covered \cup {t} /\ q2.notcovered = sq.notcovered
    BY <1>1 DEF TypeOK, SceneRecord
  <2>2. sq' = UpdateCounters(q2, {t})
    BY <1>2 DEF SetsceneExit, sq_task_completeoutright
  <2> HIDE DEF q2
  <2>3. /\ sq'.running = q2.running /\ sq'.covered = q2.covered
        /\ sq'.notcovered = q2.notcovered
    BY <1>1, <2>1, <2>2, UpdateCountersType, UpdateCountersDecides
  <2> QED
    BY <1>1, <2>1, <2>3 DEF Grows, Decided, LiveInv
<1>3. CASE ~ok
  <2> DEFINE failed == [sq EXCEPT !.notcovered = @ \cup {t}]
             lost == HardFailures(failed, {t}, unihash, disk)
             rest == lost \ {t}
             q2 == [failed EXCEPT !.running = @ \cup rest,
                                  !.buildable = @ \cup rest,
                                  !.notcovered = @ \cup rest]
  <2>1. /\ failed \in SceneRecord /\ failed.running = sq.running
        /\ failed.covered = sq.covered /\ failed.notcovered = sq.notcovered \cup {t}
    BY <1>1 DEF TypeOK, SceneRecord
  <2>2. sq' = UpdateCounters(q2, rest \cup {t})
    BY <1>3 DEF SetsceneExit
  <2> HIDE DEF failed
  <2>3. lost \subseteq Setscene /\ lost \cap sq_live' = {}
    <3>1. Decided(sq) \subseteq Decided(failed)
      BY <2>1 DEF Decided
    <3>2. {t} \cap (Decided(sq) \cup sq_live') = {} /\ {t} \in SUBSET Setscene
          /\ sq_live' \subseteq sq_live
      BY <1>1
    <3> QED
      BY <3>1, <3>2, FailuresApart
  <2>4. rest \in SUBSET Setscene /\ rest \cap sq_live' = {}
    BY <2>3
  <2> HIDE DEF lost, rest
  <2>5. /\ q2 \in SceneRecord /\ q2.running = failed.running \cup rest
        /\ q2.covered = failed.covered /\ q2.notcovered = failed.notcovered \cup rest
    BY <2>1, <2>4 DEF SceneRecord
  <2> HIDE DEF q2
  <2>6. /\ sq'.running = q2.running /\ sq'.covered = q2.covered
        /\ sq'.notcovered = q2.notcovered
    BY <1>1, <2>2, <2>4, <2>5, UpdateCountersType, UpdateCountersDecides
  <2> QED
    BY <1>1, <2>1, <2>4, <2>5, <2>6 DEF Grows, Decided, LiveInv
<1> QED
  BY <1>2, <1>3

\* task_completeoutright() covers, at most, a task it releases.
LEMMA CompleteDecides ==
    ASSUME TypeOK, NEW t \in Task, NEW disk, task_completeoutright(t, disk)
    PROVE  /\ DOMAIN sq_deferred' \subseteq DOMAIN sq_deferred
           /\ holdoff_need_update => holdoff_need_update'
           /\ \/ sq' = sq
              \/ \E found \in DOMAIN sq_deferred : \E S \in SUBSET {found} :
                    Covers(sq', sq, S) /\ found \notin DOMAIN sq_deferred'
<1> DEFINE waiting == {d \in DOMAIN sq_deferred : sq_deferred[d] = t}
<1>1. CASE waiting = {}
  BY <1>1 DEF task_completeoutright
<1>2. CASE waiting # {}
  <2>1. PICK found \in waiting, valid \in SUBSET MayBeValid :
          LET kept == Restrict(sq_deferred, DOMAIN sq_deferred \ {found})
              deferred == [d \in DOMAIN kept |->
                             IF d \in waiting THEN found ELSE kept[d]]
          IN  /\ sq_deferred' = deferred
              /\ sq' = update_scenequeue_data(sq, {found}, valid, kept,
                                              unihash, stamps')
              /\ holdoff_need_update' =
                    (holdoff_need_update \/ NothingToRestore(found, unihash, stamps'))
    BY <1>2 DEF task_completeoutright
  <2> DEFINE kept == Restrict(sq_deferred, DOMAIN sq_deferred \ {found})
  <2>2. DOMAIN sq_deferred' = DOMAIN sq_deferred \ {found}
    BY <2>1 DEF Restrict
  <2>3. found \in Setscene /\ found \in DOMAIN sq_deferred
    BY DEF TypeOK
  <2>4. Covers(update_scenequeue_data(sq, {found}, valid, kept, unihash, stamps'),
               sq, Current({found}, unihash, stamps'))
    <3>1. {found} \in SUBSET Setscene /\ sq \in SceneRecord
      BY <2>3 DEF TypeOK
    <3> HIDE DEF kept
    <3> QED
      BY <3>1, UpdateDataDecides
  <2>5. Covers(sq', sq, Current({found}, unihash, stamps'))
    BY <2>1, <2>4
  <2>6. Current({found}, unihash, stamps') \in SUBSET {found}
    BY DEF Current
  <2>7. holdoff_need_update => holdoff_need_update'
    BY <2>1
  <2> QED
    BY <2>2, <2>3, <2>5, <2>6, <2>7
<1> QED
  BY <1>1, <1>2

\* The stamps a migration makes are those of noexec setscene tasks.
NoExecMade == \A s \in stamps' \ stamps : s[1] = "scene" /\ s[2] \in NoExec

LEMMA MigrateMakes == Migrate => NoExecMade
<1> SUFFICES ASSUME Migrate PROVE NoExecMade
  OBVIOUS
<1>1. stamps' = stamps \/ \E mig : stamps' = NoExecStamped(stamps, mig, unihash')
  BY DEF Migrate, HaltOnRerun, Rejudge
<1> QED
  BY <1>1 DEF NoExecStamped, NoExecMade

\* What a migration does: the tasks mig are undecided, and unless the build is
\* halted those of C covered again and those of F failed.
Migrates(mig, C, F) ==
    /\ mig \in SUBSET Setscene
    /\ mig \subseteq pending_migrations \cup (Setscene \ sq.covered)
    /\ mig \cap (runq_running \cup sq_live) = {}
    /\ \A t \in mig : sq_covered_tasks[t] \cap InProgress = {}
    /\ sq'.covered = (sq.covered \ mig) \cup C
    /\ sq'.notcovered = (sq.notcovered \ mig) \cup F
    /\ sq'.running = (sq.running \ mig) \cup C \cup F
    /\ DOMAIN sq_deferred' \subseteq DOMAIN sq_deferred \cup mig
    /\ \/ /\ state' = "CLEAN_UP" /\ UNCHANGED <<holdoff_need_update, stamps>>
          /\ C = {} /\ F = {}
       \/ /\ UNCHANGED state /\ stamps' = NoExecStamped(stamps, mig, unihash')
          /\ C = Current(mig, unihash', stamps') /\ F = MigrationFailures(mig, unihash', stamps')
          /\ \/ holdoff_need_update' = TRUE
             \/ mig = {} /\ UNCHANGED holdoff_need_update

\* What it leaves pending, and the hashes it leaves alone.
LeftPending(mig) ==
    /\ \A t \in pending_migrations' :
          /\ t \in (pending_migrations \cup (Setscene \ sq.covered)) \ mig
          /\ sq_covered_tasks[t] \cap InProgress # {}
    /\ \A t \in Setscene \ (mig \cup runq_running) :
          sq_covered_tasks[t] \cap InProgress = {} => unihash'[t] = unihash[t]

LEMMA MigrateDecides ==
    ASSUME TypeOK, Migrate
    PROVE  \E mig, C, F : /\ Migrates(mig, C, F)
                          /\ state' = "CLEAN_UP" \/ LeftPending(mig)
<1>1. PICK newhash \in [Dependants(toprocess) -> Hash] :
         LET changed == Rehashed(newhash, unihash)
             pend == pending_migrations \cup (changed \cap Setscene)
             mig == pend \ (TooLate(pend) \cup Blocked(pend))
             rerun == {t \in mig : sq_covered_tasks[t] \cap
                                      (runq_complete \ runq_tasksrun) # {}}
         IN  /\ unihash' = [t \in Task |-> IF t \in changed THEN newhash[t]
                                          ELSE unihash[t]]
             /\ IF rerun # {} THEN HaltOnRerun(pend, mig, rerun, unihash')
                ELSE Rejudge(pend, mig, changed, unihash')
  BY DEF Migrate
<1> DEFINE changed == Rehashed(newhash, unihash)
           pend == pending_migrations \cup (changed \cap Setscene)
           mig == pend \ (TooLate(pend) \cup Blocked(pend))
           rerun == {t \in mig : sq_covered_tasks[t] \cap
                                    (runq_complete \ runq_tasksrun) # {}}
<1>2. /\ mig \in SUBSET Setscene /\ rerun \subseteq mig
      /\ mig \subseteq pending_migrations \cup (Setscene \ sq.covered)
      /\ mig \cap (runq_running \cup sq_live) = {}
      /\ \A t \in mig : sq_covered_tasks[t] \cap InProgress = {}
  BY DEF TypeOK, TooLate, Blocked, Rehashed
<1>3. \/ HaltOnRerun(pend, mig, rerun, unihash')
      \/ Rejudge(pend, mig, changed, unihash')
  BY <1>1
<1>4. \A t \in Blocked(pend) :
          /\ t \in (pending_migrations \cup (Setscene \ sq.covered)) \ mig
          /\ sq_covered_tasks[t] \cap InProgress # {}
  BY DEF Blocked, Rehashed
<1>5. \A t \in Setscene \ (mig \cup runq_running) :
          sq_covered_tasks[t] \cap InProgress = {} => unihash'[t] = unihash[t]
  <2> SUFFICES ASSUME NEW t \in Setscene, t \notin mig, t \notin runq_running,
                      sq_covered_tasks[t] \cap InProgress = {}
               PROVE  unihash'[t] = unihash[t]
    OBVIOUS
  <2>1. t \notin changed
    <3>1. t \in changed => t \notin sq_live
      BY DEF Rehashed
    <3> QED
      BY <3>1 DEF TooLate, Blocked
  <2>2. t \in Task
    BY GraphAssumption
  <2> QED
    BY <1>1, <2>1, <2>2
<1> HIDE DEF changed, pend, mig, rerun
<1>6. CASE HaltOnRerun(pend, mig, rerun, unihash')
  <2>1. PICK t \in rerun, before \in SUBSET (mig \ rerun) :
          /\ state' = "CLEAN_UP"
          /\ \E gone \in SUBSET (sq_covered_tasks[t] \ (runq_complete \cup unskippable)) :
                sq' = [Unsettle(before) EXCEPT !.done = @ \ (gone \cup {t})]
          /\ UNCHANGED <<sq_deferred, holdoff_need_update, stamps>>
    BY <1>6 DEF HaltOnRerun
  <2>2. PICK gone : sq' = [Unsettle(before) EXCEPT !.done = @ \ gone]
    BY <2>1
  <2>3. before \in SUBSET mig /\ before \in SUBSET Setscene
    BY <1>2
  <2>4. /\ Unsettle(before) \in SceneRecord
        /\ Unsettle(before).running = sq.running \ before
        /\ Unsettle(before).covered = sq.covered \ before
        /\ Unsettle(before).notcovered = sq.notcovered \ before
    BY <2>3, UnsettleType, UnsettleDecides DEF TypeOK
  <2>5. /\ sq'.running = Unsettle(before).running
        /\ sq'.covered = Unsettle(before).covered
        /\ sq'.notcovered = Unsettle(before).notcovered
    BY <2>2, <2>4 DEF SceneRecord
  <2>6. Migrates(before, {}, {})
    BY <1>2, <2>1, <2>3, <2>4, <2>5 DEF Migrates
  <2> QED
    BY <2>1, <2>6
<1>7. CASE Rejudge(pend, mig, changed, unihash')
  <2> DEFINE C == Current(mig, unihash', stamps')
             F == MigrationFailures(mig, unihash', stamps')
  <2>0. C = Current(mig, unihash', stamps') /\ F = MigrationFailures(mig, unihash', stamps')
    OBVIOUS
  <2>1. /\ UNCHANGED state /\ stamps' = NoExecStamped(stamps, mig, unihash')
        /\ LeftPending(mig)
    BY <1>4, <1>5, <1>7 DEF Rejudge, LeftPending
  <2>2. CASE mig = {}
    <3>1. sq' = sq \/ sq' = [sq EXCEPT !.harddep_deferred = {}]
      BY <1>7, <2>2 DEF Rejudge
    <3>2. /\ sq'.covered = sq.covered /\ sq'.notcovered = sq.notcovered
          /\ sq'.running = sq.running
      BY <3>1 DEF TypeOK, SceneRecord
    <3>3. UNCHANGED sq_deferred
      BY <1>7, <2>2 DEF Rejudge
    <3>4. UNCHANGED holdoff_need_update \/ holdoff_need_update' = TRUE
      BY <1>7 DEF Rejudge
    <3>5. C = {} /\ F = {}
      <4>1. C = {}
        BY <2>2 DEF Current
      <4>2. {t \in mig : HardDepsRev[t] \cap (sq.notcovered \ mig) # {}} = {}
        BY <2>2
      <4> QED
        BY <4>1, <4>2, HardFailuresBound DEF MigrationFailures
    <3> HIDE DEF C, F
    <3>6. Migrates(mig, C, F)
      BY <1>2, <2>0, <2>1, <2>2, <3>2, <3>3, <3>4, <3>5 DEF Migrates
    <3> QED
      BY <2>1, <3>6
  <2>3. CASE mig # {}
    <3>1. PICK valid : sq' = Resettle(mig, unihash', sq_deferred', valid, stamps')
      BY <1>7, <2>3 DEF Rejudge
    <3>2. Remade(Resettle(mig, unihash', sq_deferred', valid, stamps'), mig, C, F)
      BY <1>2, ResettleDecides DEF TypeOK
    <3> HIDE DEF C, F
    <3>3. /\ sq'.covered = (sq.covered \ mig) \cup C
          /\ sq'.notcovered = (sq.notcovered \ mig) \cup F
          /\ sq'.running = (sq.running \ mig) \cup C \cup F
      BY <3>1, <3>2 DEF Remade
    <3>4. DOMAIN sq_deferred' \subseteq DOMAIN sq_deferred \cup mig
          /\ holdoff_need_update' = TRUE
      BY <1>7, <2>3 DEF Rejudge, Redefer
    <3>5. Migrates(mig, C, F)
      BY <1>2, <2>0, <2>1, <3>3, <3>4 DEF Migrates
    <3> QED
      BY <2>1, <3>5
  <2> QED
    BY <2>2, <2>3
<1> QED
  BY <1>3, <1>6, <1>7

-----------------------------------------------------------------------------
(* The invariant is inductive.                                             *)

\* What is held off when holdoff_tasks holds all of HoldoffTasks.
LEMMA HeldOff ==
    ASSUME NEW H, HoldoffTasks \subseteq H, NEW s \in Setscene, s \notin Decided(sq)
    PROVE  s \in H /\ sq_covered_tasks[s] \ runq_complete \subseteq H
  BY DEF HoldoffTasks, Below

\* Steps that touch none of this.
LEMMA Frame ==
    ASSUME UNCHANGED <<sq, sq_live, sq_deferred, runq_running, runq_complete,
                       holdoff_tasks, holdoff_need_update>>
    PROVE  /\ Settled' = Settled /\ Fresh' = Fresh /\ FreshLive' = FreshLive
           /\ LiveInv' = LiveInv /\ Apart' = Apart /\ InProgress' = InProgress
  BY DEF Settled, Fresh, FreshLive, LiveInv, Apart, Decided, InProgress, HoldoffTasks, Below

\* Deciding more, with no more in progress, leaves what was settled settled and
\* what was held off held off.
LEMMA GrowthKeeps ==
    ASSUME Decided(sq) \subseteq Decided(sq'),
           runq_running' \cap Setscene \subseteq (runq_running \cap Setscene) \cup Decided(sq'),
           InProgress' \subseteq InProgress,
           runq_complete \subseteq runq_complete',
           UNCHANGED holdoff_tasks
    PROVE  /\ Settled => Settled'
           /\ HoldoffTasks \subseteq holdoff_tasks => HoldoffTasks' \subseteq holdoff_tasks'
<1>1. Settled => Settled'
  BY DEF Settled
<1>2. HoldoffTasks' \subseteq HoldoffTasks
  BY DEF HoldoffTasks, Below
<1> QED
  BY <1>1, <1>2

\* An exit code is taken for that of the right kind of task.
LEMMA ExitKinds ==
    ASSUME TypeOK, ProcessInv, Apart,
           NEW kind \in Kind, NEW t \in Task, NEW h \in Hash, NEW ok \in BOOLEAN,
           Exit(kind, t, h, ok)
    PROVE  \/ /\ kind = "real" /\ t \in InProgress /\ t \notin sq_live
              /\ \/ TaskComplete(t, StampsLeft(kind, t, h, ok))
                 \/ TaskFail(t)
           \/ /\ kind = "scene" /\ t \in sq_live
              /\ SetsceneExit(t, ok, StampsLeft(kind, t, h, ok))
<1>1. <<kind, t, h>> \in worker
  BY DEF Exit
<1>2. CASE kind = "real"
  <2>1. t \in InProgress
    BY <1>1, <1>2 DEF ProcessInv
  <2>2. t \notin sq_live
    BY <2>1 DEF Apart
  <2> QED
    BY <1>2, <2>1, <2>2 DEF Exit, SetsceneExit
<1>3. CASE kind = "scene"
  <2>1. t \in sq_live
    BY <1>1, <1>3 DEF ProcessInv
  <2> QED
    BY <1>3, <2>1 DEF Exit, TaskComplete, TaskFail
<1> QED
  BY <1>2, <1>3 DEF Kind

\* What an exit code leaves as it is.
ExitFrame ==
    UNCHANGED <<stage, holdoff_tasks, updated_taskhash_queue, pending_migrations,
                toprocess, updates>>

\* The exit of a setscene task keeps the invariant.
LEMMA SetsceneExitKeeps ==
    ASSUME IInv, SInv, NEW t \in Task, NEW h \in Hash, NEW ok \in BOOLEAN, NEW disk,
           <<"scene", t, h>> \in worker, worker' = worker \ {<<"scene", t, h>>},
           SetsceneExit(t, ok, disk), ExitFrame, Reading
    PROVE  SInv'
<1>0. TypeOK /\ WorkerInv /\ LiveInv /\ QuietInv /\ ProcessInv /\ Apart /\ TurnInv
  BY DEF IInv, SInv
<1>1. /\ sq_live' = sq_live \ {t} /\ holdoff_need_update' = TRUE
      /\ UNCHANGED <<runq_running, runq_complete, sq_deferred>>
      /\ state' \in {state, "CLEAN_UP"}
  BY DEF SetsceneExit, runqVars
<1>2. Grows(sq', sq_live') /\ sq.running \subseteq sq'.running
  BY <1>0, SetsceneExitDecides, SetsceneExitType
<1>3. LiveInv'
  BY <1>0, <1>1, <1>2 DEF LiveInv, Grows
<1>4. QuietInv'
  BY <1>0 DEF QuietInv, ExitFrame
<1>5. InProgress' = InProgress
  BY <1>1 DEF InProgress
<1>6. ProcessInv'
  <2>1. \A u \in Task, g \in Hash : <<"scene", u, g>> \in worker' => u \in sq_live'
    <3>1. \A g \in Hash : <<"scene", t, g>> \notin worker'
      BY <1>0 DEF WorkerInv
    <3> QED
      BY <1>0, <1>1, <3>1 DEF ProcessInv
  <2> QED
    BY <1>0, <1>5, <2>1 DEF ProcessInv
<1>7. Apart'
  BY <1>0, <1>1, <1>5 DEF Apart
<1>8. TurnInv'
  <2>1. Settled => Settled'
    BY <1>1, <1>2, <1>5, GrowthKeeps DEF Grows, ExitFrame
  <2>2. stage' \in {"read", "wait"} /\ stage' = stage
    BY DEF Reading, ExitFrame
  <2>3. Fresh'
    BY <1>1 DEF Fresh
  <2>4. state' = "RUNNING" \/ stage' \in {"read", "migrate", "scene"} => Settled
    BY <1>0, <1>1, <2>2 DEF TurnInv
  <2> QED
    BY <2>1, <2>2, <2>3, <2>4 DEF TurnInv
<1> QED
  BY <1>3, <1>4, <1>6, <1>7, <1>8 DEF SInv

\* ... and so does the exit of a task.
LEMMA TaskExitKeeps ==
    ASSUME IInv, SInv, NEW t \in Task, NEW h \in Hash, NEW disk,
           <<"real", t, h>> \in worker, worker' = worker \ {<<"real", t, h>>},
           TaskComplete(t, disk) \/ TaskFail(t), ExitFrame, Reading
    PROVE  SInv'
<1>0. TypeOK /\ LiveInv /\ QuietInv /\ ProcessInv /\ Apart /\ TurnInv
  BY DEF IInv, SInv
<1>1. stage' \in {"read", "wait"} /\ stage' = stage /\ UNCHANGED holdoff_tasks
  BY DEF Reading, ExitFrame
<1>2. QuietInv'
  BY <1>0 DEF QuietInv, ExitFrame
<1>3. CASE TaskComplete(t, disk)
  <2>1. /\ task_completeoutright(t, disk)
        /\ UNCHANGED <<state, runq_running, sq_live>>
        /\ runq_complete' = runq_complete \cup {t}
    BY <1>3 DEF TaskComplete, task_completeoutright
  <2>2. /\ DOMAIN sq_deferred' \subseteq DOMAIN sq_deferred
        /\ holdoff_need_update => holdoff_need_update'
        /\ \/ sq' = sq
           \/ \E found \in DOMAIN sq_deferred : \E S \in SUBSET {found} :
                    Covers(sq', sq, S)
    BY <1>0, <2>1, CompleteDecides
  <2>3. Grows(sq', sq_live) /\ sq.running \subseteq sq'.running
    <3>1. CASE sq' = sq
      BY <1>0, <3>1 DEF Grows, LiveInv
    <3>2. ASSUME NEW found \in DOMAIN sq_deferred, NEW S \in SUBSET {found},
                 Covers(sq', sq, S)
          PROVE  Grows(sq', sq_live) /\ sq.running \subseteq sq'.running
      BY <1>0, <3>2 DEF Grows, LiveInv, Covers, Decided
    <3> QED
      BY <2>2, <3>1, <3>2
  <2>4. LiveInv'
    BY <1>0, <2>1, <2>2, <2>3 DEF LiveInv, Grows
  <2>5. InProgress' = InProgress \ {t}
    BY <2>1 DEF InProgress
  <2>6. ProcessInv'
    <3>1. \A g \in Hash : <<"real", t, g>> \notin worker'
      BY <1>0 DEF ProcessInv
    <3> QED
      BY <1>0, <2>1, <2>5, <3>1 DEF ProcessInv
  <2>7. Apart'
    BY <1>0, <2>1, <2>5 DEF Apart
  <2>8. TurnInv'
    <3>1. /\ Settled => Settled'
          /\ HoldoffTasks \subseteq holdoff_tasks => HoldoffTasks' \subseteq holdoff_tasks'
      BY <1>1, <2>1, <2>3, <2>5, GrowthKeeps DEF Grows
    <3>2. Fresh => Fresh'
      BY <2>2, <3>1 DEF Fresh
    <3> QED
      BY <1>0, <1>1, <2>1, <3>1, <3>2 DEF TurnInv
  <2> QED
    BY <1>2, <2>4, <2>6, <2>7, <2>8 DEF SInv
<1>4. CASE TaskFail(t)
  <2>1. /\ UNCHANGED <<sq, sq_live, sq_deferred, runq_running, runq_complete,
                       holdoff_tasks, holdoff_need_update>>
        /\ state' \in {state, "CLEAN_UP"}
    BY <1>1, <1>4 DEF TaskFail, HaltState
  <2>2. /\ Settled' = Settled /\ Fresh' = Fresh /\ LiveInv' = LiveInv
        /\ Apart' = Apart /\ InProgress' = InProgress
    BY <2>1, Frame
  <2>3. ProcessInv'
    BY <1>0, <2>1, <2>2 DEF ProcessInv
  <2>4. TurnInv'
    BY <1>0, <1>1, <2>1, <2>2 DEF TurnInv
  <2> QED
    BY <1>0, <1>2, <2>2, <2>3, <2>4 DEF SInv
<1> QED
  BY <1>3, <1>4

\* What is started, or skipped, was not held off: all that would restore it or
\* make it unnecessary is decided, or at least not being restored.
LEMMA SchedFree ==
    ASSUME IInv, SInv, NEW t \in Task, Sched(t)
    PROVE  /\ t \notin runq_running /\ t \notin runq_complete
           /\ state = "RUNNING" =>
                 /\ t \in Setscene => t \in Decided(sq)
                 /\ \A s \in Setscene \ Decided(sq) : t \notin sq_covered_tasks[s]
           /\ \A s \in sq_live : t # s /\ t \notin sq_covered_tasks[s]
<1>1. /\ stage = "sched" /\ can_start_task
      /\ t \in runq_buildable /\ t \notin runq_running /\ t \notin holdoff_tasks
  BY DEF Sched, Runnable
<1>2. t \notin runq_complete
  BY <1>1 DEF IInv, OrderInv
<1>3. ~holdoff_need_update /\ FreshLive /\ (state = "RUNNING" => Fresh)
  BY <1>1 DEF SInv, TurnInv
<1>4. \A s \in sq_live : t # s /\ t \notin sq_covered_tasks[s]
  BY <1>1, <1>2, <1>3 DEF FreshLive
<1>5. CASE state = "RUNNING"
  <2>1. HoldoffTasks \subseteq holdoff_tasks
    BY <1>3, <1>5 DEF Fresh
  <2>2. \A s \in Setscene \ Decided(sq) :
           s \in holdoff_tasks /\ sq_covered_tasks[s] \ runq_complete \subseteq holdoff_tasks
    BY <2>1, HeldOff
  <2> QED
    BY <1>1, <1>2, <1>4, <2>2
<1> QED
  BY <1>1, <1>2, <1>4, <1>5

\* A step of the scheduler, as far as the invariant sees it.
LEMMA SchedKeeps ==
    ASSUME IInv, SInv, NEW t \in Task,
           \/ SchedUnexpected(t) \/ SchedSkip(t) \/ SchedNoExec(t) \/ SchedStart(t)
    PROVE  SInv'
<1>0. TypeOK /\ LiveInv /\ QuietInv /\ ProcessInv /\ Apart /\ TurnInv
  BY DEF IInv, SInv
<1>1. Sched(t)
  BY DEF SchedUnexpected, SchedSkip, SchedNoExec, SchedStart
<1>2. /\ stage = "sched" /\ can_start_task
      /\ UNCHANGED <<sq_live, holdoff_tasks, updated_taskhash_queue, pending_migrations,
                     toprocess, updates>>
  BY <1>1 DEF Sched, hashVars
<1>3. QuietInv'
  BY <1>0, <1>2 DEF QuietInv
<1>4. /\ t \notin runq_running /\ t \notin runq_complete
      /\ state = "RUNNING" =>
            /\ t \in Setscene => t \in Decided(sq)
            /\ \A s \in Setscene \ Decided(sq) : t \notin sq_covered_tasks[s]
      /\ \A s \in sq_live : t # s /\ t \notin sq_covered_tasks[s]
  BY <1>1, SchedFree
<1>5. CASE SchedUnexpected(t)
  <2>1. /\ UNCHANGED <<sq, sq_live, sq_deferred, runq_running, runq_complete,
                       holdoff_tasks, holdoff_need_update, worker>>
        /\ state' \in {state, "CLEAN_UP"} /\ stage' = "turn"
    BY <1>2, <1>5 DEF SchedUnexpected, HaltState
  <2>2. /\ Settled' = Settled /\ Fresh' = Fresh /\ LiveInv' = LiveInv
        /\ Apart' = Apart /\ InProgress' = InProgress
    BY <2>1, Frame
  <2>3. ProcessInv'
    BY <1>0, <2>1, <2>2 DEF ProcessInv
  <2>4. TurnInv'
    BY <1>0, <2>1, <2>2 DEF TurnInv
  <2> QED
    BY <1>0, <1>3, <2>2, <2>3, <2>4 DEF SInv
<1>6. CASE SchedSkip(t) \/ SchedNoExec(t)
  <2> PICK disk : task_completeoutright(t, disk)
    BY <1>6 DEF SchedSkip, SchedNoExec
  <2>1. /\ runq_running' = runq_running \cup {t} /\ UNCHANGED <<state, worker>>
        /\ stage' = "turn" /\ runq_complete' = runq_complete \cup {t}
    BY <1>6 DEF SchedSkip, SchedNoExec, task_completeoutright
  <2>2. /\ DOMAIN sq_deferred' \subseteq DOMAIN sq_deferred
        /\ holdoff_need_update => holdoff_need_update'
        /\ \/ sq' = sq
           \/ \E found \in DOMAIN sq_deferred : \E S \in SUBSET {found} :
                    Covers(sq', sq, S)
    BY <1>0, CompleteDecides
  <2>3. Grows(sq', sq_live) /\ sq.running \subseteq sq'.running
    <3>1. CASE sq' = sq
      BY <1>0, <3>1 DEF Grows, LiveInv
    <3>2. ASSUME NEW found \in DOMAIN sq_deferred, NEW S \in SUBSET {found},
                 Covers(sq', sq, S)
          PROVE  Grows(sq', sq_live) /\ sq.running \subseteq sq'.running
      BY <1>0, <3>2 DEF Grows, LiveInv, Covers, Decided
    <3> QED
      BY <2>2, <3>1, <3>2
  <2>4. LiveInv'
    BY <1>0, <1>2, <2>2, <2>3 DEF LiveInv, Grows
  <2>5. InProgress' = InProgress
    BY <1>4, <2>1 DEF InProgress
  <2>6. ProcessInv' /\ Apart'
    BY <1>0, <1>2, <2>1, <2>5 DEF ProcessInv, Apart
  <2>7. TurnInv'
    <3>1. ASSUME state = "RUNNING" PROVE Settled' /\ Fresh'
      <4>1. Settled /\ Fresh
        BY <1>0, <3>1 DEF TurnInv
      <4>2. runq_running' \cap Setscene \subseteq (runq_running \cap Setscene) \cup Decided(sq')
        BY <1>4, <2>1, <2>3, <3>1 DEF Grows
      <4>3. Settled' /\ (HoldoffTasks \subseteq holdoff_tasks => HoldoffTasks' \subseteq holdoff_tasks')
        BY <1>2, <2>1, <2>3, <2>5, <4>1, <4>2, GrowthKeeps DEF Grows
      <4> QED
        BY <2>2, <4>1, <4>3 DEF Fresh
    <3> QED
      BY <2>1, <3>1 DEF TurnInv
  <2> QED
    BY <1>3, <2>4, <2>6, <2>7 DEF SInv
<1>7. CASE SchedStart(t)
  <2>1. /\ worker' = worker \cup {<<"real", t, unihash[t]>>}
        /\ runq_running' = runq_running \cup {t}
        /\ UNCHANGED <<state, runq_complete, sq, sq_deferred, holdoff_need_update>>
        /\ stage' \in {"turn", "end"}
    BY <1>7 DEF SchedStart
  <2>2. InProgress' = InProgress \cup {t} /\ t \notin InProgress
    BY <1>4, <2>1 DEF InProgress
  <2>3. LiveInv'
    BY <1>0, <1>2, <2>1 DEF LiveInv, Decided
  <2>4. ProcessInv'
    <3>1. \A g \in Hash : <<"real", t, g>> \notin worker
      BY <1>0, <2>2 DEF ProcessInv
    <3> QED
      BY <1>0, <1>2, <2>1, <2>2, <3>1 DEF ProcessInv
  <2>5. Apart'
    BY <1>0, <1>2, <1>4, <2>2 DEF Apart
  <2>6. TurnInv'
    <3>1. ASSUME state = "RUNNING" PROVE Settled' /\ Fresh'
      <4>1. Settled /\ Fresh
        BY <1>0, <3>1 DEF TurnInv
      <4>2. Settled'
        BY <1>4, <2>1, <2>2, <3>1, <4>1 DEF Settled, Decided
      <4>3. Fresh'
        BY <1>2, <2>1, <4>1 DEF Fresh, HoldoffTasks, Below, Decided
      <4> QED
        BY <4>2, <4>3
    <3> QED
      BY <2>1, <3>1 DEF TurnInv
  <2> QED
    BY <1>3, <2>3, <2>4, <2>5, <2>6 DEF SInv
<1> QED
  BY <1>5, <1>6, <1>7

\* A step that looks at a setscene task and settles it, or has it wait.
LEMMA SceneSettleKeeps ==
    ASSUME IInv, SInv, NEW t \in Setscene, NEW D \in SUBSET PassedOver,
           SceneNotNeeded(t, D) \/ SceneNeedHardDeps(t, D) \/ SceneSettle(t, D)
    PROVE  SInv'
<1>0. TypeOK /\ LiveInv /\ QuietInv /\ ProcessInv /\ Apart /\ TurnInv
  BY DEF IInv, SInv
<1>1. SceneTurn(t, D)
  BY DEF SceneNotNeeded, SceneNeedHardDeps, SceneSettle, SceneChosen
<1>2. /\ stage = "scene" /\ stage' = "turn"
      /\ UNCHANGED <<state, runq_running, runq_complete, holdoff_tasks, sq_live, worker,
                     updated_taskhash_queue, pending_migrations, toprocess, updates>>
  BY <1>1 DEF SceneTurn, SceneNotNeeded, SceneNeedHardDeps, SceneSettle, runqVars, hashVars
<1>3. QuietInv'
  BY <1>0, <1>2 DEF QuietInv
<1>4. InProgress' = InProgress
  BY <1>2 DEF InProgress
<1>5. ProcessInv' /\ Apart'
  BY <1>0, <1>2, <1>4 DEF ProcessInv, Apart
<1>6. Settled /\ (state = "RUNNING" => Fresh)
  BY <1>0, <1>2 DEF TurnInv
<1>7. CASE SceneNotNeeded(t, D) \/ SceneSettle(t, D)
  <2>1. Grows(sq', sq_live) /\ sq.running \subseteq sq'.running
    BY <1>0, <1>7, SettleDecides, SceneType
  <2>2. DOMAIN sq_deferred' \subseteq DOMAIN sq_deferred /\ holdoff_need_update' = TRUE
    BY <1>7 DEF SceneNotNeeded, SceneSettle, SceneChosen, Restrict
  <2>3. LiveInv'
    BY <1>0, <1>2, <2>1, <2>2 DEF LiveInv, Grows
  <2>4. Settled'
    BY <1>2, <1>4, <1>6, <2>1, GrowthKeeps DEF Grows
  <2>5. TurnInv'
    BY <1>2, <2>2, <2>4 DEF TurnInv, Fresh
  <2> QED
    BY <1>3, <1>5, <2>3, <2>5 DEF SInv
<1>8. CASE SceneNeedHardDeps(t, D)
  <2> DEFINE q2 == PutAside(D \cup {t})
  <2>1. D \cup {t} \in SUBSET Setscene
    BY <1>0 DEF PassedOver, SceneCandidates, TypeOK, SceneRecord
  <2>2. /\ q2 \in SceneRecord /\ q2.running = sq.running
        /\ q2.covered = sq.covered /\ q2.notcovered = sq.notcovered
    BY <1>0, <2>1, PutAsideDecides
  <2>3. sq' = [q2 EXCEPT !.buildable = @ \cup (HardDepsRev[t] \ sq_needed_harddeps)]
        /\ UNCHANGED <<sq_deferred, holdoff_need_update>>
    BY <1>8 DEF SceneNeedHardDeps
  <2> HIDE DEF q2
  <2>4. /\ sq'.running = sq.running
        /\ sq'.covered = sq.covered /\ sq'.notcovered = sq.notcovered
    BY <2>2, <2>3 DEF SceneRecord
  <2>5. Decided(sq') = Decided(sq)
    BY <2>4 DEF Decided
  <2>6. LiveInv'
    BY <1>0, <1>2, <2>3, <2>4, <2>5 DEF LiveInv
  <2>7. Settled' /\ Fresh' = Fresh
    BY <1>2, <1>4, <1>6, <2>3, <2>5 DEF Settled, Fresh, HoldoffTasks, Below
  <2>8. TurnInv'
    BY <1>2, <1>6, <2>7 DEF TurnInv
  <2> QED
    BY <1>3, <1>5, <2>6, <2>8 DEF SInv
<1> QED
  BY <1>7, <1>8

\* Starting a setscene task: nothing it covers is in progress, and either the
\* slots are all taken or the turn is over.
LEMMA SceneStartKeeps ==
    ASSUME IInv, SInv, NEW t \in Setscene, NEW D \in SUBSET PassedOver, SceneStart(t, D)
    PROVE  SInv'
<1>0. TypeOK /\ LiveInv /\ QuietInv /\ ProcessInv /\ Apart /\ TurnInv
  BY DEF IInv, SInv
<1>1. SceneTurn(t, D) /\ ~AwaitsHardDep(t)
      /\ sq_deferred' = Restrict(sq_deferred, DOMAIN sq_deferred \ {t})
  BY DEF SceneStart, SceneChosen
<1>2. /\ stage = "scene" /\ sq_live' = sq_live \cup {t}
      /\ worker' = worker \cup {<<"scene", t, unihash[t]>>}
      /\ UNCHANGED <<state, active, runq_running, runq_complete, holdoff_tasks,
                     holdoff_need_update, updated_taskhash_queue, pending_migrations,
                     toprocess, updates>>
  BY <1>1 DEF SceneTurn, SceneStart, runqVars, hashVars
<1>3. /\ stage' \in {"turn", "holdoff"}
      /\ stage' = "holdoff" => ~can_start_task'
  BY <1>2 DEF SceneStart, can_start_task
<1>4. /\ t \notin sq.running /\ t \notin Decided(sq) /\ t \notin sq_live
      /\ HardDepsRev[t] \subseteq Decided(sq)
  BY <1>0, <1>1, CandidateOpen DEF AwaitsHardDep
<1>5. /\ sq'.running = sq.running \cup {t}
      /\ sq'.covered = sq.covered /\ sq'.notcovered = sq.notcovered
  <2> DEFINE q2 == PutAside(D)
  <2>1. D \in SUBSET Setscene
    BY <1>0 DEF PassedOver, SceneCandidates, TypeOK, SceneRecord
  <2>2. /\ q2 \in SceneRecord /\ q2.running = sq.running
        /\ q2.covered = sq.covered /\ q2.notcovered = sq.notcovered
    BY <1>0, <2>1, PutAsideDecides
  <2>3. sq' = [q2 EXCEPT !.running = @ \cup {t}]
    BY DEF SceneStart, MarkRunning
  <2> HIDE DEF q2
  <2> QED
    BY <2>2, <2>3 DEF SceneRecord
<1>6. Decided(sq') = Decided(sq)
  BY <1>5 DEF Decided
<1>7. QuietInv'
  BY <1>0, <1>2 DEF QuietInv
<1>8. LiveInv'
  <2>1. DOMAIN sq_deferred' = DOMAIN sq_deferred \ {t}
    BY <1>1 DEF Restrict
  <2> QED
    BY <1>0, <1>2, <1>4, <1>5, <1>6, <2>1 DEF LiveInv
<1>9. InProgress' = InProgress
  BY <1>2 DEF InProgress
<1>10. ProcessInv'
  BY <1>0, <1>2, <1>9 DEF ProcessInv
<1>11. Settled
  BY <1>0, <1>2 DEF TurnInv
<1>12. Apart'
  <2>1. (sq_covered_tasks[t] \cup {t}) \cap InProgress = {}
    BY <1>4, <1>11 DEF Settled, InProgress
  <2> QED
    BY <1>0, <1>2, <1>9, <2>1 DEF Apart
<1>13. TurnInv'
  <2>1. Settled'
    BY <1>2, <1>6, <1>9, <1>11 DEF Settled
  <2>2. state = "RUNNING" => Fresh'
    <3>1. HoldoffTasks' = HoldoffTasks
      BY <1>2, <1>6 DEF HoldoffTasks, Below
    <3> QED
      BY <1>0, <1>2, <3>1 DEF TurnInv, Fresh
  <2> QED
    BY <1>2, <1>3, <2>1, <2>2 DEF TurnInv
<1> QED
  BY <1>7, <1>8, <1>10, <1>12, <1>13 DEF SInv

\* A turn that finds no setscene task to look at.
LEMMA SceneNoneKeeps ==
    ASSUME IInv, SInv, SceneNone
    PROVE  SInv'
<1>0. TypeOK /\ LiveInv /\ QuietInv /\ ProcessInv /\ Apart /\ TurnInv
  BY DEF IInv, SInv
<1>1. /\ stage = "scene" /\ stage' = "holdoff"
      /\ UNCHANGED <<state, runq_running, runq_complete, sq_live, sq_deferred, holdoff_tasks,
                     holdoff_need_update, updated_taskhash_queue, pending_migrations,
                     toprocess, updates, worker>>
  BY DEF SceneNone, runqVars, holdoffVars, hashVars, workerVars
<1>2. /\ sq'.running = sq.running
      /\ sq'.covered = sq.covered /\ sq'.notcovered = sq.notcovered
  <2>1. PassedOver \in SUBSET Setscene
    BY <1>0 DEF PassedOver, SceneCandidates, TypeOK, SceneRecord
  <2>2. sq' = sq \/ sq' = PutAside(PassedOver)
    BY DEF SceneNone
  <2> QED
    BY <1>0, <2>1, <2>2, PutAsideDecides
<1>3. Decided(sq') = Decided(sq) /\ InProgress' = InProgress
  BY <1>1, <1>2 DEF Decided, InProgress
<1>4. HoldoffTasks' = HoldoffTasks
  BY <1>1, <1>3 DEF HoldoffTasks, Below
<1>5. LiveInv' /\ QuietInv' /\ ProcessInv' /\ Apart'
  BY <1>0, <1>1, <1>2, <1>3 DEF LiveInv, QuietInv, ProcessInv, Apart
<1>6. TurnInv'
  <2>1. /\ Settled /\ FreshLive /\ (state = "RUNNING" => Fresh)
    BY <1>0, <1>1 DEF TurnInv
  <2>2. Settled'
    BY <1>1, <1>3, <2>1 DEF Settled
  <2>3. FreshLive'
    BY <1>1, <2>1 DEF FreshLive
  <2>4. state = "RUNNING" => Fresh'
    BY <1>1, <1>4, <2>1 DEF Fresh
  <2> QED
    BY <1>1, <2>2, <2>3, <2>4 DEF TurnInv
<1> QED
  BY <1>5, <1>6 DEF SInv

\* update_holdofftasks() holds off what is not decided.
LEMMA HoldoffKeeps ==
    ASSUME IInv, SInv, Holdoff
    PROVE  SInv'
<1>0. TypeOK /\ LiveInv /\ QuietInv /\ ProcessInv /\ Apart /\ TurnInv
  BY DEF IInv, SInv
<1>1. /\ stage = "holdoff" /\ stage' \in {"sched", "turn"}
      /\ UNCHANGED <<active, runq_running, runq_complete, sq, sq_live, sq_deferred,
                     updated_taskhash_queue, pending_migrations, toprocess, updates, worker>>
      /\ state' \in {state, "FAILED", "COMPLETE"}
  BY DEF Holdoff, hashVars, workerVars
<1>2. \/ holdoff_need_update /\ holdoff_tasks' = HoldoffTasks
      \/ ~holdoff_need_update /\ UNCHANGED holdoff_tasks
  BY DEF Holdoff, update_holdofftasks, holdoffVars
<1>3. ~holdoff_need_update'
  BY <1>0 DEF Holdoff, update_holdofftasks, holdoffVars, TypeOK
<1>4. InProgress' = InProgress /\ HoldoffTasks' = HoldoffTasks
  BY <1>1 DEF InProgress, HoldoffTasks, Below
<1>5. LiveInv' /\ QuietInv' /\ ProcessInv' /\ Apart'
  BY <1>0, <1>1, <1>4 DEF LiveInv, QuietInv, ProcessInv, Apart
<1>6. state = "RUNNING" => Settled' /\ Fresh'
  BY <1>0, <1>1, <1>2, <1>4 DEF TurnInv, Settled, Fresh
<1>7. FreshLive' \/ ~can_start_task'
  <2>1. CASE holdoff_need_update
    <3>1. HoldoffTasks \subseteq holdoff_tasks'
      BY <1>2, <2>1
    <3>2. \A s \in sq_live : s \in Setscene /\ s \notin Decided(sq)
      BY <1>0 DEF LiveInv, TypeOK
    <3>3. \A s \in sq_live : s \in holdoff_tasks'
             /\ sq_covered_tasks[s] \ runq_complete \subseteq holdoff_tasks'
      BY <3>1, <3>2, HeldOff
    <3> QED
      BY <1>1, <3>3 DEF FreshLive
  <2>2. CASE ~holdoff_need_update
    BY <1>0, <1>1, <1>2, <2>2 DEF TurnInv, FreshLive, can_start_task
  <2> QED
    BY <2>1, <2>2
<1>8. TurnInv'
  BY <1>1, <1>3, <1>6, <1>7 DEF TurnInv
<1> QED
  BY <1>5, <1>8 DEF SInv

\* A migration undecides nothing that is being restored, that was started, or
\* that covers a task in progress.
LEMMA MigrateKeeps ==
    ASSUME IInv, SInv, HardInv, Migrate
    PROVE  SInv'
<1>0. TypeOK /\ LiveInv /\ QuietInv /\ ProcessInv /\ Apart /\ TurnInv
  BY DEF IInv, SInv
<1>1. /\ stage = "migrate" /\ stage' = "scene"
      /\ UNCHANGED <<runq_running, runq_complete, sq_live, holdoff_tasks, worker>>
  BY DEF Migrate
<1>2. PICK mig, C, F : Migrates(mig, C, F)
  BY <1>0, MigrateDecides
<1>a. \A d \in sq_live : HardDepsRev[d] \subseteq Decided(sq) \ mig
  <2> SUFFICES ASSUME NEW d \in sq_live, HardDepsRev[d] # {}
               PROVE  HardDepsRev[d] \subseteq Decided(sq) \ mig
    OBVIOUS
  <2>1. /\ d \in Setscene \ Decided(sq) /\ HasHardDeps(d)
        /\ HardDepsRev[d] \subseteq Decided(sq)
    BY <1>0 DEF LiveInv, TypeOK, HasHardDeps
  <2>2. /\ HardDepsRev[d] \cap sq.notcovered = {}
        /\ pending_migrations \subseteq sq.notcovered
    BY <1>1, <2>1 DEF HardInv, MayMigrate, Awaited
  <2>3. mig \subseteq pending_migrations \cup (Setscene \ sq.covered)
    BY <1>2 DEF Migrates
  <2> QED
    BY <2>1, <2>2, <2>3 DEF Decided
<1>b. C \subseteq mig /\ F \cap sq_live = {}
  <2>1. CASE C = {} /\ F = {}
    BY <2>1
  <2>2. CASE C = Current(mig, unihash', stamps') /\ F = MigrationFailures(mig, unihash', stamps')
    <3> DEFINE q == [covered |-> (sq.covered \ mig) \cup C, notcovered |-> sq.notcovered \ mig]
               lost == {t \in mig : HardDepsRev[t] \cap (sq.notcovered \ mig) # {}}
               X == lost \cup ((Setscene \ Decided(q)) \ sq_live)
    <3>1. C \subseteq mig /\ mig \subseteq Setscene /\ mig \cap sq_live = {}
      BY <1>2, <2>2 DEF Current, Migrates
    <3>2. Decided(q) = (Decided(sq) \ mig) \cup C
      BY DEF Decided
    <3>3. lost \in SUBSET Setscene /\ X \in SUBSET Setscene /\ lost \subseteq X
          /\ lost \subseteq mig
      BY <3>1
    <3>4. ASSUME NEW d \in Setscene \ Decided(q), HardDepsRev[d] \cap X # {}
          PROVE  d \in X
      BY <1>a, <3>2, <3>3, <3>4
    <3>5. F = HardFailures(q, lost, unihash', stamps')
      BY <2>2 DEF MigrationFailures
    <3>6. X \cap sq_live = {}
      BY <3>1, <3>3
    <3> HIDE DEF q, lost, X
    <3>7. F \subseteq X
      BY <3>3, <3>4, <3>5, HardFailuresBound
    <3> QED
      BY <3>1, <3>6, <3>7
  <2> QED
    BY <1>2, <2>1, <2>2 DEF Migrates
<1>3. /\ mig \in SUBSET Setscene /\ C \in SUBSET mig
      /\ mig \cap (runq_running \cup sq_live) = {}
      /\ \A t \in mig : sq_covered_tasks[t] \cap InProgress = {}
      /\ Decided(sq') = (Decided(sq) \ mig) \cup C \cup F
      /\ sq'.running = (sq.running \ mig) \cup C \cup F
      /\ DOMAIN sq_deferred' \subseteq DOMAIN sq_deferred \cup mig
      /\ \/ state' = "CLEAN_UP" /\ UNCHANGED holdoff_need_update
         \/ UNCHANGED state /\ holdoff_need_update' = TRUE
         \/ UNCHANGED state /\ mig = {} /\ C = {} /\ F = {} /\ UNCHANGED holdoff_need_update
  <2>1. mig = {} => MigrationFailures(mig, unihash', stamps') = {}
    <3>1. mig = {} => {t \in mig : HardDepsRev[t] \cap (sq.notcovered \ mig) # {}} = {}
      OBVIOUS
    <3> QED
      BY <3>1, HardFailuresBound DEF MigrationFailures
  <2> QED
    BY <1>2, <1>b, <2>1 DEF Migrates, Decided
<1>4. LiveInv'
  BY <1>0, <1>1, <1>3, <1>a, <1>b DEF LiveInv, TypeOK
<1>5. QuietInv'
  BY <1>0 DEF QuietInv, Migrate
<1>6. InProgress' = InProgress
  BY <1>1 DEF InProgress
<1>7. ProcessInv' /\ Apart'
  BY <1>0, <1>1, <1>6 DEF ProcessInv, Apart
<1>8. TurnInv'
  <2>1. Settled /\ Fresh
    BY <1>0, <1>1 DEF TurnInv
  <2>2. Settled'
    BY <1>1, <1>3, <1>6, <2>1 DEF Settled
  <2>3. FreshLive'
    <3>1. CASE holdoff_need_update'
      BY <3>1 DEF FreshLive
    <3>2. CASE ~holdoff_need_update'
      <4>1. HoldoffTasks \subseteq holdoff_tasks
        BY <1>0, <1>3, <2>1, <3>2 DEF Fresh
      <4>2. \A s \in sq_live : s \in Setscene /\ s \notin Decided(sq)
        BY <1>0 DEF LiveInv, TypeOK
      <4>3. \A s \in sq_live : s \in holdoff_tasks
               /\ sq_covered_tasks[s] \ runq_complete \subseteq holdoff_tasks
        BY <4>1, <4>2, HeldOff
      <4> QED
        BY <1>1, <4>3 DEF FreshLive
    <3> QED
      BY <3>1, <3>2
  <2>4. state' = "RUNNING" => Fresh'
    <3>1. CASE holdoff_need_update'
      BY <3>1 DEF Fresh
    <3>2. CASE /\ state' = "RUNNING" /\ mig = {} /\ C = {} /\ F = {}
               /\ UNCHANGED holdoff_need_update
      <4>1. Decided(sq') = Decided(sq)
        BY <1>3, <3>2
      <4>2. HoldoffTasks' = HoldoffTasks
        BY <1>1, <4>1 DEF HoldoffTasks, Below
      <4> QED
        BY <1>1, <2>1, <3>2, <4>2 DEF Fresh
    <3> QED
      BY <1>3, <3>1, <3>2
  <2> QED
    BY <1>1, <2>2, <2>3, <2>4 DEF TurnInv
<1> QED
  BY <1>4, <1>5, <1>7, <1>8 DEF SInv

\* Every other step.
LEMMA OtherKeeps ==
    ASSUME IInv, SInv,
           \/ BeginTurn \/ CleanUp \/ EndRead \/ Teardown \/ NothingToMigrate
           \/ SchedNone \/ EndWait \/ Conclude \/ Stop \/ ForceStop
           \/ \E i \in DOMAIN updated_taskhash_queue : ApplyUpdate(i)
           \/ \E t \in Setscene : EndForceDeferred(t)
           \/ \E t \in Task, h \in Hash : UniHashUpdate(t, h)
           \/ UNCHANGED vars
    PROVE  SInv'
<1>0. TypeOK /\ LiveInv /\ QuietInv /\ ProcessInv /\ Apart /\ TurnInv
  BY DEF IInv, SInv
<1> USE DEF buildVars, runqVars, sceneVars, holdoffVars, hashVars, workerVars
<1>1. CASE \/ BeginTurn \/ CleanUp \/ EndRead \/ Teardown \/ NothingToMigrate
           \/ SchedNone \/ EndWait \/ Conclude \/ Stop
  <2>1. UNCHANGED buildVars
    BY <1>1 DEF BeginTurn, CleanUp, EndRead, Teardown, NothingToMigrate, SchedNone,
                EndWait, Conclude, Stop
  <2>2. /\ Settled' = Settled /\ Fresh' = Fresh /\ FreshLive' = FreshLive
        /\ LiveInv' = LiveInv /\ Apart' = Apart /\ InProgress' = InProgress
    BY <2>1, Frame
  <2>3. QuietInv' /\ ProcessInv'
    BY <1>0, <2>1, <2>2 DEF QuietInv, ProcessInv
  <2>4. \/ stage = "turn" /\ state = "RUNNING" /\ stage' = "read" /\ UNCHANGED state
        \/ stage = "turn" /\ stage' = "turn" /\ state' # "RUNNING"
        \/ stage = "turn" /\ stage' \in {"wait", "done"} /\ state' # "RUNNING"
        \/ stage = "read" /\ stage' = "migrate" /\ UNCHANGED state
        \/ stage = "migrate" /\ stage' = "scene" /\ UNCHANGED state
        \/ stage \in {"wait", "sched", "end"} /\ stage' \in {"turn", "end", "wait"}
           /\ (UNCHANGED state \/ state' # "RUNNING")
    BY <1>1 DEF BeginTurn, CleanUp, EndRead, Teardown, NothingToMigrate, SchedNone,
                EndWait, Conclude, Stop, FinishedState, Reading
  <2>5. stage = "migrate" => FreshLive
    <3>1. ASSUME Fresh PROVE FreshLive
      <4>1. \A s \in sq_live : s \in Setscene /\ s \notin Decided(sq)
        BY <1>0 DEF LiveInv, TypeOK
      <4> QED
        BY <3>1, <4>1, HeldOff DEF Fresh, FreshLive
    <3> QED
      BY <1>0, <3>1 DEF TurnInv
  <2>6. TurnInv'
    BY <1>0, <2>2, <2>4, <2>5 DEF TurnInv
  <2> QED
    BY <1>0, <2>2, <2>3, <2>6 DEF SInv
<1>2. CASE ForceStop
  <2>1. /\ worker' = {} /\ stage' = "done" /\ state' # "RUNNING"
        /\ UNCHANGED <<runqVars, sceneVars, holdoffVars, hashVars, updates>>
    BY <1>2 DEF ForceStop, FinishedState
  <2>2. LiveInv' = LiveInv /\ Apart' = Apart
    BY <2>1, Frame
  <2>3. QuietInv' /\ ProcessInv' /\ TurnInv'
    BY <1>0, <2>1 DEF QuietInv, ProcessInv, TurnInv
  <2> QED
    BY <1>0, <2>2, <2>3 DEF SInv
<1>3. ASSUME NEW i \in DOMAIN updated_taskhash_queue, ApplyUpdate(i) PROVE SInv'
  <2>1. UNCHANGED <<stage, state, runqVars, sceneVars, holdoffVars, pending_migrations,
                    workerVars>>
    BY <1>3 DEF ApplyUpdate
  <2>2. MaxUpdates # 0
    BY <1>0 DEF QuietInv
  <2>3. /\ Settled' = Settled /\ Fresh' = Fresh /\ FreshLive' = FreshLive
        /\ LiveInv' = LiveInv /\ Apart' = Apart /\ InProgress' = InProgress
    BY <2>1, Frame
  <2>4. QuietInv' /\ ProcessInv' /\ TurnInv'
    BY <1>0, <2>1, <2>2, <2>3 DEF QuietInv, ProcessInv, TurnInv, can_start_task
  <2> QED
    BY <1>0, <2>3, <2>4 DEF SInv
<1>4. ASSUME NEW t \in Setscene, EndForceDeferred(t) PROVE SInv'
  <2>1. /\ stage = "end" /\ stage' = "turn" /\ UNCHANGED state
        /\ UNCHANGED <<runqVars, sq, sq_live, holdoffVars, hashVars, workerVars>>
        /\ DOMAIN sq_deferred' \subseteq DOMAIN sq_deferred
    BY <1>4 DEF EndForceDeferred, Restrict
  <2>2. LiveInv' /\ QuietInv' /\ ProcessInv' /\ Apart'
    BY <1>0, <2>1 DEF LiveInv, QuietInv, ProcessInv, Apart, Decided, InProgress
  <2>3. Settled' = Settled /\ Fresh' = Fresh
    BY <2>1 DEF Settled, Fresh, HoldoffTasks, Below, Decided, InProgress
  <2>4. TurnInv'
    BY <1>0, <2>1, <2>3 DEF TurnInv
  <2> QED
    BY <2>2, <2>4 DEF SInv
<1>5. ASSUME NEW t \in Task, NEW h \in Hash, UniHashUpdate(t, h) PROVE SInv'
  <2>1. UNCHANGED <<stage, state, runqVars, sceneVars, holdoffVars, worker>>
        /\ Cardinality(updates) < MaxUpdates
    BY <1>5 DEF UniHashUpdate
  <2>2. MaxUpdates # 0
    BY <1>0, <2>1, FS_EmptySet DEF QuietInv
  <2>3. /\ Settled' = Settled /\ Fresh' = Fresh /\ FreshLive' = FreshLive
        /\ LiveInv' = LiveInv /\ Apart' = Apart /\ InProgress' = InProgress
    BY <2>1, Frame
  <2>4. QuietInv' /\ ProcessInv' /\ TurnInv'
    BY <1>0, <2>1, <2>2, <2>3 DEF QuietInv, ProcessInv, TurnInv, can_start_task
  <2> QED
    BY <1>0, <2>3, <2>4 DEF SInv
<1>6. CASE UNCHANGED vars
  <2>1. UNCHANGED buildVars /\ UNCHANGED <<stage, state>>
    BY <1>6 DEF vars
  <2>2. /\ Settled' = Settled /\ Fresh' = Fresh /\ FreshLive' = FreshLive
        /\ LiveInv' = LiveInv /\ Apart' = Apart /\ InProgress' = InProgress
    BY <2>1, Frame
  <2>3. QuietInv' /\ ProcessInv' /\ TurnInv'
    BY <1>0, <2>1, <2>2 DEF QuietInv, ProcessInv, TurnInv, can_start_task
  <2> QED
    BY <1>0, <2>2, <2>3 DEF SInv
<1> QED
  BY <1>1, <1>2, <1>3, <1>4, <1>5, <1>6

\* What has nothing to restore is covered when a build begins; nothing failed.
LEMMA InitDecides ==
    ASSUME Init
    PROVE  LET C == Current(Setscene, InitHash, stamps)
           IN  sq.covered = C /\ sq.notcovered = {} /\ sq.running = C
<1> DEFINE q == [buildable |-> {t \in Setscene : sq_revdeps[t] = {}},
                 running |-> {}, covered |-> {}, notcovered |-> {}, notneeded |-> {},
                 done |-> unskippable \cap Plain,
                 harddep_deferred |-> {}, outrightfail |-> {}]
           skipped == Current(Setscene, InitHash, stamps)
<1>1. PICK valid : sq = update_scenequeue_data(q, Setscene, valid, InitDeferred,
                                               InitHash, stamps)
  BY DEF Init, InitScene
<1>2. /\ q \in SceneRecord
      /\ q.running = {} /\ q.covered = {} /\ q.notcovered = {}
  BY GraphAssumption DEF SceneRecord, Plain
<1> HIDE DEF q
<1>3. Covers(update_scenequeue_data(q, Setscene, valid, InitDeferred, InitHash, stamps),
             q, skipped)
  BY <1>2, UpdateDataDecides
<1> HIDE DEF skipped
<1>4. Covers(sq, q, skipped)
  BY <1>1, <1>3
<1>5. sq.covered = skipped /\ sq.notcovered = {} /\ sq.running = skipped
  BY <1>2, <1>4 DEF Covers
<1> QED
  BY <1>5 DEF skipped

\* Nothing is started, running or being restored when a build begins.
LEMMA SInvInit ==
    Init => SInv
<1> SUFFICES ASSUME Init PROVE SInv
  OBVIOUS
<1>1. /\ runq_running = {} /\ sq_live = {} /\ worker = {} /\ updates = {}
      /\ holdoff_need_update = TRUE /\ stage = "turn"
      /\ updated_taskhash_queue = << >> /\ pending_migrations = {} /\ toprocess = {}
  BY DEF Init
<1>2. Decided(sq) \subseteq sq.running
  BY InitDecides DEF Decided
<1>3. LiveInv /\ QuietInv /\ ProcessInv /\ Apart
  BY <1>1, <1>2 DEF LiveInv, QuietInv, ProcessInv, Apart
<1>4. TurnInv
  BY <1>1 DEF TurnInv, Settled, Fresh, InProgress
<1> QED
  BY <1>3, <1>4 DEF SInv

\* Where hashes change, HardInv holds.
HardOK == MaxUpdates = 0 \/ HardInv

\* SInv is inductive, given IInv and HardOK.
LEMMA SInvStep ==
    ASSUME HardOK, IInv, SInv, [Next]_vars
    PROVE  SInv'
<1>1. ASSUME WorkerExit PROVE SInv'
  <2> PICK kind \in Kind, t \in Task, h \in Hash, ok \in BOOLEAN : Exit(kind, t, h, ok)
    BY <1>1 DEF WorkerExit
  <2>1. /\ <<kind, t, h>> \in worker /\ worker' = worker \ {<<kind, t, h>>}
        /\ ExitFrame /\ Reading
    BY DEF Exit, ExitFrame, hashVars
  <2>2. \/ /\ kind = "real"
           /\ \/ TaskComplete(t, StampsLeft(kind, t, h, ok))
              \/ TaskFail(t)
        \/ kind = "scene" /\ SetsceneExit(t, ok, StampsLeft(kind, t, h, ok))
    BY ExitKinds DEF IInv, SInv
  <2> QED
    BY <2>1, <2>2, SetsceneExitKeeps, TaskExitKeeps
<1>2. ASSUME Migrate PROVE SInv'
  <2>1. CASE HardInv
    BY <1>2, <2>1, MigrateKeeps
  <2>2. CASE MaxUpdates = 0
    BY <1>2, <2>2 DEF Migrate, SInv, QuietInv
  <2> QED
    BY <2>1, <2>2 DEF HardOK
<1>3. ASSUME NEW t \in Setscene, NEW D \in SUBSET PassedOver,
             \/ SceneNotNeeded(t, D) \/ SceneNeedHardDeps(t, D)
             \/ SceneSettle(t, D) \/ SceneStart(t, D)
      PROVE  SInv'
  BY <1>3, SceneSettleKeeps, SceneStartKeeps
<1>4. ASSUME NEW t \in Task,
             \/ SchedUnexpected(t) \/ SchedSkip(t) \/ SchedNoExec(t) \/ SchedStart(t)
      PROVE  SInv'
  BY <1>4, SchedKeeps
<1>5. ASSUME SceneNone \/ Holdoff PROVE SInv'
  BY <1>5, SceneNoneKeeps, HoldoffKeeps
<1>6. \/ WorkerExit \/ Migrate
      \/ \E t \in Setscene : \E D \in SUBSET PassedOver :
            \/ SceneNotNeeded(t, D) \/ SceneNeedHardDeps(t, D)
            \/ SceneSettle(t, D) \/ SceneStart(t, D)
      \/ \E t \in Task :
            SchedUnexpected(t) \/ SchedSkip(t) \/ SchedNoExec(t) \/ SchedStart(t)
      \/ SceneNone \/ Holdoff
      \/ BeginTurn \/ CleanUp \/ EndRead \/ Teardown \/ NothingToMigrate
      \/ SchedNone \/ EndWait \/ Conclude \/ Stop \/ ForceStop
      \/ \E i \in DOMAIN updated_taskhash_queue : ApplyUpdate(i)
      \/ \E t \in Setscene : EndForceDeferred(t)
      \/ \E t \in Task, h \in Hash : UniHashUpdate(t, h)
      \/ UNCHANGED vars
  BY DEF Next, Turn, WorkerEvent, Over
<1> QED
  BY <1>1, <1>2, <1>3, <1>4, <1>5, <1>6, OtherKeeps

-----------------------------------------------------------------------------
(* HardInv is inductive.                                                   *)

\* An undecided task that has hard dependencies has something to restore.
LEMMA Exposed ==
    ASSUME unihash \in [Task -> Hash], Settled, RanStamped, Awaited,
           NEW d \in Setscene \ Decided(sq), HasHardDeps(d)
    PROVE  ~NothingToRestore(d, unihash, stamps)
<1>1. d \in Task /\ unihash[d] \in Hash /\ d \notin runq_running
  BY GraphAssumption DEF Settled
<1>2. ~OwnStampCurrent(d, unihash, stamps)
  BY <1>1 DEF RanStamped, OwnStampCurrent
<1>3. ~RealStampCurrent(d, unihash, stamps)
  BY <1>2 DEF RealStampCurrent
<1> QED
  BY <1>3 DEF Awaited, NothingToRestore, SceneStampCurrent

\* What fails takes with it what has a hard dependency on it.
FailsUp ==
    \A d \in Setscene \ Decided(sq') :
        ~NothingToRestore(d, unihash, stamps) /\ HardDepsRev[d] \cap sq.notcovered = {}
            => HardDepsRev[d] \cap sq'.notcovered = {}

\* The stamps a step makes: those of a task that was started, or of a setscene
\* task that was restored or is noexec.
MadeRight ==
    \A s \in stamps' \ stamps :
        \/ s[1] = "rebuilt" /\ s[2] \in runq_running'
        \/ s[1] = "scene" /\ s[2] \in NoExec \cup sq'.covered

\* A step that decides more, in this way, and rehashes nothing.
LEMMA HardKept ==
    ASSUME TypeOK, TurnInv, HardInv, MayMigrate' => MayMigrate,
           Decided(sq) \subseteq Decided(sq'), sq.notcovered \subseteq sq'.notcovered,
           FailsUp, MadeRight, runq_running \subseteq runq_running',
           UNCHANGED <<unihash, updated_taskhash_queue, pending_migrations>>
    PROVE  HardInv'
<1>1. UpdatesRan'
  BY DEF HardInv, UpdatesRan
<1>2. RanStamped'
  BY DEF HardInv, RanStamped, MadeRight
<1>3. ASSUME MayMigrate, NEW d \in Setscene \ Decided(sq'), HasHardDeps(d)
      PROVE  /\ HardDepsRev[d] \cap sq'.notcovered = {}
             /\ d \notin NoExec /\ <<"scene", d, unihash[d]>> \notin stamps'
  <2>1. Settled /\ RanStamped /\ Awaited /\ d \in Setscene \ Decided(sq)
    BY <1>3 DEF TurnInv, HardInv, MayMigrate
  <2>2. ~NothingToRestore(d, unihash, stamps)
    BY <1>3, <2>1, Exposed DEF TypeOK
  <2>3. /\ HardDepsRev[d] \cap sq.notcovered = {}
        /\ d \notin NoExec /\ <<"scene", d, unihash[d]>> \notin stamps
    BY <1>3, <2>1 DEF Awaited
  <2> QED
    BY <1>3, <2>2, <2>3 DEF FailsUp, MadeRight, Decided
<1>4. MayMigrate => Awaited'
  BY <1>3 DEF Awaited
<1>5. MayMigrate => pending_migrations' \subseteq sq'.notcovered
  BY DEF HardInv
<1> QED
  BY <1>1, <1>2, <1>4, <1>5 DEF HardInv

\* The stamp a process leaves.
LEMMA LeftStamps ==
    ASSUME NEW kind, NEW t, NEW h, NEW ok, NEW s \in StampsLeft(kind, t, h, ok) \ stamps
    PROVE  s = <<IF kind = "real" THEN "rebuilt" ELSE kind, t, h>>
  BY DEF StampsLeft, WithStamp

\* A step that completes a task, over the stamps disk.
LEMMA CompleteFailsNone ==
    ASSUME TypeOK, NEW t \in Task, NEW disk, task_completeoutright(t, disk),
           \A s \in disk \ stamps : s[1] = "rebuilt" /\ s[2] \in runq_running'
    PROVE  /\ sq.covered \subseteq sq'.covered /\ Decided(sq) \subseteq Decided(sq')
           /\ sq'.notcovered = sq.notcovered /\ FailsUp /\ MadeRight
<1>1. /\ sq.covered \subseteq sq'.covered /\ Decided(sq) \subseteq Decided(sq')
      /\ sq'.notcovered = sq.notcovered
  BY CompleteDecides DEF Covers, Decided
<1>2. MadeRight
  <2>1. stamps' = disk \/ \E found : stamps' = NoExecStamped(disk, {found}, unihash)
    BY DEF task_completeoutright
  <2>2. \A s \in stamps' \ disk : s[1] = "scene" /\ s[2] \in NoExec
    BY <2>1 DEF NoExecStamped
  <2> QED
    BY <2>2 DEF MadeRight
<1> QED
  BY <1>1, <1>2 DEF FailsUp

\* The failure of a setscene process.
LEMMA ExitFails ==
    ASSUME TypeOK, NEW t \in Task, NEW ok \in BOOLEAN, NEW disk,
           ~ok => disk = stamps, SetsceneExit(t, ok, disk)
    PROVE  /\ sq.covered \subseteq sq'.covered /\ sq.notcovered \subseteq sq'.notcovered
           /\ FailsUp
           /\ ok => t \in sq'.covered
<1>1. t \in Setscene
  BY DEF TypeOK, SetsceneExit
<1>2. CASE ok
  <2> DEFINE q2 == [sq EXCEPT !.covered = @ \cup {t}]
  <2>1. q2 \in SceneRecord /\ q2.notcovered = sq.notcovered
        /\ q2.covered = sq.covered \cup {t}
    BY <1>1 DEF TypeOK, SceneRecord
  <2>2. sq' = UpdateCounters(q2, {t})
    BY <1>2 DEF SetsceneExit, sq_task_completeoutright
  <2> HIDE DEF q2
  <2>3. sq'.notcovered = sq.notcovered /\ sq'.covered = sq.covered \cup {t}
    BY <2>1, <2>2, UpdateCountersDecides
  <2> QED
    BY <2>3 DEF FailsUp
<1>3. CASE ~ok
  <2> DEFINE failed == [sq EXCEPT !.notcovered = @ \cup {t}]
             lost == HardFailures(failed, {t}, unihash, stamps)
             rest == lost \ {t}
             q2 == [failed EXCEPT !.running = @ \cup rest,
                                  !.buildable = @ \cup rest,
                                  !.notcovered = @ \cup rest]
  <2>1. /\ failed \in SceneRecord
        /\ failed.covered = sq.covered /\ failed.notcovered = sq.notcovered \cup {t}
    BY <1>1 DEF TypeOK, SceneRecord
  <2>2. sq' = UpdateCounters(q2, rest \cup {t})
    BY <1>3 DEF SetsceneExit
  <2> HIDE DEF failed
  <2>3. lost \subseteq Setscene /\ rest \in SUBSET Setscene /\ t \in lost
    BY <1>1 DEF HardFailures
  <2>4. ASSUME NEW d \in Setscene \ Decided(failed),
               ~NothingToRestore(d, unihash, stamps), HardDepsRev[d] \cap lost # {}
        PROVE  d \in lost
    BY <1>1, <2>4, FailuresClosed
  <2> HIDE DEF lost
  <2>5. /\ q2 \in SceneRecord
        /\ q2.covered = failed.covered /\ q2.notcovered = failed.notcovered \cup rest
    BY <2>1, <2>3 DEF SceneRecord
  <2> HIDE DEF q2
  <2>6. sq'.covered = sq.covered /\ sq'.notcovered = sq.notcovered \cup lost
    BY <2>1, <2>2, <2>3, <2>5, UpdateCountersDecides
  <2>7. \A d \in Setscene \ Decided(sq') : d \notin lost /\ d \notin Decided(failed)
    BY <2>1, <2>3, <2>6 DEF Decided
  <2> QED
    BY <1>3, <2>4, <2>6, <2>7 DEF FailsUp
<1> QED
  BY <1>2, <1>3

\* A setscene task that is settled, or not needed.
LEMMA SettleFails ==
    ASSUME TypeOK, LiveInv, NEW t \in Setscene, NEW D \in SUBSET PassedOver,
           SceneNotNeeded(t, D) \/ SceneSettle(t, D)
    PROVE  /\ sq.covered \subseteq sq'.covered /\ sq.notcovered \subseteq sq'.notcovered
           /\ FailsUp
<1> DEFINE q == PutAside(D)
<1>1. D \in SUBSET Setscene
  BY DEF PassedOver, SceneCandidates, TypeOK, SceneRecord
<1>2. /\ q \in SceneRecord
      /\ q.covered = sq.covered /\ q.notcovered = sq.notcovered
  BY <1>1, PutAsideDecides
<1>3. \/ sq' = [sq_task_skip(q, {t}) EXCEPT !.notneeded = @ \cup {t}]
      \/ sq' = sq_task_failoutright(q, {t}, unihash, stamps)
      \/ sq' = sq_task_skip(q, {t})
  BY DEF SceneNotNeeded, SceneSettle
<1> HIDE DEF q
<1>4. CASE \/ sq' = [sq_task_skip(q, {t}) EXCEPT !.notneeded = @ \cup {t}]
           \/ sq' = sq_task_skip(q, {t})
  <2> DEFINE q2 == sq_task_skip(q, {t})
  <2>1. q2 \in SceneRecord /\ q2.notcovered = q.notcovered /\ q.covered \subseteq q2.covered
    BY <1>2, SkipType, SkipDecides
  <2>2. sq' = [q2 EXCEPT !.notneeded = @ \cup {t}] \/ sq' = q2
    BY <1>4
  <2> HIDE DEF q2
  <2>3. sq'.notcovered = sq.notcovered /\ sq.covered \subseteq sq'.covered
    BY <1>2, <2>1, <2>2 DEF SceneRecord
  <2> QED
    BY <2>3 DEF FailsUp
<1>5. CASE sq' = sq_task_failoutright(q, {t}, unihash, stamps)
  <2> DEFINE lost == HardFailures(q, {t}, unihash, stamps)
  <2>1. sq'.covered = q.covered /\ sq'.notcovered = q.notcovered \cup lost
    BY <1>2, <1>5, FailDecides
  <2>2. ASSUME NEW d \in Setscene \ Decided(q),
               ~NothingToRestore(d, unihash, stamps), HardDepsRev[d] \cap lost # {}
        PROVE  d \in lost
    BY <2>2, FailuresClosed
  <2> HIDE DEF lost
  <2>3. \A d \in Setscene \ Decided(sq') : d \notin lost /\ d \notin Decided(q)
    BY <2>1 DEF Decided
  <2> QED
    BY <1>2, <2>1, <2>2, <2>3 DEF FailsUp
<1> QED
  BY <1>3, <1>4, <1>5

\* A migration judges again what is undecided: it fails what lacks a hard
\* dependency, and covers what has nothing to restore.
LEMMA HardMigrate ==
    ASSUME IInv, SInv, HardInv, Migrate
    PROVE  HardInv'
<1>0. TypeOK /\ TurnInv /\ stage = "migrate" /\ stage' = "scene"
      /\ UNCHANGED <<runq_running, updated_taskhash_queue>>
  BY DEF IInv, SInv, Migrate
<1>a. NoExecMade
  BY MigrateMakes
<1>1. UpdatesRan' /\ RanStamped'
  BY <1>0, <1>a DEF HardInv, UpdatesRan, RanStamped, NoExecMade
<1>2. Settled /\ RanStamped /\ Awaited /\ pending_migrations \subseteq sq.notcovered
  BY <1>0 DEF TurnInv, HardInv, MayMigrate
<1>3. PICK mig, C, F : /\ Migrates(mig, C, F)
                       /\ state' = "CLEAN_UP" \/ LeftPending(mig)
  BY <1>0, MigrateDecides
<1>4. CASE state' = "CLEAN_UP"
  BY <1>0, <1>1, <1>4 DEF HardInv, MayMigrate
<1>5. CASE state' # "CLEAN_UP"
  <2> DEFINE q == [covered |-> (sq.covered \ mig) \cup C, notcovered |-> sq.notcovered \ mig]
             lost == {t \in mig : HardDepsRev[t] \cap (sq.notcovered \ mig) # {}}
  <2>1. /\ mig \in SUBSET Setscene
        /\ mig \cap runq_running = {}
        /\ sq'.covered = (sq.covered \ mig) \cup C
        /\ sq'.notcovered = (sq.notcovered \ mig) \cup F
        /\ C = Current(mig, unihash', stamps') /\ F = MigrationFailures(mig, unihash', stamps')
        /\ LeftPending(mig)
    BY <1>3, <1>5 DEF Migrates
  <2>2. F = HardFailures(q, lost, unihash', stamps')
    BY <2>1 DEF MigrationFailures
  <2>3. lost \in SUBSET Setscene /\ lost \subseteq F
    BY <2>1, <2>2 DEF HardFailures
  <2>4. Decided(q) = (Decided(sq) \ mig) \cup C /\ Decided(sq') = Decided(q) \cup F
    BY <2>1 DEF Decided
  <2>5. ASSUME NEW d \in Setscene \ Decided(q), ~NothingToRestore(d, unihash', stamps'),
               HardDepsRev[d] \cap F # {}
        PROVE  d \in F
    <3> HIDE DEF q, lost
    <3> QED
      BY <2>2, <2>3, <2>5, FailuresClosed
  <2> HIDE DEF q
  <2>6. ASSUME NEW d \in Setscene \ Decided(sq'), HasHardDeps(d)
        PROVE  /\ HardDepsRev[d] \cap sq'.notcovered = {}
               /\ d \notin NoExec /\ <<"scene", d, unihash'[d]>> \notin stamps'
    <3>1. d \in Setscene \ Decided(q) /\ d \notin F /\ d \notin C /\ d \notin lost
      BY <2>3, <2>4, <2>6
    <3>2. CASE d \in mig
      <4>1. ~NothingToRestore(d, unihash', stamps')
        BY <2>1, <3>1, <3>2 DEF Current
      <4>2. HardDepsRev[d] \cap F = {}
        BY <2>5, <3>1, <4>1
      <4>3. HardDepsRev[d] \cap (sq.notcovered \ mig) = {}
        BY <3>1, <3>2
      <4> QED
        BY <2>1, <4>1, <4>2, <4>3 DEF NothingToRestore, SceneStampCurrent
    <3>3. CASE d \notin mig
      <4>1. d \in Setscene \ Decided(sq)
        BY <2>4, <3>1, <3>3
      <4>2. d \notin runq_running /\ sq_covered_tasks[d] \cap InProgress = {}
        BY <1>2, <4>1 DEF Settled
      <4>3. unihash'[d] = unihash[d]
        BY <2>1, <3>3, <4>1, <4>2 DEF LeftPending
      <4>4. /\ HardDepsRev[d] \cap sq.notcovered = {}
            /\ d \notin NoExec /\ <<"scene", d, unihash[d]>> \notin stamps
        BY <1>2, <2>6, <4>1 DEF Awaited
      <4>5. ~NothingToRestore(d, unihash', stamps')
        <5>1. unihash[d] \in Hash
          BY <1>0, GraphAssumption DEF TypeOK
        <5>2. ~OwnStampCurrent(d, unihash', stamps')
          <6>1. \A h \in Hash : /\ <<"real", d, h>> \notin stamps'
                                /\ <<"rebuilt", d, h>> \notin stamps'
            BY <1>1, <1>0, <2>6, <4>2 DEF RanStamped
          <6> QED
            BY <4>3, <5>1, <6>1 DEF OwnStampCurrent
        <5>3. ~RealStampCurrent(d, unihash', stamps')
          BY <5>2 DEF RealStampCurrent
        <5> QED
          BY <1>a, <4>3, <4>4, <5>3 DEF NothingToRestore, SceneStampCurrent, NoExecMade
      <4>6. HardDepsRev[d] \cap F = {}
        BY <2>5, <3>1, <4>5
      <4> QED
        BY <1>a, <2>1, <4>3, <4>4, <4>6 DEF NoExecMade
    <3> QED
      BY <3>2, <3>3
  <2>7. Awaited'
    BY <1>0, <2>6 DEF Awaited
  <2>8. pending_migrations' \subseteq sq'.notcovered
    <3> SUFFICES ASSUME NEW t \in pending_migrations' PROVE t \in sq.notcovered \ mig
      BY <2>1
    <3>1. /\ t \in (pending_migrations \cup (Setscene \ sq.covered)) \ mig
          /\ sq_covered_tasks[t] \cap InProgress # {}
      BY <2>1 DEF LeftPending
    <3>2. CASE t \in pending_migrations
      BY <1>2, <3>1, <3>2
    <3>3. CASE t \in Setscene \ sq.covered
      BY <1>2, <3>1, <3>3 DEF Settled, Decided
    <3> QED
      BY <3>1, <3>2, <3>3
  <2> QED
    BY <1>1, <2>7, <2>8 DEF HardInv
<1> QED
  BY <1>4, <1>5

\* An update taken from the queue rehashes a task that was started, hence
\* decided, and those deferred until it.
LEMMA HardApply ==
    ASSUME IInv, SInv, HardInv, \A d \in DOMAIN sq_deferred : ~HasHardDeps(d),
           NEW i \in DOMAIN updated_taskhash_queue, ApplyUpdate(i)
    PROVE  HardInv'
<1> DEFINE t == updated_taskhash_queue[i][1]
           h == updated_taskhash_queue[i][2]
           torehash == {t} \cup {d \in DOMAIN sq_deferred : sq_deferred[d] = t}
<1>0. /\ TypeOK /\ Settled /\ stage = "migrate"
      /\ UNCHANGED <<stage, state, runq_running, sq, stamps, pending_migrations>>
      /\ updated_taskhash_queue' = Without(updated_taskhash_queue, i)
      /\ unihash' = unihash \/ unihash' = [x \in Task |-> IF x \in torehash THEN h
                                                         ELSE unihash[x]]
  BY DEF IInv, SInv, TurnInv, ApplyUpdate, runqVars, sceneVars, workerVars
<1>1. t \in runq_running
  BY DEF HardInv, UpdatesRan
<1>2. UpdatesRan'
  <2> DEFINE S == {e \in Task \X Hash : e[1] \in runq_running}
  <2>1. updated_taskhash_queue \in Seq(S)
    <3>1. /\ updated_taskhash_queue \in Seq(Task \X Hash)
          /\ \A j \in DOMAIN updated_taskhash_queue :
                updated_taskhash_queue[j][1] \in runq_running
      BY <1>0 DEF HardInv, UpdatesRan, TypeOK
    <3>2. \A j \in 1..Len(updated_taskhash_queue) : updated_taskhash_queue[j] \in S
      BY <3>1
    <3> HIDE DEF S
    <3> QED
      BY <3>1, <3>2
  <2>2. updated_taskhash_queue' \in Seq(S)
    <3> HIDE DEF S
    <3> QED
      BY <1>0, <2>1, WithoutType
  <2>3. \A j \in DOMAIN updated_taskhash_queue' : updated_taskhash_queue'[j] \in S
    <3> HIDE DEF S
    <3> QED
      BY <2>2
  <2> QED
    BY <1>0, <2>3 DEF UpdatesRan
<1>3. RanStamped'
  BY <1>0 DEF HardInv, RanStamped
<1>4. ASSUME NEW d \in Setscene \ Decided(sq), HasHardDeps(d)
      PROVE  unihash'[d] = unihash[d]
  <2>1. d # t
    BY <1>0, <1>1 DEF Settled
  <2>2. d \notin torehash
    BY <1>4, <2>1
  <2>3. d \in Task
    BY GraphAssumption
  <2> QED
    BY <1>0, <2>2, <2>3
<1>5. Awaited'
  <2>1. Awaited
    BY <1>0 DEF HardInv, MayMigrate
  <2> QED
    BY <1>0, <1>4, <2>1 DEF Awaited, Decided
<1>6. pending_migrations' \subseteq sq'.notcovered
  BY <1>0 DEF HardInv, MayMigrate
<1> QED
  BY <1>2, <1>3, <1>5, <1>6 DEF HardInv

\* The exit of a process.
LEMMA HardExit ==
    ASSUME IInv, SInv, HardInv, WorkerExit
    PROVE  HardInv'
<1> PICK kind \in Kind, t \in Task, h \in Hash, ok \in BOOLEAN : Exit(kind, t, h, ok)
  BY DEF WorkerExit
<1> DEFINE disk == StampsLeft(kind, t, h, ok)
<1>0. /\ TypeOK /\ LiveInv /\ ProcessInv /\ Apart /\ TurnInv
      /\ UNCHANGED <<stage, unihash, updated_taskhash_queue, pending_migrations>>
  BY DEF IInv, SInv, Exit, hashVars
<1>1. CASE kind = "real"
  <2>1. /\ t \in runq_running
        /\ TaskComplete(t, disk) \/ TaskFail(t)
    BY <1>0, <1>1, ExitKinds DEF InProgress
  <2>2. state' \in {state, "CLEAN_UP"} /\ runq_running' = runq_running
    BY <2>1 DEF TaskComplete, TaskFail, HaltState
  <2>3. MayMigrate' => MayMigrate
    BY <1>0, <2>2 DEF MayMigrate
  <2>4. \A s \in disk \ stamps : s[1] = "rebuilt" /\ s[2] \in runq_running'
    BY <1>1, <2>1, <2>2, LeftStamps
  <2>5. /\ Decided(sq) \subseteq Decided(sq')
        /\ sq'.notcovered = sq.notcovered /\ FailsUp /\ MadeRight
    <3>1. CASE TaskComplete(t, disk)
      <4> HIDE DEF disk
      <4> QED
        BY <1>0, <2>4, <3>1, CompleteFailsNone DEF TaskComplete
    <3>2. CASE TaskFail(t)
      BY <3>2 DEF TaskFail, FailsUp, MadeRight
    <3> QED
      BY <2>1, <3>1, <3>2
  <2> QED
    BY <1>0, <2>2, <2>3, <2>5, HardKept
<1>2. CASE kind = "scene"
  <2>1. SetsceneExit(t, ok, disk) /\ t \in sq_live
    BY <1>0, <1>2, ExitKinds
  <2>2. /\ state' \in {state, "CLEAN_UP"} /\ runq_running' = runq_running
        /\ stamps' = disk
    BY <2>1 DEF SetsceneExit, runqVars
  <2>3. MayMigrate' => MayMigrate
    BY <1>0, <2>2 DEF MayMigrate
  <2>4. ~ok => disk = stamps
    BY DEF StampsLeft
  <2>5. /\ sq.covered \subseteq sq'.covered /\ sq.notcovered \subseteq sq'.notcovered
        /\ FailsUp
        /\ ok => t \in sq'.covered
    <3> HIDE DEF disk
    <3> QED
      BY <1>0, <2>1, <2>4, ExitFails
  <2>6. MadeRight /\ Decided(sq) \subseteq Decided(sq')
    <3>1. \A s \in disk \ stamps : s = <<"scene", t, h>>
      BY <1>2, LeftStamps
    <3> QED
      BY <2>2, <2>4, <2>5, <3>1 DEF MadeRight, Decided
  <2> QED
    BY <1>0, <2>2, <2>3, <2>5, <2>6, HardKept
<1> QED
  BY <1>1, <1>2 DEF Kind

\* A step that looks at a setscene task.
LEMMA HardScene ==
    ASSUME IInv, SInv, HardInv, NEW t \in Setscene, NEW D \in SUBSET PassedOver,
           \/ SceneNotNeeded(t, D) \/ SceneNeedHardDeps(t, D)
           \/ SceneSettle(t, D) \/ SceneStart(t, D)
    PROVE  HardInv'
<1>0. TypeOK /\ LiveInv /\ TurnInv
  BY DEF IInv, SInv
<1>1. /\ SceneTurn(t, D) /\ stage' \in {"turn", "holdoff"}
      /\ UNCHANGED <<state, runq_running, stamps, unihash, updated_taskhash_queue,
                     pending_migrations>>
  BY DEF SceneTurn, SceneNotNeeded, SceneNeedHardDeps, SceneSettle, SceneStart,
         SceneChosen, runqVars, hashVars
<1>2. (MayMigrate' => MayMigrate) /\ MadeRight
  BY <1>1 DEF MayMigrate, MadeRight
<1>3. CASE SceneNotNeeded(t, D) \/ SceneSettle(t, D)
  <2>1. Decided(sq) \subseteq Decided(sq')
    BY <1>0, <1>3, SettleDecides DEF Grows
  <2>2. sq.notcovered \subseteq sq'.notcovered /\ FailsUp
    BY <1>0, <1>3, SettleFails
  <2> QED
    BY <1>0, <1>1, <1>2, <2>1, <2>2, HardKept
<1>4. CASE SceneNeedHardDeps(t, D) \/ SceneStart(t, D)
  <2>1. D \in SUBSET Setscene
    BY <1>0 DEF PassedOver, SceneCandidates, TypeOK, SceneRecord
  <2> DEFINE q1 == PutAside(D)
             q2 == PutAside(D \cup {t})
  <2>2. /\ q1 \in SceneRecord /\ q2 \in SceneRecord
        /\ q1.covered = sq.covered /\ q1.notcovered = sq.notcovered
        /\ q2.covered = sq.covered /\ q2.notcovered = sq.notcovered
    BY <1>0, <2>1, PutAsideDecides
  <2>3. \/ sq' = [q2 EXCEPT !.buildable = @ \cup (HardDepsRev[t] \ sq_needed_harddeps)]
        \/ sq' = [q1 EXCEPT !.running = @ \cup {t}]
    BY <1>4 DEF SceneNeedHardDeps, SceneStart, MarkRunning
  <2> HIDE DEF q1, q2
  <2>4. sq'.covered = sq.covered /\ sq'.notcovered = sq.notcovered
    BY <2>2, <2>3 DEF SceneRecord
  <2>5. Decided(sq') = Decided(sq) /\ FailsUp
    BY <2>4 DEF Decided, FailsUp
  <2> QED
    BY <1>0, <1>1, <1>2, <2>4, <2>5, HardKept
<1> QED
  BY <1>3, <1>4

\* A step of the scheduler.
LEMMA HardSched ==
    ASSUME IInv, SInv, HardInv, NEW t \in Task,
           \/ SchedUnexpected(t) \/ SchedSkip(t) \/ SchedNoExec(t) \/ SchedStart(t)
    PROVE  HardInv'
<1>0. TypeOK /\ TurnInv
  BY DEF IInv, SInv
<1>1. /\ stage' \in {"turn", "end"} /\ state' \in {state, "CLEAN_UP"}
      /\ runq_running \subseteq runq_running'
      /\ UNCHANGED <<unihash, updated_taskhash_queue, pending_migrations>>
  BY DEF Sched, SchedUnexpected, SchedSkip, SchedNoExec, SchedStart, HaltState, hashVars
<1>2. MayMigrate' => MayMigrate
  BY <1>1 DEF MayMigrate
<1>3. CASE SchedUnexpected(t) \/ SchedStart(t)
  <2>1. UNCHANGED <<sq, stamps>>
    BY <1>3 DEF SchedUnexpected, SchedStart
  <2>2. Decided(sq') = Decided(sq) /\ FailsUp /\ MadeRight
    BY <2>1 DEF Decided, FailsUp, MadeRight
  <2> QED
    BY <1>0, <1>1, <1>2, <2>1, <2>2, HardKept
<1>4. CASE SchedSkip(t) \/ SchedNoExec(t)
  <2>1. t \in runq_running'
    BY <1>4 DEF SchedSkip, SchedNoExec
  <2>2. PICK disk : /\ task_completeoutright(t, disk)
                    /\ \A s \in disk \ stamps : s[1] = "rebuilt" /\ s[2] \in runq_running'
    <3>1. CASE SchedSkip(t)
      BY <3>1 DEF SchedSkip
    <3>2. CASE SchedNoExec(t)
      <4> DEFINE disk == StampsLeft("real", t, unihash[t], TRUE)
      <4>1. \A s \in disk \ stamps : s = <<"rebuilt", t, unihash[t]>>
        BY LeftStamps
      <4>2. task_completeoutright(t, disk)
        BY <3>2 DEF SchedNoExec
      <4> HIDE DEF disk
      <4> QED
        BY <2>1, <4>1, <4>2
    <3> QED
      BY <1>4, <3>1, <3>2
  <2>3. /\ Decided(sq) \subseteq Decided(sq')
        /\ sq'.notcovered = sq.notcovered /\ FailsUp /\ MadeRight
    BY <1>0, <2>2, CompleteFailsNone
  <2> QED
    BY <1>0, <1>1, <1>2, <2>3, HardKept
<1> QED
  BY <1>3, <1>4

\* HardInv is inductive, given the rest, while what is deferred has no hard
\* dependencies.
LEMMA HardStep ==
    ASSUME IInv, SInv, HardInv, \A d \in DOMAIN sq_deferred : ~HasHardDeps(d), [Next]_vars
    PROVE  HardInv'
<1>0. TypeOK /\ ProcessInv /\ TurnInv
  BY DEF IInv, SInv
<1>1. ASSUME UNCHANGED <<unihash, updated_taskhash_queue, pending_migrations, stamps,
                         runq_running>>,
             sq'.covered = sq.covered, sq'.notcovered = sq.notcovered,
             MayMigrate' => MayMigrate
      PROVE  HardInv'
  <2>1. Decided(sq') = Decided(sq) /\ FailsUp /\ MadeRight
    BY <1>1 DEF Decided, FailsUp, MadeRight
  <2> QED
    BY <1>0, <1>1, <2>1, HardKept
<1>2. ASSUME SceneNone PROVE HardInv'
  <2>1. PassedOver \in SUBSET Setscene
    BY <1>0 DEF PassedOver, SceneCandidates, TypeOK, SceneRecord
  <2>2. sq' = sq \/ sq' = PutAside(PassedOver)
    BY <1>2 DEF SceneNone
  <2>3. sq'.covered = sq.covered /\ sq'.notcovered = sq.notcovered
    BY <1>0, <2>1, <2>2, PutAsideDecides
  <2> QED
    BY <1>1, <1>2, <2>3 DEF SceneNone, MayMigrate, runqVars, hashVars, workerVars
<1>3. ASSUME NEW t \in Task, NEW h \in Hash, UniHashUpdate(t, h) PROVE HardInv'
  <2>1. /\ t \in runq_running
        /\ updated_taskhash_queue' = Append(updated_taskhash_queue, <<t, h>>)
        /\ UNCHANGED <<state, stage, sq, unihash, pending_migrations, stamps, runq_running>>
    BY <1>0, <1>3 DEF UniHashUpdate, Inflight, ProcessInv, InProgress, runqVars, sceneVars
  <2>2. UpdatesRan'
    BY <1>0, <2>1 DEF HardInv, UpdatesRan, TypeOK
  <2> QED
    BY <2>1, <2>2 DEF HardInv, RanStamped, MayMigrate, Awaited, Decided
<1>4. ASSUME \/ BeginTurn \/ CleanUp \/ EndRead \/ Teardown \/ NothingToMigrate
             \/ Holdoff \/ SchedNone \/ EndWait \/ Conclude \/ Stop \/ ForceStop
             \/ \E t \in Setscene : EndForceDeferred(t)
             \/ UNCHANGED vars
      PROVE  HardInv'
  <2>1. UNCHANGED <<unihash, updated_taskhash_queue, pending_migrations, stamps,
                    runq_running, sq>>
    BY <1>4 DEF BeginTurn, CleanUp, EndRead, Teardown, NothingToMigrate, Holdoff, SchedNone,
                EndWait, Conclude, Stop, ForceStop, EndForceDeferred, vars,
                buildVars, runqVars, sceneVars, hashVars, workerVars
  <2>2. MayMigrate' => MayMigrate
    BY <1>4 DEF BeginTurn, CleanUp, EndRead, Teardown, NothingToMigrate, Holdoff, SchedNone,
                EndWait, Conclude, Stop, ForceStop, EndForceDeferred, vars,
                MayMigrate, Reading, FinishedState
  <2> QED
    BY <1>1, <2>1, <2>2
<1> QED
  BY <1>2, <1>3, <1>4, HardExit, HardScene, HardSched, HardMigrate, HardApply
     DEF Next, Turn, WorkerEvent, Over

LEMMA HardInit ==
    ASSUME Init, NoRealStamps
    PROVE  HardInv
<1>1. UpdatesRan /\ pending_migrations = {}
  BY DEF Init, UpdatesRan
<1>2. RanStamped
  <2>1. PICK left \in SUBSET InitStamps : stamps = NoExecStamped(left, Setscene, InitHash)
    BY DEF Init
  <2>2. \A s \in stamps : s \in InitStamps \/ s[1] = "scene"
    BY <2>1 DEF NoExecStamped
  <2>3. \A s \in InitStamps : s[1] \in {"real", "scene"}
    BY ConfigAssumption
  <2> QED
    BY <2>2, <2>3 DEF RanStamped, NoRealStamps
<1>3. Awaited
  <2>1. unihash = InitHash
    BY DEF Init
  <2>2. sq.covered = Current(Setscene, InitHash, stamps) /\ sq.notcovered = {}
    BY InitDecides
  <2> QED
    BY <2>1, <2>2 DEF Awaited, Decided, Current, NothingToRestore, SceneStampCurrent
<1> QED
  BY <1>1, <1>2, <1>3 DEF HardInv

\* SInv and HardOK hold throughout a build of which HardApart does.
LEMMA SAlways ==
    Spec /\ []HardApart => []SInv
<1>1. Init /\ HardApart => HardOK
  BY HardInit DEF HardApart, HardOK
<1>2. IInv /\ SInv /\ HardOK /\ [Next]_vars => SInv'
  BY SInvStep
<1>3. IInv /\ SInv /\ HardOK /\ HardApart /\ [Next]_vars => HardOK'
  BY HardStep DEF HardApart, HardOK
<1> QED
  BY <1>1, <1>2, <1>3, SInvInit, Invariance, PTL DEF Spec

\* FailsAlone says more than HardApart, and nothing where there are no hard
\* dependencies.
LEMMA AloneApart ==
    FailsAlone => HardApart
  BY DEF FailsAlone, HardApart, NoRealStamps, NoStampsLeft

LEMMA NoneAlone ==
    ASSUME TypeOK, NoHardDependencies
    PROVE  FailsAlone
  BY DEF TypeOK, NoHardDependencies, FailsAlone, NoStampsLeft, HasHardDeps

-----------------------------------------------------------------------------
(* The theorems.                                                           *)

\* A task never runs while a setscene task that covers it is being restored:
\* not when it is released after its deferral, and not when changed hashes have
\* it decided, or restored, again.
THEOREM NoRunUnderRestoreTheorem ==
    Spec /\ []HardApart => []NoRunUnderRestore
<1>1. Spec /\ []HardApart => []SInv
  BY SAlways
<1>2. SInv => NoRunUnderRestore
  <2> SUFFICES ASSUME SInv, NEW s \in Inflight("scene")
               PROVE  (sq_covered_tasks[s] \cup {s}) \cap Inflight("real") = {}
    BY DEF NoRunUnderRestore
  <2>1. s \in sq_live
    BY DEF SInv, ProcessInv, Inflight
  <2>2. Inflight("real") \subseteq InProgress
    BY DEF SInv, ProcessInv, Inflight
  <2> QED
    BY <2>1, <2>2 DEF SInv, Apart
<1> QED
  BY <1>1, <1>2, SInvInit, Invariance, PTL DEF Spec

-----------------------------------------------------------------------------
(* No setscene task is both covered and not covered.                       *)

\* What a step decides is decided one way: it covers those of C and fails those
\* of F, which were open.
Decides(C, F) ==
    /\ sq'.covered = sq.covered \cup C /\ sq'.notcovered = sq.notcovered \cup F
    /\ C \cap F = {} /\ C \cap sq.notcovered = {} /\ F \cap sq.covered = {}

\* ... t is covered, or fails with tasks that have hard dependencies.
DecidesOn(t) ==
    \/ Decides({t}, {})
    \/ \E F : Decides({}, F) /\ \A d \in F : d = t \/ HasHardDeps(d)

\* A setscene task that is settled, or not needed, is decided one way.
LEMMA SettleOneWay ==
    ASSUME TypeOK, LiveInv, NEW t \in Setscene, NEW D \in SUBSET PassedOver,
           SceneNotNeeded(t, D) \/ SceneSettle(t, D)
    PROVE  DecidesOn(t)
<1> DEFINE q == PutAside(D)
<1>1. D \in SUBSET Setscene
  BY DEF PassedOver, SceneCandidates, TypeOK, SceneRecord
<1>2. /\ q \in SceneRecord
      /\ q.covered = sq.covered /\ q.notcovered = sq.notcovered
  BY <1>1, PutAsideDecides
<1>3. t \notin Decided(sq)
  <2>1. SceneTurn(t, D)
    BY DEF SceneNotNeeded, SceneSettle, SceneChosen
  <2> QED
    BY <2>1, CandidateOpen
<1>4. \/ sq' = [sq_task_skip(q, {t}) EXCEPT !.notneeded = @ \cup {t}]
      \/ sq' = sq_task_failoutright(q, {t}, unihash, stamps)
      \/ sq' = sq_task_skip(q, {t})
  BY DEF SceneNotNeeded, SceneSettle
<1> HIDE DEF q
<1>5. CASE \/ sq' = [sq_task_skip(q, {t}) EXCEPT !.notneeded = @ \cup {t}]
           \/ sq' = sq_task_skip(q, {t})
  <2> DEFINE q2 == sq_task_skip(q, {t})
  <2>1. /\ q2 \in SceneRecord /\ q2.covered = q.covered \cup {t}
        /\ q2.notcovered = q.notcovered
    BY <1>2, SkipType, SkipDecides
  <2>2. sq' = [q2 EXCEPT !.notneeded = @ \cup {t}] \/ sq' = q2
    BY <1>5
  <2> HIDE DEF q2
  <2>3. sq'.covered = sq.covered \cup {t} /\ sq'.notcovered = sq.notcovered
    BY <1>2, <2>1, <2>2 DEF SceneRecord
  <2> QED
    BY <1>3, <2>3 DEF DecidesOn, Decides, Decided
<1>6. CASE sq' = sq_task_failoutright(q, {t}, unihash, stamps)
  <2> DEFINE F == HardFailures(q, {t}, unihash, stamps)
  <2>1. sq'.covered = q.covered /\ sq'.notcovered = q.notcovered \cup F
    BY <1>2, <1>6, FailDecides
  <2>2. \A d \in F : d = t \/ (d \in Setscene \ Decided(q) /\ HasHardDeps(d))
    BY HardFailuresAmong
  <2> HIDE DEF F
  <2>3. Decides({}, F)
    BY <1>2, <1>3, <2>1, <2>2 DEF Decides, Decided
  <2> QED
    BY <2>2, <2>3 DEF DecidesOn
<1> QED
  BY <1>4, <1>5, <1>6

\* So is one whose process has ended.
LEMMA ExitOneWay ==
    ASSUME TypeOK, LiveInv, NEW t \in Task, NEW ok \in BOOLEAN,
           NEW disk, SetsceneExit(t, ok, disk)
    PROVE  DecidesOn(t)
<1>1. t \in Setscene /\ t \notin Decided(sq)
  BY DEF TypeOK, SetsceneExit, LiveInv
<1>2. CASE ok
  <2> DEFINE q2 == [sq EXCEPT !.covered = @ \cup {t}]
  <2>1. /\ q2 \in SceneRecord
        /\ q2.covered = sq.covered \cup {t} /\ q2.notcovered = sq.notcovered
    BY <1>1 DEF TypeOK, SceneRecord
  <2>2. sq' = UpdateCounters(q2, {t})
    BY <1>2 DEF SetsceneExit, sq_task_completeoutright
  <2> HIDE DEF q2
  <2>3. sq'.covered = q2.covered /\ sq'.notcovered = q2.notcovered
    BY <2>1, <2>2, UpdateCountersDecides
  <2> QED
    BY <1>1, <2>1, <2>3 DEF DecidesOn, Decides, Decided
<1>3. CASE ~ok
  <2> DEFINE failed == [sq EXCEPT !.notcovered = @ \cup {t}]
             F == HardFailures(failed, {t}, unihash, disk)
             rest == F \ {t}
             q2 == [failed EXCEPT !.running = @ \cup rest,
                                  !.buildable = @ \cup rest,
                                  !.notcovered = @ \cup rest]
  <2>1. /\ failed \in SceneRecord
        /\ failed.covered = sq.covered /\ failed.notcovered = sq.notcovered \cup {t}
    BY <1>1 DEF TypeOK, SceneRecord
  <2>2. sq' = UpdateCounters(q2, rest \cup {t})
    BY <1>3 DEF SetsceneExit
  <2> HIDE DEF failed
  <2>3. t \in F /\ rest \in SUBSET Setscene
    BY <1>1 DEF HardFailures
  <2>4. \A d \in F : d = t \/ (d \in Setscene \ Decided(failed) /\ HasHardDeps(d))
    BY <1>1, HardFailuresAmong
  <2> HIDE DEF F
  <2>5. /\ q2 \in SceneRecord
        /\ q2.covered = failed.covered /\ q2.notcovered = failed.notcovered \cup rest
    BY <2>1, <2>3 DEF SceneRecord
  <2> HIDE DEF q2
  <2>6. sq'.covered = sq.covered /\ sq'.notcovered = sq.notcovered \cup F
    BY <2>1, <2>2, <2>3, <2>5, UpdateCountersDecides
  <2>7. Decides({}, F)
    BY <1>1, <2>1, <2>4, <2>6 DEF Decides, Decided
  <2> QED
    BY <2>4, <2>7 DEF DecidesOn
<1> QED
  BY <1>2, <1>3

\* A task with hard dependencies is covered when it has been restored.
RestoredOnly ==
    \A d \in Setscene \ sq.covered : HasHardDeps(d) =>
        d \notin NoExec /\ \A h \in Hash : <<"scene", d, h>> \notin stamps

\* A migration does not undecide what is covered.
LEMMA MigrateRestored ==
    ASSUME IInv, SInv, HardInv, XorInv, RestoredOnly, Migrate
    PROVE  RestoredOnly'
<1>1. NoExecMade
  BY MigrateMakes
<1>2. TypeOK' /\ pending_migrations \subseteq sq.notcovered
  BY TypeStep DEF IInv, Next, Turn, Migrate, HardInv, MayMigrate
<1> PICK mig, C, F : Migrates(mig, C, F)
  BY MigrateDecides DEF IInv
<1>3. sq.covered \subseteq sq'.covered
  BY <1>2 DEF Migrates, XorInv
<1> QED
  BY <1>1, <1>3 DEF RestoredOnly, NoExecMade

\* A migration fails nothing it covers again.
LEMMA MigrateOneWay ==
    ASSUME IInv, SInv, HardInv, XorInv, RestoredOnly, Migrate,
           \A d \in DOMAIN sq_deferred' : ~HasHardDeps(d)
    PROVE  XorInv'
<1>0. /\ TypeOK /\ TypeOK' /\ stage = "migrate" /\ NoExecMade /\ UNCHANGED runq_running
      /\ pending_migrations \subseteq sq.notcovered /\ RanStamped
  <2>1. TypeOK'
    BY TypeStep DEF IInv, Next, Turn
  <2> QED
    BY <2>1, MigrateMakes DEF IInv, Migrate, HardInv, MayMigrate
<1> PICK mig, C, F : Migrates(mig, C, F)
  BY <1>0, MigrateDecides
<1>1. /\ mig \in SUBSET Setscene /\ mig \cap (sq.covered \cup runq_running) = {}
      /\ C \subseteq mig
      /\ sq'.covered = sq.covered \cup C
      /\ sq'.notcovered = (sq.notcovered \ mig) \cup F
      /\ DOMAIN sq_deferred' \subseteq DOMAIN sq_deferred \cup mig
  BY <1>0 DEF Migrates, XorInv, Current
<1>2. ASSUME NEW d \in F
      PROVE  HasHardDeps(d) /\ d \notin sq.covered \cup C
  <2> DEFINE q == [covered |-> (sq.covered \ mig) \cup C, notcovered |-> sq.notcovered \ mig]
             lost == {t \in mig : HardDepsRev[t] \cap (sq.notcovered \ mig) # {}}
  <2>1. /\ C = Current(mig, unihash', stamps')
        /\ F = HardFailures(q, lost, unihash', stamps')
    BY <1>2 DEF Migrates, MigrationFailures
  <2>2. d \in lost \/ (d \in Setscene \ Decided(q) /\ HasHardDeps(d))
    <3>1. lost \in SUBSET Setscene
      BY <1>1
    <3> HIDE DEF q, lost
    <3> QED
      BY <1>2, <2>1, <3>1, HardFailuresAmong
  <2>3. CASE d \in lost
    <3>1. HasHardDeps(d) /\ d \in mig /\ d \in Setscene \ sq.covered /\ d \notin runq_running
      BY <1>1, <2>3 DEF HasHardDeps
    <3>2. d \in Task /\ unihash'[d] \in Hash
      BY <1>0, <3>1, GraphAssumption DEF TypeOK
    <3>3. ~OwnStampCurrent(d, unihash', stamps')
      <4>1. \A h \in Hash : /\ <<"real", d, h>> \notin stamps'
                            /\ <<"rebuilt", d, h>> \notin stamps'
        BY <1>0, <3>1 DEF RanStamped, NoExecMade
      <4> QED
        BY <3>2, <4>1 DEF OwnStampCurrent
    <3>4. ~NothingToRestore(d, unihash', stamps')
      BY <1>0, <3>1, <3>2, <3>3 DEF RestoredOnly, NothingToRestore, SceneStampCurrent,
         RealStampCurrent, NoExecMade
    <3> QED
      BY <2>1, <3>1, <3>4 DEF Current
  <2>4. CASE d \in Setscene \ Decided(q) /\ HasHardDeps(d)
    BY <1>1, <2>4 DEF Decided
  <2> QED
    BY <2>2, <2>3, <2>4
<1> QED
  BY <1>1, <1>2 DEF XorInv

\* What completing a task covers was deferred, so it had not failed; and what
\* fails with another task is not deferred.
LEMMA XorStep ==
    ASSUME IInv, SInv, XorInv, [Next]_vars, Migrate => HardInv /\ RestoredOnly,
           \A d \in DOMAIN sq_deferred \cup DOMAIN sq_deferred' : ~HasHardDeps(d)
    PROVE  XorInv'
<1>0. TypeOK /\ LiveInv /\ ProcessInv /\ Apart
  BY DEF IInv, SInv
<1>1. ASSUME NEW t, DecidesOn(t), DOMAIN sq_deferred' \subseteq DOMAIN sq_deferred \ {t}
      PROVE  XorInv'
  <2>1. CASE Decides({t}, {})
    BY <1>1, <2>1 DEF XorInv, Decides
  <2>2. ASSUME NEW F, Decides({}, F), \A d \in F : d = t \/ HasHardDeps(d)
        PROVE  XorInv'
    BY <1>1, <2>2 DEF XorInv, Decides
  <2> QED
    BY <1>1, <2>1, <2>2 DEF DecidesOn
<1>2. ASSUME NEW found \in DOMAIN sq_deferred, NEW S \in SUBSET {found},
             Covers(sq', sq, S), DOMAIN sq_deferred' \subseteq DOMAIN sq_deferred
      PROVE  XorInv'
  BY <1>2 DEF XorInv, Covers
<1>3. ASSUME sq'.covered = sq.covered, sq'.notcovered = sq.notcovered,
             DOMAIN sq_deferred' \subseteq DOMAIN sq_deferred
      PROVE  XorInv'
  BY <1>3 DEF XorInv
<1>4. ASSUME NEW t \in Task, NEW disk, task_completeoutright(t, disk)
      PROVE  XorInv'
  <2>1. /\ DOMAIN sq_deferred' \subseteq DOMAIN sq_deferred
        /\ \/ sq' = sq
           \/ \E found \in DOMAIN sq_deferred : \E S \in SUBSET {found} :
                 Covers(sq', sq, S)
    BY <1>0, <1>4, CompleteDecides
  <2> QED
    BY <1>2, <1>3, <2>1
<1>5. ASSUME WorkerExit PROVE XorInv'
  <2> PICK kind \in Kind, t \in Task, h \in Hash, ok \in BOOLEAN : Exit(kind, t, h, ok)
    BY <1>5 DEF WorkerExit
  <2>1. \/ TaskComplete(t, StampsLeft(kind, t, h, ok)) \/ TaskFail(t)
        \/ SetsceneExit(t, ok, StampsLeft(kind, t, h, ok))
    BY DEF Exit
  <2>2. CASE TaskComplete(t, StampsLeft(kind, t, h, ok))
    BY <1>4, <2>2 DEF TaskComplete
  <2>3. CASE TaskFail(t)
    BY <1>3, <2>3 DEF TaskFail
  <2>4. CASE SetsceneExit(t, ok, StampsLeft(kind, t, h, ok))
    <3>1. DecidesOn(t)
      BY <1>0, <2>4, ExitOneWay
    <3>2. t \in sq_live /\ sq_deferred' = sq_deferred
      BY <2>4 DEF SetsceneExit
    <3>3. DOMAIN sq_deferred' \subseteq DOMAIN sq_deferred \ {t}
      BY <1>0, <3>2 DEF LiveInv
    <3> QED
      BY <1>1, <3>1, <3>3
  <2> QED
    BY <2>1, <2>2, <2>3, <2>4
<1>6. ASSUME Migrate PROVE XorInv'
  BY <1>6, MigrateOneWay
<1>7. ASSUME NEW t \in Setscene, NEW D \in SUBSET PassedOver,
             SceneNotNeeded(t, D) \/ SceneSettle(t, D)
      PROVE  XorInv'
  <2>1. DecidesOn(t)
    BY <1>0, <1>7, SettleOneWay
  <2>2. DOMAIN sq_deferred' = DOMAIN sq_deferred \ {t}
    BY <1>7 DEF SceneNotNeeded, SceneSettle, SceneChosen, Restrict
  <2> QED
    BY <1>1, <2>1, <2>2
<1>8. ASSUME NEW t \in Setscene, NEW D \in SUBSET PassedOver,
             SceneNeedHardDeps(t, D) \/ SceneStart(t, D)
      PROVE  XorInv'
  <2>1. D \in SUBSET Setscene
    BY <1>0 DEF PassedOver, SceneCandidates, TypeOK, SceneRecord
  <2> DEFINE q1 == PutAside(D)
             q2 == PutAside(D \cup {t})
  <2>2. /\ q1 \in SceneRecord /\ q2 \in SceneRecord
        /\ q1.covered = sq.covered /\ q1.notcovered = sq.notcovered
        /\ q2.covered = sq.covered /\ q2.notcovered = sq.notcovered
    BY <1>0, <2>1, PutAsideDecides
  <2>3. /\ \/ sq' = [q2 EXCEPT !.buildable = @ \cup (HardDepsRev[t] \ sq_needed_harddeps)]
           \/ sq' = [q1 EXCEPT !.running = @ \cup {t}]
        /\ DOMAIN sq_deferred' \subseteq DOMAIN sq_deferred
    BY <1>8 DEF SceneNeedHardDeps, SceneStart, MarkRunning, SceneChosen, Restrict
  <2> HIDE DEF q1, q2
  <2>4. sq'.covered = sq.covered /\ sq'.notcovered = sq.notcovered
    BY <2>2, <2>3 DEF SceneRecord
  <2> QED
    BY <1>3, <2>3, <2>4
<1>9. ASSUME SceneNone PROVE XorInv'
  <2>1. PassedOver \in SUBSET Setscene
    BY <1>0 DEF PassedOver, SceneCandidates, TypeOK, SceneRecord
  <2>2. (sq' = sq \/ sq' = PutAside(PassedOver)) /\ sq_deferred' = sq_deferred
    BY <1>9 DEF SceneNone
  <2>3. sq'.covered = sq.covered /\ sq'.notcovered = sq.notcovered
    BY <1>0, <2>1, <2>2, PutAsideDecides
  <2> QED
    BY <1>3, <2>2, <2>3
<1>10. ASSUME NEW t \in Task,
              SchedUnexpected(t) \/ SchedSkip(t) \/ SchedNoExec(t) \/ SchedStart(t)
       PROVE  XorInv'
  <2>1. CASE SchedUnexpected(t) \/ SchedStart(t)
    BY <1>3, <2>1 DEF SchedUnexpected, SchedStart
  <2>2. CASE SchedSkip(t) \/ SchedNoExec(t)
    BY <1>4, <2>2 DEF SchedSkip, SchedNoExec
  <2> QED
    BY <1>10, <2>1, <2>2
<1>11. ASSUME NEW t \in Setscene, EndForceDeferred(t) PROVE XorInv'
  BY <1>3, <1>11 DEF EndForceDeferred, Restrict
<1>12. ASSUME \/ BeginTurn \/ CleanUp \/ EndRead \/ Teardown \/ NothingToMigrate
              \/ Holdoff \/ SchedNone \/ EndWait \/ Conclude \/ Stop \/ ForceStop
              \/ \E i \in DOMAIN updated_taskhash_queue : ApplyUpdate(i)
              \/ \E t \in Task, h \in Hash : UniHashUpdate(t, h)
              \/ UNCHANGED vars
       PROVE  XorInv'
  <2>1. UNCHANGED <<sq, sq_deferred>>
    BY <1>12 DEF BeginTurn, CleanUp, EndRead, Teardown, NothingToMigrate, Holdoff, SchedNone,
                 EndWait, Conclude, Stop, ForceStop, ApplyUpdate, UniHashUpdate, vars,
                 buildVars, sceneVars
  <2> QED
    BY <1>3, <2>1
<1> QED
  BY <1>5, <1>6, <1>7, <1>8, <1>9, <1>10, <1>11, <1>12 DEF Next, Turn, WorkerEvent, Over

\* A step that covers more, and makes such stamps, keeps RestoredOnly.
LEMMA RestoredKept ==
    ASSUME RestoredOnly, sq.covered \subseteq sq'.covered, MadeRight
    PROVE  RestoredOnly'
  BY DEF RestoredOnly, MadeRight

\* Every step but a migration does.
LEMMA RestoredStep ==
    ASSUME IInv, SInv, RestoredOnly, [Next]_vars, ~Migrate
    PROVE  RestoredOnly'
<1>0. TypeOK /\ LiveInv /\ ProcessInv /\ Apart
  BY DEF IInv, SInv
<1>1. ASSUME sq'.covered = sq.covered, UNCHANGED stamps PROVE RestoredOnly'
  BY <1>1 DEF RestoredOnly
<1>2. ASSUME WorkerExit PROVE RestoredOnly'
  <2> PICK kind \in Kind, t \in Task, h \in Hash, ok \in BOOLEAN : Exit(kind, t, h, ok)
    BY <1>2 DEF WorkerExit
  <2> DEFINE disk == StampsLeft(kind, t, h, ok)
  <2>1. \A s \in disk \ stamps : s = <<IF kind = "real" THEN "rebuilt" ELSE kind, t, h>>
    BY LeftStamps
  <2>2. ~ok => disk = stamps
    BY DEF StampsLeft
  <2>3. \/ /\ kind = "real" /\ t \in runq_running
           /\ TaskComplete(t, disk) \/ TaskFail(t)
        \/ kind = "scene" /\ SetsceneExit(t, ok, disk)
    BY <1>0, ExitKinds DEF InProgress
  <2> HIDE DEF disk
  <2>4. CASE kind = "real" /\ t \in runq_running /\ TaskComplete(t, disk)
    <3>1. task_completeoutright(t, disk) /\ runq_running' = runq_running
      BY <2>4 DEF TaskComplete
    <3> QED
      BY <1>0, <2>1, <2>4, <3>1, CompleteFailsNone, RestoredKept
  <2>5. CASE TaskFail(t)
    BY <1>1, <2>5 DEF TaskFail
  <2>6. CASE kind = "scene" /\ SetsceneExit(t, ok, disk)
    <3>1. sq.covered \subseteq sq'.covered /\ (ok => t \in sq'.covered)
      BY <1>0, <2>2, <2>6, ExitFails
    <3>2. stamps' = disk
      BY <2>6 DEF SetsceneExit
    <3>3. MadeRight
      BY <2>1, <2>2, <2>6, <3>1, <3>2 DEF MadeRight
    <3> QED
      BY <3>1, <3>3, RestoredKept
  <2> QED
    BY <2>3, <2>4, <2>5, <2>6
<1>3. ASSUME NEW t \in Setscene, NEW D \in SUBSET PassedOver,
             SceneNotNeeded(t, D) \/ SceneSettle(t, D)
      PROVE  RestoredOnly'
  <2>1. stamps' = stamps
    BY <1>3 DEF SceneTurn, SceneNotNeeded, SceneSettle, SceneChosen, runqVars, hashVars
  <2>2. MadeRight
    BY <2>1 DEF MadeRight
  <2> QED
    BY <1>0, <1>3, <2>2, SettleFails, RestoredKept
<1>4. ASSUME NEW t \in Setscene, NEW D \in SUBSET PassedOver,
             SceneNeedHardDeps(t, D) \/ SceneStart(t, D)
      PROVE  RestoredOnly'
  <2>1. D \in SUBSET Setscene
    BY <1>0 DEF PassedOver, SceneCandidates, TypeOK, SceneRecord
  <2> DEFINE q1 == PutAside(D)
             q2 == PutAside(D \cup {t})
  <2>2. /\ q1 \in SceneRecord /\ q2 \in SceneRecord
        /\ q1.covered = sq.covered /\ q2.covered = sq.covered
    BY <1>0, <2>1, PutAsideDecides
  <2>3. /\ \/ sq' = [q2 EXCEPT !.buildable = @ \cup (HardDepsRev[t] \ sq_needed_harddeps)]
           \/ sq' = [q1 EXCEPT !.running = @ \cup {t}]
        /\ UNCHANGED stamps
    BY <1>4 DEF SceneTurn, SceneNeedHardDeps, SceneStart, MarkRunning, SceneChosen, runqVars,
                hashVars
  <2> HIDE DEF q1, q2
  <2>4. sq'.covered = sq.covered
    BY <2>2, <2>3 DEF SceneRecord
  <2> QED
    BY <1>1, <2>3, <2>4
<1>5. ASSUME SceneNone PROVE RestoredOnly'
  <2>1. PassedOver \in SUBSET Setscene
    BY <1>0 DEF PassedOver, SceneCandidates, TypeOK, SceneRecord
  <2>2. (sq' = sq \/ sq' = PutAside(PassedOver)) /\ UNCHANGED stamps
    BY <1>5 DEF SceneNone, workerVars
  <2> QED
    BY <1>0, <1>1, <2>1, <2>2, PutAsideDecides
<1>6. ASSUME NEW t \in Task, SchedUnexpected(t) \/ SchedStart(t) PROVE RestoredOnly'
  BY <1>1, <1>6 DEF SchedUnexpected, SchedStart
<1>7. ASSUME NEW t \in Task, SchedSkip(t) \/ SchedNoExec(t) PROVE RestoredOnly'
  <2> DEFINE disk == StampsLeft("real", t, unihash[t], TRUE)
  <2>1. \A s \in disk \ stamps : s = <<"rebuilt", t, unihash[t]>>
    BY LeftStamps
  <2>2. /\ t \in runq_running'
        /\ task_completeoutright(t, stamps) \/ task_completeoutright(t, disk)
    BY <1>7 DEF SchedSkip, SchedNoExec
  <2> HIDE DEF disk
  <2>3. sq.covered \subseteq sq'.covered /\ MadeRight
    BY <1>0, <2>1, <2>2, CompleteFailsNone
  <2> QED
    BY <2>3, RestoredKept
<1>8. ASSUME \/ BeginTurn \/ CleanUp \/ EndRead \/ Teardown \/ NothingToMigrate
             \/ Holdoff \/ SchedNone \/ EndWait \/ Conclude \/ Stop \/ ForceStop
             \/ \E i \in DOMAIN updated_taskhash_queue : ApplyUpdate(i)
             \/ \E t \in Setscene : EndForceDeferred(t)
             \/ \E t \in Task, h \in Hash : UniHashUpdate(t, h)
             \/ UNCHANGED vars
      PROVE  RestoredOnly'
  <2>1. UNCHANGED <<sq, stamps>>
    BY <1>8 DEF BeginTurn, CleanUp, EndRead, Teardown, NothingToMigrate, Holdoff, SchedNone,
                EndWait, Conclude, Stop, ForceStop, ApplyUpdate, EndForceDeferred,
                UniHashUpdate, vars, buildVars, sceneVars, workerVars
  <2> QED
    BY <1>1, <2>1
<1> QED
  BY <1>2, <1>3, <1>4, <1>5, <1>6, <1>7, <1>8 DEF Next, Turn, WorkerEvent, Over

\* A build begins with what has nothing to restore covered.
LEMMA RestoredInit ==
    ASSUME Init, NoStampsLeft
    PROVE  RestoredOnly
<1>1. PICK left \in SUBSET InitStamps : stamps = NoExecStamped(left, Setscene, InitHash)
  BY DEF Init
<1>2. \A s \in stamps : s \in InitStamps \/ s[2] \in NoExec
  BY <1>1 DEF NoExecStamped
<1>3. sq.covered = Current(Setscene, InitHash, stamps)
  BY InitDecides
<1> QED
  BY <1>2, <1>3 DEF RestoredOnly, NoStampsLeft, Current, NothingToRestore

\* Where hashes change, HardInv and RestoredOnly hold.
AloneOK == MaxUpdates = 0 \/ (HardInv /\ RestoredOnly)

\* XorInv holds, with SInv and AloneOK.
LEMMA XorAlways ==
    Spec /\ []FailsAlone => [](SInv /\ XorInv /\ AloneOK)
<1>1. Init => XorInv
  BY InitDecides DEF XorInv
<1>2. FailsAlone => HardApart
  BY AloneApart
<1>3. Init /\ FailsAlone => AloneOK
  BY AloneApart, HardInit, RestoredInit DEF FailsAlone, HardApart, AloneOK
<1>4. ASSUME IInv, SInv, AloneOK, XorInv, [Next]_vars, FailsAlone, FailsAlone'
      PROVE  AloneOK'
  <2>1. CASE MaxUpdates = 0
    BY <2>1 DEF AloneOK
  <2>2. CASE HardInv /\ RestoredOnly
    <3>1. HardInv'
      BY <1>4, <2>2, HardStep DEF FailsAlone
    <3>2. ASSUME Migrate PROVE RestoredOnly'
      BY <1>4, <2>2, <3>2, MigrateRestored
    <3> QED
      BY <1>4, <2>2, <3>1, <3>2, RestoredStep DEF AloneOK
  <2> QED
    BY <1>4, <2>1, <2>2 DEF AloneOK
<1>5. ASSUME IInv, SInv, AloneOK, XorInv, [Next]_vars, FailsAlone, FailsAlone'
      PROVE  XorInv'
  <2>1. ASSUME Migrate PROVE HardInv /\ RestoredOnly
    <3>1. MaxUpdates # 0
      BY <1>5, <2>1 DEF Migrate, SInv, QuietInv
    <3> QED
      BY <1>5, <3>1 DEF AloneOK
  <2> QED
    BY <1>5, <2>1, XorStep DEF FailsAlone
<1>6. Spec /\ []HardApart => []SInv
  BY SAlways
<1> QED
  BY <1>1, <1>2, <1>3, <1>4, <1>5, <1>6, SInvInit, Invariance, PTL DEF Spec

\* "No task should end up in both covered and uncovered, that is a bug." says
\* runqueue.py of setscene tasks: none does, while what may fail with a hard
\* dependency is neither deferred nor, where hashes change, built before.
THEOREM CoveredXorTheorem ==
    Spec /\ []FailsAlone => []CoveredXorNotCovered
<1>1. XorInv => CoveredXorNotCovered
  BY DEF XorInv, CoveredXorNotCovered
<1> QED
  BY <1>1, XorAlways, PTL

-----------------------------------------------------------------------------
(* stats.active counts the real processes.                                 *)

\* Starting a real process counts one up ...
LEMMA CountedUp ==
    ASSUME IsFiniteSet(worker), NEW w, w \notin worker, w[1] = "real",
           worker' = worker \cup {w}
    PROVE  /\ IsFiniteSet(worker') /\ Cardinality(RealProcesses) \in Nat
           /\ Cardinality(RealProcesses') = Cardinality(RealProcesses) + 1
<1>1. IsFiniteSet(worker')
  BY FS_AddElement
<1>2. IsFiniteSet(RealProcesses)
  BY FS_Subset DEF RealProcesses
<1>3. RealProcesses' = RealProcesses \cup {w} /\ w \notin RealProcesses
  BY DEF RealProcesses
<1> QED
  BY <1>1, <1>2, <1>3, FS_AddElement, FS_CardinalityType

\* ... down.
LEMMA CountedDown ==
    ASSUME IsFiniteSet(worker), NEW w \in worker, w[1] = "real",
           worker' = worker \ {w}
    PROVE  /\ IsFiniteSet(worker') /\ Cardinality(RealProcesses) \in Nat
           /\ Cardinality(RealProcesses') = Cardinality(RealProcesses) - 1
<1>1. IsFiniteSet(worker')
  BY FS_RemoveElement
<1>2. IsFiniteSet(RealProcesses)
  BY FS_Subset DEF RealProcesses
<1>3. RealProcesses' = RealProcesses \ {w} /\ w \in RealProcesses
  BY DEF RealProcesses
<1> QED
  BY <1>1, <1>2, <1>3, FS_RemoveElement, FS_CardinalityType

\* Exit codes are taken for the right kind of task, so the count stays exact.
LEMMA ActiveStep ==
    ASSUME NotEnforced, IInv, SInv, ActiveInv, [Next]_vars
    PROVE  ActiveInv'
<1>0. TypeOK /\ LiveInv /\ ProcessInv /\ Apart
  BY DEF IInv, SInv
<1>1. ASSUME UNCHANGED <<worker, active>>, stage = "done" => stage' = "done"
      PROVE  ActiveInv'
  BY <1>1 DEF ActiveInv, RealProcesses
<1>2. ASSUME WorkerExit PROVE ActiveInv'
  <2> PICK kind \in Kind, t \in Task, h \in Hash, ok \in BOOLEAN : Exit(kind, t, h, ok)
    BY <1>2 DEF WorkerExit
  <2>1. /\ <<kind, t, h>> \in worker /\ worker' = worker \ {<<kind, t, h>>}
        /\ stage \in {"read", "wait"} /\ stage' = stage
    BY DEF Exit, Reading
  <2>2. \/ /\ kind = "real"
           /\ \/ TaskComplete(t, StampsLeft(kind, t, h, ok))
              \/ TaskFail(t)
        \/ kind = "scene" /\ SetsceneExit(t, ok, StampsLeft(kind, t, h, ok))
    BY <1>0, ExitKinds
  <2>3. CASE kind = "real"
    <3>1. active' = active - 1
      BY <2>2, <2>3 DEF TaskComplete, TaskFail
    <3>2. /\ IsFiniteSet(worker') /\ Cardinality(RealProcesses) \in Nat
          /\ Cardinality(RealProcesses') = Cardinality(RealProcesses) - 1
      <4> DEFINE w == <<kind, t, h>>
      <4>1. w \in worker /\ w[1] = "real" /\ worker' = worker \ {w}
        BY <2>1, <2>3
      <4> HIDE DEF w
      <4> QED
        BY <4>1, CountedDown DEF ActiveInv
    <3> QED
      BY <2>1, <3>1, <3>2 DEF ActiveInv
  <2>4. CASE kind = "scene"
    <3>1. active' = active
      BY <2>2, <2>4 DEF SetsceneExit, runqVars
    <3>2. IsFiniteSet(worker') /\ RealProcesses' = RealProcesses
      BY <2>1, <2>4, FS_RemoveElement DEF ActiveInv, RealProcesses
    <3> QED
      BY <2>1, <3>1, <3>2 DEF ActiveInv
  <2> QED
    BY <2>3, <2>4 DEF Kind
<1>3. ASSUME NEW t \in Setscene, NEW D \in SUBSET PassedOver,
             \/ SceneNotNeeded(t, D) \/ SceneNeedHardDeps(t, D) \/ SceneSettle(t, D)
      PROVE  ActiveInv'
  BY <1>1, <1>3 DEF SceneNotNeeded, SceneNeedHardDeps, SceneSettle, SceneChosen, SceneTurn,
                    runqVars
<1>4. ASSUME NEW t \in Setscene, NEW D \in SUBSET PassedOver, SceneStart(t, D)
      PROVE  ActiveInv'
  <2>1. /\ worker' = worker \cup {<<"scene", t, unihash[t]>>}
        /\ stage = "scene" /\ active' = active
    BY <1>4 DEF SceneStart, SceneChosen, SceneTurn, runqVars
  <2>2. IsFiniteSet(worker')
    BY <2>1, FS_AddElement DEF ActiveInv
  <2>3. RealProcesses' = RealProcesses
    <3> DEFINE w == <<"scene", t, unihash[t]>>
    <3>1. worker' = worker \cup {w} /\ w[1] # "real"
      BY <2>1
    <3> HIDE DEF w
    <3> QED
      BY <3>1 DEF RealProcesses
  <2>4. active = Cardinality(RealProcesses)
    BY <2>1 DEF ActiveInv
  <2> QED
    BY <2>1, <2>2, <2>3, <2>4 DEF ActiveInv
<1>5. ASSUME NEW t \in Task, SchedUnexpected(t) PROVE ActiveInv'
  <2>1. configuration \in Configurations /\ configuration.setscene_enforce
    BY <1>0, <1>5 DEF SchedUnexpected, Unexpected, TypeOK
  <2> QED
    BY <2>1 DEF NotEnforced
<1>6. ASSUME NEW t \in Task, SchedSkip(t) \/ SchedNoExec(t) PROVE ActiveInv'
  BY <1>1, <1>6 DEF SchedSkip, SchedNoExec, Sched
<1>7. ASSUME NEW t \in Task, SchedStart(t) PROVE ActiveInv'
  <2> DEFINE w == <<"real", t, unihash[t]>>
  <2>1. w \notin worker
    <3>1. t \notin runq_running /\ unihash[t] \in Hash
      BY <1>0, <1>7 DEF SchedStart, Sched, Runnable, TypeOK
    <3> QED
      BY <1>0, <3>1 DEF ProcessInv, InProgress
  <2>2. /\ worker' = worker \cup {w} /\ w[1] = "real" /\ stage = "sched"
        /\ active' = active + 1
    BY <1>7 DEF SchedStart, Sched
  <2> HIDE DEF w
  <2>3. /\ IsFiniteSet(worker') /\ Cardinality(RealProcesses) \in Nat
        /\ Cardinality(RealProcesses') = Cardinality(RealProcesses) + 1
    BY <2>1, <2>2, CountedUp DEF ActiveInv
  <2>4. active = Cardinality(RealProcesses)
    BY <2>2 DEF ActiveInv
  <2>5. active' = Cardinality(RealProcesses')
    BY <2>2, <2>3, <2>4
  <2> QED
    BY <2>3, <2>5 DEF ActiveInv
<1>8. ASSUME ForceStop PROVE ActiveInv'
  BY <1>8, FS_EmptySet DEF ForceStop, ActiveInv
<1>9. ASSUME \/ BeginTurn \/ CleanUp \/ EndRead \/ Teardown \/ NothingToMigrate
             \/ SchedNone \/ EndWait \/ Conclude \/ Stop
      PROVE  ActiveInv'
  BY <1>1, <1>9 DEF BeginTurn, CleanUp, EndRead, Teardown, NothingToMigrate, SchedNone,
                    EndWait, Conclude, Stop, Reading, buildVars, runqVars, workerVars
<1>10. ASSUME \/ Holdoff \/ SceneNone \/ Migrate
              \/ \E i \in DOMAIN updated_taskhash_queue : ApplyUpdate(i)
              \/ \E t \in Setscene : EndForceDeferred(t)
              \/ \E t \in Task, h \in Hash : UniHashUpdate(t, h)
              \/ UNCHANGED vars
       PROVE  ActiveInv'
  BY <1>1, <1>10 DEF Holdoff, SceneNone, Migrate, ApplyUpdate, EndForceDeferred,
                     UniHashUpdate, vars, buildVars, runqVars, workerVars
<1> QED
  BY <1>2, <1>3, <1>4, <1>5, <1>6, <1>7, <1>8, <1>9, <1>10 DEF Next, Turn, WorkerEvent, Over

\* A slot is free when a process is started.
SlotsInv == IsFiniteSet(sq_live) /\ active + Cardinality(sq_live) <= NumberTasks

\* More is active only after a look at the slots.
LEMMA SlotsStep ==
    ASSUME TypeOK, SlotsInv, [Next]_vars
    PROVE  SlotsInv'
<1>1. /\ active \in Int /\ NumberTasks \in Nat /\ Cardinality(sq_live) \in Nat
      /\ IsFiniteSet(sq_live)
  BY FS_CardinalityType, ThreadsAssumption DEF TypeOK, SlotsInv
<1>2. ASSUME UNCHANGED sq_live, \/ UNCHANGED active \/ active' = active - 1
      PROVE  SlotsInv'
  BY <1>1, <1>2 DEF SlotsInv
<1>3. ASSUME WorkerExit PROVE SlotsInv'
  <2> PICK kind \in Kind, t \in Task, h \in Hash, ok \in BOOLEAN : Exit(kind, t, h, ok)
    BY <1>3 DEF WorkerExit
  <2>1. \/ TaskComplete(t, StampsLeft(kind, t, h, ok)) \/ TaskFail(t)
        \/ SetsceneExit(t, ok, StampsLeft(kind, t, h, ok))
    BY DEF Exit
  <2>2. CASE TaskComplete(t, StampsLeft(kind, t, h, ok)) \/ TaskFail(t)
    BY <1>2, <2>2 DEF TaskComplete, TaskFail
  <2>3. CASE SetsceneExit(t, ok, StampsLeft(kind, t, h, ok))
    <3>1. sq_live' = sq_live \ {t} /\ active' = active /\ t \in sq_live
      BY <2>3 DEF SetsceneExit, runqVars
    <3>2. IsFiniteSet(sq_live') /\ Cardinality(sq_live') = Cardinality(sq_live) - 1
      BY <1>1, <3>1, FS_RemoveElement
    <3> QED
      BY <1>1, <3>1, <3>2 DEF SlotsInv
  <2> QED
    BY <2>1, <2>2, <2>3
<1>4. ASSUME NEW t \in Setscene, NEW D \in SUBSET PassedOver, SceneStart(t, D)
      PROVE  SlotsInv'
  <2>1. sq_live' = sq_live \cup {t} /\ active' = active /\ can_start_task
    BY <1>4 DEF SceneStart, SceneChosen, SceneTurn, runqVars
  <2>2. IsFiniteSet(sq_live')
    BY <1>1, <2>1, FS_AddElement
  <2>3. Cardinality(sq_live') \in {Cardinality(sq_live), Cardinality(sq_live) + 1}
    BY <1>1, <2>1, FS_AddElement
  <2> QED
    BY <1>1, <2>1, <2>2, <2>3 DEF SlotsInv, can_start_task
<1>5. ASSUME NEW t \in Task, SchedStart(t) PROVE SlotsInv'
  <2>1. UNCHANGED sq_live /\ active' = active + 1 /\ can_start_task
    BY <1>5 DEF SchedStart, Sched
  <2> QED
    BY <1>1, <2>1 DEF SlotsInv, can_start_task
<1>6. ASSUME NEW t \in Task, SchedUnexpected(t) \/ SchedSkip(t) \/ SchedNoExec(t)
      PROVE  SlotsInv'
  BY <1>2, <1>6 DEF SchedUnexpected, SchedSkip, SchedNoExec, Sched
<1>7. ASSUME NEW t \in Setscene, NEW D \in SUBSET PassedOver,
             SceneNotNeeded(t, D) \/ SceneNeedHardDeps(t, D) \/ SceneSettle(t, D)
      PROVE  SlotsInv'
  BY <1>2, <1>7 DEF SceneNotNeeded, SceneNeedHardDeps, SceneSettle, SceneChosen, SceneTurn,
                    runqVars
<1>8. ASSUME \/ BeginTurn \/ CleanUp \/ EndRead \/ Teardown \/ NothingToMigrate
             \/ SchedNone \/ EndWait \/ Conclude \/ Stop \/ ForceStop
      PROVE  SlotsInv'
  BY <1>2, <1>8 DEF BeginTurn, CleanUp, EndRead, Teardown, NothingToMigrate, SchedNone,
                    EndWait, Conclude, Stop, ForceStop, buildVars, runqVars, sceneVars
<1>9. ASSUME \/ Holdoff \/ SceneNone \/ Migrate
             \/ \E i \in DOMAIN updated_taskhash_queue : ApplyUpdate(i)
             \/ \E t \in Setscene : EndForceDeferred(t)
             \/ \E t \in Task, h \in Hash : UniHashUpdate(t, h)
             \/ UNCHANGED vars
      PROVE  SlotsInv'
  BY <1>2, <1>9 DEF Holdoff, SceneNone, Migrate, ApplyUpdate, EndForceDeferred,
                    UniHashUpdate, vars, buildVars, runqVars, sceneVars
<1> QED
  BY <1>3, <1>4, <1>5, <1>6, <1>7, <1>8, <1>9 DEF Next, Turn, WorkerEvent, Over

\* No process and no count when a build begins.
LEMMA CountInit ==
    Init => ActiveInv /\ SlotsInv
<1> SUFFICES ASSUME Init PROVE ActiveInv /\ SlotsInv
  OBVIOUS
<1>1. worker = {} /\ sq_live = {} /\ active = 0
  BY DEF Init
<1>2. RealProcesses = {}
  BY <1>1 DEF RealProcesses
<1> QED
  BY <1>1, <1>2, FS_EmptySet, ThreadsAssumption DEF ActiveInv, SlotsInv

\* stats.active is the number of real processes while the build lasts.
ActiveCounted == stage # "done" => active = Cardinality(RealProcesses)

\* BB_NUMBER_THREADS bounds the processes, of both kinds together.
NumberTasksRespected == Cardinality(worker) <= NumberTasks

\* As far as stats.active counts the processes, and sq_live holds the tasks of
\* the others, the slots bound them all.
LEMMA SlotsBound ==
    ASSUME IInv, SInv, ActiveInv, SlotsInv
    PROVE  NumberTasksRespected
<1> DEFINE scene == worker \ RealProcesses
<1>0. TypeOK /\ WorkerInv /\ ProcessInv
  BY DEF IInv, SInv
<1>1. CASE worker = {}
  BY <1>1, FS_EmptySet, ThreadsAssumption DEF NumberTasksRespected
<1>2. CASE worker # {}
  <2>1. IsFiniteSet(worker) /\ active = Cardinality(RealProcesses)
    BY <1>2 DEF ActiveInv
  <2>2. RealProcesses \in SUBSET worker /\ scene \in SUBSET worker
    BY DEF RealProcesses
  <2>3. /\ IsFiniteSet(RealProcesses) /\ IsFiniteSet(scene)
        /\ Cardinality(RealProcesses) \in Nat /\ Cardinality(scene) \in Nat
    BY <2>1, <2>2, FS_Subset, FS_CardinalityType
  <2>4. Cardinality(scene) <= Cardinality(sq_live)
    <3> DEFINE f == [w \in scene |-> w[2]]
    <3>1. ASSUME NEW w \in scene
          PROVE  /\ w[2] \in sq_live
                 /\ w = <<"scene", w[2], w[3]>> /\ w[2] \in Task /\ w[3] \in Hash
                 /\ w \in worker
      BY <1>0 DEF RealProcesses, TypeOK, Kind, ProcessInv
    <3>2. \A v, w \in scene : v[2] = w[2] => v = w
      BY <1>0, <3>1 DEF WorkerInv
    <3>3. f \in Injection(scene, sq_live)
      <4> HIDE DEF scene
      <4> QED
        BY <3>1, <3>2 DEF Injection, IsInjective
    <3> HIDE DEF f, scene
    <3> QED
      BY <3>3, FS_Injection DEF SlotsInv
  <2>5. Cardinality(worker) = Cardinality(RealProcesses) + Cardinality(scene)
    <3>1. worker = RealProcesses \cup scene /\ RealProcesses \cap scene = {}
      BY DEF RealProcesses
    <3> HIDE DEF scene
    <3>2. Cardinality(RealProcesses \cap scene) = 0
      BY <3>1, FS_EmptySet
    <3>3. Cardinality(RealProcesses \cup scene) =
             Cardinality(RealProcesses) + Cardinality(scene)
                - Cardinality(RealProcesses \cap scene)
      BY <2>3, FS_Union
    <3> QED
      BY <2>3, <3>1, <3>2, <3>3
  <2>6. Cardinality(sq_live) \in Nat /\ NumberTasks \in Nat
    BY FS_CardinalityType, ThreadsAssumption DEF SlotsInv
  <2> HIDE DEF scene
  <2> QED
    BY <2>1, <2>3, <2>4, <2>5, <2>6 DEF SlotsInv, NumberTasksRespected
<1> QED
  BY <1>1, <1>2

\* stats.active, which decides what may be started and when the build is over,
\* is exact until the end, whatever fails, is skipped or is restored.
THEOREM ActiveCountedTheorem ==
    ASSUME NotEnforced
    PROVE  Spec /\ []HardApart => []ActiveCounted
<1>1. Spec /\ []HardApart => []SInv
  BY SAlways
<1>2. IInv /\ SInv /\ ActiveInv /\ [Next]_vars => ActiveInv'
  BY ActiveStep
<1>3. ActiveInv => ActiveCounted
  BY DEF ActiveInv, ActiveCounted
<1> QED
  BY <1>1, <1>2, <1>3, SInvInit, CountInit, Invariance, PTL DEF Spec

\* So there are never more processes than BB_NUMBER_THREADS allows.
THEOREM NumberTasksTheorem ==
    ASSUME NotEnforced
    PROVE  Spec /\ []HardApart => []NumberTasksRespected
<1>1. Spec /\ []HardApart => []SInv
  BY SAlways
<1>2. IInv /\ SInv /\ ActiveInv /\ [Next]_vars => ActiveInv'
  BY ActiveStep
<1>3. IInv /\ SlotsInv /\ [Next]_vars => SlotsInv'
  BY SlotsStep DEF IInv
<1>4. IInv /\ SInv /\ ActiveInv /\ SlotsInv => NumberTasksRespected
  BY SlotsBound
<1> QED
  BY <1>1, <1>2, <1>3, <1>4, SInvInit, CountInit, Invariance, PTL DEF Spec

-----------------------------------------------------------------------------
(* What the scheduler keeps apart.                                         *)

\* No real process is started, and those there are keep their stamps.
NoneStarted ==
    /\ InProgress' \subseteq InProgress /\ RealProcesses' \subseteq RealProcesses
    /\ StampsInv => StampsInv'

\* The end of a process takes no stamp but its own.
LEMMA ExitNoneStarted ==
    ASSUME IInv, SInv, WorkerExit
    PROVE  NoneStarted
<1>0. TypeOK /\ ProcessInv /\ Apart
  BY DEF IInv, SInv
<1> PICK kind \in Kind, t \in Task, h \in Hash, ok \in BOOLEAN : Exit(kind, t, h, ok)
  BY DEF WorkerExit
<1>1. /\ <<kind, t, h>> \in worker /\ worker' = worker \ {<<kind, t, h>>}
      /\ build_stamps' = Restrict(build_stamps, DOMAIN build_stamps \ {t})
  BY DEF Exit, ForgetStamp
<1>2. /\ runq_running' = runq_running /\ runq_complete \subseteq runq_complete'
  BY DEF Exit, TaskComplete, TaskFail, SetsceneExit, task_completeoutright, runqVars
<1>3. InProgress' \subseteq InProgress
  BY <1>2 DEF InProgress
<1>4. RealProcesses' \subseteq RealProcesses
  BY <1>1 DEF RealProcesses
<1>5. \A g \in Hash : <<"real", t, g>> \notin worker'
  <2>1. CASE kind = "real"
    BY <1>0, <1>1, <2>1 DEF ProcessInv
  <2>2. CASE kind = "scene"
    BY <1>0, <1>1, <2>2 DEF ProcessInv, Apart
  <2> QED
    BY <2>1, <2>2 DEF Kind
<1>6. \A u \in DOMAIN build_stamps \ {t} :
         u \in DOMAIN build_stamps' /\ build_stamps'[u] = build_stamps[u]
  BY <1>1 DEF Restrict
<1>7. StampsInv => StampsInv'
  BY <1>1, <1>5, <1>6 DEF StampsInv
<1> QED
  BY <1>3, <1>4, <1>7 DEF NoneStarted

\* Only tasks that were not started migrate and lose their stamps.
LEMMA MigrateNoneStarted ==
    ASSUME IInv, SInv, Migrate
    PROVE  NoneStarted
<1>1. /\ UNCHANGED <<worker, runq_running, runq_complete>>
  BY DEF Migrate
<1>2. PICK mig : /\ mig \cap runq_running = {}
                 /\ build_stamps' = Restrict(build_stamps, DOMAIN build_stamps \ mig)
  <2>1. PICK newhash \in [Dependants(toprocess) -> Hash] :
         LET changed == Rehashed(newhash, unihash)
             pend == pending_migrations \cup (changed \cap Setscene)
             mig == pend \ (TooLate(pend) \cup Blocked(pend))
             rerun == {t \in mig : sq_covered_tasks[t] \cap
                                      (runq_complete \ runq_tasksrun) # {}}
         IN  IF rerun # {} THEN HaltOnRerun(pend, mig, rerun, unihash')
             ELSE Rejudge(pend, mig, changed, unihash')
    BY DEF Migrate
  <2> DEFINE changed == Rehashed(newhash, unihash)
             pend == pending_migrations \cup (changed \cap Setscene)
             mig == pend \ (TooLate(pend) \cup Blocked(pend))
             rerun == {t \in mig : sq_covered_tasks[t] \cap
                                      (runq_complete \ runq_tasksrun) # {}}
  <2>2. mig \cap runq_running = {}
    BY DEF TooLate
  <2>3. HaltOnRerun(pend, mig, rerun, unihash') \/ Rejudge(pend, mig, changed, unihash')
    BY <2>1
  <2> HIDE DEF changed, pend, mig, rerun
  <2>4. CASE HaltOnRerun(pend, mig, rerun, unihash')
    <3>1. PICK before \in SUBSET mig :
             build_stamps' = Restrict(build_stamps, DOMAIN build_stamps \ before)
      BY <2>4 DEF HaltOnRerun
    <3> QED
      BY <2>2, <3>1
  <2>5. CASE Rejudge(pend, mig, changed, unihash')
    BY <2>2, <2>5 DEF Rejudge
  <2> QED
    BY <2>3, <2>4, <2>5
<1>3. \A u \in DOMAIN build_stamps \ mig :
         u \in DOMAIN build_stamps' /\ build_stamps'[u] = build_stamps[u]
  BY <1>2 DEF Restrict
<1>4. StampsInv => StampsInv'
  BY <1>1, <1>2, <1>3 DEF StampsInv, SInv, ProcessInv, InProgress
<1> QED
  BY <1>1, <1>4 DEF NoneStarted, InProgress, RealProcesses

\* A step that is not the start of a real process starts none.
LEMMA MostStartNone ==
    ASSUME IInv, SInv, [Next]_vars, ~\E t \in Task : SchedStart(t)
    PROVE  NoneStarted
<1>0. TypeOK /\ LiveInv /\ ProcessInv /\ Apart /\ TurnInv
  BY DEF IInv, SInv
<1>1. ASSUME UNCHANGED build_stamps, worker' \in {worker, {}}, InProgress' = InProgress
      PROVE  NoneStarted
  BY <1>1 DEF NoneStarted, StampsInv, RealProcesses
<1>2. ASSUME NEW t \in Setscene, NEW D \in SUBSET PassedOver,
             SceneNotNeeded(t, D) \/ SceneNeedHardDeps(t, D) \/ SceneSettle(t, D)
      PROVE  NoneStarted
  BY <1>1, <1>2 DEF SceneNotNeeded, SceneNeedHardDeps, SceneSettle, SceneChosen, SceneTurn,
                    runqVars, InProgress
<1>3. ASSUME NEW t \in Setscene, NEW D \in SUBSET PassedOver, SceneStart(t, D)
      PROVE  NoneStarted
  <2>1. /\ worker' = worker \cup {<<"scene", t, unihash[t]>>} /\ stage = "scene"
        /\ build_stamps' = [x \in DOMAIN build_stamps \cup {t} |->
                              IF x = t THEN StampName("scene", t, unihash[t])
                              ELSE build_stamps[x]]
        /\ UNCHANGED <<runq_running, runq_complete>> /\ SceneTurn(t, D)
    BY <1>3 DEF SceneStart, SceneChosen, SceneTurn, runqVars
  <2>2. t \notin InProgress
    BY <1>0, <2>1, CandidateOpen DEF TurnInv, Settled, InProgress
  <2>3. \A g \in Hash : <<"real", t, g>> \notin worker
    BY <1>0, <2>2, GraphAssumption DEF ProcessInv
  <2>4. RealProcesses' \subseteq RealProcesses
    <3> DEFINE w == <<"scene", t, unihash[t]>>
    <3>1. worker' = worker \cup {w} /\ w[1] # "real"
      BY <2>1
    <3> HIDE DEF w
    <3> QED
      BY <3>1 DEF RealProcesses
  <2>5. StampsInv => StampsInv'
    BY <2>1, <2>3 DEF StampsInv
  <2> QED
    BY <2>1, <2>4, <2>5 DEF NoneStarted, InProgress
<1>4. ASSUME NEW t \in Task, SchedUnexpected(t) \/ SchedSkip(t) \/ SchedNoExec(t)
      PROVE  NoneStarted
  <2>1. /\ UNCHANGED <<worker, build_stamps>>
        /\ \/ UNCHANGED <<runq_running, runq_complete>>
           \/ /\ runq_running' = runq_running \cup {t}
              /\ runq_complete' = runq_complete \cup {t}
    BY <1>4 DEF SchedUnexpected, SchedSkip, SchedNoExec, task_completeoutright
  <2>2. t \notin runq_running
    BY <1>4 DEF SchedUnexpected, SchedSkip, SchedNoExec, Sched, Runnable
  <2>3. InProgress' = InProgress
    BY <2>1, <2>2 DEF InProgress
  <2> QED
    BY <1>1, <2>1, <2>3
<1>5. ASSUME \/ BeginTurn \/ CleanUp \/ EndRead \/ Teardown \/ NothingToMigrate
             \/ SchedNone \/ EndWait \/ Conclude \/ Stop \/ ForceStop
      PROVE  NoneStarted
  BY <1>1, <1>5 DEF BeginTurn, CleanUp, EndRead, Teardown, NothingToMigrate, SchedNone,
                    EndWait, Conclude, Stop, ForceStop, InProgress, buildVars, runqVars,
                    workerVars
<1>6. ASSUME \/ Holdoff \/ SceneNone
             \/ \E i \in DOMAIN updated_taskhash_queue : ApplyUpdate(i)
             \/ \E t \in Setscene : EndForceDeferred(t)
             \/ \E t \in Task, h \in Hash : UniHashUpdate(t, h)
             \/ UNCHANGED vars
      PROVE  NoneStarted
  BY <1>1, <1>6 DEF Holdoff, SceneNone, ApplyUpdate, EndForceDeferred, UniHashUpdate,
                    InProgress, vars, buildVars, runqVars, workerVars
<1> QED
  BY <1>2, <1>3, <1>4, <1>5, <1>6, ExitNoneStarted, MigrateNoneStarted
     DEF Next, Turn, WorkerEvent, Over

\* A task started is in progress from then on, and its stamp was free.
LEMMA StartsOne ==
    ASSUME IInv, SInv, NEW t \in Task, SchedStart(t)
    PROVE  /\ InProgress' = InProgress \cup {t} /\ t \notin InProgress
           /\ RealProcesses' = RealProcesses \cup {<<"real", t, unihash[t]>>}
           /\ t \in Runnable /\ StampFree(t)
           /\ DOMAIN build_stamps' = DOMAIN build_stamps \cup {t}
           /\ \A u \in DOMAIN build_stamps' :
                 build_stamps'[u] = IF u = t THEN StampName("real", t, unihash[t])
                                    ELSE build_stamps[u]
<1>1. /\ worker' = worker \cup {<<"real", t, unihash[t]>>}
      /\ build_stamps' = [x \in DOMAIN build_stamps \cup {t} |->
                            IF x = t THEN StampName("real", t, unihash[t])
                            ELSE build_stamps[x]]
      /\ runq_running' = runq_running \cup {t} /\ UNCHANGED runq_complete
      /\ t \in Runnable /\ StampFree(t) /\ Sched(t)
  BY DEF SchedStart, Sched, Runnable
<1>2. t \notin runq_running /\ t \notin runq_complete
  BY <1>1, SchedFree
<1>3. RealProcesses' = RealProcesses \cup {<<"real", t, unihash[t]>>}
  <2> DEFINE w == <<"real", t, unihash[t]>>
  <2>1. worker' = worker \cup {w} /\ w[1] = "real"
    BY <1>1
  <2> HIDE DEF w
  <2>2. RealProcesses' = RealProcesses \cup {w}
    BY <2>1 DEF RealProcesses
  <2> QED
    BY <2>2 DEF w
<1>4. InProgress' = InProgress \cup {t} /\ t \notin InProgress
  BY <1>1, <1>2 DEF InProgress
<1> QED
  BY <1>1, <1>3, <1>4

\* A real process is that of a task, under a hash.
LEMMA RealProcessType ==
    ASSUME TypeOK, NEW w \in RealProcesses
    PROVE  /\ w \in worker /\ w[2] \in Task /\ w[3] \in Hash
           /\ w = <<"real", w[2], w[3]>>
  BY DEF RealProcesses, TypeOK

\* Two real processes do not make one stamp, unless its name is not the one that
\* the task of one of them had when the build began.
RealStampsApart ==
    \A v, w \in RealProcesses : v # w /\ StampOf(v) = StampOf(w) =>
        \E p \in {v, w} : p[3] # InitHash[p[2]]

\* The first name of a task that starts is not among those the tasks running had
\* when they started: if the name it has by now is, it was rehashed.
LEMMA StampsStep ==
    ASSUME IInv, SInv, StampsInv, RealStampsApart, [Next]_vars
    PROVE  StampsInv' /\ RealStampsApart'
<1>0. TypeOK /\ ProcessInv
  BY DEF IInv, SInv
<1>1. CASE NoneStarted
  BY <1>1 DEF NoneStarted, RealStampsApart
<1>2. ASSUME NEW t \in Task, SchedStart(t) PROVE StampsInv' /\ RealStampsApart'
  <2>1. /\ RealProcesses' = RealProcesses \cup {<<"real", t, unihash[t]>>}
        /\ StampFree(t) /\ t \notin InProgress
        /\ DOMAIN build_stamps' = DOMAIN build_stamps \cup {t}
        /\ \A u \in DOMAIN build_stamps' :
              build_stamps'[u] = IF u = t THEN StampName("real", t, unihash[t])
                                 ELSE build_stamps[u]
    BY <1>2, StartsOne
  <2>2. StampsInv'
    <3> SUFFICES ASSUME NEW u \in Task, NEW h \in Hash, <<"real", u, h>> \in worker'
                 PROVE  /\ u \in DOMAIN build_stamps'
                        /\ build_stamps'[u] = StampName("real", u, h)
      BY DEF StampsInv
    <3>1. <<"real", u, h>> \in worker \/ (u = t /\ h = unihash[t])
      BY <1>2 DEF SchedStart
    <3>2. <<"real", t, h>> \notin worker
      BY <1>0, <2>1 DEF ProcessInv
    <3> QED
      BY <2>1, <3>1, <3>2 DEF StampsInv
  <2>3. \A w \in RealProcesses : StampOf(w) # StampName("real", t, InitHash[t])
    <3> TAKE w \in RealProcesses
    <3>1. /\ w[2] \in DOMAIN build_stamps
          /\ build_stamps[w[2]] = StampName("real", w[2], w[3])
      BY <1>0, RealProcessType DEF StampsInv
    <3>2. w[1] = "real"
      BY DEF RealProcesses
    <3> QED
      BY <2>1, <3>1, <3>2 DEF StampFree, BusyStamps, StampOf
  <2>4. RealStampsApart'
    <3> DEFINE x == <<"real", t, unihash[t]>>
    <3>1. /\ RealProcesses' = RealProcesses \cup {x}
          /\ StampOf(x) = StampName("real", x[2], x[3]) /\ x[2] = t
      BY <2>1 DEF StampOf
    <3> HIDE DEF x
    <3>2. \A w \in RealProcesses : StampOf(w) = StampOf(x) => x[3] # InitHash[x[2]]
      BY <2>3, <3>1
    <3>3. \A w : StampOf(w)' = StampOf(w)
      BY DEF StampOf, StampName
    <3> SUFFICES ASSUME NEW v \in RealProcesses', NEW w \in RealProcesses',
                        v # w, StampOf(v) = StampOf(w)
                 PROVE  \E p \in {v, w} : p[3] # InitHash[p[2]]
      BY <3>3 DEF RealStampsApart
    <3>4. CASE v \in RealProcesses /\ w \in RealProcesses
      BY <3>4 DEF RealStampsApart
    <3>5. CASE v = x /\ w \in RealProcesses
      BY <3>2, <3>5
    <3>6. CASE w = x /\ v \in RealProcesses
      BY <3>2, <3>6
    <3> QED
      BY <3>1, <3>4, <3>5, <3>6
  <2> QED
    BY <2>2, <2>4
<1> QED
  BY <1>1, <1>2, MostStartNone

\* number_threads bounds the tasks in progress.
LEMMA ThreadsStep ==
    ASSUME IInv, SInv, ThreadsInv, [Next]_vars
    PROVE  ThreadsInv'
<1>1. TypeOK /\ TypeOK'
  BY TypeStep DEF IInv
<1>2. \A n : InProgressOf(n) \in SUBSET Task /\ InProgressOf(n)' \in SUBSET Task
  BY <1>1 DEF InProgressOf, InProgress, TypeOK
<1>3. \A n : /\ IsFiniteSet(InProgressOf(n)) /\ Cardinality(InProgressOf(n)) \in Nat
             /\ IsFiniteSet(InProgressOf(n)') /\ Cardinality(InProgressOf(n)') \in Nat
  BY <1>2, FS_Subset, FS_CardinalityType, GraphAssumption
<1>4. CASE NoneStarted
  <2> SUFFICES ASSUME NEW n \in DOMAIN NumberThreads, NumberThreads[n] # 0
               PROVE  Cardinality(InProgressOf(n)') <= NumberThreads[n]
    BY DEF ThreadsInv
  <2>1. InProgressOf(n)' \in SUBSET InProgressOf(n)
    BY <1>4 DEF NoneStarted, InProgressOf
  <2>2. Cardinality(InProgressOf(n)') <= Cardinality(InProgressOf(n))
    BY <1>3, <2>1, FS_Subset
  <2>3. Cardinality(InProgressOf(n)) <= NumberThreads[n] /\ NumberThreads[n] \in Nat
    BY ThreadsAssumption DEF ThreadsInv
  <2> QED
    BY <1>3, <2>2, <2>3
<1>5. ASSUME NEW t \in Task, SchedStart(t) PROVE ThreadsInv'
  <2> SUFFICES ASSUME NEW n \in DOMAIN NumberThreads, NumberThreads[n] # 0
               PROVE  Cardinality(InProgressOf(n)') <= NumberThreads[n]
    BY DEF ThreadsInv
  <2>1. InProgress' = InProgress \cup {t} /\ t \notin InProgress /\ t \in Runnable
    BY <1>5, StartsOne
  <2>2. Cardinality(InProgressOf(n)) <= NumberThreads[n] /\ NumberThreads[n] \in Nat
    BY ThreadsAssumption DEF ThreadsInv
  <2>3. CASE TaskName[t] = n
    <3>1. InProgressOf(n)' = InProgressOf(n) \cup {t}
      BY <2>1, <2>3 DEF InProgressOf
    <3>2. Cardinality(InProgressOf(n)') <= Cardinality(InProgressOf(n)) + 1
      <4>1. Cardinality(InProgressOf(n) \cup {t}) \in
               {Cardinality(InProgressOf(n)), Cardinality(InProgressOf(n)) + 1}
        BY <1>3, FS_AddElement
      <4> QED
        BY <1>3, <3>1, <4>1
    <3>3. Cardinality(InProgressOf(n)) < NumberThreads[n]
      BY <2>1, <2>3 DEF Runnable, ThreadsTaken, InProgressOf
    <3> QED
      BY <1>3, <2>2, <3>2, <3>3
  <2>4. CASE TaskName[t] # n
    <3>1. InProgressOf(n)' = InProgressOf(n)
      BY <2>1, <2>4 DEF InProgressOf
    <3> QED
      BY <2>2, <3>1
  <2> QED
    BY <2>3, <2>4
<1> QED
  BY <1>4, <1>5, MostStartNone

\* A task has one real process, and is in progress while it has.
LEMMA ThreadsBound ==
    ASSUME TypeOK, ProcessInv, ThreadsInv
    PROVE  NumberThreadsRespected
<1> SUFFICES ASSUME NEW n \in DOMAIN NumberThreads, NumberThreads[n] # 0
             PROVE  Cardinality({w \in worker : w[1] = "real" /\ TaskName[w[2]] = n})
                       <= NumberThreads[n]
  BY DEF NumberThreadsRespected
<1> DEFINE P == {w \in worker : w[1] = "real" /\ TaskName[w[2]] = n}
           f == [w \in P |-> w[2]]
<1>1. IsFiniteSet(InProgressOf(n))
  <2>1. InProgressOf(n) \in SUBSET Task
    BY DEF InProgressOf, InProgress, TypeOK
  <2> QED
    BY <2>1, FS_Subset, GraphAssumption
<1>2. ASSUME NEW w \in P
      PROVE  /\ w[2] \in InProgressOf(n) /\ w \in worker
             /\ w = <<"real", w[2], w[3]>> /\ w[2] \in Task /\ w[3] \in Hash
  <2>1. w \in RealProcesses
    BY DEF RealProcesses
  <2>2. /\ w = <<"real", w[2], w[3]>> /\ w[2] \in Task /\ w[3] \in Hash /\ w \in worker
    BY <2>1, RealProcessType
  <2>3. w[2] \in InProgress /\ TaskName[w[2]] = n
    BY <2>2 DEF ProcessInv
  <2> QED
    BY <2>2, <2>3 DEF InProgressOf
<1>3. \A v, w \in P : v[2] = w[2] => v = w
  BY <1>2 DEF ProcessInv
<1> HIDE DEF P
<1>4. f \in Injection(P, InProgressOf(n))
  BY <1>2, <1>3 DEF Injection, IsInjective
<1> HIDE DEF f
<1>5. Cardinality(P) <= Cardinality(InProgressOf(n)) /\ IsFiniteSet(P)
  BY <1>1, <1>4, FS_Injection
<1>6. /\ Cardinality(P) \in Nat /\ Cardinality(InProgressOf(n)) \in Nat
      /\ NumberThreads[n] \in Nat
  BY <1>1, <1>5, FS_CardinalityType, ThreadsAssumption
<1>7. Cardinality(InProgressOf(n)) <= NumberThreads[n]
  BY DEF ThreadsInv
<1> QED
  BY <1>5, <1>6, <1>7 DEF P

\* Nothing is in progress when a build begins.
LEMMA ApartInit ==
    Init => StampsInv /\ RealStampsApart /\ ThreadsInv
<1> SUFFICES ASSUME Init PROVE StampsInv /\ RealStampsApart /\ ThreadsInv
  OBVIOUS
<1>1. worker = {} /\ runq_running = {}
  BY DEF Init
<1>2. \A n : InProgressOf(n) = {}
  BY <1>1 DEF InProgressOf, InProgress
<1> QED
  BY <1>1, <1>2, FS_EmptySet, ThreadsAssumption
     DEF StampsInv, RealStampsApart, RealProcesses, ThreadsInv

\* The real half of StampExclusive: of two real tasks that make one stamp at a time
\* one has been rehashed, whose old name the scheduler has looked for in vain.
THEOREM RealStampsTheorem ==
    Spec /\ []HardApart => []RealStampsApart
<1>1. Spec /\ []HardApart => []SInv
  BY SAlways
<1>2. IInv /\ SInv /\ StampsInv /\ RealStampsApart /\ [Next]_vars
         => StampsInv' /\ RealStampsApart'
  BY StampsStep
<1> QED
  BY <1>1, <1>2, SInvInit, ApartInit, Invariance, PTL DEF Spec

\* There are never more processes of a task name than its number_threads flag
\* allows: the other half of RunsApart.
THEOREM NumberThreadsTheorem ==
    Spec /\ []HardApart => []NumberThreadsRespected
<1>1. Spec /\ []HardApart => []SInv
  BY SAlways
<1>2. IInv /\ SInv /\ ThreadsInv /\ [Next]_vars => ThreadsInv'
  BY ThreadsStep
<1>3. IInv /\ SInv /\ ThreadsInv => NumberThreadsRespected
  BY ThreadsBound DEF IInv, SInv
<1> QED
  BY <1>1, <1>2, <1>3, SInvInit, ApartInit, Invariance, PTL DEF Spec

-----------------------------------------------------------------------------
(* The end of a build.                                                     *)

\* A build stops early only for a failure or for the user; one that is called
\* complete has no process left, and is complete unless it was not to be.
EndInv ==
    /\ state \in {"FAILED", "COMPLETE"} => stage \in {"turn", "done"}
    /\ state = "CLEAN_UP" => failed_tids # {} \/ MayInterrupt # {}
    /\ configuration.setsceneonly => RealProcesses = {}
    /\ state = "COMPLETE" => worker = {}
    /\ CompleteIsComplete

\* A step that does not end the build keeps this.
GoesOn ==
    /\ state' \in {"RUNNING", "CLEAN_UP"} /\ failed_tids \subseteq failed_tids'
    /\ state' = "CLEAN_UP" => state = "CLEAN_UP" \/ failed_tids' # {} \/ MayInterrupt # {}
    /\ configuration.setsceneonly => RealProcesses' \subseteq RealProcesses
    /\ UNCHANGED configuration

LEMMA GoingOnKeeps ==
    ASSUME EndInv, GoesOn
    PROVE  EndInv'
  BY DEF EndInv, GoesOn, CompleteIsComplete

\* With nothing active and nothing being restored there is no process.
LEMMA NoneLeft ==
    ASSUME TypeOK, ProcessInv, ActiveInv,
           \/ active <= 0 /\ sq_live = {}
           \/ RealProcesses = {} /\ sq_live = {}
    PROVE  worker = {}
<1>1. CASE worker = {}
  BY <1>1
<1>2. CASE worker # {}
  <2>1. IsFiniteSet(RealProcesses)
    <3>1. RealProcesses \in SUBSET worker
      BY DEF RealProcesses
    <3> QED
      BY <3>1, FS_Subset DEF ActiveInv
  <2>2. RealProcesses = {}
    <3>1. CASE RealProcesses = {}
      BY <3>1
    <3>2. CASE active <= 0
      <4>1. active = Cardinality(RealProcesses)
        BY <1>2 DEF ActiveInv
      <4>2. Cardinality(RealProcesses) \in Nat
        BY <2>1, FS_CardinalityType
      <4>3. Cardinality(RealProcesses) = 0
        BY <3>2, <4>1, <4>2
      <4> QED
        BY <2>1, <4>3, FS_EmptySet
    <3> QED
      BY <3>1, <3>2
  <2>3. ASSUME NEW w \in worker PROVE FALSE
    <3>1. w[1] = "scene" /\ w = <<"scene", w[2], w[3]>> /\ w[2] \in Task /\ w[3] \in Hash
      BY <2>2 DEF RealProcesses, TypeOK, Kind
    <3> QED
      BY <3>1 DEF ProcessInv
  <2> QED
    BY <2>3
<1> QED
  BY <1>1, <1>2

\* finish() waits until nothing is active, finish_now() kills what is.
LEMMA FinishKeeps ==
    ASSUME IInv, SInv, ActiveInv, SlotsInv, EndInv, CleanUp \/ ForceStop
    PROVE  EndInv'
<1>0. TypeOK /\ ProcessInv
  BY DEF IInv, SInv
<1>1. CASE ForceStop
  BY <1>1 DEF ForceStop, EndInv, CompleteIsComplete, RealProcesses, FinishedState
<1>2. CASE CleanUp /\ stage' = "wait"
  BY <1>2, GoingOnKeeps DEF CleanUp, GoesOn, buildVars, runqVars, workerVars, RealProcesses
<1>3. CASE CleanUp /\ stage' # "wait"
  <2>1. /\ stage' = "done" /\ state' = FinishedState /\ UNCHANGED buildVars
        /\ ~(StillActive > 0) /\ state = "CLEAN_UP"
    BY <1>3 DEF CleanUp
  <2>2. worker = {}
    <3>1. CASE worker = {}
      BY <3>1
    <3>2. CASE worker # {}
      <4>1. active = Cardinality(RealProcesses) /\ IsFiniteSet(RealProcesses)
        <5>1. RealProcesses \in SUBSET worker
          BY DEF RealProcesses
        <5> QED
          BY <3>2, <5>1, FS_Subset DEF ActiveInv
      <4>2. active \in Nat /\ Cardinality(sq_live) \in Nat /\ IsFiniteSet(sq_live)
        BY <4>1, FS_CardinalityType DEF SlotsInv
      <4>3. active = 0 /\ Cardinality(sq_live) = 0
        BY <2>1, <4>2 DEF StillActive
      <4>4. sq_live = {} /\ active <= 0
        BY <4>2, <4>3, FS_EmptySet
      <4> QED
        BY <1>0, <4>4, NoneLeft
    <3> QED
      BY <3>1, <3>2
  <2>3. UNCHANGED <<worker, configuration, failed_tids, runq_complete>>
    BY <2>1 DEF buildVars, runqVars, workerVars
  <2>4. state' = "COMPLETE" => MayInterrupt # {}
    BY <2>1 DEF FinishedState, EndInv
  <2>5. state' \in {"FAILED", "COMPLETE"}
    BY <2>1 DEF FinishedState
  <2>6. CompleteIsComplete'
    BY <2>1, <2>4 DEF CompleteIsComplete
  <2> QED
    BY <2>1, <2>2, <2>3, <2>5, <2>6 DEF EndInv, RealProcesses
<1> QED
  BY <1>1, <1>2, <1>3

\* The sanity checks before a build is called complete.
LEMMA ConcludeKeeps ==
    ASSUME IInv, SInv, ActiveInv, EndInv, Conclude \/ Holdoff
    PROVE  EndInv'
<1>0. TypeOK /\ ProcessInv
  BY DEF IInv, SInv
<1>1. CASE Conclude
  <2>1. /\ stage' = "turn" /\ UNCHANGED buildVars /\ active <= 0 /\ sq_live = {}
        /\ state' \in {"FAILED", "COMPLETE"}
        /\ state' = "COMPLETE" => Task \subseteq runq_complete
    BY <1>1 DEF Conclude, SanityErrors
  <2>2. worker = {}
    BY <1>0, <2>1, NoneLeft
  <2>3. UNCHANGED <<worker, configuration, failed_tids, runq_complete>>
    BY <2>1 DEF buildVars, runqVars, workerVars
  <2>4. CompleteIsComplete'
    BY <1>0, <2>1, <2>3 DEF CompleteIsComplete, TypeOK
  <2> QED
    BY <2>1, <2>2, <2>3, <2>4 DEF EndInv, RealProcesses
<1>2. CASE Holdoff
  <2>1. /\ stage = "holdoff"
        /\ UNCHANGED <<configuration, worker, failed_tids, runq_complete, sq_live>>
        /\ \/ UNCHANGED state
           \/ stage' = "turn" /\ state' = "FAILED"
           \/ /\ stage' = "turn" /\ state' = "COMPLETE"
              /\ sq_live = {} /\ configuration.setsceneonly
    BY <1>2 DEF Holdoff, workerVars, SceneDrained
  <2>2. CASE UNCHANGED state
    <3>1. state \in {"RUNNING", "CLEAN_UP"}
      BY <1>0, <2>1 DEF TypeOK, EndInv
    <3> QED
      BY <2>1, <2>2, <3>1, GoingOnKeeps DEF GoesOn, RealProcesses
  <2>3. CASE stage' = "turn" /\ state' = "FAILED"
    BY <2>1, <2>3 DEF EndInv, RealProcesses, CompleteIsComplete
  <2>4. CASE stage' = "turn" /\ state' = "COMPLETE"
    <3>1. sq_live = {} /\ configuration.setsceneonly
      <4>1. state # "COMPLETE"
        BY <2>1 DEF EndInv
      <4> QED
        BY <2>1, <2>4, <4>1
    <3>2. RealProcesses = {}
      BY <3>1 DEF EndInv
    <3>3. worker = {}
      BY <1>0, <3>1, <3>2, NoneLeft
    <3> QED
      BY <2>1, <2>4, <3>1, <3>2, <3>3 DEF EndInv, RealProcesses, CompleteIsComplete
  <2> QED
    BY <2>1, <2>2, <2>3, <2>4
<1> QED
  BY <1>1, <1>2

\* Every other step goes on, or comes after the end.
LEMMA EndStep ==
    ASSUME NotEnforced, IInv, SInv, ActiveInv, SlotsInv, EndInv, [Next]_vars
    PROVE  EndInv'
<1>0. TypeOK /\ ProcessInv /\ configuration \in Configurations
  BY DEF IInv, SInv, TypeOK
<1>1. stage \notin {"turn", "done"} => state \in {"RUNNING", "CLEAN_UP"}
  BY <1>0 DEF TypeOK, EndInv
<1>2. ASSUME WorkerExit PROVE EndInv'
  <2> PICK kind \in Kind, t \in Task, h \in Hash, ok \in BOOLEAN : Exit(kind, t, h, ok)
    BY <1>2 DEF WorkerExit
  <2>1. /\ stage \in {"read", "wait"} /\ worker' = worker \ {<<kind, t, h>>}
        /\ UNCHANGED configuration
        /\ \/ SetsceneExit(t, ok, StampsLeft(kind, t, h, ok))
           \/ TaskComplete(t, StampsLeft(kind, t, h, ok))
           \/ TaskFail(t)
    BY DEF Exit, Reading
  <2>2. state \in {"RUNNING", "CLEAN_UP"}
    BY <1>1, <2>1
  <2>3. RealProcesses' \subseteq RealProcesses
    BY <2>1 DEF RealProcesses
  <2>4. CASE SetsceneExit(t, ok, StampsLeft(kind, t, h, ok))
    <3>1. UNCHANGED <<state, failed_tids>>
      BY <1>0, <2>4 DEF SetsceneExit, NotEnforced, runqVars
    <3> QED
      BY <2>1, <2>2, <2>3, <3>1, GoingOnKeeps DEF GoesOn
  <2>5. CASE TaskComplete(t, StampsLeft(kind, t, h, ok))
    BY <2>1, <2>2, <2>3, <2>5, GoingOnKeeps DEF GoesOn, TaskComplete
  <2>6. CASE TaskFail(t)
    BY <2>1, <2>2, <2>3, <2>6, GoingOnKeeps DEF GoesOn, TaskFail, HaltState
  <2> QED
    BY <2>1, <2>4, <2>5, <2>6
<1>3. ASSUME Migrate PROVE EndInv'
  <2>1. /\ stage = "migrate" /\ UNCHANGED <<configuration, worker>>
        /\ failed_tids \subseteq failed_tids'
        /\ UNCHANGED state \/ (state' = "CLEAN_UP" /\ failed_tids' # {})
    <3>1. \E pend, mig, rerun, changed : \/ HaltOnRerun(pend, mig, rerun, unihash')
                                         \/ Rejudge(pend, mig, changed, unihash')
      BY <1>3 DEF Migrate
    <3>2. ASSUME NEW pend, NEW mig, NEW rerun, HaltOnRerun(pend, mig, rerun, unihash')
          PROVE  state' = "CLEAN_UP" /\ failed_tids' # {} /\ failed_tids \subseteq failed_tids'
      BY <3>2 DEF HaltOnRerun
    <3>3. ASSUME NEW pend, NEW mig, NEW changed, Rejudge(pend, mig, changed, unihash')
          PROVE  UNCHANGED <<state, failed_tids>>
      BY <3>3 DEF Rejudge
    <3>4. stage = "migrate" /\ UNCHANGED <<configuration, worker>>
      BY <1>3 DEF Migrate
    <3> QED
      BY <3>1, <3>2, <3>3, <3>4
  <2> QED
    BY <1>1, <2>1, GoingOnKeeps DEF GoesOn, RealProcesses
<1>4. ASSUME NEW t \in Setscene, NEW D \in SUBSET PassedOver,
             \/ SceneNotNeeded(t, D) \/ SceneNeedHardDeps(t, D)
             \/ SceneSettle(t, D) \/ SceneStart(t, D)
      PROVE  EndInv'
  <2>1. /\ stage = "scene" /\ UNCHANGED <<configuration, state, failed_tids>>
        /\ worker' = worker \/ worker' = worker \cup {<<"scene", t, unihash[t]>>}
    BY <1>4 DEF SceneNotNeeded, SceneNeedHardDeps, SceneSettle, SceneStart, SceneChosen,
                SceneTurn, runqVars
  <2>2. RealProcesses' \subseteq RealProcesses
    <3> DEFINE w == <<"scene", t, unihash[t]>>
    <3>1. (worker' = worker \/ worker' = worker \cup {w}) /\ w[1] # "real"
      BY <2>1
    <3> HIDE DEF w
    <3> QED
      BY <3>1 DEF RealProcesses
  <2> QED
    BY <1>1, <2>1, <2>2, GoingOnKeeps DEF GoesOn
<1>5. ASSUME NEW t \in Task,
             \/ SchedUnexpected(t) \/ SchedSkip(t) \/ SchedNoExec(t) \/ SchedStart(t)
      PROVE  EndInv'
  <2>1. /\ stage = "sched" /\ ~configuration.setsceneonly /\ UNCHANGED configuration
        /\ failed_tids \subseteq failed_tids'
        /\ UNCHANGED state \/ (state' = "CLEAN_UP" /\ failed_tids' # {})
    BY <1>5 DEF SchedUnexpected, SchedSkip, SchedNoExec, SchedStart, Sched, HaltState
  <2> QED
    BY <1>1, <2>1, GoingOnKeeps DEF GoesOn
<1>6. ASSUME \/ EndRead \/ NothingToMigrate \/ SceneNone \/ SchedNone \/ EndWait
             \/ \E i \in DOMAIN updated_taskhash_queue : ApplyUpdate(i)
             \/ \E t \in Setscene : EndForceDeferred(t)
             \/ \E t \in Task, h \in Hash : UniHashUpdate(t, h)
      PROVE  EndInv'
  <2>1. /\ stage \notin {"turn", "done"}
        /\ UNCHANGED <<state, configuration, worker, failed_tids>>
    BY <1>6 DEF EndRead, NothingToMigrate, SceneNone, SchedNone, EndWait, ApplyUpdate,
                EndForceDeferred, UniHashUpdate, Reading, buildVars, runqVars, workerVars
  <2> QED
    BY <1>1, <2>1, GoingOnKeeps DEF GoesOn, RealProcesses
<1>7. ASSUME BeginTurn \/ Stop PROVE EndInv'
  BY <1>7, GoingOnKeeps DEF BeginTurn, Stop, GoesOn, RealProcesses, buildVars, runqVars, workerVars
<1>8. ASSUME Teardown \/ UNCHANGED vars PROVE EndInv'
  BY <1>8 DEF Teardown, vars, buildVars, runqVars, workerVars, EndInv, RealProcesses,
              CompleteIsComplete
<1> QED
  BY <1>2, <1>3, <1>4, <1>5, <1>6, <1>7, <1>8, FinishKeeps, ConcludeKeeps
     DEF Next, Turn, WorkerEvent, Over

LEMMA EndInit ==
    Init => EndInv
  BY DEF Init, EndInv, RealProcesses, CompleteIsComplete

\* A build that is over and is called complete has left no process behind.
NoneLeftRunning == stage = "done" /\ state = "COMPLETE" => worker = {}

\* The first half of EndIsRight, and of ActiveExact at the end: "all succeeded"
\* is said of a build that ran or skipped every task, or was stopped by the
\* user, or was to restore only; and it has no process left.
THEOREM CompleteTheorem ==
    ASSUME NotEnforced
    PROVE  Spec /\ []HardApart => [](CompleteIsComplete /\ NoneLeftRunning)
<1>1. Spec /\ []HardApart => []SInv
  BY SAlways
<1>2. IInv /\ SInv /\ ActiveInv /\ [Next]_vars => ActiveInv'
  BY ActiveStep
<1>3. IInv /\ SlotsInv /\ [Next]_vars => SlotsInv'
  BY SlotsStep DEF IInv
<1>4. IInv /\ SInv /\ ActiveInv /\ SlotsInv /\ EndInv /\ [Next]_vars => EndInv'
  BY EndStep
<1>5. EndInv => CompleteIsComplete /\ NoneLeftRunning
  BY DEF EndInv, NoneLeftRunning
<1> QED
  BY <1>1, <1>2, <1>3, <1>4, <1>5, SInvInit, CountInit, EndInit, Invariance, PTL DEF Spec

-----------------------------------------------------------------------------
(* No hash changes under a process, or under what was restored.            *)

UpdateOf(i) == updated_taskhash_queue[i][1]

\* An update that waits, or that has been taken from the queue and is to be
\* followed by a migration, is of a task that nothing started depends on: what
\* has been completed is updated before the scheduler's next turn.
QueueInv ==
    /\ \A i \in DOMAIN updated_taskhash_queue :
          /\ UpdateOf(i) \in Setscene \cap runq_running
          /\ RevDeps(UpdateOf(i)) \cap runq_running = {}
    /\ \A t \in toprocess : stage = "migrate" /\ RevDeps(t) \cap runq_running = {}
    /\ stage \in {"scene", "holdoff", "sched"} =>
          \A i \in DOMAIN updated_taskhash_queue : UpdateOf(i) \in InProgress

\* A task that has a setscene variant is run when that failed; so what reports
\* an update is not deferred, nor, once complete, is anything deferred until it.
RefusedInv == MayMigrate =>
    /\ InProgress \cap Setscene \subseteq sq.notcovered
    /\ \A i \in DOMAIN updated_taskhash_queue :
          /\ UpdateOf(i) \in sq.notcovered
          /\ UpdateOf(i) \in runq_complete =>
                \A d \in DOMAIN sq_deferred : sq_deferred[d] # UpdateOf(i)
    /\ holdoff_need_update \/ tasks_notcovered \cap Setscene \subseteq sq.notcovered

\* A task has a stamp under its hash.
Stamped(t) == \E kind \in {"scene", "real", "rebuilt"} : <<kind, t, unihash[t]>> \in stamps

\* What a step restores has its stamp.
NewlyRestored ==
    \A t \in sq'.covered \ sq'.notneeded :
        t \in sq.covered \ sq.notneeded \/ Stamped(t)'

\* Only setscene tasks that failed are run.
LEMMA NotCoveredSetscene ==
    ASSUME TypeOK
    PROVE  NotCoveredTasks \cap Setscene \subseteq sq.notcovered
<1>1. sq.notcovered \subseteq Setscene
  BY DEF TypeOK, SceneRecord
<1>2. \A s \in Setscene : sq_covered_tasks[s] \cap Setscene = {}
  BY DEF sq_covered_tasks, Plain
<1>3. cantskip \cap Setscene = {}
  BY DEF cantskip, Plain
<1> QED
  BY <1>1, <1>2, <1>3 DEF NotCoveredTasks, Below

\* What depends on tasks on which nothing started depends was not started.
LEMMA DependantsFree ==
    ASSUME IInv, NEW S, \A t \in S : RevDeps(t) \cap runq_running = {}
    PROVE  Dependants(S) \cap runq_running = {}
<1> DEFINE X == Task \ runq_running
<1>1. ASSUME NEW t \in Task, Depends[t] \cap (S \cup X) # {} PROVE t \in X
  <2> SUFFICES ASSUME t \in runq_running PROVE FALSE
    OBVIOUS
  <2>1. Depends[t] \subseteq runq_complete /\ runq_complete \subseteq runq_running
    BY DEF IInv, OrderInv
  <2>2. PICK d \in S : d \in Depends[t]
    BY <1>1, <2>1
  <2> QED
    BY <2>2 DEF RevDeps
<1>2. X \in SUBSET Task
  OBVIOUS
<1>3. Dependants(S) \subseteq X
  <2> HIDE DEF X
  <2> QED
    BY <1>1, <1>2 DEF Dependants
<1> QED
  BY <1>3

\* The updates that are left in the queue when one is taken.
LEMMA LeftInQueue ==
    ASSUME NEW S, NEW s \in Seq(S), NEW i \in DOMAIN s
    PROVE  \A j \in DOMAIN Without(s, i) : \E k \in DOMAIN s : Without(s, i)[j] = s[k]
<1> DEFINE R == {s[k] : k \in DOMAIN s}
<1>1. s \in Seq(R)
  <2>1. Len(s) \in Nat /\ DOMAIN s = 1 .. Len(s)
    OBVIOUS
  <2> QED
    BY <2>1
<1>2. Without(s, i) \in Seq(R)
  <2> HIDE DEF R
  <2> QED
    BY <1>1, WithoutType
<1>3. \A j \in DOMAIN Without(s, i) : Without(s, i)[j] \in R
  <2> HIDE DEF R
  <2> QED
    BY <1>2
<1> QED
  BY <1>3

\* The rehash of a migration spares what was restored, is being restored, or does
\* not depend on what was updated.
LEMMA MigrateHashes ==
    ASSUME TypeOK, Migrate, NEW t \in Task, unihash'[t] # unihash[t]
    PROVE  t \in Dependants(toprocess) /\ t \notin sq.covered /\ t \notin sq_live
  BY DEF Migrate, Rehashed

\* What is not needed, by operator.
LEMMA CountersNeeds ==
    ASSUME NEW q \in SceneRecord, NEW S
    PROVE  UpdateCounters(q, S).notneeded = q.notneeded
  BY DEF UpdateCounters, SceneRecord

LEMMA SkipNeeds ==
    ASSUME NEW q \in SceneRecord, NEW S \in SUBSET Setscene
    PROVE  sq_task_skip(q, S).notneeded = q.notneeded
<1> DEFINE q1 == [q EXCEPT !.running = @ \cup S, !.buildable = @ \cup S]
           q2 == [q1 EXCEPT !.covered = @ \cup S]
<1>1. q2 \in SceneRecord /\ q2.notneeded = q.notneeded
  BY DEF SceneRecord
<1> QED
  BY <1>1, CountersNeeds DEF sq_task_skip, sq_task_completeoutright

LEMMA FailNeeds ==
    ASSUME NEW q \in SceneRecord, NEW S \in SUBSET Setscene, NEW h, NEW disk
    PROVE  sq_task_failoutright(q, S, h, disk).notneeded = q.notneeded
<1> DEFINE lost == HardFailures(q, S, h, disk)
           q1 == [q EXCEPT !.running = @ \cup lost, !.buildable = @ \cup lost,
                           !.notcovered = @ \cup lost]
<1>1. lost \in SUBSET Setscene
  BY DEF HardFailures
<1> HIDE DEF lost
<1>2. q1 \in SceneRecord /\ q1.notneeded = q.notneeded
  BY <1>1 DEF SceneRecord
<1>3. sq_task_failoutright(q, S, h, disk) = UpdateCounters(q1, lost)
  BY DEF sq_task_failoutright, lost
<1> HIDE DEF q1
<1> QED
  BY <1>2, <1>3, CountersNeeds

LEMMA UpdateDataNeeds ==
    ASSUME NEW q \in SceneRecord, NEW tids \in SUBSET Setscene,
           NEW valid, NEW deferred, NEW h, NEW disk
    PROVE  update_scenequeue_data(q, tids, valid, deferred, h, disk).notneeded =
             q.notneeded
<1> DEFINE skipped == {t \in tids : NothingToRestore(t, h, disk)}
           q1 == sq_task_skip(q, skipped)
           f == (q1.outrightfail \ tids) \cup ((tids \ skipped) \ (valid \cup Decided(q1)
                                                    \cup DOMAIN deferred))
<1>1. update_scenequeue_data(q, tids, valid, deferred, h, disk) =
        [q1 EXCEPT !.outrightfail = f]
  BY DEF update_scenequeue_data
<1>2. q1 \in SceneRecord /\ q1.notneeded = q.notneeded
  BY SkipType, SkipNeeds
<1> HIDE DEF q1, f
<1> QED
  BY <1>1, <1>2 DEF SceneRecord

LEMMA UnsettleNeeds ==
    ASSUME sq \in SceneRecord, NEW mig \in SUBSET Setscene
    PROVE  Unsettle(mig).notneeded = sq.notneeded \ mig
<1> DEFINE gone == mig \cup {d \in UNION {sq_covered_tasks[t] : t \in mig} :
                               d \notin runq_complete /\ d \notin unskippable}
           q1 == [sq EXCEPT !.buildable = @ \ mig, !.running = @ \ mig]
           q2 == [q1 EXCEPT !.outrightfail = @ \ mig, !.covered = @ \ mig]
           q3 == [q2 EXCEPT !.notcovered = @ \ mig, !.notneeded = @ \ mig]
<1>1. Unsettle(mig) = [q3 EXCEPT !.done = @ \ gone]
  BY Zenon DEF Unsettle
<1> HIDE DEF gone
<1>2. q1 \in SceneRecord /\ q1.notneeded = sq.notneeded
  BY DEF SceneRecord
<1> HIDE DEF q1
<1>3. q2 \in SceneRecord /\ q2.notneeded = q1.notneeded
  BY <1>2 DEF SceneRecord
<1> HIDE DEF q2
<1>4. q3 \in SceneRecord /\ q3.notneeded = q2.notneeded \ mig
  BY <1>3 DEF SceneRecord
<1> HIDE DEF q3
<1> QED
  BY <1>1, <1>2, <1>3, <1>4 DEF SceneRecord

LEMMA ResettleNeeds ==
    ASSUME sq \in SceneRecord, NEW mig \in SUBSET Setscene,
           NEW h, NEW deferred, NEW valid, NEW disk
    PROVE  Resettle(mig, h, deferred, valid, disk).notneeded = sq.notneeded \ mig
<1> DEFINE q1 == Unsettle(mig)
           ready == {t \in mig : \/ sq_revdeps[t] = {}
                                 \/ /\ ~MissingHardDep(q1, t)
                                    /\ sq_revdeps[t] \subseteq Decided(q1)}
           q2 == [q1 EXCEPT !.buildable = @ \cup ready]
           q3 == update_scenequeue_data(q2, mig, valid, deferred, h, disk)
           lost == {t \in mig : MissingHardDep(q1, t)}
           q4 == sq_task_failoutright(q3, lost, h, disk)
<1>1. q1 \in SceneRecord /\ q1.notneeded = sq.notneeded \ mig
  BY UnsettleType, UnsettleNeeds
<1>2. ready \in SUBSET Setscene /\ lost \in SUBSET Setscene
  OBVIOUS
<1>3. Resettle(mig, h, deferred, valid, disk) = [q4 EXCEPT !.harddep_deferred = {}]
  BY DEF Resettle
<1> HIDE DEF q1, ready, lost
<1>4. q2 \in SceneRecord /\ q2.notneeded = q1.notneeded
  BY <1>1, <1>2 DEF SceneRecord
<1> HIDE DEF q2
<1>5. q3 \in SceneRecord /\ q3.notneeded = q2.notneeded
  BY <1>4, UpdateDataType, UpdateDataNeeds
<1> HIDE DEF q3
<1>6. q4 \in SceneRecord /\ q4.notneeded = q3.notneeded
  <2>1. q4 = sq_task_failoutright(q3, lost, h, disk)
    OBVIOUS
  <2> HIDE DEF q4
  <2>2. q4 \in SceneRecord
    BY <1>2, <1>5, <2>1, FailType
  <2>3. sq_task_failoutright(q3, lost, h, disk).notneeded = q3.notneeded
    BY <1>2, <1>5, FailNeeds
  <2> QED
    BY <2>1, <2>2, <2>3
<1> HIDE DEF q4
<1> QED
  BY <1>1, <1>3, <1>4, <1>5, <1>6 DEF SceneRecord

LEMMA PutAsideNeeds ==
    ASSUME TypeOK, NEW D \in SUBSET Setscene
    PROVE  PutAside(D).notneeded = sq.notneeded
  BY DEF PutAside, TypeOK, SceneRecord

-----------------------------------------------------------------------------
(* Stamps.                                                                 *)

\* What has nothing to restore, and is not noexec, has a stamp.
LEMMA CurrentStamped ==
    ASSUME NEW t, NEW h, NEW disk, NothingToRestore(t, h, disk), t \notin NoExec
    PROVE  \E kind \in {"scene", "real", "rebuilt"} : <<kind, t, h[t]>> \in disk
<1>1. SceneStampCurrent(t, h, disk) \/ OwnStampCurrent(t, h, disk)
  BY DEF NothingToRestore, RealStampCurrent
<1> QED
  BY <1>1 DEF SceneStampCurrent, OwnStampCurrent

\* A noexec setscene task is given one.
LEMMA NoExecStampedKeeps ==
    ASSUME NEW disk, NEW S, NEW h, NEW t
    PROVE  /\ (\E kind \in {"scene", "real", "rebuilt"} : <<kind, t, h[t]>> \in disk)
              => \E kind \in {"scene", "real", "rebuilt"} :
                     <<kind, t, h[t]>> \in NoExecStamped(disk, S, h)
           /\ t \in S \cap NoExec => <<"scene", t, h[t]>> \in NoExecStamped(disk, S, h)
  BY DEF NoExecStamped

\* A process that ends leaves no task without a stamp under its hash, if its own
\* is under the hash of its task.
LEMMA LeftStamped ==
    ASSUME NEW kind \in Kind, NEW t, NEW ok, NEW x, Stamped(x)
    PROVE  \E k \in {"scene", "real", "rebuilt"} :
              <<k, x, unihash[x]>> \in StampsLeft(kind, t, unihash[t], ok)
<1> DEFINE kind2 == IF kind = "real" THEN "rebuilt" ELSE kind
<1>1. kind2 \in {"scene", "real", "rebuilt"}
  BY DEF Kind
<1>2. CASE StampsLeft(kind, t, unihash[t], ok) = stamps
  BY <1>2 DEF Stamped
<1>3. CASE StampsLeft(kind, t, unihash[t], ok) = WithStamp(stamps, kind2, t, unihash[t])
  <2>1. CASE x = t
    BY <1>1, <1>3, <2>1 DEF WithStamp
  <2>2. CASE x # t
    BY <1>3, <2>2 DEF WithStamp, Stamped
  <2> QED
    BY <2>1, <2>2
<1> QED
  BY <1>2, <1>3 DEF StampsLeft

\* A completed task that releases a deferred one covers it if it has a stamp.
LEMMA CompleteStamps ==
    ASSUME TypeOK, NEW t \in Task, NEW disk, task_completeoutright(t, disk),
           UNCHANGED unihash,
           \A x \in Setscene : Stamped(x) =>
               \E k \in {"scene", "real", "rebuilt"} : <<k, x, unihash[x]>> \in disk
    PROVE  NewlyRestored /\ \A x \in Setscene : Stamped(x) => Stamped(x)'
<1> DEFINE waiting == {d \in DOMAIN sq_deferred : sq_deferred[d] = t}
<1>1. CASE waiting = {}
  <2>1. sq' = sq /\ stamps' = disk
    BY <1>1 DEF task_completeoutright
  <2> QED
    BY <2>1 DEF NewlyRestored, Stamped
<1>2. CASE waiting # {}
  <2>1. PICK found \in waiting, valid \in SUBSET MayBeValid :
          LET kept == Restrict(sq_deferred, DOMAIN sq_deferred \ {found})
          IN  /\ stamps' = NoExecStamped(disk, {found}, unihash)
              /\ sq' = update_scenequeue_data(sq, {found}, valid, kept,
                                              unihash, stamps')
    BY <1>2 DEF task_completeoutright
  <2> DEFINE kept == Restrict(sq_deferred, DOMAIN sq_deferred \ {found})
  <2>2. found \in Setscene /\ {found} \in SUBSET Setscene /\ sq \in SceneRecord
    BY DEF TypeOK
  <2>3. sq' = update_scenequeue_data(sq, {found}, valid, kept, unihash, stamps')
    BY <2>1
  <2> HIDE DEF kept
  <2>4. Covers(sq', sq, Current({found}, unihash, stamps'))
        /\ sq'.notneeded = sq.notneeded
    BY <2>2, <2>3, UpdateDataDecides, UpdateDataNeeds
  <2>5. \A x \in Setscene : Stamped(x) => Stamped(x)'
    BY <2>1, NoExecStampedKeeps DEF Stamped
  <2>6. ASSUME NothingToRestore(found, unihash, stamps') PROVE Stamped(found)'
    <3>1. CASE found \in NoExec
      BY <2>1, <3>1, NoExecStampedKeeps DEF Stamped
    <3>2. CASE found \notin NoExec
      BY <2>6, <3>2, CurrentStamped DEF Stamped
    <3> QED
      BY <3>1, <3>2
  <2>7. NewlyRestored
    BY <2>4, <2>6 DEF NewlyRestored, Covers, Current
  <2> QED
    BY <2>5, <2>7
<1> QED
  BY <1>1, <1>2

-----------------------------------------------------------------------------
(* What the steps do to what was updated.                                  *)

\* No turn that may not migrate becomes one that may.
LEMMA MayMigrateBack ==
    ASSUME [Next]_vars
    PROVE  MayMigrate' => MayMigrate
<1> USE DEF buildVars, runqVars, sceneVars, holdoffVars, hashVars, workerVars
<1>1. ASSUME WorkerExit PROVE MayMigrate' => MayMigrate
  BY <1>1 DEF WorkerExit, Exit, SetsceneExit, TaskComplete, TaskFail, HaltState, MayMigrate
<1>2. ASSUME NEW t \in Setscene, NEW D \in SUBSET PassedOver,
             \/ SceneNotNeeded(t, D) \/ SceneNeedHardDeps(t, D)
             \/ SceneSettle(t, D) \/ SceneStart(t, D)
      PROVE  MayMigrate' => MayMigrate
  BY <1>2 DEF SceneNotNeeded, SceneNeedHardDeps, SceneSettle, SceneStart, SceneChosen,
              SceneTurn, MayMigrate
<1>3. ASSUME NEW t \in Task,
             \/ SchedUnexpected(t) \/ SchedSkip(t) \/ SchedNoExec(t) \/ SchedStart(t)
      PROVE  MayMigrate' => MayMigrate
  BY <1>3 DEF SchedUnexpected, SchedSkip, SchedNoExec, SchedStart, HaltState, MayMigrate
<1>4. ASSUME \/ BeginTurn \/ CleanUp \/ EndRead \/ Teardown \/ NothingToMigrate
             \/ Holdoff \/ SchedNone \/ EndWait \/ Conclude \/ Stop \/ ForceStop
      PROVE  MayMigrate' => MayMigrate
  BY <1>4 DEF BeginTurn, CleanUp, EndRead, Teardown, NothingToMigrate, Holdoff, SchedNone,
              EndWait, Conclude, Stop, ForceStop, FinishedState, Reading, MayMigrate
<1>5. ASSUME \/ Migrate \/ SceneNone
             \/ \E i \in DOMAIN updated_taskhash_queue : ApplyUpdate(i)
             \/ \E t \in Setscene : EndForceDeferred(t)
             \/ \E t \in Task, h \in Hash : UniHashUpdate(t, h)
             \/ UNCHANGED vars
      PROVE  MayMigrate' => MayMigrate
  BY <1>5 DEF Migrate, SceneNone, ApplyUpdate, EndForceDeferred, UniHashUpdate, vars,
              MayMigrate
<1> QED
  BY <1>1, <1>2, <1>3, <1>4, <1>5 DEF Next, Turn, WorkerEvent, Over

\* Completing t leaves deferred what was, until what it was but t, or until one
\* that was deferred itself.
LEMMA CompleteDefers ==
    ASSUME TypeOK, NEW t \in Task, NEW disk, task_completeoutright(t, disk)
    PROVE  /\ runq_complete' = runq_complete \cup {t}
           /\ sq'.notcovered = sq.notcovered
           /\ holdoff_need_update => holdoff_need_update'
           /\ \A d \in DOMAIN sq_deferred' :
                 \/ /\ d \in DOMAIN sq_deferred /\ sq_deferred'[d] = sq_deferred[d]
                    /\ sq_deferred[d] # t
                 \/ sq_deferred'[d] \in DOMAIN sq_deferred
<1> DEFINE waiting == {d \in DOMAIN sq_deferred : sq_deferred[d] = t}
<1>1. runq_complete' = runq_complete \cup {t}
  BY DEF task_completeoutright
<1>2. sq'.notcovered = sq.notcovered /\ (holdoff_need_update => holdoff_need_update')
  BY CompleteDecides DEF Covers
<1>3. CASE waiting = {}
  <2>1. sq_deferred' = sq_deferred
    BY <1>3 DEF task_completeoutright
  <2> QED
    BY <1>1, <1>2, <1>3, <2>1
<1>4. CASE waiting # {}
  <2>1. PICK found \in waiting :
          LET kept == Restrict(sq_deferred, DOMAIN sq_deferred \ {found})
          IN  sq_deferred' = [d \in DOMAIN kept |->
                                IF d \in waiting THEN found ELSE kept[d]]
    BY <1>4 DEF task_completeoutright
  <2>2. sq_deferred' = [d \in DOMAIN sq_deferred \ {found} |->
                           IF d \in waiting THEN found ELSE sq_deferred[d]]
    BY <2>1 DEF Restrict
  <2>3. ASSUME NEW d \in DOMAIN sq_deferred'
        PROVE  \/ /\ d \in DOMAIN sq_deferred /\ sq_deferred'[d] = sq_deferred[d]
                  /\ sq_deferred[d] # t
               \/ sq_deferred'[d] \in DOMAIN sq_deferred
    BY <2>2, <2>3
  <2> QED
    BY <1>1, <1>2, <2>3
<1> QED
  BY <1>3, <1>4

\* A setscene task that waits or is started is not decided, nor is one passed over.
LEMMA SceneWaits ==
    ASSUME TypeOK, NEW t \in Setscene, NEW D \in SUBSET PassedOver,
           SceneNeedHardDeps(t, D) \/ SceneStart(t, D)
    PROVE  /\ sq'.covered = sq.covered /\ sq'.notcovered = sq.notcovered
           /\ sq'.notneeded = sq.notneeded
<1>1. D \in SUBSET Setscene
  BY DEF PassedOver, SceneCandidates, TypeOK, SceneRecord
<1> DEFINE q1 == PutAside(D)
           q2 == PutAside(D \cup {t})
<1>2. /\ q1 \in SceneRecord /\ q2 \in SceneRecord
      /\ q1.covered = sq.covered /\ q1.notcovered = sq.notcovered
      /\ q2.covered = sq.covered /\ q2.notcovered = sq.notcovered
      /\ q1.notneeded = sq.notneeded /\ q2.notneeded = sq.notneeded
  BY <1>1, PutAsideDecides, PutAsideNeeds
<1>3. \/ sq' = [q2 EXCEPT !.buildable = @ \cup (HardDepsRev[t] \ sq_needed_harddeps)]
      \/ sq' = [q1 EXCEPT !.running = @ \cup {t}]
  BY DEF SceneNeedHardDeps, SceneStart, MarkRunning
<1> HIDE DEF q1, q2
<1> QED
  BY <1>2, <1>3 DEF SceneRecord

LEMMA SceneNoneWaits ==
    ASSUME TypeOK, SceneNone
    PROVE  /\ sq'.covered = sq.covered /\ sq'.notcovered = sq.notcovered
           /\ sq'.notneeded = sq.notneeded
<1>1. PassedOver \in SUBSET Setscene
  BY DEF PassedOver, SceneCandidates, TypeOK, SceneRecord
<1>2. sq' = sq \/ sq' = PutAside(PassedOver)
  BY DEF SceneNone
<1> QED
  BY <1>1, <1>2, PutAsideDecides, PutAsideNeeds

\* Steps that update nothing, start nothing and decide more.
LEMMA RefusedKept ==
    ASSUME RefusedInv, MayMigrate' => MayMigrate,
           InProgress' \subseteq InProgress, sq.notcovered \subseteq sq'.notcovered,
           \A d \in DOMAIN sq_deferred' :
               d \in DOMAIN sq_deferred /\ sq_deferred'[d] = sq_deferred[d],
           holdoff_need_update => holdoff_need_update',
           UNCHANGED <<runq_complete, updated_taskhash_queue, tasks_notcovered>>
    PROVE  RefusedInv'
  BY DEF RefusedInv, UpdateOf

\* Completing a task: what it releases had not failed, so no update is of it.
LEMMA RefusedComplete ==
    ASSUME TypeOK, XorInv, RefusedInv, MayMigrate' => MayMigrate,
           NEW t \in Task, NEW disk, task_completeoutright(t, disk),
           InProgress' \subseteq InProgress,
           UNCHANGED <<updated_taskhash_queue, tasks_notcovered>>
    PROVE  RefusedInv'
<1> SUFFICES ASSUME MayMigrate' PROVE RefusedInv'
  BY DEF RefusedInv
<1>1. /\ runq_complete' = runq_complete \cup {t}
      /\ sq'.notcovered = sq.notcovered
      /\ holdoff_need_update => holdoff_need_update'
      /\ \A d \in DOMAIN sq_deferred' :
            \/ /\ d \in DOMAIN sq_deferred /\ sq_deferred'[d] = sq_deferred[d]
               /\ sq_deferred[d] # t
            \/ sq_deferred'[d] \in DOMAIN sq_deferred
  BY CompleteDefers
<1>2. /\ InProgress \cap Setscene \subseteq sq.notcovered
      /\ \A i \in DOMAIN updated_taskhash_queue :
            /\ UpdateOf(i) \in sq.notcovered
            /\ UpdateOf(i) \in runq_complete =>
                  \A d \in DOMAIN sq_deferred : sq_deferred[d] # UpdateOf(i)
      /\ holdoff_need_update \/ tasks_notcovered \cap Setscene \subseteq sq.notcovered
  BY DEF RefusedInv
<1>3. ASSUME NEW i \in DOMAIN updated_taskhash_queue, UpdateOf(i) \in runq_complete',
             NEW d \in DOMAIN sq_deferred'
      PROVE  sq_deferred'[d] # UpdateOf(i)
  <2>1. UpdateOf(i) \notin DOMAIN sq_deferred
    BY <1>2 DEF XorInv
  <2>2. CASE sq_deferred'[d] \in DOMAIN sq_deferred
    BY <2>1, <2>2
  <2>3. CASE /\ d \in DOMAIN sq_deferred /\ sq_deferred'[d] = sq_deferred[d]
             /\ sq_deferred[d] # t
    BY <1>1, <1>2, <1>3, <2>3
  <2> QED
    BY <1>1, <2>2, <2>3
<1> QED
  BY <1>1, <1>2, <1>3 DEF RefusedInv, UpdateOf

\* A migration undecides nothing that was started.
LEMMA RefusedMigrate ==
    ASSUME IInv, QueueInv, RefusedInv, Migrate
    PROVE  RefusedInv'
<1> SUFFICES ASSUME MayMigrate' PROVE RefusedInv'
  BY DEF RefusedInv
<1>0. /\ TypeOK /\ stage = "migrate" /\ stage' = "scene" /\ state' = "RUNNING"
      /\ Applicable = {}
      /\ UNCHANGED <<runq_running, runq_complete, updated_taskhash_queue, tasks_notcovered>>
  BY DEF IInv, Migrate, MayMigrate
<1> PICK mig, C, F : Migrates(mig, C, F)
  BY <1>0, MigrateDecides
<1>1. /\ sq'.notcovered = (sq.notcovered \ mig) \cup F
      /\ mig \cap runq_running = {}
      /\ holdoff_need_update' = TRUE \/ (mig = {} /\ UNCHANGED holdoff_need_update)
  BY <1>0 DEF Migrates
<1>2. /\ InProgress \cap Setscene \subseteq sq.notcovered
      /\ \A i \in DOMAIN updated_taskhash_queue : UpdateOf(i) \in sq.notcovered
      /\ holdoff_need_update \/ tasks_notcovered \cap Setscene \subseteq sq.notcovered
  BY <1>0 DEF RefusedInv, MayMigrate
<1>3. InProgress' = InProgress /\ InProgress \subseteq runq_running
  BY <1>0 DEF InProgress
<1>4. \A i \in DOMAIN updated_taskhash_queue :
         UpdateOf(i) \in InProgress /\ UpdateOf(i) \in runq_running
  BY <1>0, <1>3 DEF Applicable, UpdateOf
<1>5. \A i \in DOMAIN updated_taskhash_queue :
         UpdateOf(i) \in sq'.notcovered /\ UpdateOf(i) \notin runq_complete
  BY <1>1, <1>2, <1>4 DEF InProgress
<1>6. InProgress' \cap Setscene \subseteq sq'.notcovered
  BY <1>1, <1>2, <1>3
<1>7. holdoff_need_update' \/ tasks_notcovered' \cap Setscene \subseteq sq'.notcovered
  BY <1>0, <1>1, <1>2
<1> QED
  BY <1>0, <1>5, <1>6, <1>7 DEF RefusedInv, UpdateOf

\* RefusedInv is inductive: what the scheduler starts is not covered.
LEMMA RefusedStep ==
    ASSUME IInv, SInv, XorInv, QueueInv, RefusedInv, [Next]_vars
    PROVE  RefusedInv'
<1>0. /\ TypeOK /\ OrderInv /\ LiveInv /\ ProcessInv /\ Apart /\ TurnInv
      /\ MayMigrate' => MayMigrate
  BY MayMigrateBack DEF IInv, SInv
<1>1. ASSUME WorkerExit PROVE RefusedInv'
  <2> PICK kind \in Kind, t \in Task, h \in Hash, ok \in BOOLEAN : Exit(kind, t, h, ok)
    BY <1>1 DEF WorkerExit
  <2> DEFINE disk == StampsLeft(kind, t, h, ok)
  <2>1. /\ UNCHANGED <<updated_taskhash_queue, tasks_notcovered>>
        /\ TaskComplete(t, disk) \/ TaskFail(t) \/ SetsceneExit(t, ok, disk)
    BY DEF Exit, hashVars
  <2> HIDE DEF disk
  <2>2. CASE TaskComplete(t, disk)
    <3>1. task_completeoutright(t, disk) /\ UNCHANGED runq_running
      BY <2>2 DEF TaskComplete
    <3>2. InProgress' \subseteq InProgress
      BY <1>0, <3>1, CompleteDefers DEF InProgress
    <3> QED
      BY <1>0, <2>1, <3>1, <3>2, RefusedComplete
  <2>3. CASE TaskFail(t)
    BY <1>0, <2>1, <2>3, RefusedKept DEF TaskFail, InProgress
  <2>4. CASE SetsceneExit(t, ok, disk)
    <3>1. sq.notcovered \subseteq sq'.notcovered
      BY <1>0, <2>4, ExitOneWay DEF DecidesOn, Decides
    <3>2. /\ UNCHANGED <<runq_running, runq_complete, sq_deferred>>
          /\ holdoff_need_update' = TRUE
      BY <2>4 DEF SetsceneExit, runqVars
    <3> QED
      BY <1>0, <2>1, <3>1, <3>2, RefusedKept DEF InProgress
  <2> QED
    BY <2>1, <2>2, <2>3, <2>4
<1>2. ASSUME NEW t \in Task, NEW h \in Hash, UniHashUpdate(t, h) PROVE RefusedInv'
  <2>1. /\ updated_taskhash_queue' = Append(updated_taskhash_queue, <<t, h>>)
        /\ UNCHANGED <<state, stage, runq_running, runq_complete, sq, sq_deferred,
                       tasks_notcovered, holdoff_need_update>>
        /\ t \in Setscene /\ t \in InProgress
    BY <1>0, <1>2 DEF UniHashUpdate, Inflight, ProcessInv, runqVars, sceneVars, holdoffVars
  <2>2. updated_taskhash_queue \in Seq(Task \X Hash)
    BY <1>0 DEF TypeOK
  <2>3. \A i \in DOMAIN updated_taskhash_queue' :
           \/ i \in DOMAIN updated_taskhash_queue
              /\ updated_taskhash_queue'[i] = updated_taskhash_queue[i]
           \/ updated_taskhash_queue'[i] = <<t, h>>
    BY <2>1, <2>2
  <2>4. t \notin runq_complete /\ (MayMigrate => t \in sq.notcovered)
    BY <2>1 DEF RefusedInv, InProgress
  <2> QED
    BY <2>1, <2>3, <2>4 DEF RefusedInv, UpdateOf, MayMigrate, InProgress
<1>3. ASSUME NEW i \in DOMAIN updated_taskhash_queue, ApplyUpdate(i) PROVE RefusedInv'
  <2>1. /\ updated_taskhash_queue' = Without(updated_taskhash_queue, i)
        /\ UNCHANGED <<state, stage, runq_running, runq_complete, sq, sq_deferred,
                       tasks_notcovered, holdoff_need_update>>
    BY <1>3 DEF ApplyUpdate, runqVars, sceneVars, holdoffVars
  <2>2. updated_taskhash_queue \in Seq(Task \X Hash)
    BY <1>0 DEF TypeOK
  <2>3. \A j \in DOMAIN updated_taskhash_queue' : \E k \in DOMAIN updated_taskhash_queue :
           updated_taskhash_queue'[j] = updated_taskhash_queue[k]
    BY <2>1, <2>2, LeftInQueue
  <2> QED
    BY <2>1, <2>3 DEF RefusedInv, UpdateOf, MayMigrate, InProgress
<1>4. ASSUME NEW t \in Setscene, NEW D \in SUBSET PassedOver,
             \/ SceneNotNeeded(t, D) \/ SceneNeedHardDeps(t, D)
             \/ SceneSettle(t, D) \/ SceneStart(t, D)
      PROVE  RefusedInv'
  <2>1. /\ UNCHANGED <<runq_running, runq_complete, updated_taskhash_queue, tasks_notcovered>>
        /\ holdoff_need_update => holdoff_need_update'
    <3>1. SceneTurn(t, D)
      BY <1>4 DEF SceneNotNeeded, SceneNeedHardDeps, SceneSettle, SceneStart, SceneChosen
    <3>2. holdoff_need_update' = TRUE \/ holdoff_need_update' = holdoff_need_update
      BY <1>4 DEF SceneNotNeeded, SceneNeedHardDeps, SceneSettle, SceneStart
    <3> QED
      BY <3>1, <3>2 DEF SceneTurn, runqVars, hashVars
  <2>2. \A d \in DOMAIN sq_deferred' :
           d \in DOMAIN sq_deferred /\ sq_deferred'[d] = sq_deferred[d]
    BY <1>4 DEF SceneNotNeeded, SceneNeedHardDeps, SceneSettle, SceneStart, SceneChosen,
                Restrict
  <2>3. sq.notcovered \subseteq sq'.notcovered
    <3>1. CASE SceneNotNeeded(t, D) \/ SceneSettle(t, D)
      BY <1>0, <3>1, SettleOneWay DEF DecidesOn, Decides
    <3>2. CASE SceneNeedHardDeps(t, D) \/ SceneStart(t, D)
      BY <1>0, <3>2, SceneWaits
    <3> QED
      BY <1>4, <3>1, <3>2
  <2> QED
    BY <1>0, <2>1, <2>2, <2>3, RefusedKept DEF InProgress
<1>5. ASSUME SceneNone PROVE RefusedInv'
  <2>1. sq'.notcovered = sq.notcovered
    BY <1>0, <1>5, SceneNoneWaits
  <2> QED
    BY <1>0, <1>5, <2>1, RefusedKept DEF SceneNone, InProgress, runqVars, hashVars, holdoffVars
<1>6. ASSUME Holdoff PROVE RefusedInv'
  <2>1. /\ UNCHANGED <<runq_running, runq_complete, sq, sq_deferred, updated_taskhash_queue>>
        /\ \/ tasks_notcovered' = NotCoveredTasks
           \/ UNCHANGED <<tasks_notcovered, holdoff_need_update>>
    BY <1>6 DEF Holdoff, update_holdofftasks, hashVars, holdoffVars
  <2>2. NotCoveredTasks \cap Setscene \subseteq sq.notcovered
    BY <1>0, NotCoveredSetscene
  <2> QED
    BY <1>0, <2>1, <2>2 DEF RefusedInv, UpdateOf, InProgress
<1>7. ASSUME NEW t \in Task, SchedSkip(t) \/ SchedNoExec(t) PROVE RefusedInv'
  <2>1. /\ runq_running' = runq_running \cup {t}
        /\ UNCHANGED <<updated_taskhash_queue, tasks_notcovered>>
    BY <1>7 DEF SchedSkip, SchedNoExec, Sched, hashVars
  <2> PICK disk : task_completeoutright(t, disk)
    BY <1>7 DEF SchedSkip, SchedNoExec
  <2>2. InProgress' \subseteq InProgress
    BY <1>0, <2>1, CompleteDefers DEF InProgress
  <2> QED
    BY <1>0, <2>1, <2>2, RefusedComplete
<1>8. ASSUME NEW t \in Task, SchedStart(t) PROVE RefusedInv'
  <2>1. /\ runq_running' = runq_running \cup {t}
        /\ t \in tasks_notcovered /\ stage = "sched"
        /\ UNCHANGED <<runq_complete, sq, sq_deferred, holdoff_need_update,
                       updated_taskhash_queue, tasks_notcovered>>
    BY <1>8 DEF SchedStart, Sched, Runnable, hashVars
  <2>2. ~holdoff_need_update
    BY <1>0, <2>1 DEF TurnInv
  <2>3. InProgress' \subseteq InProgress \cup {t}
    BY <2>1 DEF InProgress
  <2> QED
    BY <1>0, <2>1, <2>2, <2>3 DEF RefusedInv, UpdateOf
<1>9. ASSUME \/ \E t \in Setscene : EndForceDeferred(t)
             \/ \E t \in Task : SchedUnexpected(t)
      PROVE  RefusedInv'
  <2>1. /\ UNCHANGED <<runq_running, runq_complete, sq, updated_taskhash_queue,
                       tasks_notcovered, holdoff_need_update>>
        /\ \A d \in DOMAIN sq_deferred' :
              d \in DOMAIN sq_deferred /\ sq_deferred'[d] = sq_deferred[d]
    BY <1>9 DEF EndForceDeferred, SchedUnexpected, Sched, Restrict, runqVars, hashVars,
                holdoffVars
  <2> QED
    BY <1>0, <2>1, RefusedKept DEF InProgress
<1>10. ASSUME \/ BeginTurn \/ CleanUp \/ EndRead \/ Teardown \/ NothingToMigrate
              \/ SchedNone \/ EndWait \/ Conclude \/ Stop \/ ForceStop
              \/ UNCHANGED vars
       PROVE  RefusedInv'
  <2>1. UNCHANGED <<runq_running, runq_complete, sq, sq_deferred, updated_taskhash_queue,
                    tasks_notcovered, holdoff_need_update>>
    BY <1>10 DEF BeginTurn, CleanUp, EndRead, Teardown, NothingToMigrate, SchedNone, EndWait,
                 Conclude, Stop, ForceStop, vars, buildVars, runqVars, sceneVars, hashVars,
                 holdoffVars
  <2> QED
    BY <1>0, <2>1, RefusedKept DEF InProgress
<1> QED
  BY <1>1, <1>2, <1>3, <1>4, <1>5, <1>6, <1>7, <1>8, <1>9, <1>10, RefusedMigrate
     DEF Next, Turn, WorkerEvent, Over

\* Steps that neither update nor start anything, nor begin to look at the scene
\* queue.
LEMMA QueueKept ==
    ASSUME QueueInv, toprocess = {},
           \/ UNCHANGED stage
           \/ stage' \in {"holdoff", "sched"} /\ stage \in {"scene", "holdoff"}
           \/ stage' \notin {"scene", "holdoff", "sched"},
           UNCHANGED <<runq_running, updated_taskhash_queue, toprocess>>,
           \/ UNCHANGED runq_complete
           \/ stage' \notin {"scene", "holdoff", "sched"}
    PROVE  QueueInv'
  BY DEF QueueInv, UpdateOf, InProgress

\* An update taken from the queue: what nothing started depends on.
LEMMA QueueApply ==
    ASSUME IInv, QueueInv, RefusedInv,
           NEW i \in DOMAIN updated_taskhash_queue, ApplyUpdate(i)
    PROVE  /\ UpdateOf(i) \in runq_complete /\ UpdateOf(i) \in sq.notcovered
           /\ \A x \in Task : unihash'[x] # unihash[x] => x = UpdateOf(i)
           /\ toprocess' \subseteq toprocess \cup {UpdateOf(i)}
<1> DEFINE torehash == {UpdateOf(i)}
                         \cup {d \in DOMAIN sq_deferred : sq_deferred[d] = UpdateOf(i)}
           h == updated_taskhash_queue[i][2]
<1>1. /\ i \in Applicable /\ stage = "migrate"
      /\ \/ UNCHANGED <<unihash, toprocess>>
         \/ /\ unihash' = [x \in Task |-> IF x \in torehash THEN h ELSE unihash[x]]
            /\ toprocess' = toprocess \cup torehash
  BY DEF ApplyUpdate, UpdateOf
<1>2. UpdateOf(i) \in runq_complete
  BY <1>1 DEF QueueInv, Applicable, UpdateOf, InProgress
<1>3. /\ UpdateOf(i) \in sq.notcovered
      /\ \A d \in DOMAIN sq_deferred : sq_deferred[d] # UpdateOf(i)
  BY <1>1, <1>2 DEF RefusedInv, MayMigrate
<1>4. torehash = {UpdateOf(i)}
  BY <1>3
<1> HIDE DEF torehash, h
<1> QED
  BY <1>1, <1>2, <1>3, <1>4

\* QueueInv is inductive.
LEMMA QueueStep ==
    ASSUME IInv, SInv, QueueInv, RefusedInv, [Next]_vars
    PROVE  QueueInv'
<1>0. TypeOK /\ OrderInv /\ ProcessInv /\ TurnInv /\ (stage # "migrate" => toprocess = {})
  BY DEF IInv, SInv, QueueInv
<1>1. ASSUME WorkerExit PROVE QueueInv'
  <2>1. /\ UNCHANGED <<stage, runq_running, updated_taskhash_queue, toprocess>>
        /\ stage \in {"read", "wait"}
    BY <1>1 DEF WorkerExit, Exit, Reading, SetsceneExit, TaskComplete, TaskFail, runqVars,
                hashVars
  <2> QED
    BY <1>0, <2>1, QueueKept
<1>2. ASSUME NEW t \in Task, NEW h \in Hash, UniHashUpdate(t, h) PROVE QueueInv'
  <2>1. /\ updated_taskhash_queue' = Append(updated_taskhash_queue, <<t, h>>)
        /\ UNCHANGED <<stage, runq_running, runq_complete, toprocess>>
        /\ stage \in {"read", "wait"}
        /\ t \in Setscene /\ t \in InProgress
    BY <1>0, <1>2 DEF UniHashUpdate, Reading, Inflight, ProcessInv, runqVars, hashVars
  <2>2. updated_taskhash_queue \in Seq(Task \X Hash)
    BY <1>0 DEF TypeOK
  <2>3. \A i \in DOMAIN updated_taskhash_queue' :
           \/ i \in DOMAIN updated_taskhash_queue
              /\ updated_taskhash_queue'[i] = updated_taskhash_queue[i]
           \/ updated_taskhash_queue'[i] = <<t, h>>
    BY <2>1, <2>2
  <2>4. RevDeps(t) \cap runq_running = {} /\ t \in runq_running
    BY <1>0, <2>1 DEF InProgress, OrderInv, RevDeps
  <2> QED
    BY <1>0, <2>1, <2>3, <2>4 DEF QueueInv, UpdateOf
<1>3. ASSUME NEW i \in DOMAIN updated_taskhash_queue, ApplyUpdate(i) PROVE QueueInv'
  <2>1. /\ updated_taskhash_queue' = Without(updated_taskhash_queue, i)
        /\ UNCHANGED <<stage, runq_running>> /\ stage = "migrate"
    BY <1>3 DEF ApplyUpdate, runqVars
  <2>2. updated_taskhash_queue \in Seq(Task \X Hash)
    BY <1>0 DEF TypeOK
  <2>3. \A j \in DOMAIN updated_taskhash_queue' : \E k \in DOMAIN updated_taskhash_queue :
           updated_taskhash_queue'[j] = updated_taskhash_queue[k]
    BY <2>1, <2>2, LeftInQueue
  <2>4. toprocess' \subseteq toprocess \cup {UpdateOf(i)}
    BY <1>3, QueueApply
  <2> QED
    BY <2>1, <2>3, <2>4 DEF QueueInv, UpdateOf
<1>4. ASSUME Migrate PROVE QueueInv'
  <2>1. /\ UNCHANGED <<runq_running, runq_complete, updated_taskhash_queue>>
        /\ toprocess' = {} /\ stage' = "scene"
        /\ \A i \in DOMAIN updated_taskhash_queue : UpdateOf(i) \in InProgress
    BY <1>4 DEF Migrate, Applicable, UpdateOf
  <2> QED
    BY <2>1 DEF QueueInv, UpdateOf, InProgress
<1>5. ASSUME NothingToMigrate PROVE QueueInv'
  BY <1>5 DEF NothingToMigrate, QueueInv, buildVars, runqVars, hashVars
<1>6. ASSUME NEW t \in Setscene, NEW D \in SUBSET PassedOver,
             \/ SceneNotNeeded(t, D) \/ SceneNeedHardDeps(t, D)
             \/ SceneSettle(t, D) \/ SceneStart(t, D)
      PROVE  QueueInv'
  <2>1. SceneTurn(t, D) /\ stage' \in {"turn", "holdoff"}
    BY <1>6 DEF SceneNotNeeded, SceneNeedHardDeps, SceneSettle, SceneStart, SceneChosen
  <2>2. /\ UNCHANGED <<runq_running, runq_complete, updated_taskhash_queue, toprocess>>
        /\ stage = "scene"
    BY <2>1 DEF SceneTurn, runqVars, hashVars
  <2> QED
    BY <1>0, <2>1, <2>2, QueueKept
<1>7. ASSUME SceneNone \/ Holdoff PROVE QueueInv'
  <2>1. /\ UNCHANGED <<runq_running, runq_complete, updated_taskhash_queue, toprocess>>
        /\ stage \in {"scene", "holdoff"} /\ stage' \in {"holdoff", "sched", "turn"}
    BY <1>7 DEF SceneNone, Holdoff, runqVars, hashVars
  <2> QED
    BY <1>0, <2>1, QueueKept
<1>8. ASSUME NEW t \in Task,
             \/ SchedUnexpected(t) \/ SchedSkip(t) \/ SchedNoExec(t) \/ SchedStart(t)
      PROVE  QueueInv'
  <2>1. Sched(t) /\ stage' \in {"turn", "end"}
        /\ runq_running' \in {runq_running, runq_running \cup {t}}
    BY <1>8 DEF SchedUnexpected, SchedSkip, SchedNoExec, SchedStart
  <2>2. stage = "sched" /\ UNCHANGED <<updated_taskhash_queue, toprocess>>
    BY <2>1 DEF Sched, hashVars
  <2>3. Depends[t] \subseteq runq_complete
    BY <2>1, SchedReady
  <2>4. \A i \in DOMAIN updated_taskhash_queue : t \notin RevDeps(UpdateOf(i))
    BY <2>2, <2>3 DEF QueueInv, InProgress, RevDeps
  <2> QED
    BY <1>0, <2>1, <2>2, <2>4 DEF QueueInv, UpdateOf
<1>9. ASSUME \/ BeginTurn \/ CleanUp \/ EndRead \/ Teardown
             \/ SchedNone \/ EndWait \/ Conclude \/ Stop \/ ForceStop
             \/ \E t \in Setscene : EndForceDeferred(t)
      PROVE  QueueInv'
  <2>1. /\ UNCHANGED <<runq_running, runq_complete, updated_taskhash_queue, toprocess>>
        /\ stage # "migrate" /\ stage' \notin {"scene", "holdoff", "sched"}
    BY <1>9 DEF BeginTurn, CleanUp, EndRead, Teardown, SchedNone, EndWait, Conclude, Stop,
                ForceStop, EndForceDeferred, Reading, buildVars, runqVars, hashVars
  <2> QED
    BY <1>0, <2>1, QueueKept
<1>10. ASSUME UNCHANGED vars PROVE QueueInv'
  BY <1>10 DEF vars, buildVars, runqVars, hashVars, QueueInv, UpdateOf, InProgress
<1> QED
  BY <1>1, <1>2, <1>3, <1>4, <1>5, <1>6, <1>7, <1>8, <1>9, <1>10
     DEF Next, Turn, WorkerEvent, Over

-----------------------------------------------------------------------------
(* No hash changes under a process, or under what it left.                 *)

\* What was restored stays so if the step keeps its stamp, and if what it restores
\* in addition has one.
LEMMA RestoredAgain ==
    ASSUME RestoredHashKept, NewlyRestored,
           \A t \in sq.covered \ sq.notneeded : Stamped(t)'
    PROVE  RestoredHashKept'
  BY DEF RestoredHashKept, NewlyRestored, Stamped

\* A migration covers what has a stamp, which it makes for noexec tasks.
LEMMA MigrateStamps ==
    ASSUME TypeOK, Migrate
    PROVE  /\ NewlyRestored /\ sq'.notneeded \subseteq sq.notneeded
           /\ stamps' = stamps \/ \E mig : stamps' = NoExecStamped(stamps, mig, unihash')
<1> USE DEF NewlyRestored
<1>1. PICK pend, mig, rerun, changed :
         /\ mig \in SUBSET Setscene
         /\ \/ HaltOnRerun(pend, mig, rerun, unihash')
            \/ Rejudge(pend, mig, changed, unihash')
  <2>1. PICK newhash \in [Dependants(toprocess) -> Hash] :
           LET changed == Rehashed(newhash, unihash)
               pend == pending_migrations \cup (changed \cap Setscene)
               mig == pend \ (TooLate(pend) \cup Blocked(pend))
               rerun == {t \in mig : sq_covered_tasks[t] \cap
                                        (runq_complete \ runq_tasksrun) # {}}
           IN  IF rerun # {} THEN HaltOnRerun(pend, mig, rerun, unihash')
               ELSE Rejudge(pend, mig, changed, unihash')
    BY DEF Migrate
  <2> DEFINE changed == Rehashed(newhash, unihash)
             pend == pending_migrations \cup (changed \cap Setscene)
             mig == pend \ (TooLate(pend) \cup Blocked(pend))
             rerun == {t \in mig : sq_covered_tasks[t] \cap
                                      (runq_complete \ runq_tasksrun) # {}}
  <2>2. mig \in SUBSET Setscene
    BY DEF TypeOK
  <2>3. HaltOnRerun(pend, mig, rerun, unihash') \/ Rejudge(pend, mig, changed, unihash')
    BY <2>1
  <2> HIDE DEF changed, pend, mig, rerun
  <2> QED
    BY <2>2, <2>3
<1>2. CASE HaltOnRerun(pend, mig, rerun, unihash')
  <2>1. PICK before, gone :
           /\ before \in SUBSET mig
           /\ sq' = [Unsettle(before) EXCEPT !.done = @ \ gone]
           /\ stamps' = stamps
    BY <1>2 DEF HaltOnRerun
  <2>2. /\ Unsettle(before) \in SceneRecord
        /\ Unsettle(before).covered = sq.covered \ before
        /\ Unsettle(before).notneeded = sq.notneeded \ before
    <3>1. before \in SUBSET Setscene
      BY <1>1, <2>1
    <3> QED
      BY <3>1, UnsettleType, UnsettleDecides, UnsettleNeeds DEF TypeOK
  <2>3. /\ sq'.covered = Unsettle(before).covered
        /\ sq'.notneeded = Unsettle(before).notneeded
    BY <2>1, <2>2 DEF SceneRecord
  <2> QED
    BY <2>1, <2>2, <2>3
<1>3. CASE Rejudge(pend, mig, changed, unihash')
  <2>1. stamps' = NoExecStamped(stamps, mig, unihash')
    BY <1>3 DEF Rejudge
  <2>2. CASE mig = {}
    <3>1. sq' = sq \/ sq' = [sq EXCEPT !.harddep_deferred = {}]
      BY <1>3, <2>2 DEF Rejudge
    <3>2. sq'.covered = sq.covered /\ sq'.notneeded = sq.notneeded
      BY <3>1 DEF TypeOK, SceneRecord
    <3> QED
      BY <2>1, <3>2
  <2>3. CASE mig # {}
    <3> DEFINE C == Current(mig, unihash', stamps')
    <3>1. PICK valid : sq' = Resettle(mig, unihash', sq_deferred', valid, stamps')
      BY <1>3, <2>3 DEF Rejudge
    <3>2. /\ sq'.covered = (sq.covered \ mig) \cup C
          /\ sq'.notneeded = sq.notneeded \ mig
      <4> DEFINE r == Resettle(mig, unihash', sq_deferred', valid, stamps')
      <4>1. /\ Remade(r, mig, C, MigrationFailures(mig, unihash', stamps'))
            /\ r.notneeded = sq.notneeded \ mig
        BY <1>1, ResettleDecides, ResettleNeeds DEF TypeOK
      <4> HIDE DEF C
      <4>2. r.covered = (sq.covered \ mig) \cup C
        BY <4>1 DEF Remade
      <4> HIDE DEF r
      <4>3. sq' = r
        BY <3>1 DEF r
      <4> QED
        BY <4>1, <4>2, <4>3
    <3>3. ASSUME NEW t \in C PROVE Stamped(t)'
      <4>1. t \in mig /\ NothingToRestore(t, unihash', stamps')
        BY <3>3 DEF Current
      <4>2. CASE t \in NoExec
        BY <2>1, <4>1, <4>2, NoExecStampedKeeps DEF Stamped
      <4>3. CASE t \notin NoExec
        BY <4>1, <4>3, CurrentStamped DEF Stamped
      <4> QED
        BY <4>2, <4>3
    <3> HIDE DEF C
    <3> QED
      BY <2>1, <3>2, <3>3
  <2> QED
    BY <2>2, <2>3
<1> QED
  BY <1>1, <1>2, <1>3

\* HashKeptWhileRunning is inductive: an update is applied once its task is done,
\* and a migration rehashes only what nothing started, nor restoring, stands for.
LEMMA HashWorkerStep ==
    ASSUME IInv, SInv, QueueInv, RefusedInv, HashKeptWhileRunning, [Next]_vars
    PROVE  HashKeptWhileRunning'
<1>0. /\ TypeOK /\ ProcessInv /\ LiveInv
      /\ \A w \in worker : /\ w[2] \in Task
                           /\ w[2] \in InProgress \/ w[2] \in sq_live
  <2>1. TypeOK /\ ProcessInv /\ LiveInv
    BY DEF IInv, SInv
  <2>2. ASSUME NEW w \in worker
        PROVE  w[2] \in Task /\ (w[2] \in InProgress \/ w[2] \in sq_live)
    <3>1. w \in Kind \X Task \X Hash
      BY <2>1 DEF TypeOK
    <3>2. PICK kind \in Kind, t \in Task, h \in Hash : w = <<kind, t, h>>
      BY <3>1
    <3> QED
      BY <2>1, <3>2 DEF ProcessInv, Kind
  <2> QED
    BY <2>1, <2>2
<1>1. ASSUME worker' \subseteq worker, UNCHANGED unihash PROVE HashKeptWhileRunning'
  BY <1>1 DEF HashKeptWhileRunning
<1>2. ASSUME NEW t, NEW kind, worker' = worker \cup {<<kind, t, unihash[t]>>},
             UNCHANGED unihash
      PROVE  HashKeptWhileRunning'
  BY <1>2 DEF HashKeptWhileRunning
<1>3. ASSUME NEW i \in DOMAIN updated_taskhash_queue, ApplyUpdate(i)
      PROVE  HashKeptWhileRunning'
  <2>1. UNCHANGED worker
    BY <1>3 DEF ApplyUpdate, workerVars
  <2>2. /\ UpdateOf(i) \in runq_complete /\ UpdateOf(i) \in sq.notcovered
        /\ \A x \in Task : unihash'[x] # unihash[x] => x = UpdateOf(i)
    BY <1>3, QueueApply
  <2>3. \A w \in worker : w[2] # UpdateOf(i)
    BY <1>0, <2>2 DEF InProgress, LiveInv, Decided
  <2> QED
    BY <1>0, <2>1, <2>2, <2>3 DEF HashKeptWhileRunning
<1>4. ASSUME Migrate PROVE HashKeptWhileRunning'
  <2>1. UNCHANGED worker
    BY <1>4 DEF Migrate
  <2>2. Dependants(toprocess) \cap runq_running = {}
    BY DependantsFree DEF QueueInv
  <2>3. ASSUME NEW w \in worker PROVE unihash'[w[2]] = unihash[w[2]]
    BY <1>0, <1>4, <2>2, MigrateHashes DEF InProgress
  <2> QED
    BY <2>1, <2>3 DEF HashKeptWhileRunning
<1>5. ASSUME WorkerExit \/ ForceStop PROVE HashKeptWhileRunning'
  BY <1>1, <1>5 DEF WorkerExit, Exit, ForceStop, hashVars
<1>6. ASSUME NEW t \in Setscene, NEW D \in SUBSET PassedOver,
             \/ SceneNotNeeded(t, D) \/ SceneNeedHardDeps(t, D)
             \/ SceneSettle(t, D) \/ SceneStart(t, D)
      PROVE  HashKeptWhileRunning'
  <2>1. UNCHANGED unihash
    <3>1. SceneTurn(t, D)
      BY <1>6 DEF SceneNotNeeded, SceneNeedHardDeps, SceneSettle, SceneStart, SceneChosen
    <3> QED
      BY <3>1 DEF SceneTurn, hashVars
  <2>2. \/ UNCHANGED worker
        \/ worker' = worker \cup {<<"scene", t, unihash[t]>>}
    BY <1>6 DEF SceneNotNeeded, SceneNeedHardDeps, SceneSettle, SceneStart
  <2> QED
    BY <1>1, <1>2, <2>1, <2>2
<1>7. ASSUME NEW t \in Task,
             \/ SchedUnexpected(t) \/ SchedSkip(t) \/ SchedNoExec(t) \/ SchedStart(t)
      PROVE  HashKeptWhileRunning'
  <2>1. UNCHANGED unihash
    BY <1>7 DEF SchedUnexpected, SchedSkip, SchedNoExec, SchedStart, Sched, hashVars
  <2>2. \/ UNCHANGED worker
        \/ worker' = worker \cup {<<"real", t, unihash[t]>>}
    BY <1>7 DEF SchedUnexpected, SchedSkip, SchedNoExec, SchedStart
  <2> QED
    BY <1>1, <1>2, <2>1, <2>2
<1>8. ASSUME \/ BeginTurn \/ CleanUp \/ EndRead \/ Teardown \/ NothingToMigrate
             \/ SceneNone \/ Holdoff \/ SchedNone \/ EndWait \/ Conclude \/ Stop
             \/ \E t \in Setscene : EndForceDeferred(t)
             \/ \E t \in Task, h \in Hash : UniHashUpdate(t, h)
             \/ UNCHANGED vars
      PROVE  HashKeptWhileRunning'
  <2>1. UNCHANGED <<worker, unihash>>
    BY <1>8 DEF BeginTurn, CleanUp, EndRead, Teardown, NothingToMigrate, SceneNone, Holdoff,
                SchedNone, EndWait, Conclude, Stop, EndForceDeferred, UniHashUpdate, vars,
                buildVars, hashVars, workerVars
  <2> QED
    BY <1>1, <2>1
<1> QED
  BY <1>3, <1>4, <1>5, <1>6, <1>7, <1>8 DEF Next, Turn, WorkerEvent, Over

\* A setscene process that ends well leaves its task's stamp.
LEMMA ExitStamps ==
    ASSUME TypeOK, NEW t \in Task, NEW ok \in BOOLEAN,
           SetsceneExit(t, ok, StampsLeft("scene", t, unihash[t], ok)), UNCHANGED unihash
    PROVE  NewlyRestored
<1>1. t \in Setscene
  BY DEF TypeOK, SetsceneExit
<1>2. CASE ok
  <2> DEFINE q2 == [sq EXCEPT !.covered = @ \cup {t}]
  <2>1. /\ q2 \in SceneRecord
        /\ q2.covered = sq.covered \cup {t} /\ q2.notneeded = sq.notneeded
    BY <1>1 DEF TypeOK, SceneRecord
  <2>2. sq' = UpdateCounters(q2, {t})
    BY <1>2 DEF SetsceneExit, sq_task_completeoutright
  <2> HIDE DEF q2
  <2>3. sq'.covered = q2.covered /\ sq'.notneeded = q2.notneeded
    BY <2>1, <2>2, UpdateCountersDecides, CountersNeeds
  <2>4. stamps' = WithStamp(stamps, "scene", t, unihash[t])
    BY <1>2 DEF SetsceneExit, StampsLeft
  <2>5. Stamped(t)'
    BY <2>4 DEF WithStamp, Stamped
  <2> QED
    BY <2>1, <2>3, <2>5 DEF NewlyRestored
<1>3. CASE ~ok
  <2> DEFINE failed == [sq EXCEPT !.notcovered = @ \cup {t}]
             rest == HardFailures(failed, {t}, unihash, stamps') \ {t}
             q2 == [failed EXCEPT !.running = @ \cup rest,
                                  !.buildable = @ \cup rest,
                                  !.notcovered = @ \cup rest]
  <2>1. /\ failed \in SceneRecord
        /\ failed.covered = sq.covered /\ failed.notneeded = sq.notneeded
    BY <1>1 DEF TypeOK, SceneRecord
  <2>2. sq' = UpdateCounters(q2, rest \cup {t})
    BY <1>3 DEF SetsceneExit
  <2> HIDE DEF failed
  <2>3. rest \in SUBSET Setscene
    BY DEF HardFailures
  <2> HIDE DEF rest
  <2>4. /\ q2 \in SceneRecord
        /\ q2.covered = failed.covered /\ q2.notneeded = failed.notneeded
    BY <2>1, <2>3 DEF SceneRecord
  <2> HIDE DEF q2
  <2>5. sq'.covered = sq.covered /\ sq'.notneeded = sq.notneeded
    BY <2>1, <2>2, <2>4, UpdateCountersDecides, CountersNeeds
  <2> QED
    BY <2>5 DEF NewlyRestored
<1> QED
  BY <1>2, <1>3

\* A setscene task is skipped for its stamp, or because nothing needs it.
LEMMA SettleStamps ==
    ASSUME TypeOK, NEW t \in Setscene, NEW D \in SUBSET PassedOver,
           SceneNotNeeded(t, D) \/ SceneSettle(t, D), UNCHANGED <<unihash, stamps>>
    PROVE  NewlyRestored
<1> DEFINE q == PutAside(D)
           q2 == sq_task_skip(q, {t})
<1>1. D \in SUBSET Setscene
  BY DEF PassedOver, SceneCandidates, TypeOK, SceneRecord
<1>2. q \in SceneRecord /\ q.covered = sq.covered /\ q.notneeded = sq.notneeded
  BY <1>1, PutAsideDecides, PutAsideNeeds
<1>3. \/ sq' = [q2 EXCEPT !.notneeded = @ \cup {t}]
      \/ sq' = sq_task_failoutright(q, {t}, unihash, stamps)
      \/ sq' = q2 /\ SceneStampCurrent(t, unihash, stamps)
  BY DEF SceneNotNeeded, SceneSettle
<1> HIDE DEF q
<1>4. /\ q2 \in SceneRecord /\ q2.covered = q.covered \cup {t}
      /\ q2.notneeded = q.notneeded
  BY <1>2, SkipType, SkipDecides, SkipNeeds
<1> HIDE DEF q2
<1>5. CASE sq' = [q2 EXCEPT !.notneeded = @ \cup {t}]
  <2>1. sq'.covered = q2.covered /\ sq'.notneeded = q2.notneeded \cup {t}
    BY <1>4, <1>5 DEF SceneRecord
  <2> QED
    BY <1>2, <1>4, <2>1 DEF NewlyRestored
<1>6. CASE sq' = sq_task_failoutright(q, {t}, unihash, stamps)
  <2>1. sq'.covered = sq.covered /\ sq'.notneeded = sq.notneeded
    BY <1>2, <1>6, FailDecides, FailNeeds
  <2> QED
    BY <2>1 DEF NewlyRestored
<1>7. CASE sq' = q2 /\ SceneStampCurrent(t, unihash, stamps)
  <2>1. Stamped(t)'
    BY <1>7 DEF SceneStampCurrent, Stamped
  <2> QED
    BY <1>2, <1>4, <1>7, <2>1 DEF NewlyRestored
<1> QED
  BY <1>3, <1>5, <1>6, <1>7

\* RestoredHashKept is inductive: only what failed is updated, what was restored
\* is not rehashed, and a stamp goes when its task gets another under its hash.
LEMMA RestoredStampStep ==
    ASSUME IInv, SInv, XorInv, QueueInv, RefusedInv,
           HashKeptWhileRunning, RestoredHashKept, [Next]_vars
    PROVE  RestoredHashKept'
<1>0. /\ TypeOK /\ ProcessInv /\ LiveInv /\ Apart
      /\ \A t \in sq.covered \ sq.notneeded : t \in Setscene /\ t \in Task /\ Stamped(t)
  <2>1. TypeOK /\ ProcessInv /\ LiveInv /\ Apart
    BY DEF IInv, SInv
  <2>2. sq.covered \subseteq Setscene /\ Setscene \subseteq Task
    BY <2>1, GraphAssumption DEF TypeOK, SceneRecord
  <2> QED
    BY <2>1, <2>2 DEF RestoredHashKept, Stamped
<1>1. ASSUME sq'.covered = sq.covered, sq'.notneeded = sq.notneeded,
             UNCHANGED <<stamps, unihash>>
      PROVE  RestoredHashKept'
  BY <1>1 DEF RestoredHashKept
<1>2. ASSUME NEW t \in Task, NEW kind \in Kind, NEW ok \in BOOLEAN, UNCHANGED unihash,
             task_completeoutright(t, StampsLeft(kind, t, unihash[t], ok))
      PROVE  RestoredHashKept'
  <2> DEFINE disk == StampsLeft(kind, t, unihash[t], ok)
  <2>1. \A x \in Setscene : Stamped(x) =>
           \E k \in {"scene", "real", "rebuilt"} : <<k, x, unihash[x]>> \in disk
    BY LeftStamped
  <2>2. task_completeoutright(t, disk)
    BY <1>2
  <2> HIDE DEF disk
  <2>3. NewlyRestored /\ \A x \in Setscene : Stamped(x) => Stamped(x)'
    BY <1>0, <1>2, <2>1, <2>2, CompleteStamps
  <2> QED
    BY <1>0, <2>3, RestoredAgain
<1>3. ASSUME WorkerExit PROVE RestoredHashKept'
  <2> PICK kind \in Kind, t \in Task, h \in Hash, ok \in BOOLEAN : Exit(kind, t, h, ok)
    BY <1>3 DEF WorkerExit
  <2>1. <<kind, t, h>> \in worker /\ UNCHANGED unihash
    BY DEF Exit, hashVars
  <2>2. h = unihash[t]
    BY <2>1 DEF HashKeptWhileRunning
  <2> DEFINE disk == StampsLeft(kind, t, h, ok)
  <2>3. \/ /\ kind = "real" /\ t \in InProgress /\ t \notin sq_live
           /\ TaskComplete(t, disk) \/ TaskFail(t)
        \/ /\ kind = "scene" /\ t \in sq_live
           /\ SetsceneExit(t, ok, disk)
    BY <1>0, ExitKinds
  <2>4. CASE TaskComplete(t, disk)
    <3>1. task_completeoutright(t, StampsLeft(kind, t, unihash[t], ok))
      BY <2>2, <2>4 DEF TaskComplete
    <3> QED
      BY <1>2, <2>1, <3>1
  <2>5. CASE TaskFail(t)
    BY <1>1, <2>1, <2>5 DEF TaskFail
  <2>6. CASE kind = "scene" /\ SetsceneExit(t, ok, disk)
    <3>1. SetsceneExit(t, ok, StampsLeft("scene", t, unihash[t], ok))
      BY <2>2, <2>6
    <3>2. stamps' = StampsLeft("scene", t, unihash[t], ok)
      BY <3>1 DEF SetsceneExit
    <3>3. \A x \in Task : Stamped(x) => Stamped(x)'
      BY <2>1, <3>2, LeftStamped DEF Stamped, Kind
    <3>4. NewlyRestored
      BY <1>0, <2>1, <3>1, ExitStamps
    <3> QED
      BY <1>0, <3>3, <3>4, RestoredAgain
  <2> QED
    BY <2>3, <2>4, <2>5, <2>6
<1>4. ASSUME NEW i \in DOMAIN updated_taskhash_queue, ApplyUpdate(i)
      PROVE  RestoredHashKept'
  <2>1. UNCHANGED <<sq, stamps>>
    BY <1>4 DEF ApplyUpdate, sceneVars, workerVars
  <2>2. /\ UpdateOf(i) \in sq.notcovered
        /\ \A x \in Task : unihash'[x] # unihash[x] => x = UpdateOf(i)
    BY <1>4, QueueApply
  <2>3. \A t \in sq.covered : t # UpdateOf(i)
    BY <2>2 DEF XorInv
  <2> QED
    BY <1>0, <2>1, <2>2, <2>3 DEF RestoredHashKept
<1>5. ASSUME Migrate PROVE RestoredHashKept'
  <2>1. /\ NewlyRestored
        /\ stamps' = stamps \/ \E mig : stamps' = NoExecStamped(stamps, mig, unihash')
    BY <1>0, <1>5, MigrateStamps
  <2>2. ASSUME NEW t \in sq.covered \ sq.notneeded PROVE Stamped(t)'
    <3>1. unihash'[t] = unihash[t]
      BY <1>0, <1>5, MigrateHashes
    <3>2. \E kind \in {"scene", "real", "rebuilt"} : <<kind, t, unihash'[t]>> \in stamps
      BY <1>0, <3>1 DEF Stamped
    <3> QED
      BY <2>1, <3>2, NoExecStampedKeeps DEF Stamped
  <2> QED
    BY <2>1, <2>2, RestoredAgain
<1>6. ASSUME NEW t \in Setscene, NEW D \in SUBSET PassedOver,
             \/ SceneNotNeeded(t, D) \/ SceneNeedHardDeps(t, D)
             \/ SceneSettle(t, D) \/ SceneStart(t, D)
      PROVE  RestoredHashKept'
  <2>1. UNCHANGED <<unihash, stamps>>
    <3>1. SceneTurn(t, D)
      BY <1>6 DEF SceneNotNeeded, SceneNeedHardDeps, SceneSettle, SceneStart, SceneChosen
    <3> QED
      BY <3>1 DEF SceneTurn, hashVars
  <2>2. CASE SceneNotNeeded(t, D) \/ SceneSettle(t, D)
    <3>1. NewlyRestored
      BY <1>0, <2>1, <2>2, SettleStamps
    <3>2. \A x \in sq.covered \ sq.notneeded : Stamped(x)'
      BY <1>0, <2>1 DEF Stamped
    <3> QED
      BY <3>1, <3>2, RestoredAgain
  <2>3. CASE SceneNeedHardDeps(t, D) \/ SceneStart(t, D)
    BY <1>0, <1>1, <2>1, <2>3, SceneWaits
  <2> QED
    BY <1>6, <2>2, <2>3
<1>7. ASSUME NEW t \in Task,
             \/ SchedUnexpected(t) \/ SchedSkip(t) \/ SchedNoExec(t) \/ SchedStart(t)
      PROVE  RestoredHashKept'
  <2>1. UNCHANGED unihash
    BY <1>7 DEF SchedUnexpected, SchedSkip, SchedNoExec, SchedStart, Sched, hashVars
  <2>2. CASE SchedUnexpected(t) \/ SchedStart(t)
    BY <1>1, <2>1, <2>2 DEF SchedUnexpected, SchedStart
  <2>3. CASE SchedSkip(t) \/ SchedNoExec(t)
    <3>1. task_completeoutright(t, StampsLeft("real", t, unihash[t], FALSE))
          \/ task_completeoutright(t, StampsLeft("real", t, unihash[t], TRUE))
      <4>1. StampsLeft("real", t, unihash[t], FALSE) = stamps
        BY DEF StampsLeft
      <4> QED
        BY <2>3, <4>1 DEF SchedSkip, SchedNoExec
    <3>2. "real" \in Kind
      BY DEF Kind
    <3> QED
      BY <1>2, <2>1, <3>1, <3>2
  <2> QED
    BY <1>7, <2>2, <2>3
<1>8. ASSUME SceneNone PROVE RestoredHashKept'
  <2>1. UNCHANGED <<stamps, unihash>>
    BY <1>8 DEF SceneNone, hashVars, workerVars
  <2> QED
    BY <1>0, <1>1, <1>8, <2>1, SceneNoneWaits
<1>9. ASSUME \/ BeginTurn \/ CleanUp \/ EndRead \/ Teardown \/ NothingToMigrate
             \/ Holdoff \/ SchedNone \/ EndWait \/ Conclude \/ Stop \/ ForceStop
             \/ \E t \in Setscene : EndForceDeferred(t)
             \/ \E t \in Task, h \in Hash : UniHashUpdate(t, h)
             \/ UNCHANGED vars
      PROVE  RestoredHashKept'
  <2>1. UNCHANGED <<sq, stamps, unihash>>
    BY <1>9 DEF BeginTurn, CleanUp, EndRead, Teardown, NothingToMigrate, Holdoff, SchedNone,
                EndWait, Conclude, Stop, ForceStop, EndForceDeferred, UniHashUpdate, vars,
                buildVars, sceneVars, hashVars, workerVars
  <2> QED
    BY <1>1, <2>1
<1> QED
  BY <1>3, <1>4, <1>5, <1>6, <1>7, <1>8, <1>9 DEF Next, Turn, WorkerEvent, Over

\* Nothing has reported, or runs, when a build begins; what is covered then has a
\* stamp.
LEMMA HashesInit ==
    Init => QueueInv /\ RefusedInv /\ HashKeptWhileRunning /\ RestoredHashKept
<1> SUFFICES ASSUME Init
             PROVE  QueueInv /\ RefusedInv /\ HashKeptWhileRunning /\ RestoredHashKept
  OBVIOUS
<1>1. /\ runq_running = {} /\ worker = {} /\ holdoff_need_update = TRUE /\ stage = "turn"
      /\ updated_taskhash_queue = << >> /\ toprocess = {} /\ unihash = InitHash
  BY DEF Init
<1>2. QueueInv /\ RefusedInv
  BY <1>1 DEF QueueInv, RefusedInv, InProgress
<1>3. HashKeptWhileRunning
  BY <1>1 DEF HashKeptWhileRunning
<1>4. RestoredHashKept
  <2>1. PICK left : stamps = NoExecStamped(left, Setscene, InitHash)
    BY DEF Init
  <2>2. sq.covered = Current(Setscene, InitHash, stamps)
    BY InitDecides
  <2>3. ASSUME NEW t \in sq.covered PROVE Stamped(t)
    <3>1. t \in Setscene /\ NothingToRestore(t, InitHash, stamps)
      BY <2>2, <2>3 DEF Current
    <3>2. CASE t \in NoExec
      BY <1>1, <2>1, <3>1, <3>2, NoExecStampedKeeps DEF Stamped
    <3>3. CASE t \notin NoExec
      BY <1>1, <3>1, <3>3, CurrentStamped DEF Stamped
    <3> QED
      BY <3>2, <3>3
  <2> QED
    BY <2>3 DEF RestoredHashKept, Stamped
<1> QED
  BY <1>2, <1>3, <1>4

\* A hash is what names a task's output.  No task is rehashed while its process
\* runs, and what was restored keeps the hash, and the stamp, it was restored
\* under, however often hashes change: while what may fail with a hard dependency
\* is neither deferred nor, where hashes change, built before.
THEOREM HashesKeptTheorem ==
    Spec /\ []FailsAlone => []HashesKept
<1> DEFINE HInv == QueueInv /\ RefusedInv /\ HashKeptWhileRunning /\ RestoredHashKept
<1>1. Init => HInv
  BY HashesInit
<1>2. IInv /\ SInv /\ XorInv /\ HInv /\ [Next]_vars => HInv'
  BY QueueStep, RefusedStep, HashWorkerStep, RestoredStampStep
<1>3. HInv => HashesKept
  BY DEF HashesKept
<1>4. Spec /\ []FailsAlone => [](SInv /\ XorInv)
  BY XorAlways
<1> QED
  BY <1>1, <1>2, <1>3, <1>4, Invariance, PTL DEF Spec

-----------------------------------------------------------------------------
(* What a task uses is there when it runs.                                 *)

\* The tasks a scene queue that has restored sq.covered does not make unnecessary.
Uncovered ==
    (Setscene \ sq.covered) \cup Below(Setscene \ sq.covered)
        \cup cantskip \cup (unskippable \ Setscene)

\* tasks_covered and tasks_notcovered agree with the scene queue, unless they are
\* to be computed anew.
JudgedInv ==
    \/ holdoff_need_update
    \/ /\ tasks_notcovered \subseteq Uncovered
       /\ tasks_covered \cap Setscene \subseteq sq.covered
       /\ tasks_covered \cap (Below(sq.notcovered) \cup (unskippable \ Setscene)) = {}

\* What is not needed has nothing above it but what was restored.
NeedInv == \A t \in sq.notneeded :
    t \notin unskippable /\ sq_revdeps[t] \subseteq sq.covered

\* The turns that may start tasks.
MayStart == state = "RUNNING" \/ stage \in {"read", "migrate", "scene", "holdoff", "sched"}

\* A task that was completed but not run is made unnecessary by everything that
\* could, and will be: what is covered stays so.
SkippedInv == \A d \in runq_complete \ runq_tasksrun :
    /\ d \in Setscene => d \in sq.covered
    /\ d \notin Setscene => d \notin unskippable
    /\ MayStart => \A s \in Setscene : d \in sq_covered_tasks[s] => s \in sq.covered

\* What any task in progress depends on was run, or found run, or restored.
InputsInv == \A t \in InProgress : \A d \in Depends[t] :
    d \in runq_tasksrun \/ d \in sq.covered \ sq.notneeded

\* Down from a set: the set itself, and what its plain members depend on.
LEMMA WalkDownStart ==
    ASSUME NEW S
    PROVE  S \cap Task \subseteq WalkDown(S)
  BY DEF WalkDown

LEMMA WalkDownFrom ==
    ASSUME NEW S, NEW t \in WalkDown(S), t \in Plain
    PROVE  Depends[t] \subseteq WalkDown(S)
<1> DEFINE Closed(X) == S \subseteq X /\ \A u \in X \cap Plain : Depends[u] \subseteq X
<1>1. Depends[t] \subseteq Task
  BY GraphAssumption DEF Plain
<1>2. ASSUME NEW X \in SUBSET Task, Closed(X) PROVE Depends[t] \subseteq X
  BY <1>2 DEF WalkDown
<1> QED
  BY <1>1, <1>2 DEF WalkDown

\* What an uncovered task depends on is uncovered with it.
LEMMA UncoveredNeeds ==
    ASSUME NEW t \in Task, t \in Uncovered, NEW d \in Depends[t]
    PROVE  \/ d \in unskippable
           \/ \E s \in Setscene \ sq.covered :
                 IF d \in Setscene THEN s \in sq_revdeps[d] ELSE d \in sq_covered_tasks[s]
<1>0. d \in Task /\ Setscene \subseteq Task /\ Depends[t] \subseteq Task
  BY GraphAssumption
<1>1. ASSUME NEW s \in Setscene \ sq.covered, d \in WalkDown(Depends[s])
      PROVE  IF d \in Setscene THEN s \in sq_revdeps[d] ELSE d \in sq_covered_tasks[s]
  BY <1>0, <1>1 DEF sq_revdeps, sq_covered_tasks, Plain
<1>2. CASE t \in Setscene \ sq.covered
  <2>1. d \in WalkDown(Depends[t])
    BY <1>0, WalkDownStart
  <2> QED
    BY <1>1, <1>2, <2>1
<1>3. CASE t \in Below(Setscene \ sq.covered)
  <2>1. PICK s \in Setscene \ sq.covered : t \in sq_covered_tasks[s]
    BY <1>3 DEF Below
  <2>2. t \in WalkDown(Depends[s]) /\ t \in Plain
    BY <2>1 DEF sq_covered_tasks
  <2>3. d \in WalkDown(Depends[s])
    BY <2>2, WalkDownFrom
  <2> QED
    BY <1>1, <2>3
<1>4. CASE t \in cantskip \cup (unskippable \ Setscene)
  <2> DEFINE S == {x \in Task : RevDeps(x) = {}} \cup cantskip
  <2>1. t \in Plain
    BY <1>4 DEF cantskip, Plain
  <2>2. t \in WalkDown(S)
    <3>1. cantskip \cap Task \subseteq WalkDown(S)
      <4>1. S \cap Task \subseteq WalkDown(S)
        BY WalkDownStart
      <4> QED
        BY <4>1
    <3> QED
      BY <1>4, <3>1 DEF unskippable
  <2>3. d \in WalkDown(S)
    <3> HIDE DEF S
    <3> QED
      BY <2>1, <2>2, WalkDownFrom
  <2> QED
    BY <2>3 DEF unskippable
<1> QED
  BY <1>2, <1>3, <1>4 DEF Uncovered

\* What a step does to the judgements of the scene queue: what is covered stays so,
\* what was decided anew has the tables computed anew, and what is found not needed
\* was not restored.
JudgesOn ==
    /\ sq.covered \subseteq sq'.covered
    /\ \/ holdoff_need_update'
       \/ sq'.covered = sq.covered /\ sq'.notcovered \subseteq sq.notcovered
    /\ \A x \in sq'.notneeded \ sq.notneeded :
          x \notin unskippable /\ sq_revdeps[x] \subseteq sq.covered /\ x \notin sq.covered
    /\ \/ Holdoff
       \/ /\ holdoff_need_update => holdoff_need_update'
          /\ UNCHANGED <<tasks_covered, tasks_notcovered>>

LEMMA CompleteJudges ==
    ASSUME TypeOK, NEW t \in Task, NEW disk, task_completeoutright(t, disk)
    PROVE  /\ sq.covered \subseteq sq'.covered
           /\ sq'.notcovered = sq.notcovered /\ sq'.notneeded = sq.notneeded
           /\ holdoff_need_update' \/ sq'.covered = sq.covered
           /\ holdoff_need_update => holdoff_need_update'
<1> DEFINE waiting == {d \in DOMAIN sq_deferred : sq_deferred[d] = t}
<1>1. CASE waiting = {}
  BY <1>1 DEF task_completeoutright
<1>2. CASE waiting # {}
  <2>1. PICK found \in waiting, valid \in SUBSET MayBeValid :
          LET kept == Restrict(sq_deferred, DOMAIN sq_deferred \ {found})
          IN  /\ sq' = update_scenequeue_data(sq, {found}, valid, kept,
                                              unihash, stamps')
              /\ holdoff_need_update' =
                    (holdoff_need_update \/ NothingToRestore(found, unihash, stamps'))
    BY <1>2 DEF task_completeoutright
  <2> DEFINE kept == Restrict(sq_deferred, DOMAIN sq_deferred \ {found})
  <2>2. {found} \in SUBSET Setscene /\ sq \in SceneRecord
    BY DEF TypeOK
  <2>3. sq' = update_scenequeue_data(sq, {found}, valid, kept, unihash, stamps')
    BY <2>1
  <2> HIDE DEF kept
  <2>4. Covers(sq', sq, Current({found}, unihash, stamps'))
        /\ sq'.notneeded = sq.notneeded
    BY <2>2, <2>3, UpdateDataDecides, UpdateDataNeeds
  <2>5. holdoff_need_update' \/ Current({found}, unihash, stamps') = {}
    BY <2>1 DEF Current
  <2>6. holdoff_need_update => holdoff_need_update'
    BY <2>1
  <2> QED
    BY <2>4, <2>5, <2>6 DEF Covers
<1> QED
  BY <1>1, <1>2

LEMMA ExitNeeds ==
    ASSUME TypeOK, NEW t \in Task, NEW ok \in BOOLEAN, NEW disk, SetsceneExit(t, ok, disk)
    PROVE  sq'.notneeded = sq.notneeded
<1>1. t \in Setscene
  BY DEF TypeOK, SetsceneExit
<1>2. CASE ok
  <2> DEFINE q2 == [sq EXCEPT !.covered = @ \cup {t}]
  <2>1. q2 \in SceneRecord /\ q2.notneeded = sq.notneeded
    BY <1>1 DEF TypeOK, SceneRecord
  <2>2. sq' = UpdateCounters(q2, {t})
    BY <1>2 DEF SetsceneExit, sq_task_completeoutright
  <2> HIDE DEF q2
  <2> QED
    BY <2>1, <2>2, CountersNeeds
<1>3. CASE ~ok
  <2> DEFINE failed == [sq EXCEPT !.notcovered = @ \cup {t}]
             rest == HardFailures(failed, {t}, unihash, disk) \ {t}
             q2 == [failed EXCEPT !.running = @ \cup rest,
                                  !.buildable = @ \cup rest,
                                  !.notcovered = @ \cup rest]
  <2>1. failed \in SceneRecord /\ failed.notneeded = sq.notneeded
    BY <1>1 DEF TypeOK, SceneRecord
  <2>2. sq' = UpdateCounters(q2, rest \cup {t})
    BY <1>3 DEF SetsceneExit
  <2> HIDE DEF failed
  <2>3. rest \in SUBSET Setscene
    BY DEF HardFailures
  <2> HIDE DEF rest
  <2>4. q2 \in SceneRecord /\ q2.notneeded = failed.notneeded
    BY <2>1, <2>3 DEF SceneRecord
  <2> HIDE DEF q2
  <2> QED
    BY <2>1, <2>2, <2>4, CountersNeeds
<1> QED
  BY <1>2, <1>3

LEMMA SettleNeeds ==
    ASSUME TypeOK, LiveInv, NEW t \in Setscene, NEW D \in SUBSET PassedOver,
           SceneNotNeeded(t, D) \/ SceneSettle(t, D)
    PROVE  \A x \in sq'.notneeded \ sq.notneeded :
              x \notin unskippable /\ sq_revdeps[x] \subseteq sq.covered /\ x \notin sq.covered
<1> DEFINE q == PutAside(D)
           q2 == sq_task_skip(q, {t})
<1>1. D \in SUBSET Setscene
  BY DEF PassedOver, SceneCandidates, TypeOK, SceneRecord
<1>2. q \in SceneRecord /\ q.notneeded = sq.notneeded
  BY <1>1, PutAsideDecides, PutAsideNeeds
<1>3. \/ sq' = [q2 EXCEPT !.notneeded = @ \cup {t}] /\ MaybeNotNeeded(t)
      \/ sq' = sq_task_failoutright(q, {t}, unihash, stamps)
      \/ sq' = q2
  BY DEF SceneNotNeeded, SceneSettle
<1>4. t \notin Decided(sq)
  <2>1. SceneTurn(t, D)
    BY DEF SceneNotNeeded, SceneSettle, SceneChosen
  <2> QED
    BY <2>1, CandidateOpen
<1> HIDE DEF q
<1>5. q2 \in SceneRecord /\ q2.notneeded = q.notneeded
  BY <1>2, SkipType, SkipNeeds
<1> HIDE DEF q2
<1>6. CASE sq' = [q2 EXCEPT !.notneeded = @ \cup {t}] /\ MaybeNotNeeded(t)
  <2>1. sq'.notneeded = sq.notneeded \cup {t}
    BY <1>2, <1>5, <1>6 DEF SceneRecord
  <2> QED
    BY <1>4, <1>6, <2>1 DEF MaybeNotNeeded, Decided
<1>7. CASE sq' = sq_task_failoutright(q, {t}, unihash, stamps)
  BY <1>2, <1>7, FailNeeds
<1> QED
  BY <1>2, <1>3, <1>5, <1>6, <1>7

LEMMA MigrateJudges ==
    ASSUME TypeOK, XorInv, Migrate, pending_migrations \subseteq sq.notcovered
    PROVE  JudgesOn
<1> PICK mig, C, F : Migrates(mig, C, F)
  BY MigrateDecides
<1>1. /\ sq'.covered = (sq.covered \ mig) \cup C
      /\ sq'.notcovered = (sq.notcovered \ mig) \cup F
      /\ mig \cap sq.covered = {}
      /\ \/ UNCHANGED holdoff_need_update /\ C = {} /\ F = {}
         \/ holdoff_need_update' = TRUE
  <2>1. mig \cap sq.covered = {}
    BY DEF Migrates, XorInv
  <2>2. CASE mig = {}
    <3>1. Current(mig, unihash', stamps') = {}
      BY <2>2 DEF Current
    <3>2. MigrationFailures(mig, unihash', stamps') = {}
      <4>1. {t \in mig : HardDepsRev[t] \cap (sq.notcovered \ mig) # {}} = {}
        BY <2>2
      <4> QED
        BY <4>1, HardFailuresBound DEF MigrationFailures
    <3> QED
      BY <2>1, <3>1, <3>2 DEF Migrates
  <2>3. CASE mig # {}
    BY <2>1, <2>3 DEF Migrates
  <2> QED
    BY <2>2, <2>3
<1>2. /\ UNCHANGED <<tasks_covered, tasks_notcovered>>
      /\ sq'.notneeded \subseteq sq.notneeded
  BY MigrateStamps DEF Migrate
<1> QED
  BY <1>1, <1>2 DEF JudgesOn

LEMMA JudgesStep ==
    ASSUME IInv, SInv, XorInv, Migrate => pending_migrations \subseteq sq.notcovered,
           [Next]_vars
    PROVE  JudgesOn
<1>0. TypeOK /\ LiveInv /\ ProcessInv /\ Apart
  BY DEF IInv, SInv
<1>1. ASSUME UNCHANGED <<sq, holdoff_need_update, tasks_covered, tasks_notcovered>>
      PROVE  JudgesOn
  BY <1>1 DEF JudgesOn
<1>2. ASSUME NEW t \in Task, NEW disk, task_completeoutright(t, disk),
             UNCHANGED <<tasks_covered, tasks_notcovered>>
      PROVE  JudgesOn
  BY <1>0, <1>2, CompleteJudges DEF JudgesOn
<1>3. ASSUME WorkerExit PROVE JudgesOn
  <2> PICK kind \in Kind, t \in Task, h \in Hash, ok \in BOOLEAN : Exit(kind, t, h, ok)
    BY <1>3 DEF WorkerExit
  <2> DEFINE disk == StampsLeft(kind, t, h, ok)
  <2>1. /\ UNCHANGED <<tasks_covered, tasks_notcovered>>
        /\ TaskComplete(t, disk) \/ TaskFail(t) \/ SetsceneExit(t, ok, disk)
    BY DEF Exit
  <2> HIDE DEF disk
  <2>2. CASE TaskComplete(t, disk)
    BY <1>2, <2>1, <2>2 DEF TaskComplete
  <2>3. CASE TaskFail(t)
    BY <1>1, <2>1, <2>3 DEF TaskFail
  <2>4. CASE SetsceneExit(t, ok, disk)
    <3>1. sq.covered \subseteq sq'.covered
      BY <1>0, <2>4, ExitOneWay DEF DecidesOn, Decides
    <3>2. sq'.notneeded = sq.notneeded
      BY <1>0, <2>4, ExitNeeds
    <3>3. holdoff_need_update' = TRUE
      BY <2>4 DEF SetsceneExit
    <3> QED
      BY <2>1, <3>1, <3>2, <3>3 DEF JudgesOn
  <2> QED
    BY <2>1, <2>2, <2>3, <2>4
<1>4. ASSUME NEW t \in Setscene, NEW D \in SUBSET PassedOver,
             \/ SceneNotNeeded(t, D) \/ SceneNeedHardDeps(t, D)
             \/ SceneSettle(t, D) \/ SceneStart(t, D)
      PROVE  JudgesOn
  <2>1. UNCHANGED <<tasks_covered, tasks_notcovered>>
    <3>1. SceneTurn(t, D)
      BY <1>4 DEF SceneNotNeeded, SceneNeedHardDeps, SceneSettle, SceneStart, SceneChosen
    <3> QED
      BY <3>1 DEF SceneTurn
  <2>2. CASE SceneNotNeeded(t, D) \/ SceneSettle(t, D)
    <3>1. holdoff_need_update' = TRUE
      BY <2>2 DEF SceneNotNeeded, SceneSettle
    <3>2. sq.covered \subseteq sq'.covered
      BY <1>0, <2>2, SettleOneWay DEF DecidesOn, Decides
    <3> QED
      BY <1>0, <2>1, <2>2, <3>1, <3>2, SettleNeeds DEF JudgesOn
  <2>3. CASE SceneNeedHardDeps(t, D) \/ SceneStart(t, D)
    <3>1. UNCHANGED holdoff_need_update
      BY <2>3 DEF SceneNeedHardDeps, SceneStart
    <3> QED
      BY <1>0, <2>1, <2>3, <3>1, SceneWaits DEF JudgesOn
  <2> QED
    BY <1>4, <2>2, <2>3
<1>5. ASSUME SceneNone PROVE JudgesOn
  BY <1>0, <1>5, SceneNoneWaits DEF SceneNone, holdoffVars, JudgesOn
<1>6. ASSUME Holdoff PROVE JudgesOn
  BY <1>6 DEF Holdoff, JudgesOn
<1>7. ASSUME NEW t \in Task,
             \/ SchedUnexpected(t) \/ SchedSkip(t) \/ SchedNoExec(t) \/ SchedStart(t)
      PROVE  JudgesOn
  <2>1. UNCHANGED <<tasks_covered, tasks_notcovered>>
    BY <1>7 DEF SchedUnexpected, SchedSkip, SchedNoExec, SchedStart, Sched
  <2>2. CASE SchedUnexpected(t) \/ SchedStart(t)
    BY <1>1, <2>1, <2>2 DEF SchedUnexpected, SchedStart
  <2>3. CASE SchedSkip(t) \/ SchedNoExec(t)
    <3> PICK disk : task_completeoutright(t, disk)
      BY <2>3 DEF SchedSkip, SchedNoExec
    <3> QED
      BY <1>2, <2>1
  <2> QED
    BY <1>7, <2>2, <2>3
<1>8. ASSUME \/ BeginTurn \/ CleanUp \/ EndRead \/ Teardown \/ NothingToMigrate
             \/ SchedNone \/ EndWait \/ Conclude \/ Stop \/ ForceStop
             \/ \E i \in DOMAIN updated_taskhash_queue : ApplyUpdate(i)
             \/ \E t \in Setscene : EndForceDeferred(t)
             \/ \E t \in Task, h \in Hash : UniHashUpdate(t, h)
             \/ UNCHANGED vars
      PROVE  JudgesOn
  <2>1. UNCHANGED <<sq, holdoff_need_update, tasks_covered, tasks_notcovered>>
    BY <1>8 DEF BeginTurn, CleanUp, EndRead, Teardown, NothingToMigrate, SchedNone, EndWait,
                Conclude, Stop, ForceStop, ApplyUpdate, EndForceDeferred, UniHashUpdate, vars,
                buildVars, sceneVars, holdoffVars
  <2> QED
    BY <1>1, <2>1
<1> QED
  BY <1>0, <1>3, <1>4, <1>5, <1>6, <1>7, <1>8, MigrateJudges DEF Next, Turn, WorkerEvent, Over

LEMMA JudgedStep ==
    ASSUME TypeOK, XorInv, JudgedInv, NeedInv, JudgesOn
    PROVE  JudgedInv' /\ NeedInv'
<1>1. NeedInv'
  BY DEF NeedInv, JudgesOn
<1>2. CASE Holdoff
  <2>1. /\ UNCHANGED sq
        /\ \/ UNCHANGED <<holdoff_need_update, tasks_covered, tasks_notcovered>>
           \/ tasks_covered' = CoveredTasks /\ tasks_notcovered' = NotCoveredTasks
    BY <1>2 DEF Holdoff, update_holdofftasks, holdoffVars
  <2>2. NotCoveredTasks \subseteq Uncovered
    <3>1. sq.notcovered \subseteq Setscene \ sq.covered
      BY DEF XorInv, TypeOK, SceneRecord
    <3> QED
      BY <3>1 DEF NotCoveredTasks, Uncovered, Below
  <2>3. /\ CoveredTasks \cap Setscene \subseteq sq.covered
        /\ CoveredTasks \cap (Below(sq.notcovered) \cup (unskippable \ Setscene)) = {}
    <3>1. Below(sq.covered) \cap Setscene = {}
      <4>1. sq.covered \subseteq Setscene
        BY DEF TypeOK, SceneRecord
      <4> QED
        BY <4>1 DEF Below, sq_covered_tasks, Plain
    <3> QED
      BY <3>1 DEF CoveredTasks, NotCoveredTasks
  <2>4. CASE UNCHANGED <<holdoff_need_update, tasks_covered, tasks_notcovered>>
    BY <1>1, <2>1, <2>4 DEF JudgedInv, Uncovered
  <2>5. CASE tasks_covered' = CoveredTasks /\ tasks_notcovered' = NotCoveredTasks
    BY <1>1, <2>1, <2>2, <2>3, <2>5 DEF JudgedInv, Uncovered
  <2> QED
    BY <1>1, <2>1, <2>4, <2>5
<1>3. CASE /\ holdoff_need_update => holdoff_need_update'
           /\ UNCHANGED <<tasks_covered, tasks_notcovered>>
  <2>1. CASE holdoff_need_update'
    BY <1>1, <2>1 DEF JudgedInv
  <2>2. CASE ~holdoff_need_update'
    <3>1. sq'.covered = sq.covered /\ sq'.notcovered \subseteq sq.notcovered
      BY <2>2 DEF JudgesOn
    <3>2. Uncovered' = Uncovered
      BY <3>1 DEF Uncovered
    <3>3. Below(sq'.notcovered) \subseteq Below(sq.notcovered)
      BY <3>1 DEF Below
    <3> QED
      BY <1>1, <1>3, <2>2, <3>1, <3>2, <3>3 DEF JudgedInv
  <2> QED
    BY <2>1, <2>2
<1> QED
  BY <1>2, <1>3 DEF JudgesOn

\* A task is completed without having been run only when it is covered, and is
\* not held off.
SkipsCovered(t) ==
    /\ stage = "sched" /\ stage' = "turn" /\ UNCHANGED state
    /\ t \in Task /\ t \in tasks_covered /\ t \notin runq_running \cup holdoff_tasks

LEMMA SkipsOnly ==
    ASSUME [Next]_vars
    PROVE  /\ runq_tasksrun \subseteq runq_tasksrun'
           /\ MayStart' => MayStart
           /\ \A d \in runq_complete' \ runq_tasksrun' :
                 d \in runq_complete \ runq_tasksrun \/ SkipsCovered(d)
<1> USE DEF buildVars, runqVars, sceneVars, holdoffVars, hashVars, workerVars
<1> DEFINE P == /\ runq_tasksrun \subseteq runq_tasksrun'
                /\ MayStart' => MayStart
                /\ \A d \in runq_complete' \ runq_tasksrun' :
                      d \in runq_complete \ runq_tasksrun \/ SkipsCovered(d)
<1>1. ASSUME WorkerExit PROVE P
  BY <1>1 DEF WorkerExit, Exit, SetsceneExit, TaskComplete, TaskFail, HaltState, MayStart,
              task_completeoutright
<1>2. ASSUME NEW t \in Setscene, NEW D \in SUBSET PassedOver,
             \/ SceneNotNeeded(t, D) \/ SceneNeedHardDeps(t, D)
             \/ SceneSettle(t, D) \/ SceneStart(t, D)
      PROVE  P
  <2>1. SceneTurn(t, D)
    BY <1>2 DEF SceneNotNeeded, SceneNeedHardDeps, SceneSettle, SceneStart, SceneChosen
  <2> QED
    BY <2>1 DEF SceneTurn, MayStart
<1>3. ASSUME NEW t \in Task, SchedUnexpected(t) \/ SchedNoExec(t) \/ SchedStart(t)
      PROVE  P
  BY <1>3 DEF SchedUnexpected, SchedNoExec, SchedStart, Sched, HaltState, MayStart,
              task_completeoutright
<1>4. ASSUME NEW t \in Task, SchedSkip(t) PROVE P
  <2>1. /\ stage = "sched" /\ stage' = "turn" /\ UNCHANGED state
        /\ t \notin runq_running \cup holdoff_tasks
        /\ runq_complete' = runq_complete \cup {t}
        /\ runq_tasksrun' = IF t \in tasks_covered THEN runq_tasksrun
                            ELSE runq_tasksrun \cup {t}
    BY <1>4 DEF SchedSkip, Sched, Runnable, task_completeoutright
  <2> QED
    BY <2>1 DEF SkipsCovered, MayStart
<1>5. ASSUME \/ BeginTurn \/ CleanUp \/ EndRead \/ Teardown \/ NothingToMigrate
             \/ Holdoff \/ SchedNone \/ EndWait \/ Conclude \/ Stop \/ ForceStop
      PROVE  P
  BY <1>5 DEF BeginTurn, CleanUp, EndRead, Teardown, NothingToMigrate, Holdoff, SchedNone,
              EndWait, Conclude, Stop, ForceStop, FinishedState, Reading, MayStart
<1>6. ASSUME \/ Migrate \/ SceneNone
             \/ \E i \in DOMAIN updated_taskhash_queue : ApplyUpdate(i)
             \/ \E t \in Setscene : EndForceDeferred(t)
             \/ \E t \in Task, h \in Hash : UniHashUpdate(t, h)
             \/ UNCHANGED vars
      PROVE  P
  BY <1>6 DEF Migrate, SceneNone, ApplyUpdate, EndForceDeferred, UniHashUpdate, vars,
              MayStart
<1> HIDE DEF P
<1>7. P
  BY <1>1, <1>2, <1>3, <1>4, <1>5, <1>6 DEF Next, Turn, WorkerEvent, Over
<1> QED
  BY <1>7 DEF P

\* SkippedInv is inductive: what covers a task that is not held off is decided.
LEMMA SkippedStep ==
    ASSUME IInv, SInv, JudgedInv, JudgesOn, SkippedInv, [Next]_vars
    PROVE  SkippedInv'
<1>0. TypeOK /\ OrderInv /\ TurnInv
  BY DEF IInv, SInv
<1>1. sq.covered \subseteq sq'.covered
  BY DEF JudgesOn
<1>2. ASSUME NEW d, d \in runq_complete \ runq_tasksrun
      PROVE  /\ d \in Setscene => d \in sq'.covered
             /\ d \notin Setscene => d \notin unskippable
             /\ MayStart' => \A s \in Setscene : d \in sq_covered_tasks[s] => s \in sq'.covered
  BY <1>1, <1>2, SkipsOnly DEF SkippedInv
<1>3. ASSUME NEW d, SkipsCovered(d)
      PROVE  /\ d \in Setscene => d \in sq'.covered
             /\ d \notin Setscene => d \notin unskippable
             /\ MayStart' => \A s \in Setscene : d \in sq_covered_tasks[s] => s \in sq'.covered
  <2>1. /\ stage = "sched" /\ d \in tasks_covered
        /\ d \notin runq_running /\ d \notin holdoff_tasks
        /\ MayStart' => state = "RUNNING"
    BY <1>3 DEF SkipsCovered, MayStart
  <2>2. ~holdoff_need_update
    BY <1>0, <2>1 DEF TurnInv
  <2>3. /\ d \in Setscene => d \in sq.covered
        /\ d \notin Setscene => d \notin unskippable
        /\ \A s \in sq.notcovered : d \notin sq_covered_tasks[s]
    BY <2>1, <2>2 DEF JudgedInv, Below
  <2>4. ASSUME MayStart', NEW s \in Setscene, d \in sq_covered_tasks[s]
        PROVE  s \in sq.covered
    <3>1. HoldoffTasks \subseteq holdoff_tasks
      BY <1>0, <2>1, <2>2, <2>4 DEF TurnInv, Fresh
    <3>2. d \notin runq_complete
      BY <1>0, <2>1 DEF OrderInv
    <3>3. s \in Decided(sq)
      BY <2>1, <2>4, <3>1, <3>2 DEF HoldoffTasks, Below
    <3> QED
      BY <2>3, <2>4, <3>3 DEF Decided
  <2> QED
    BY <1>1, <2>3, <2>4
<1> QED
  BY <1>2, <1>3, SkipsOnly DEF SkippedInv

\* InputsInv is inductive: a task that is started is uncovered, and what an
\* uncovered task depends on is not skipped unless it was restored.
LEMMA InputsStep ==
    ASSUME IInv, SInv, JudgedInv, NeedInv, JudgesOn, SkippedInv, InputsInv, [Next]_vars
    PROVE  InputsInv'
<1>0. TypeOK /\ TurnInv
  BY DEF IInv, SInv
<1>1. ASSUME NEW t \in InProgress, NEW d \in Depends[t]
      PROVE  d \in runq_tasksrun' \/ d \in sq'.covered \ sq'.notneeded
  BY SkipsOnly DEF InputsInv, JudgesOn
<1>2. CASE \E t \in Task : SchedStart(t)
  <2> PICK t \in Task : SchedStart(t)
    BY <1>2
  <2>1. InProgress' = InProgress \cup {t} /\ UNCHANGED <<sq, runq_tasksrun>>
    BY StartsOne DEF SchedStart
  <2>2. /\ stage = "sched" /\ t \in tasks_notcovered /\ Sched(t)
    BY DEF SchedStart, Sched, Runnable
  <2>3. t \in Uncovered
    BY <1>0, <2>2 DEF TurnInv, JudgedInv
  <2>4. ASSUME NEW d \in Depends[t], d \notin runq_tasksrun
        PROVE  d \in sq.covered \ sq.notneeded
    <3>1. d \in runq_complete \ runq_tasksrun
      BY <2>2, <2>4, SchedReady
    <3>2. MayStart
      BY <2>2 DEF MayStart
    <3>3. CASE d \in Setscene
      BY <2>3, <3>1, <3>3, UncoveredNeeds DEF SkippedInv, NeedInv
    <3>4. CASE d \notin Setscene
      BY <2>3, <3>1, <3>2, <3>4, UncoveredNeeds DEF SkippedInv
    <3> QED
      BY <3>3, <3>4
  <2> QED
    BY <1>1, <2>1, <2>4 DEF InputsInv
<1>3. CASE ~\E t \in Task : SchedStart(t)
  <2>1. InProgress' \subseteq InProgress
    BY <1>3, MostStartNone DEF NoneStarted
  <2> QED
    BY <1>1, <2>1 DEF InputsInv
<1> QED
  BY <1>2, <1>3

LEMMA InputsInit ==
    Init => JudgedInv /\ NeedInv /\ SkippedInv /\ InputsInv
<1> SUFFICES ASSUME Init PROVE JudgedInv /\ NeedInv /\ SkippedInv /\ InputsInv
  OBVIOUS
<1>1. runq_running = {} /\ runq_complete = {} /\ holdoff_need_update = TRUE
  BY DEF Init
<1>2. sq.notneeded = {}
  <2> DEFINE q == [buildable |-> {t \in Setscene : sq_revdeps[t] = {}},
                   running |-> {}, covered |-> {}, notcovered |-> {}, notneeded |-> {},
                   done |-> unskippable \cap Plain,
                   harddep_deferred |-> {}, outrightfail |-> {}]
  <2>1. PICK valid : sq = update_scenequeue_data(q, Setscene, valid, InitDeferred,
                                                 InitHash, stamps)
    BY DEF Init, InitScene
  <2>2. q \in SceneRecord /\ q.notneeded = {}
    BY GraphAssumption DEF SceneRecord, Plain
  <2> HIDE DEF q
  <2> QED
    BY <2>1, <2>2, UpdateDataNeeds
<1> QED
  BY <1>1, <1>2 DEF JudgedInv, NeedInv, SkippedInv, InputsInv, InProgress

\* A task that runs has what it depends on: each dependency was run, found run, or
\* restored, and was not passed over because a setscene task was to make it
\* unnecessary that failed, or was put back, later.
THEOREM InputsPresentTheorem ==
    Spec /\ []FailsAlone => []InputsPresent
<1> DEFINE PInv == JudgedInv /\ NeedInv /\ SkippedInv /\ InputsInv
<1>1. Init => PInv
  BY InputsInit
<1>2. IInv /\ SInv /\ XorInv /\ AloneOK /\ PInv /\ [Next]_vars => PInv'
  <2> SUFFICES ASSUME IInv, SInv, XorInv, AloneOK, PInv, [Next]_vars PROVE PInv'
    OBVIOUS
  <2>1. TypeOK /\ QuietInv
    BY DEF IInv, SInv
  <2>2. Migrate => pending_migrations \subseteq sq.notcovered
    BY <2>1 DEF AloneOK, HardInv, MayMigrate, Migrate, QuietInv
  <2>3. JudgesOn
    BY <2>2, JudgesStep
  <2> QED
    BY <2>1, <2>3, JudgedStep, SkippedStep, InputsStep
<1>3. SInv /\ PInv => InputsPresent
  BY DEF InputsPresent, InputsInv, SInv, ProcessInv, Inflight
<1>4. Spec /\ []FailsAlone => [](SInv /\ XorInv /\ AloneOK)
  BY XorAlways
<1> QED
  BY <1>1, <1>2, <1>3, <1>4, Invariance, PTL DEF Spec

-----------------------------------------------------------------------------
(* The scene queue: its record, its tables and its end.                    *)

\* The record of the scene queue: what is decided is done, a plain task is done when
\* all that depends on it is; what is decided was buildable, and what everything that
\* reaches it is decided of is, but for L; what waits for a hard dependency has one
\* that is not decided.
KeptBut(q, L) ==
    /\ q.done \cap Setscene = Decided(q)
    /\ \A d \in Plain \ q.done : ~(RevDeps(d) \subseteq q.done)
    /\ Decided(q) \subseteq q.buildable \cap q.running
    /\ \A t \in Setscene \ L : sq_revdeps[t] \subseteq Decided(q) => t \in q.buildable
    /\ \A d \in q.harddep_deferred : ~(HardDepsRev[d] \subseteq Decided(q))

\* r is q with the tasks S decided.
Advances(r, q, S) ==
    /\ r \in SceneRecord /\ S \in SUBSET Setscene
    /\ Decided(r) = Decided(q) \cup S
    /\ r.done = DoneBelow(S, q.done)
    /\ q.buildable \cup S \subseteq r.buildable
    /\ \A d \in Setscene : sq_revdeps[d] \cap S # {} /\ sq_revdeps[d] \subseteq Decided(r)
          => d \in r.buildable
    /\ r.running = q.running \cup S
    /\ r.harddep_deferred \subseteq q.harddep_deferred
    /\ (\E t \in S : HardDeps(t) # {}) =>
          \A d \in r.harddep_deferred : ~(HardDepsRev[d] \subseteq Decided(r))

\* What is done: the tasks given, and plain tasks whose reverse dependencies are.
LEMMA DoneBelowCloses ==
    ASSUME NEW S \in SUBSET Setscene, NEW done \in SUBSET Task,
           \A d \in Plain \ done : ~(RevDeps(d) \subseteq done)
    PROVE  /\ done \cup S \subseteq DoneBelow(S, done)
           /\ DoneBelow(S, done) \cap Setscene = (done \cap Setscene) \cup S
           /\ \A d \in Plain \ DoneBelow(S, done) : ~(RevDeps(d) \subseteq DoneBelow(S, done))
<1> DEFINE Closed(X) ==
             /\ S \subseteq X
             /\ \A d \in Plain \ done :
                   RevDeps(d) \cap X # {} /\ RevDeps(d) \subseteq done \cup X => d \in X
           met == {d \in Task : \A X \in SUBSET Task : Closed(X) => d \in X}
<1>1. DoneBelow(S, done) = done \cup met
  BY DEF DoneBelow
<1>2. Setscene \subseteq Task /\ Plain \subseteq Task /\ Plain \cap Setscene = {}
  BY GraphAssumption DEF Plain
<1>3. S \subseteq met
  BY <1>2
<1>4. met \subseteq S \cup Plain
  <2>1. S \cup Plain \in SUBSET Task /\ Closed(S \cup Plain)
    BY <1>2
  <2> QED
    BY <2>1
<1>5. ASSUME NEW d \in Plain, d \notin done \cup met, RevDeps(d) \subseteq done \cup met
      PROVE  FALSE
  <2>1. RevDeps(d) \cap met # {}
    BY <1>5
  <2>2. ASSUME NEW X \in SUBSET Task, Closed(X) PROVE d \in X
    <3>1. met \subseteq X
      BY <2>2
    <3>2. RevDeps(d) \cap X # {} /\ RevDeps(d) \subseteq done \cup X
      BY <1>5, <2>1, <3>1
    <3> QED
      BY <1>5, <2>2, <3>2
  <2> QED
    BY <1>2, <1>5, <2>2
<1> QED
  BY <1>1, <1>2, <1>3, <1>4, <1>5

\* Deciding tasks keeps the record so, those tasks no longer excepted.
LEMMA AdvanceKeeps ==
    ASSUME NEW r, NEW q \in SceneRecord, NEW S, NEW L, Advances(r, q, S), KeptBut(q, L)
    PROVE  KeptBut(r, L \ S)
<1>1. /\ S \in SUBSET Setscene /\ q.done \in SUBSET Task
      /\ \A d \in Plain \ q.done : ~(RevDeps(d) \subseteq q.done)
  BY DEF Advances, KeptBut, SceneRecord
<1>2. /\ r.done \cap Setscene = Decided(r)
      /\ \A d \in Plain \ r.done : ~(RevDeps(d) \subseteq r.done)
  BY <1>1, DoneBelowCloses DEF Advances, KeptBut
<1>3. Decided(r) \subseteq r.buildable \cap r.running
  BY DEF Advances, KeptBut
<1>4. ASSUME NEW t \in Setscene \ (L \ S), sq_revdeps[t] \subseteq Decided(r)
      PROVE  t \in r.buildable
  <2>1. CASE t \in S
    BY <2>1 DEF Advances
  <2>2. CASE sq_revdeps[t] \cap S # {}
    BY <1>4, <2>2 DEF Advances
  <2>3. CASE t \notin L /\ sq_revdeps[t] \cap S = {}
    <3>1. sq_revdeps[t] \subseteq Decided(q)
      BY <1>4, <2>3 DEF Advances
    <3> QED
      BY <2>3, <3>1 DEF Advances, KeptBut
  <2> QED
    BY <1>4, <2>1, <2>2, <2>3
<1>5. ASSUME NEW d \in r.harddep_deferred, HardDepsRev[d] \subseteq Decided(r)
      PROVE  FALSE
  <2>1. d \in q.harddep_deferred /\ d \in Setscene /\ ~(HardDepsRev[d] \subseteq Decided(q))
    BY <1>5 DEF Advances, KeptBut, SceneRecord
  <2>2. PICK e \in HardDepsRev[d] : e \in S
    BY <1>5, <2>1 DEF Advances
  <2>3. HardDeps(e) # {}
    BY <2>1, <2>2 DEF HardDeps
  <2> QED
    BY <1>5, <2>2, <2>3 DEF Advances
<1> QED
  BY <1>2, <1>3, <1>4, <1>5 DEF KeptBut

\* scenequeue_updatecounters(), once the tasks are decided.
LEMMA CountersAdvance ==
    ASSUME NEW q \in SceneRecord, NEW q1 \in SceneRecord, NEW S \in SUBSET Setscene,
           Decided(q1) = Decided(q) \cup S, q1.done = q.done,
           q.buildable \cup S \subseteq q1.buildable, q1.running = q.running \cup S,
           q1.harddep_deferred = q.harddep_deferred
    PROVE  Advances(UpdateCounters(q1, S), q, S)
<1> DEFINE r == UpdateCounters(q1, S)
           more == {d \in Setscene : /\ sq_revdeps[d] \cap S # {}
                                     /\ sq_revdeps[d] \subseteq Decided(q1)}
           left == IF \A t \in S : HardDeps(t) = {} THEN q1.harddep_deferred
                   ELSE {d \in q1.harddep_deferred : ~(HardDepsRev[d] \subseteq Decided(q1))}
<1>1. r \in SceneRecord /\ r.running = q1.running
  BY UpdateCountersType
<1>2. r.covered = q1.covered /\ r.notcovered = q1.notcovered
  BY UpdateCountersDecides
<1>3. /\ r.buildable = q1.buildable \cup more
      /\ r.done = DoneBelow(S, q1.done)
      /\ r.harddep_deferred = left
  <2>1. r = [q1 EXCEPT !.buildable = @ \cup more, !.done = DoneBelow(S, @),
                       !.harddep_deferred = left]
    BY DEF UpdateCounters
  <2> HIDE DEF r, more, left
  <2> QED
    BY <2>1 DEF SceneRecord
<1>4. Decided(r) = Decided(q1)
  BY <1>2 DEF Decided
<1> HIDE DEF r
<1>5. \A d \in Setscene : sq_revdeps[d] \cap S # {} /\ sq_revdeps[d] \subseteq Decided(r)
          => d \in r.buildable
  BY <1>3, <1>4
<1>6. /\ r.harddep_deferred \subseteq q.harddep_deferred
      /\ (\E t \in S : HardDeps(t) # {}) =>
            \A d \in r.harddep_deferred : ~(HardDepsRev[d] \subseteq Decided(r))
  BY <1>3, <1>4
<1> HIDE DEF more, left
<1>7. Advances(r, q, S)
  BY <1>1, <1>3, <1>4, <1>5, <1>6 DEF Advances
<1> QED
  BY <1>7 DEF r

\* sq_task_skip() decides what it is given ...
LEMMA SkipAdvances ==
    ASSUME NEW q \in SceneRecord, NEW S \in SUBSET Setscene
    PROVE  Advances(sq_task_skip(q, S), q, S)
<1> DEFINE q1 == [q EXCEPT !.running = @ \cup S, !.buildable = @ \cup S]
           q2 == [q1 EXCEPT !.covered = @ \cup S]
<1>1. /\ q2 \in SceneRecord /\ Decided(q2) = Decided(q) \cup S /\ q2.done = q.done
      /\ q.buildable \cup S \subseteq q2.buildable /\ q2.running = q.running \cup S
      /\ q2.harddep_deferred = q.harddep_deferred
  BY DEF SceneRecord, Decided
<1>2. sq_task_skip(q, S) = UpdateCounters(q2, S)
  BY DEF sq_task_skip, sq_task_completeoutright
<1> HIDE DEF q2
<1> QED
  BY <1>1, <1>2, CountersAdvance

\* ... and sq_task_failoutright() that, and what fails with it.
LEMMA FailAdvances ==
    ASSUME NEW q \in SceneRecord, NEW S \in SUBSET Setscene, NEW h, NEW disk
    PROVE  Advances(sq_task_failoutright(q, S, h, disk), q, HardFailures(q, S, h, disk))
<1> DEFINE lost == HardFailures(q, S, h, disk)
           q1 == [q EXCEPT !.running = @ \cup lost, !.buildable = @ \cup lost,
                           !.notcovered = @ \cup lost]
<1>1. lost \in SUBSET Setscene
  BY DEF HardFailures
<1>2. sq_task_failoutright(q, S, h, disk) = UpdateCounters(q1, lost)
  BY DEF sq_task_failoutright
<1> HIDE DEF lost
<1>3. /\ q1 \in SceneRecord /\ Decided(q1) = Decided(q) \cup lost /\ q1.done = q.done
      /\ q.buildable \cup lost \subseteq q1.buildable /\ q1.running = q.running \cup lost
      /\ q1.harddep_deferred = q.harddep_deferred
  BY <1>1 DEF SceneRecord, Decided
<1> HIDE DEF q1
<1>4. Advances(UpdateCounters(q1, lost), q, lost)
  BY <1>1, <1>3, CountersAdvance
<1> QED
  BY <1>2, <1>4 DEF lost

\* update_scenequeue_data() decides what has nothing to restore.
LEMMA UpdateDataAdvances ==
    ASSUME NEW q \in SceneRecord, NEW tids \in SUBSET Setscene,
           NEW valid, NEW deferred, NEW h, NEW disk
    PROVE  Advances(update_scenequeue_data(q, tids, valid, deferred, h, disk), q,
                    Current(tids, h, disk))
<1> DEFINE S == Current(tids, h, disk)
           q1 == sq_task_skip(q, S)
           f == (q1.outrightfail \ tids) \cup ((tids \ S) \ (valid \cup Decided(q1)
                                                    \cup DOMAIN deferred))
           r == [q1 EXCEPT !.outrightfail = f]
<1>1. update_scenequeue_data(q, tids, valid, deferred, h, disk) = r
  BY DEF update_scenequeue_data, Current
<1>2. r \in SceneRecord
  <2>1. update_scenequeue_data(q, tids, valid, deferred, h, disk) \in SceneRecord
    BY UpdateDataType
  <2> HIDE DEF r
  <2> QED
    BY <1>1, <2>1
<1>3. S \in SUBSET Setscene
  BY DEF Current
<1>4. q1 \in SceneRecord /\ Advances(q1, q, S)
  BY <1>3, SkipType, SkipAdvances
<1> HIDE DEF S, q1, f
<1>5. /\ r.covered = q1.covered /\ r.notcovered = q1.notcovered /\ r.done = q1.done
      /\ r.buildable = q1.buildable /\ r.running = q1.running
      /\ r.harddep_deferred = q1.harddep_deferred
  BY <1>4 DEF SceneRecord
<1>6. Decided(r) = Decided(q1)
  BY <1>5 DEF Decided
<1> HIDE DEF r
<1>7. Advances(r, q, S)
  BY <1>2, <1>4, <1>5, <1>6 DEF Advances
<1> QED
  BY <1>1, <1>7 DEF S

\* A task reached from S is in S, or is what a plain one that is reached depends on.
LEMMA WalkDownBack ==
    ASSUME NEW S \in SUBSET Task, NEW x \in WalkDown(S)
    PROVE  x \in S \/ \E y \in WalkDown(S) \cap Plain : x \in Depends[y]
<1> DEFINE Closed(X) == S \subseteq X /\ \A t \in X \cap Plain : Depends[t] \subseteq X
           Y == WalkDown(S) \ {x}
<1> SUFFICES ASSUME x \notin S, \A y \in WalkDown(S) \cap Plain : x \notin Depends[y]
             PROVE  FALSE
  OBVIOUS
<1>1. WalkDown(S) \in SUBSET Task /\ x \in Task
  BY DEF WalkDown
<1>2. \A X \in SUBSET Task : Closed(X) => x \in X
  BY DEF WalkDown
<1>3. S \subseteq WalkDown(S)
  BY WalkDownStart
<1>4. \A t \in Y \cap Plain : Depends[t] \subseteq Y
  BY WalkDownFrom
<1>5. Closed(Y)
  BY <1>3, <1>4
<1> QED
  BY <1>1, <1>2, <1>5

\* What Unsettle leaves of each set.
LEMMA UnsettleRecord ==
    ASSUME sq \in SceneRecord, NEW mig \in SUBSET Setscene
    PROVE  /\ Unsettle(mig).buildable = sq.buildable \ mig
           /\ Unsettle(mig).harddep_deferred = sq.harddep_deferred
           /\ Unsettle(mig).done = sq.done \ (mig \cup
                 {d \in Below(mig) : d \notin runq_complete /\ d \notin unskippable})
<1> DEFINE gone == mig \cup {d \in Below(mig) : d \notin runq_complete /\ d \notin unskippable}
           q1 == [sq EXCEPT !.buildable = @ \ mig, !.running = @ \ mig]
           q2 == [q1 EXCEPT !.outrightfail = @ \ mig, !.covered = @ \ mig]
           q3 == [q2 EXCEPT !.notcovered = @ \ mig, !.notneeded = @ \ mig]
<1>1. Unsettle(mig) = [q3 EXCEPT !.done = @ \ gone]
  BY Zenon DEF Unsettle, Below
<1> HIDE DEF gone
<1>2. /\ q1 \in SceneRecord /\ q1.buildable = sq.buildable \ mig
      /\ q1.harddep_deferred = sq.harddep_deferred /\ q1.done = sq.done
  BY DEF SceneRecord
<1> HIDE DEF q1
<1>3. /\ q2 \in SceneRecord /\ q2.buildable = q1.buildable
      /\ q2.harddep_deferred = q1.harddep_deferred /\ q2.done = q1.done
  BY <1>2 DEF SceneRecord
<1> HIDE DEF q2
<1>4. /\ q3 \in SceneRecord /\ q3.buildable = q2.buildable
      /\ q3.harddep_deferred = q2.harddep_deferred /\ q3.done = q2.done
  BY <1>3 DEF SceneRecord
<1> HIDE DEF q3
<1>5. /\ Unsettle(mig).buildable = q3.buildable
      /\ Unsettle(mig).harddep_deferred = q3.harddep_deferred
      /\ Unsettle(mig).done = q3.done \ gone
  BY <1>1, <1>4 DEF SceneRecord
<1> QED
  BY <1>2, <1>3, <1>4, <1>5 DEF gone

\* What is put back is done no more, nor is what it covers.
LEMMA UnsettleKeeps ==
    ASSUME IInv, KeptBut(sq, {}), NEW mig \in SUBSET Setscene
    PROVE  KeptBut(Unsettle(mig), mig)
<1> DEFINE r == Unsettle(mig)
           below == {d \in Below(mig) : d \notin runq_complete /\ d \notin unskippable}
<1>1. sq \in SceneRecord /\ OrderInv
  BY DEF IInv, TypeOK
<1>2. /\ r.covered = sq.covered \ mig /\ r.notcovered = sq.notcovered \ mig
      /\ r.running = sq.running \ mig /\ r.buildable = sq.buildable \ mig
      /\ r.harddep_deferred = sq.harddep_deferred
      /\ r.done = sq.done \ (mig \cup below)
  BY <1>1, UnsettleDecides, UnsettleType, UnsettleRecord
<1>3. /\ Setscene \subseteq Task /\ Below(mig) \subseteq Plain
      /\ Plain \cap Setscene = {} /\ Plain \subseteq Task
  BY GraphAssumption DEF Below, sq_covered_tasks, Plain
<1> HIDE DEF r
<1>4. Decided(r) = Decided(sq) \ mig
  BY <1>2 DEF Decided
<1>5. r.done \cap Setscene = Decided(r)
  BY <1>2, <1>3, <1>4 DEF KeptBut
<1>6. ASSUME NEW d \in below PROVE ~(RevDeps(d) \subseteq r.done)
  <2>1. PICK t \in mig : d \in sq_covered_tasks[t]
    BY <1>6 DEF Below
  <2>2. d \in WalkDown(Depends[t]) /\ d \in Plain /\ t \in Task
    BY <1>3, <2>1 DEF sq_covered_tasks
  <2>3. CASE d \in Depends[t]
    <3>1. t \in RevDeps(d)
      BY <2>2, <2>3 DEF RevDeps
    <3> QED
      BY <1>2, <3>1
  <2>4. CASE \E y \in WalkDown(Depends[t]) \cap Plain : d \in Depends[y]
    <3> PICK y \in WalkDown(Depends[t]) \cap Plain : d \in Depends[y]
      BY <2>4
    <3>1. y \in Below(mig) /\ y \in RevDeps(d)
      BY <1>3 DEF Below, sq_covered_tasks, RevDeps
    <3>2. y \notin runq_complete
      BY <1>1, <1>6 DEF OrderInv
    <3>3. y \notin unskippable
      BY <1>6, WalkDownFrom DEF unskippable
    <3> QED
      BY <1>2, <3>1, <3>2, <3>3
  <2>5. Depends[t] \in SUBSET Task
    BY <2>2, GraphAssumption
  <2> QED
    BY <2>2, <2>3, <2>4, <2>5, WalkDownBack
<1>7. ASSUME NEW d \in Plain \ r.done PROVE ~(RevDeps(d) \subseteq r.done)
  <2>1. CASE d \in below
    BY <1>6, <2>1
  <2>2. CASE d \notin below
    <3>1. d \notin sq.done
      BY <1>2, <1>3, <1>7, <2>2
    <3> QED
      BY <1>2, <3>1 DEF KeptBut
  <2> QED
    BY <2>1, <2>2
<1>8. Decided(r) \subseteq r.buildable \cap r.running
  BY <1>2, <1>4 DEF KeptBut
<1>9. \A t \in Setscene \ mig : sq_revdeps[t] \subseteq Decided(r) => t \in r.buildable
  BY <1>2, <1>4 DEF KeptBut
<1>10. \A d \in r.harddep_deferred : ~(HardDepsRev[d] \subseteq Decided(r))
  BY <1>2, <1>4 DEF KeptBut
<1>11. KeptBut(r, mig)
  BY <1>5, <1>7, <1>8, <1>9, <1>10 DEF KeptBut
<1> QED
  BY <1>11 DEF r

\* Putting tasks back and judging them again keeps the record, those tasks and all.
LEMMA ResettleKeeps ==
    ASSUME IInv, KeptBut(sq, {}), NEW mig \in SUBSET Setscene,
           NEW h, NEW deferred, NEW valid, NEW disk
    PROVE  LET r == Resettle(mig, h, deferred, valid, disk)
           IN  /\ KeptBut(r, {}) /\ r.harddep_deferred = {}
               /\ sq.buildable \ mig \subseteq r.buildable
<1> DEFINE q1 == Unsettle(mig)
           ready == {t \in mig : \/ sq_revdeps[t] = {}
                                 \/ /\ ~MissingHardDep(q1, t)
                                    /\ sq_revdeps[t] \subseteq Decided(q1)}
           q2 == [q1 EXCEPT !.buildable = @ \cup ready]
           q3 == update_scenequeue_data(q2, mig, valid, deferred, h, disk)
           lost == {t \in mig : MissingHardDep(q1, t)}
           q4 == sq_task_failoutright(q3, lost, h, disk)
           r == [q4 EXCEPT !.harddep_deferred = {}]
<1>1. q1 \in SceneRecord /\ KeptBut(q1, mig) /\ q1.buildable = sq.buildable \ mig
  BY UnsettleType, UnsettleKeeps, UnsettleRecord DEF IInv, TypeOK
<1>2. /\ ready \in SUBSET Setscene /\ lost \in SUBSET Setscene
      /\ \A t \in mig \ lost : sq_revdeps[t] \subseteq Decided(q1) => t \in ready
  OBVIOUS
<1>3. Resettle(mig, h, deferred, valid, disk) = r
  BY DEF Resettle
<1> HIDE DEF q1, ready, lost
<1>4. q2 \in SceneRecord /\ KeptBut(q2, lost) /\ q1.buildable \subseteq q2.buildable
  <2>1. /\ q2 \in SceneRecord /\ q2.covered = q1.covered /\ q2.notcovered = q1.notcovered
        /\ q2.running = q1.running /\ q2.buildable = q1.buildable \cup ready
        /\ q2.done = q1.done /\ q2.harddep_deferred = q1.harddep_deferred
    BY <1>1, <1>2 DEF SceneRecord
  <2>2. Decided(q2) = Decided(q1)
    BY <2>1 DEF Decided
  <2> HIDE DEF q2
  <2> QED
    BY <1>1, <1>2, <2>1, <2>2 DEF KeptBut
<1> HIDE DEF q2
<1>5. /\ q3 \in SceneRecord /\ KeptBut(q3, lost \ Current(mig, h, disk))
      /\ q2.buildable \subseteq q3.buildable
  <2>1. q3 \in SceneRecord /\ Advances(q3, q2, Current(mig, h, disk))
    BY <1>4, UpdateDataType, UpdateDataAdvances
  <2> HIDE DEF q3
  <2> QED
    BY <1>4, <2>1, AdvanceKeeps DEF Advances
<1> HIDE DEF q3
<1>6. q4 \in SceneRecord /\ KeptBut(q4, {}) /\ q3.buildable \subseteq q4.buildable
  <2>1. q4 \in SceneRecord /\ Advances(q4, q3, HardFailures(q3, lost, h, disk))
    BY <1>2, <1>5, FailType, FailAdvances
  <2>2. lost \subseteq HardFailures(q3, lost, h, disk)
    BY <1>2 DEF HardFailures
  <2> HIDE DEF q4
  <2>3. KeptBut(q4, (lost \ Current(mig, h, disk)) \ HardFailures(q3, lost, h, disk))
    BY <1>5, <2>1, AdvanceKeeps
  <2>4. (lost \ Current(mig, h, disk)) \ HardFailures(q3, lost, h, disk) = {}
    BY <2>2
  <2> QED
    BY <2>1, <2>3, <2>4 DEF Advances
<1> HIDE DEF q4
<1>7. KeptBut(r, {}) /\ r.harddep_deferred = {} /\ r.buildable = q4.buildable
  <2>1. /\ r.covered = q4.covered /\ r.notcovered = q4.notcovered
        /\ r.running = q4.running /\ r.buildable = q4.buildable
        /\ r.done = q4.done /\ r.harddep_deferred = {}
    BY <1>6 DEF SceneRecord
  <2>2. Decided(r) = Decided(q4)
    BY <2>1 DEF Decided
  <2> HIDE DEF r
  <2> QED
    BY <1>6, <2>1, <2>2 DEF KeptBut
<1>8. sq.buildable \ mig \subseteq r.buildable
  BY <1>1, <1>4, <1>5, <1>6, <1>7
<1> HIDE DEF r
<1> QED
  BY <1>3, <1>7, <1>8

\* q is in order, and so are the hard dependencies asked for, needed: they are
\* buildable, and all that waits for them has asked.
InOrder(q, needed) ==
    /\ KeptBut(q, {})
    /\ q.running \subseteq Decided(q) \cup sq_live
    /\ sq_live \cup needed \subseteq q.buildable
    /\ \A d \in q.harddep_deferred : HardDepsRev[d] \subseteq needed

\* The scene queue is in order.
RecordInv == InOrder(sq, sq_needed_harddeps)

\* Deciding tasks leaves the scene queue in order ...
LEMMA AdvanceInOrder ==
    ASSUME NEW q \in SceneRecord, NEW r, NEW S, NEW needed,
           Advances(r, q, S), InOrder(q, needed)
    PROVE  InOrder(r, needed)
<1>1. KeptBut(r, {} \ S)
  BY AdvanceKeeps DEF InOrder
<1>2. {} \ S = {}
  OBVIOUS
<1> QED
  BY <1>1, <1>2 DEF InOrder, Advances

\* ... and so does putting aside what waits for a hard dependency.
LEMMA PutAsideInOrder ==
    ASSUME TypeOK, RecordInv, NEW D \in SUBSET PassedOver
    PROVE  /\ PutAside(D) \in SceneRecord /\ InOrder(PutAside(D), sq_needed_harddeps)
           /\ Decided(PutAside(D)) = Decided(sq) /\ PutAside(D).buildable = sq.buildable
           /\ PutAside(D).running = sq.running
           /\ PutAside(D).harddep_deferred = sq.harddep_deferred \cup D
<1> DEFINE q == PutAside(D)
<1>1. D \in SUBSET Setscene
  BY DEF PassedOver, SceneCandidates, TypeOK, SceneRecord
<1>2. /\ q \in SceneRecord /\ q.covered = sq.covered /\ q.notcovered = sq.notcovered
      /\ q.running = sq.running /\ q.buildable = sq.buildable /\ q.done = sq.done
      /\ q.harddep_deferred = sq.harddep_deferred \cup D
  BY <1>1 DEF PutAside, TypeOK, SceneRecord
<1>3. Decided(q) = Decided(sq)
  BY <1>2 DEF Decided
<1>4. \A d \in D : /\ ~(HardDepsRev[d] \subseteq Decided(sq))
                   /\ HardDepsRev[d] \subseteq sq_needed_harddeps
  BY DEF PassedOver, AwaitsHardDep
<1> HIDE DEF q
<1>5. InOrder(q, sq_needed_harddeps)
  BY <1>2, <1>3, <1>4 DEF InOrder, RecordInv, KeptBut
<1> QED
  BY <1>2, <1>3, <1>5 DEF q

\* The scene queue is in order when the build starts.
LEMMA RecordInit == Init => RecordInv
<1> SUFFICES ASSUME Init PROVE RecordInv
  OBVIOUS
<1> DEFINE q == [buildable |-> {t \in Setscene : sq_revdeps[t] = {}},
                 running |-> {}, covered |-> {}, notcovered |-> {}, notneeded |-> {},
                 done |-> unskippable \cap Plain,
                 harddep_deferred |-> {}, outrightfail |-> {}]
<1>1. PICK valid : sq = update_scenequeue_data(q, Setscene, valid, InitDeferred,
                                               InitHash, stamps)
  BY DEF Init, InitScene
<1>2. sq_live = {} /\ sq_needed_harddeps = {}
  BY DEF Init
<1>3. /\ q \in SceneRecord /\ Decided(q) = {} /\ q.running = {}
      /\ q.done = unskippable \cap Plain /\ q.harddep_deferred = {}
      /\ q.buildable = {t \in Setscene : sq_revdeps[t] = {}}
  BY GraphAssumption DEF SceneRecord, Plain, Decided
<1>4. ASSUME NEW d \in Plain, d \notin unskippable, RevDeps(d) \subseteq unskippable \cap Plain
      PROVE  FALSE
  <2> DEFINE tops == {t \in Task : RevDeps(t) = {}} \cup cantskip
  <2>1. d \in Task
    BY DEF Plain
  <2>2. tops \cap Task \subseteq WalkDown(tops)
    BY WalkDownStart
  <2>3. RevDeps(d) # {}
    BY <1>4, <2>1, <2>2 DEF unskippable
  <2>4. PICK r \in unskippable \cap Plain : d \in Depends[r]
    BY <1>4, <2>3 DEF RevDeps
  <2> QED
    BY <1>4, <2>4, WalkDownFrom DEF unskippable
<1>5. Plain \cap Setscene = {}
  BY DEF Plain
<1> HIDE DEF q
<1>6. InOrder(q, {})
  BY <1>2, <1>3, <1>4, <1>5 DEF InOrder, KeptBut
<1> QED
  BY <1>1, <1>2, <1>3, <1>6, UpdateDataAdvances, AdvanceInOrder DEF RecordInv

\* What a completed task releases is judged again.
LEMMA CompleteAdvances ==
    ASSUME TypeOK, NEW t \in Task, NEW disk, task_completeoutright(t, disk)
    PROVE  sq' = sq \/ \E S : Advances(sq', sq, S)
<1> DEFINE waiting == {d \in DOMAIN sq_deferred : sq_deferred[d] = t}
<1>1. CASE waiting = {}
  BY <1>1 DEF task_completeoutright
<1>2. CASE waiting # {}
  <2>1. PICK found \in waiting, valid \in SUBSET MayBeValid :
          LET kept == Restrict(sq_deferred, DOMAIN sq_deferred \ {found})
          IN  sq' = update_scenequeue_data(sq, {found}, valid, kept, unihash, stamps')
    BY <1>2 DEF task_completeoutright
  <2> DEFINE kept == Restrict(sq_deferred, DOMAIN sq_deferred \ {found})
  <2>2. {found} \in SUBSET Setscene /\ sq \in SceneRecord
    BY DEF TypeOK
  <2>3. sq' = update_scenequeue_data(sq, {found}, valid, kept, unihash, stamps')
    BY <2>1
  <2> HIDE DEF kept
  <2> QED
    BY <2>2, <2>3, UpdateDataAdvances
<1> QED
  BY <1>1, <1>2

\* The exit of a restore decides its task.
LEMMA ExitAdvances ==
    ASSUME TypeOK, LiveInv, RecordInv, NEW t \in Task, NEW ok \in BOOLEAN, NEW disk,
           SetsceneExit(t, ok, disk)
    PROVE  \E S : t \in S /\ Advances(sq', sq, S)
<1>1. /\ t \in Setscene /\ t \in sq.buildable /\ t \in sq.running /\ sq \in SceneRecord
  BY DEF TypeOK, SetsceneExit, LiveInv, RecordInv, InOrder
<1>2. CASE ok
  <2> DEFINE q2 == [sq EXCEPT !.covered = @ \cup {t}]
  <2>1. /\ q2 \in SceneRecord /\ Decided(q2) = Decided(sq) \cup {t} /\ q2.done = sq.done
        /\ sq.buildable \cup {t} \subseteq q2.buildable
        /\ q2.running = sq.running \cup {t}
        /\ q2.harddep_deferred = sq.harddep_deferred
    BY <1>1 DEF SceneRecord, Decided
  <2>2. sq' = UpdateCounters(q2, {t})
    BY <1>2 DEF SetsceneExit, sq_task_completeoutright
  <2> HIDE DEF q2
  <2> QED
    BY <1>1, <2>1, <2>2, CountersAdvance
<1>3. CASE ~ok
  <2> DEFINE failed == [sq EXCEPT !.notcovered = @ \cup {t}]
             rest == HardFailures(failed, {t}, unihash, disk) \ {t}
             q2 == [failed EXCEPT !.running = @ \cup rest,
                                  !.buildable = @ \cup rest,
                                  !.notcovered = @ \cup rest]
  <2>1. /\ failed \in SceneRecord /\ Decided(failed) = Decided(sq) \cup {t}
        /\ failed.done = sq.done /\ failed.buildable = sq.buildable
        /\ failed.running = sq.running /\ failed.harddep_deferred = sq.harddep_deferred
    BY <1>1 DEF SceneRecord, Decided
  <2>2. sq' = UpdateCounters(q2, rest \cup {t})
    BY <1>3 DEF SetsceneExit
  <2> HIDE DEF failed
  <2>3. rest \in SUBSET Setscene
    BY DEF HardFailures
  <2> HIDE DEF rest
  <2>4. /\ q2 \in SceneRecord /\ Decided(q2) = Decided(failed) \cup rest
        /\ q2.done = failed.done /\ q2.buildable = failed.buildable \cup rest
        /\ q2.running = failed.running \cup rest
        /\ q2.harddep_deferred = failed.harddep_deferred
    BY <2>1, <2>3 DEF SceneRecord, Decided
  <2> HIDE DEF q2
  <2>5. rest \cup {t} \in SUBSET Setscene /\ Decided(q2) = Decided(sq) \cup (rest \cup {t})
    BY <1>1, <2>1, <2>3, <2>4
  <2> QED
    BY <1>1, <2>1, <2>2, <2>4, <2>5, CountersAdvance
<1> QED
  BY <1>2, <1>3

\* A look that skips or fails a task decides it.
LEMMA SettleInOrder ==
    ASSUME TypeOK, RecordInv, NEW t \in Setscene, NEW D \in SUBSET PassedOver,
           SceneNotNeeded(t, D) \/ SceneSettle(t, D)
    PROVE  RecordInv'
<1> DEFINE q == PutAside(D)
           q2 == sq_task_skip(q, {t})
           q3 == [q2 EXCEPT !.notneeded = @ \cup {t}]
<1>1. q \in SceneRecord /\ InOrder(q, sq_needed_harddeps)
  BY PutAsideInOrder
<1>2. /\ UNCHANGED <<sq_live, sq_needed_harddeps>>
      /\ sq' = q3 \/ sq' = sq_task_failoutright(q, {t}, unihash, stamps) \/ sq' = q2
  BY DEF SceneNotNeeded, SceneSettle, SceneChosen
<1> HIDE DEF q
<1>3. q2 \in SceneRecord /\ InOrder(q2, sq_needed_harddeps)
  <2>1. Advances(q2, q, {t}) /\ q2 \in SceneRecord
    BY <1>1, SkipAdvances, SkipType
  <2> HIDE DEF q2
  <2> QED
    BY <1>1, <2>1, AdvanceInOrder
<1> HIDE DEF q2
<1>4. InOrder(q3, sq_needed_harddeps)
  <2>1. /\ q3.covered = q2.covered /\ q3.notcovered = q2.notcovered
        /\ q3.running = q2.running /\ q3.buildable = q2.buildable
        /\ q3.done = q2.done /\ q3.harddep_deferred = q2.harddep_deferred
    BY <1>3 DEF SceneRecord
  <2>2. Decided(q3) = Decided(q2)
    BY <2>1 DEF Decided
  <2> HIDE DEF q3
  <2> QED
    BY <1>3, <2>1, <2>2 DEF InOrder, KeptBut
<1>5. InOrder(sq_task_failoutright(q, {t}, unihash, stamps), sq_needed_harddeps)
  BY <1>1, FailAdvances, AdvanceInOrder
<1> HIDE DEF q3
<1>6. InOrder(sq', sq_needed_harddeps)
  BY <1>2, <1>3, <1>4, <1>5
<1> QED
  BY <1>2, <1>6 DEF RecordInv, InOrder

\* A look that has a task wait makes what it waits for buildable.
LEMMA WaitInOrder ==
    ASSUME TypeOK, RecordInv, NEW t \in Setscene, NEW D \in SUBSET PassedOver,
           SceneNeedHardDeps(t, D) \/ SceneStart(t, D)
    PROVE  RecordInv' /\ Decided(sq)' = Decided(sq)
<1>1. D \in SUBSET Setscene /\ HardDepsRev[t] \in SUBSET Setscene
  BY GraphAssumption DEF PassedOver, SceneCandidates, TypeOK, SceneRecord
<1>2. CASE SceneStart(t, D)
  <2> DEFINE q == PutAside(D)
  <2>1. q \in SceneRecord /\ InOrder(q, sq_needed_harddeps) /\ Decided(q) = Decided(sq)
        /\ q.buildable = sq.buildable
    BY PutAsideInOrder
  <2>2. /\ sq' = [q EXCEPT !.running = @ \cup {t}] /\ UNCHANGED sq_needed_harddeps
        /\ sq_live' = sq_live \cup {t} /\ t \in sq.buildable
    BY <1>2 DEF SceneStart, SceneChosen, SceneTurn, SceneCandidates, MarkRunning
  <2> HIDE DEF q
  <2>3. /\ sq'.covered = q.covered /\ sq'.notcovered = q.notcovered
        /\ sq'.running = q.running \cup {t} /\ sq'.buildable = q.buildable
        /\ sq'.done = q.done /\ sq'.harddep_deferred = q.harddep_deferred
    BY <2>1, <2>2 DEF SceneRecord
  <2>4. Decided(sq') = Decided(q)
    BY <2>3 DEF Decided
  <2> QED
    BY <2>1, <2>2, <2>3, <2>4 DEF RecordInv, InOrder, KeptBut, Decided
<1>3. CASE SceneNeedHardDeps(t, D)
  <2> DEFINE q == PutAside(D \cup {t})
             more == HardDepsRev[t] \ sq_needed_harddeps
  <2>1. /\ q \in SceneRecord /\ q.covered = sq.covered /\ q.notcovered = sq.notcovered
        /\ q.running = sq.running /\ q.buildable = sq.buildable /\ q.done = sq.done
        /\ q.harddep_deferred = sq.harddep_deferred \cup (D \cup {t})
    BY <1>1 DEF PutAside, TypeOK, SceneRecord
  <2>2. /\ sq' = [q EXCEPT !.buildable = @ \cup more]
        /\ sq_needed_harddeps' = sq_needed_harddeps \cup HardDepsRev[t]
        /\ UNCHANGED sq_live /\ ~(HardDepsRev[t] \subseteq Decided(sq))
    BY <1>3 DEF SceneNeedHardDeps, AwaitsHardDep
  <2> HIDE DEF q
  <2>3. /\ sq'.covered = q.covered /\ sq'.notcovered = q.notcovered
        /\ sq'.running = q.running /\ sq'.buildable = q.buildable \cup more
        /\ sq'.done = q.done /\ sq'.harddep_deferred = q.harddep_deferred
    BY <2>1, <2>2 DEF SceneRecord
  <2>4. Decided(sq') = Decided(sq)
    BY <2>1, <2>3 DEF Decided
  <2>5. \A d \in D : /\ ~(HardDepsRev[d] \subseteq Decided(sq))
                     /\ HardDepsRev[d] \subseteq sq_needed_harddeps
    BY DEF PassedOver, AwaitsHardDep
  <2>6. KeptBut(sq', {})
    BY <2>1, <2>2, <2>3, <2>4, <2>5 DEF RecordInv, InOrder, KeptBut
  <2>7. sq_live' \cup sq_needed_harddeps' \subseteq sq'.buildable
    BY <2>1, <2>2, <2>3 DEF RecordInv, InOrder
  <2>8. \A d \in sq'.harddep_deferred : HardDepsRev[d] \subseteq sq_needed_harddeps'
    BY <2>1, <2>2, <2>3, <2>5 DEF RecordInv, InOrder
  <2>9. sq'.running \subseteq Decided(sq') \cup sq_live'
    BY <2>1, <2>2, <2>3, <2>4 DEF RecordInv, InOrder
  <2> QED
    BY <2>4, <2>6, <2>7, <2>8, <2>9 DEF RecordInv, InOrder, KeptBut, Decided
<1> QED
  BY <1>2, <1>3

\* A look that finds nothing to pick decides nothing.
LEMMA NoneInOrder ==
    ASSUME TypeOK, RecordInv, SceneNone
    PROVE  RecordInv' /\ Decided(sq)' = Decided(sq)
<1>1. /\ sq' = sq \/ sq' = PutAside(PassedOver)
      /\ UNCHANGED <<sq_live, sq_needed_harddeps>>
  BY DEF SceneNone
<1>2. /\ InOrder(PutAside(PassedOver), sq_needed_harddeps)
      /\ Decided(PutAside(PassedOver)) = Decided(sq)
  BY PutAsideInOrder
<1>3. InOrder(sq', sq_needed_harddeps) /\ Decided(sq') = Decided(sq)
  BY <1>1, <1>2 DEF RecordInv
<1> QED
  BY <1>1, <1>3 DEF RecordInv, InOrder, Decided

\* A migration that finds nothing to halt the build for: what was put back is judged
\* again, and the tables with it.
LEMMA MigrateInOrder ==
    ASSUME IInv, XorInv, SkippedInv, RecordInv, Migrate,
           pending_migrations \subseteq sq.notcovered
    PROVE  /\ RecordInv' /\ UNCHANGED <<state, failed_tids>>
           /\ holdoff_need_update => holdoff_need_update'
           /\ \/ holdoff_need_update' = TRUE /\ sqdone' = FALSE
              \/ UNCHANGED <<sqdone, sq_deferred>> /\ Decided(sq') = Decided(sq)
           /\ \E mig : build_stamps' = Restrict(build_stamps, DOMAIN build_stamps \ mig)
<1>1. PICK newhash \in [Dependants(toprocess) -> Hash] :
       LET changed == Rehashed(newhash, unihash)
           pend == pending_migrations \cup (changed \cap Setscene)
           mig == pend \ (TooLate(pend) \cup Blocked(pend))
           rerun == {t \in mig : sq_covered_tasks[t] \cap
                                    (runq_complete \ runq_tasksrun) # {}}
       IN  IF rerun # {} THEN HaltOnRerun(pend, mig, rerun, unihash')
           ELSE Rejudge(pend, mig, changed, unihash')
  BY DEF Migrate
<1> DEFINE changed == Rehashed(newhash, unihash)
           pend == pending_migrations \cup (changed \cap Setscene)
           mig == pend \ (TooLate(pend) \cup Blocked(pend))
           rerun == {t \in mig : sq_covered_tasks[t] \cap
                                    (runq_complete \ runq_tasksrun) # {}}
<1>2. sq \in SceneRecord /\ pending_migrations \subseteq Setscene
  BY DEF IInv, TypeOK
<1>3. mig \in SUBSET Setscene /\ mig \cap sq.covered = {} /\ mig \cap sq_live = {}
  BY <1>2 DEF XorInv, Rehashed, TooLate
<1>4. rerun = {}
  <2>1. stage = "migrate"
    BY DEF Migrate
  <2>2. \A d \in runq_complete \ runq_tasksrun : \A s \in Setscene :
           d \in sq_covered_tasks[s] => s \in sq.covered
    BY <2>1 DEF SkippedInv, MayStart
  <2> QED
    BY <1>3, <2>2
<1>5. UNCHANGED sq_live
  BY DEF Migrate
<1>6. Rejudge(pend, mig, changed, unihash')
  BY <1>1, <1>4
<1> HIDE DEF mig, pend, changed
<1>7. /\ UNCHANGED <<state, failed_tids>>
      /\ build_stamps' = Restrict(build_stamps, DOMAIN build_stamps \ mig)
  BY <1>6 DEF Rejudge
<1>8. CASE mig = {}
  <2> DEFINE q == [sq EXCEPT !.harddep_deferred = {}]
  <2>1. /\ UNCHANGED <<sqdone, sq_deferred>>
        /\ \/ sq' = sq /\ UNCHANGED <<sq_needed_harddeps, holdoff_need_update>>
           \/ sq' = q /\ sq_needed_harddeps' = {} /\ holdoff_need_update' = TRUE
    BY <1>6, <1>8 DEF Rejudge
  <2>2. /\ q.covered = sq.covered /\ q.notcovered = sq.notcovered
        /\ q.running = sq.running /\ q.buildable = sq.buildable
        /\ q.done = sq.done /\ q.harddep_deferred = {}
    BY <1>2 DEF SceneRecord
  <2>3. Decided(q) = Decided(sq)
    BY <2>2 DEF Decided
  <2> HIDE DEF q
  <2>4. InOrder(q, {})
    BY <2>2, <2>3 DEF RecordInv, InOrder, KeptBut
  <2>5. CASE sq' = q /\ sq_needed_harddeps' = {} /\ holdoff_need_update' = TRUE
    BY <1>5, <1>7, <2>1, <2>3, <2>4, <2>5 DEF RecordInv, InOrder
  <2>6. CASE sq' = sq /\ UNCHANGED <<sq_needed_harddeps, holdoff_need_update>>
    BY <1>5, <1>7, <2>1, <2>6 DEF RecordInv, InOrder
  <2> QED
    BY <2>1, <2>5, <2>6
<1>9. CASE mig # {}
  <2>1. /\ sqdone' = FALSE /\ sq_needed_harddeps' = {} /\ holdoff_need_update' = TRUE
        /\ \E valid : sq' = Resettle(mig, unihash', sq_deferred', valid, stamps')
    BY <1>6, <1>9 DEF Rejudge
  <2>2. /\ KeptBut(sq', {}) /\ sq'.harddep_deferred = {}
        /\ sq.buildable \ mig \subseteq sq'.buildable
    <3>1. PICK valid : sq' = Resettle(mig, unihash', sq_deferred', valid, stamps')
      BY <2>1
    <3>2. KeptBut(sq, {})
      BY DEF RecordInv, InOrder
    <3> QED
      BY <1>3, <3>1, <3>2, ResettleKeeps
  <2>3. sq'.running \subseteq Decided(sq') \cup sq_live
    <3>1. PICK valid : sq' = Resettle(mig, unihash', sq_deferred', valid, stamps')
      BY <2>1
    <3> DEFINE C == Current(mig, unihash', stamps')
               F == MigrationFailures(mig, unihash', stamps')
    <3>2. Remade(sq', mig, C, F)
      BY <1>2, <1>3, <3>1, ResettleDecides
    <3> HIDE DEF C, F
    <3>3. sq.running \subseteq Decided(sq) \cup sq_live
      BY DEF RecordInv, InOrder
    <3> QED
      BY <3>2, <3>3 DEF Remade, Decided
  <2>4. RecordInv'
    BY <1>3, <1>5, <2>1, <2>2, <2>3 DEF RecordInv, InOrder
  <2> QED
    BY <1>7, <2>1, <2>4
<1> QED
  BY <1>8, <1>9

\* What a step does to the scene queue: it stays in order; it decides more, unless it
\* reopens the queue, and then has the tables computed anew.
DecidesMore ==
    /\ RecordInv'
    /\ holdoff_need_update' \/ Decided(sq') = Decided(sq)
    /\ sqdone /\ sqdone' =>
          /\ Decided(sq) \subseteq Decided(sq')
          /\ DOMAIN sq_deferred = {} => DOMAIN sq_deferred' = {}
    /\ \/ Holdoff
       \/ /\ holdoff_need_update => holdoff_need_update'
          /\ sqdone' => sqdone
          /\ UNCHANGED <<holdoff_tasks, tasks_covered, tasks_notcovered>>

\* Every step does so.
LEMMA RecordStep ==
    ASSUME IInv, SInv, XorInv, SkippedInv, RecordInv,
           Migrate => pending_migrations \subseteq sq.notcovered, [Next]_vars
    PROVE  DecidesMore
<1>0. /\ TypeOK /\ LiveInv /\ sq \in SceneRecord
      /\ InOrder(sq, sq_needed_harddeps)
  BY DEF IInv, SInv, TypeOK, RecordInv
<1>1. ASSUME UNCHANGED <<sq, sq_live, sq_needed_harddeps, sqdone, holdoff_tasks, tasks_covered,
                         tasks_notcovered, holdoff_need_update>>,
             DOMAIN sq_deferred' \subseteq DOMAIN sq_deferred
      PROVE  DecidesMore
  BY <1>0, <1>1 DEF DecidesMore, RecordInv, InOrder
<1>2. ASSUME NEW S, Advances(sq', sq, S), sq_live' \subseteq sq_live,
             sq_live \ sq_live' \subseteq Decided(sq'),
             UNCHANGED sq_needed_harddeps
      PROVE  RecordInv' /\ Decided(sq) \subseteq Decided(sq')
  <2>1. InOrder(sq', sq_needed_harddeps)
    BY <1>0, <1>2, AdvanceInOrder
  <2> QED
    BY <1>2, <2>1 DEF RecordInv, InOrder, Advances
<1>3. ASSUME NEW t \in Task, NEW disk, task_completeoutright(t, disk),
             UNCHANGED <<sq_live, sq_needed_harddeps, sqdone, holdoff_tasks, tasks_covered,
                         tasks_notcovered>>
      PROVE  DecidesMore
  <2>1. /\ holdoff_need_update => holdoff_need_update'
        /\ DOMAIN sq_deferred = {} => DOMAIN sq_deferred' = {}
    <3>1. /\ holdoff_need_update => holdoff_need_update'
          /\ \A d \in DOMAIN sq_deferred' :
                 d \in DOMAIN sq_deferred \/ sq_deferred'[d] \in DOMAIN sq_deferred
      BY <1>0, <1>3, CompleteDefers
    <3> QED
      BY <3>1
  <2>2. holdoff_need_update' \/ Decided(sq') = Decided(sq)
    BY <1>0, <1>3, CompleteJudges DEF Decided
  <2>3. RecordInv' /\ Decided(sq) \subseteq Decided(sq')
    <3>1. CASE sq' = sq
      BY <1>0, <1>3, <3>1 DEF RecordInv, InOrder
    <3>2. CASE \E S : Advances(sq', sq, S)
      BY <1>2, <1>3, <3>2
    <3> QED
      BY <1>0, <1>3, <3>1, <3>2, CompleteAdvances
  <2> QED
    BY <1>3, <2>1, <2>2, <2>3 DEF DecidesMore
<1>4. ASSUME WorkerExit PROVE DecidesMore
  <2> PICK kind \in Kind, t \in Task, h \in Hash, ok \in BOOLEAN : Exit(kind, t, h, ok)
    BY <1>4 DEF WorkerExit
  <2> DEFINE disk == StampsLeft(kind, t, h, ok)
  <2>1. /\ UNCHANGED <<sq_needed_harddeps, sqdone, holdoff_tasks, tasks_covered,
                       tasks_notcovered>>
        /\ TaskComplete(t, disk) \/ TaskFail(t) \/ SetsceneExit(t, ok, disk)
    BY DEF Exit
  <2> HIDE DEF disk
  <2>2. CASE TaskComplete(t, disk)
    BY <1>3, <2>1, <2>2 DEF TaskComplete
  <2>3. CASE TaskFail(t)
    BY <1>1, <2>1, <2>3 DEF TaskFail
  <2>4. CASE SetsceneExit(t, ok, disk)
    <3>1. RecordInv' /\ Decided(sq) \subseteq Decided(sq')
      <4>1. PICK S : t \in S /\ Advances(sq', sq, S)
        BY <1>0, <2>4, ExitAdvances DEF SInv
      <4>2. sq_live' = sq_live \ {t}
        BY <2>4 DEF SetsceneExit
      <4>3. t \in Decided(sq')
        BY <4>1 DEF Advances
      <4> QED
        BY <1>2, <2>1, <4>1, <4>2, <4>3
    <3>2. holdoff_need_update' = TRUE /\ UNCHANGED sq_deferred
      BY <2>4 DEF SetsceneExit
    <3> QED
      BY <2>1, <3>1, <3>2 DEF DecidesMore
  <2> QED
    BY <2>1, <2>2, <2>3, <2>4
<1>5. ASSUME NEW t \in Setscene, NEW D \in SUBSET PassedOver,
             \/ SceneNotNeeded(t, D) \/ SceneNeedHardDeps(t, D)
             \/ SceneSettle(t, D) \/ SceneStart(t, D)
      PROVE  DecidesMore
  <2>1. ~sqdone /\ UNCHANGED <<sqdone, holdoff_tasks, tasks_covered, tasks_notcovered>>
    <3>1. SceneTurn(t, D)
      BY <1>5 DEF SceneNotNeeded, SceneNeedHardDeps, SceneSettle, SceneStart, SceneChosen
    <3> QED
      BY <3>1 DEF SceneTurn
  <2>2. CASE SceneNotNeeded(t, D) \/ SceneSettle(t, D)
    <3>1. holdoff_need_update' = TRUE
      BY <2>2 DEF SceneNotNeeded, SceneSettle
    <3> QED
      BY <1>0, <2>1, <2>2, <3>1, SettleInOrder DEF DecidesMore
  <2>3. CASE SceneNeedHardDeps(t, D) \/ SceneStart(t, D)
    <3>1. UNCHANGED holdoff_need_update
      BY <2>3 DEF SceneNeedHardDeps, SceneStart
    <3>2. RecordInv' /\ Decided(sq)' = Decided(sq)
      BY <1>0, <2>3, WaitInOrder
    <3> QED
      BY <2>1, <3>1, <3>2 DEF DecidesMore, Decided
  <2> QED
    BY <1>5, <2>2, <2>3
<1>6. ASSUME SceneNone PROVE DecidesMore
  <2>1. RecordInv' /\ Decided(sq)' = Decided(sq)
    BY <1>0, <1>6, NoneInOrder
  <2> QED
    BY <1>6, <2>1 DEF SceneNone, holdoffVars, DecidesMore, Decided
<1>7. ASSUME Migrate PROVE DecidesMore
  <2>1. UNCHANGED <<holdoff_tasks, tasks_covered, tasks_notcovered>>
    BY <1>7 DEF Migrate
  <2> QED
    <3>1. /\ RecordInv'
          /\ holdoff_need_update => holdoff_need_update'
          /\ \/ holdoff_need_update' = TRUE /\ sqdone' = FALSE
             \/ UNCHANGED <<sqdone, sq_deferred>> /\ Decided(sq') = Decided(sq)
      BY <1>7, MigrateInOrder
    <3>2. CASE holdoff_need_update' = TRUE /\ sqdone' = FALSE
      BY <2>1, <3>1, <3>2 DEF DecidesMore
    <3>3. CASE UNCHANGED <<sqdone, sq_deferred>> /\ Decided(sq') = Decided(sq)
      BY <2>1, <3>1, <3>3 DEF DecidesMore
    <3> QED
      BY <3>1, <3>2, <3>3
<1>8. ASSUME Holdoff PROVE DecidesMore
  <2>1. UNCHANGED <<sq, sq_live, sq_deferred, sq_needed_harddeps>>
    BY <1>8 DEF Holdoff
  <2> QED
    BY <1>0, <1>8, <2>1 DEF DecidesMore, RecordInv, InOrder
<1>9. ASSUME NEW t \in Task,
             \/ SchedUnexpected(t) \/ SchedSkip(t) \/ SchedNoExec(t) \/ SchedStart(t)
      PROVE  DecidesMore
  <2>1. UNCHANGED <<sq_live, sq_needed_harddeps, sqdone, holdoff_tasks, tasks_covered,
                    tasks_notcovered>>
    BY <1>9 DEF SchedUnexpected, SchedSkip, SchedNoExec, SchedStart, Sched
  <2>2. CASE SchedUnexpected(t) \/ SchedStart(t)
    BY <1>1, <2>1, <2>2 DEF SchedUnexpected, SchedStart
  <2>3. CASE SchedSkip(t) \/ SchedNoExec(t)
    <3> PICK disk : task_completeoutright(t, disk)
      BY <2>3 DEF SchedSkip, SchedNoExec
    <3> QED
      BY <1>3, <2>1
  <2> QED
    BY <1>9, <2>2, <2>3
<1>10. ASSUME \E t \in Setscene : EndForceDeferred(t) PROVE DecidesMore
  <2> PICK t \in Setscene : EndForceDeferred(t)
    BY <1>10
  <2>1. DOMAIN sq_deferred' \subseteq DOMAIN sq_deferred
    BY DEF EndForceDeferred, Restrict
  <2> QED
    BY <1>1, <2>1 DEF EndForceDeferred, holdoffVars
<1>11. ASSUME \/ BeginTurn \/ CleanUp \/ EndRead \/ Teardown \/ NothingToMigrate
              \/ SchedNone \/ EndWait \/ Conclude \/ Stop \/ ForceStop
              \/ \E i \in DOMAIN updated_taskhash_queue : ApplyUpdate(i)
              \/ \E t \in Task, h \in Hash : UniHashUpdate(t, h)
              \/ UNCHANGED vars
       PROVE  DecidesMore
  <2>1. UNCHANGED <<sceneVars, holdoffVars>>
    BY <1>11 DEF BeginTurn, CleanUp, EndRead, Teardown, NothingToMigrate, SchedNone, EndWait,
                Conclude, Stop, ForceStop, ApplyUpdate, UniHashUpdate, vars, buildVars
  <2> QED
    <3>1. UNCHANGED <<sq, sq_live, sq_needed_harddeps, sqdone, holdoff_tasks, tasks_covered,
                      tasks_notcovered, holdoff_need_update>>
      BY <2>1 DEF sceneVars, holdoffVars
    <3>2. DOMAIN sq_deferred' \subseteq DOMAIN sq_deferred
      BY <2>1 DEF sceneVars
    <3> QED
      BY <1>1, <3>1, <3>2
<1>12. ASSUME Turn PROVE DecidesMore
  BY <1>5, <1>6, <1>7, <1>8, <1>9, <1>10, <1>11, <1>12 DEF Turn
<1> QED
  BY <1>4, <1>11, <1>12 DEF Next, WorkerEvent, Over

\* Nothing of the scene queue is left to decide.
AllDecided == Setscene \subseteq Decided(sq)

\* With every setscene task decided every task is done.
LEMMA AllDone ==
    ASSUME NEW q, NEW L, KeptBut(q, L), Setscene \subseteq Decided(q)
    PROVE  Task \subseteq q.done
<1> DEFINE S == Task \ q.done
<1> SUFFICES ASSUME S # {} PROVE FALSE
  OBVIOUS
<1>1. PICK t \in S : RevDeps(t) \cap S = {}
  BY AcyclicAssumption
<1>2. RevDeps(t) \subseteq q.done
  BY <1>1 DEF RevDeps
<1>3. t \in Plain
  BY DEF KeptBut, Plain
<1> QED
  BY <1>2, <1>3 DEF KeptBut

\* A plain task that is not below an end point or a target is below a setscene task.
LEMMA PlainBelow ==
    ASSUME NEW d \in Plain, d \notin unskippable
    PROVE  d \in Below(Setscene)
<1> DEFINE S == {x \in Plain \ unskippable : x \notin Below(Setscene)}
           tops == {x \in Task : RevDeps(x) = {}} \cup cantskip
<1> SUFFICES ASSUME S # {} PROVE FALSE
  OBVIOUS
<1>1. S \in SUBSET Task
  BY DEF Plain
<1>2. PICK t \in S : RevDeps(t) \cap S = {}
  BY <1>1, AcyclicAssumption
<1>3. RevDeps(t) # {}
  <2>1. tops \cap Task \subseteq WalkDown(tops)
    BY WalkDownStart
  <2> QED
    BY <1>1, <2>1 DEF unskippable
<1>4. PICK r \in Task : t \in Depends[r] /\ r \notin S
  BY <1>2, <1>3 DEF RevDeps
<1>5. CASE r \in Setscene
  <2>1. t \in WalkDown(Depends[r])
    BY <1>1, <1>4, WalkDownStart
  <2> QED
    BY <1>5, <2>1 DEF Below, sq_covered_tasks
<1>6. CASE r \in unskippable /\ r \in Plain
  <2> HIDE DEF S
  <2>1. t \in unskippable
    BY <1>4, <1>6, WalkDownFrom DEF unskippable
  <2> QED
    BY <1>2, <2>1 DEF S
<1>7. CASE r \in Below(Setscene)
  <2>1. PICK s \in Setscene : r \in WalkDown(Depends[s]) /\ r \in Plain
    BY <1>7 DEF Below, sq_covered_tasks
  <2>2. t \in WalkDown(Depends[s])
    BY <1>4, <2>1, WalkDownFrom
  <2> QED
    BY <2>2 DEF Below, sq_covered_tasks
<1> QED
  BY <1>4, <1>5, <1>6, <1>7 DEF Plain

\* So every task is judged covered or not covered, and none is held off.
LEMMA AllJudged ==
    ASSUME TypeOK, RecordInv, AllDecided
    PROVE  CoveredTasks \cup NotCoveredTasks = Task /\ HoldoffTasks = {}
<1>1. Task = sq.done
  BY AllDone DEF TypeOK, SceneRecord, RecordInv, InOrder, AllDecided
<1>2. ASSUME NEW t \in Task, t \notin NotCoveredTasks PROVE t \in CoveredTasks
  <2>1. /\ t \notin sq.notcovered /\ t \notin Below(sq.notcovered)
        /\ t \notin unskippable \ Setscene
    BY <1>1, <1>2 DEF NotCoveredTasks
  <2>2. CASE t \in Setscene
    BY <1>1, <1>2, <2>1, <2>2 DEF AllDecided, Decided, CoveredTasks
  <2>3. CASE t \notin Setscene
    <3>1. t \in Below(Setscene)
      BY <2>1, <2>3, PlainBelow DEF Plain
    <3>2. t \in Below(sq.covered)
      BY <2>1, <3>1 DEF AllDecided, Decided, Below
    <3> QED
      BY <1>1, <1>2, <3>2 DEF CoveredTasks
  <2> QED
    BY <2>2, <2>3
<1>3. HoldoffTasks = {}
  BY DEF HoldoffTasks, AllDecided, Below
<1> QED
  BY <1>1, <1>2, <1>3 DEF CoveredTasks, NotCoveredTasks

\* Some task is buildable, unless complete, for all that is.
BuildableInv == \A t \in Task : Depends[t] \subseteq runq_complete => t \in runq_buildable

\* The tables are those of the scene queue, unless they are to be computed anew; with
\* everything decided nothing is held off and everything is judged.
TablesInv ==
    \/ holdoff_need_update
    \/ /\ holdoff_tasks = {} => AllDecided
       /\ AllDecided => /\ holdoff_tasks = {} /\ tasks_covered \cup tasks_notcovered = Task
                        /\ BuildableInv

\* What completes frees what depends on it.
FreesAll ==
    /\ runq_buildable \subseteq runq_buildable'
    /\ \/ UNCHANGED runq_complete
       \/ \E t \in Task : /\ runq_complete' = runq_complete \cup {t}
                          /\ Freed(t, runq_complete') \subseteq runq_buildable'

\* Every step that completes a task does so.
LEMMA FreesStep ==
    ASSUME [Next]_vars
    PROVE  FreesAll
<1>1. ASSUME UNCHANGED <<runq_buildable, runq_complete>> PROVE FreesAll
  BY <1>1 DEF FreesAll
<1>2. ASSUME NEW t \in Task, NEW disk, task_completeoutright(t, disk) PROVE FreesAll
  <2>1. /\ runq_complete' = runq_complete \cup {t}
        /\ runq_buildable' = runq_buildable \cup Freed(t, runq_complete \cup {t})
    BY <1>2 DEF task_completeoutright
  <2> QED
    BY <2>1 DEF FreesAll
<1>3. ASSUME WorkerExit PROVE FreesAll
  <2> PICK kind \in Kind, t \in Task, h \in Hash, ok \in BOOLEAN : Exit(kind, t, h, ok)
    BY <1>3 DEF WorkerExit
  <2> DEFINE disk == StampsLeft(kind, t, h, ok)
  <2>1. TaskComplete(t, disk) \/ TaskFail(t) \/ SetsceneExit(t, ok, disk)
    BY DEF Exit
  <2> HIDE DEF disk
  <2> QED
    BY <1>1, <1>2, <2>1 DEF TaskComplete, TaskFail, SetsceneExit, runqVars
<1>4. ASSUME Holdoff PROVE FreesAll
  <2>1. UNCHANGED runq_complete /\ update_holdofftasks
    BY <1>4 DEF Holdoff
  <2> QED
    BY <2>1 DEF update_holdofftasks, FreesAll
<1>5. ASSUME NEW t \in Task,
             \/ SchedUnexpected(t) \/ SchedSkip(t) \/ SchedNoExec(t) \/ SchedStart(t)
      PROVE  FreesAll
  BY <1>1, <1>2, <1>5 DEF SchedUnexpected, SchedSkip, SchedNoExec, SchedStart
<1>6. ASSUME NEW t \in Setscene, NEW D \in SUBSET PassedOver,
             \/ SceneNotNeeded(t, D) \/ SceneNeedHardDeps(t, D)
             \/ SceneSettle(t, D) \/ SceneStart(t, D)
      PROVE  FreesAll
  <2>1. SceneTurn(t, D)
    BY <1>6 DEF SceneNotNeeded, SceneNeedHardDeps, SceneSettle, SceneStart, SceneChosen
  <2> QED
    BY <1>1, <2>1 DEF SceneTurn, runqVars
<1>7. ASSUME \/ BeginTurn \/ CleanUp \/ EndRead \/ Teardown \/ NothingToMigrate
             \/ SchedNone \/ EndWait \/ Conclude \/ Stop \/ ForceStop \/ SceneNone \/ Migrate
             \/ \E i \in DOMAIN updated_taskhash_queue : ApplyUpdate(i)
             \/ \E t \in Setscene : EndForceDeferred(t)
             \/ \E t \in Task, h \in Hash : UniHashUpdate(t, h)
             \/ UNCHANGED vars
      PROVE  FreesAll
  <2>1. UNCHANGED <<runq_buildable, runq_complete>>
    BY <1>7 DEF BeginTurn, CleanUp, EndRead, Teardown, NothingToMigrate, SchedNone, EndWait,
                Conclude, Stop, ForceStop, SceneNone, Migrate, ApplyUpdate, EndForceDeferred,
                UniHashUpdate, vars, buildVars, runqVars
  <2> QED
    BY <1>1, <2>1
<1> QED
  BY <1>3, <1>4, <1>5, <1>6, <1>7 DEF Next, Turn, WorkerEvent, Over

\* TablesInv is inductive: the tables are computed anew whenever more was decided.
LEMMA TablesStep ==
    ASSUME IInv, RecordInv, TablesInv, DecidesMore, [Next]_vars
    PROVE  TablesInv'
<1>0. TypeOK /\ OrderInv
  BY DEF IInv
<1>1. BuildableInv => BuildableInv'
  <2> SUFFICES ASSUME BuildableInv, NEW t \in Task, Depends[t] \subseteq runq_complete'
               PROVE  t \in runq_buildable'
    BY DEF BuildableInv
  <2>1. FreesAll
    BY FreesStep
  <2>2. CASE Depends[t] \subseteq runq_complete
    BY <2>1, <2>2 DEF BuildableInv, FreesAll
  <2>3. CASE ~(Depends[t] \subseteq runq_complete)
    <3>1. PICK c \in Task : /\ runq_complete' = runq_complete \cup {c}
                            /\ Freed(c, runq_complete') \subseteq runq_buildable'
      BY <2>1, <2>3 DEF FreesAll
    <3>2. c \in Depends[t]
      BY <2>3, <3>1
    <3>3. t \notin runq_running
      BY <1>0, <2>3 DEF OrderInv
    <3> QED
      BY <3>1, <3>2, <3>3 DEF Freed, RevDeps
  <2> QED
    BY <2>2, <2>3
<1>2. CASE Holdoff
  <2>1. UNCHANGED <<sq, runq_complete>> /\ update_holdofftasks
    BY <1>2 DEF Holdoff
  <2>2. CASE ~holdoff_need_update
    <3>1. UNCHANGED <<holdoffVars, runq_buildable>>
      BY <2>1, <2>2 DEF update_holdofftasks
    <3> QED
      BY <1>0, <2>1, <2>2, <3>1 DEF holdoffVars, TablesInv, AllDecided, Decided, BuildableInv
  <2>3. CASE holdoff_need_update
    <3>1. /\ tasks_covered' = CoveredTasks /\ tasks_notcovered' = NotCoveredTasks
          /\ holdoff_tasks' = HoldoffTasks
          /\ runq_buildable' = runq_buildable \cup
               {t \in NotCoveredTasks \cup CoveredTasks : Depends[t] \subseteq runq_complete}
      BY <2>1, <2>3 DEF update_holdofftasks
    <3>2. HoldoffTasks = {} => AllDecided
      BY DEF HoldoffTasks, AllDecided
    <3>3. AllDecided' <=> AllDecided
      BY <2>1 DEF AllDecided, Decided
    <3>4. AllDecided => CoveredTasks \cup NotCoveredTasks = Task /\ HoldoffTasks = {}
      BY <1>0, AllJudged
    <3>5. AllDecided => BuildableInv'
      BY <2>1, <3>1, <3>4 DEF BuildableInv
    <3> QED
      BY <3>1, <3>2, <3>3, <3>4, <3>5 DEF TablesInv
  <2> QED
    BY <2>2, <2>3
<1>3. CASE ~Holdoff /\ ~holdoff_need_update'
  <2>1. /\ ~holdoff_need_update /\ Decided(sq') = Decided(sq)
        /\ UNCHANGED <<holdoff_tasks, tasks_covered, tasks_notcovered>>
    BY <1>3 DEF DecidesMore
  <2>2. AllDecided' <=> AllDecided
    BY <2>1 DEF AllDecided, Decided
  <2> QED
    BY <1>1, <2>1, <2>2 DEF TablesInv
<1>4. CASE holdoff_need_update'
  BY <1>4 DEF TablesInv
<1> QED
  BY <1>2, <1>3, <1>4

\* The scene queue is called done with everything decided and nothing deferred.
SqdoneInv == sqdone => AllDecided /\ DOMAIN sq_deferred = {}

\* summarise_scenequeue_errors() finds nothing when the scene queue has drained.
LEMMA HoldoffFindsNone ==
    ASSUME IInv, RecordInv, TablesInv, DecidesMore, Holdoff, SceneDrained(holdoff_tasks')
    PROVE  /\ ~SceneErrors(runq_buildable', tasks_covered', tasks_notcovered', holdoff_tasks')
           /\ AllDecided' /\ DOMAIN sq_deferred' = {}
<1>0. TypeOK /\ [Next]_vars
  BY DEF IInv, Next, Turn
<1>1. TablesInv'
  BY <1>0, TablesStep
<1>2. ~holdoff_need_update' /\ UNCHANGED <<sq, runq_complete, sq_deferred>>
  BY <1>0 DEF Holdoff, update_holdofftasks, holdoffVars, TypeOK
<1>3. /\ holdoff_tasks' = {} /\ sq_deferred = << >> /\ updated_taskhash_queue = << >>
  BY DEF SceneDrained
<1>4. AllDecided'
  BY <1>1, <1>2, <1>3 DEF TablesInv
<1>5. AllDecided
  BY <1>2, <1>4 DEF AllDecided, Decided
<1>6. /\ tasks_covered' \cup tasks_notcovered' = Task
      /\ \A t \in Task : Depends[t] = {} => t \in runq_buildable'
  BY <1>1, <1>2, <1>4 DEF TablesInv, BuildableInv
<1>7. Setscene \subseteq sq.buildable \cap sq.running /\ Task \subseteq sq.done
  BY <1>5, AllDone DEF RecordInv, InOrder, KeptBut, AllDecided
<1>8. DOMAIN sq_deferred = {}
  BY <1>3
<1> QED
  BY <1>2, <1>3, <1>4, <1>5, <1>6, <1>7, <1>8 DEF SceneErrors, AllDecided

\* SqdoneInv is inductive: a scene queue that is reopened is no longer called done.
LEMMA SqdoneStep ==
    ASSUME IInv, RecordInv, TablesInv, DecidesMore, SqdoneInv, [Next]_vars
    PROVE  SqdoneInv'
<1>0. sqdone \in BOOLEAN
  BY DEF IInv, TypeOK
<1>1. CASE Holdoff
  <2>1. UNCHANGED <<sq, sq_deferred>> /\ (UNCHANGED sqdone \/ SceneDrained(holdoff_tasks'))
    BY <1>1 DEF Holdoff
  <2>2. CASE UNCHANGED sqdone
    BY <2>1, <2>2 DEF SqdoneInv, AllDecided, Decided
  <2>3. CASE SceneDrained(holdoff_tasks')
    BY <1>1, <2>3, HoldoffFindsNone DEF SqdoneInv
  <2> QED
    BY <2>1, <2>2, <2>3
<1>2. CASE ~Holdoff
  <2>1. sqdone' => sqdone
    BY <1>2 DEF DecidesMore
  <2> QED
    BY <2>1 DEF DecidesMore, SqdoneInv, AllDecided
<1> QED
  BY <1>1, <1>2

\* So the scene queue never ends the build with an error.
LEMMA HoldoffNeverFails ==
    ASSUME IInv, RecordInv, TablesInv, DecidesMore, Holdoff
    PROVE  UNCHANGED state \/ (configuration.setsceneonly /\ state' = "COMPLETE")
<1>1. CASE ~SceneDrained(holdoff_tasks')
  BY <1>1 DEF Holdoff
<1>2. CASE SceneDrained(holdoff_tasks')
  <2>1. ~SceneErrors(runq_buildable', tasks_covered', tasks_notcovered', holdoff_tasks')
    BY <1>2, HoldoffFindsNone
  <2> QED
    BY <1>2, <2>1 DEF Holdoff
<1> QED
  BY <1>1, <1>2

\* No table has been computed when the build starts.
LEMMA TablesInit ==
    Init => TablesInv /\ SqdoneInv
<1> SUFFICES ASSUME Init PROVE TablesInv /\ SqdoneInv
  OBVIOUS
<1>1. holdoff_need_update /\ sqdone = (Setscene = {}) /\ sq_deferred = InitDeferred
  BY DEF Init
<1>2. DOMAIN InitDeferred \subseteq Setscene
  BY DEF InitDeferred
<1> QED
  BY <1>1, <1>2 DEF TablesInv, SqdoneInv, AllDecided

\* The invariants of the scene queue, with those they rest on.
QueueOrder == /\ JudgedInv /\ NeedInv /\ SkippedInv /\ RecordInv /\ TablesInv /\ SqdoneInv

\* They are inductive together.
LEMMA QueueOrderStep ==
    ASSUME IInv, SInv, XorInv, AloneOK, QueueOrder, [Next]_vars
    PROVE  QueueOrder' /\ DecidesMore
<1>1. TypeOK /\ QuietInv
  BY DEF IInv, SInv
<1>2. Migrate => pending_migrations \subseteq sq.notcovered
  BY <1>1 DEF AloneOK, HardInv, MayMigrate, Migrate, QuietInv
<1>3. JudgesOn
  BY <1>2, JudgesStep
<1>4. JudgedInv' /\ NeedInv' /\ SkippedInv'
  BY <1>1, <1>3, JudgedStep, SkippedStep DEF QueueOrder
<1>5. DecidesMore
  BY <1>2, RecordStep DEF QueueOrder
<1>6. RecordInv' /\ TablesInv' /\ SqdoneInv'
  BY <1>5, TablesStep, SqdoneStep DEF QueueOrder, DecidesMore
<1> QED
  BY <1>4, <1>5, <1>6 DEF QueueOrder

\* So every state has them.
LEMMA QueueOrderAlways ==
    Spec /\ []FailsAlone => [](SInv /\ XorInv /\ AloneOK /\ QueueOrder)
<1>1. Init => QueueOrder
  BY InputsInit, RecordInit, TablesInit DEF QueueOrder
<1>2. IInv /\ SInv /\ XorInv /\ AloneOK /\ QueueOrder /\ [Next]_vars => QueueOrder'
  BY QueueOrderStep
<1> QED
  BY <1>1, <1>2, XorAlways, Invariance, PTL DEF Spec

-----------------------------------------------------------------------------
(* A build that is over has left no process.                               *)

\* A build that is over, or is to be, has no process left.
OverInv ==
    /\ state \in {"FAILED", "COMPLETE"} => worker = {}
    /\ stage = "done" => state \in {"FAILED", "COMPLETE"}

\* finish() lets a build be over when nothing is left.
LEMMA FinishedNone ==
    ASSUME IInv, SInv, ActiveInv, SlotsInv, CleanUp, stage' # "wait"
    PROVE  worker = {}
<1>0. TypeOK /\ ProcessInv
  BY DEF IInv, SInv
<1>1. ~(StillActive > 0)
  BY DEF CleanUp
<1>2. CASE worker = {}
  BY <1>2
<1>3. CASE worker # {}
  <2>1. active = Cardinality(RealProcesses) /\ IsFiniteSet(RealProcesses)
    <3>1. RealProcesses \in SUBSET worker
      BY DEF RealProcesses
    <3> QED
      BY <1>3, <3>1, FS_Subset DEF ActiveInv
  <2>2. active \in Nat /\ Cardinality(sq_live) \in Nat /\ IsFiniteSet(sq_live)
    BY <2>1, FS_CardinalityType DEF SlotsInv
  <2>3. active = 0 /\ Cardinality(sq_live) = 0
    BY <1>1, <2>2 DEF StillActive
  <2>4. sq_live = {} /\ active <= 0
    BY <2>2, <2>3, FS_EmptySet
  <2> QED
    BY <1>0, <2>4, NoneLeft
<1> QED
  BY <1>2, <1>3

\* OverInv is inductive: what ends the build has seen that no process is left.
LEMMA OverStep ==
    ASSUME NotEnforced, IInv, SInv, ActiveInv, SlotsInv, EndInv, EndInv', QueueOrder,
           DecidesMore, OverInv, [Next]_vars
    PROVE  OverInv'
<1>0. /\ TypeOK /\ ProcessInv
      /\ state \in {"FAILED", "COMPLETE"} => stage \in {"turn", "done"}
  BY DEF IInv, SInv, EndInv
<1>1. ASSUME stage' # "done", state' = "FAILED" => state = "FAILED" /\ worker' \subseteq worker
      PROVE  OverInv'
  BY <1>1 DEF OverInv, EndInv
<1>2. ASSUME WorkerExit PROVE OverInv'
  <2> PICK kind \in Kind, t \in Task, h \in Hash, ok \in BOOLEAN : Exit(kind, t, h, ok)
    BY <1>2 DEF WorkerExit
  <2> DEFINE disk == StampsLeft(kind, t, h, ok)
  <2>1. /\ stage \in {"read", "wait"} /\ stage' = stage
        /\ TaskComplete(t, disk) \/ TaskFail(t) \/ SetsceneExit(t, ok, disk)
    BY DEF Exit, Reading
  <2> HIDE DEF disk
  <2>2. state' = state \/ state' = "CLEAN_UP"
    BY <2>1 DEF TaskComplete, TaskFail, SetsceneExit, HaltState
  <2> QED
    BY <1>0, <1>1, <2>1, <2>2
<1>3. ASSUME Conclude PROVE OverInv'
  <2>1. active <= 0 /\ sq_live = {} /\ UNCHANGED worker /\ stage' = "turn"
    BY <1>3 DEF Conclude, buildVars, workerVars
  <2>2. worker = {}
    BY <1>0, <2>1, NoneLeft
  <2> QED
    BY <2>1, <2>2 DEF OverInv
<1>4. ASSUME CleanUp PROVE OverInv'
  <2>1. UNCHANGED worker
    BY <1>4 DEF CleanUp, buildVars, workerVars
  <2>2. CASE stage' = "wait"
    BY <1>1, <1>4, <2>1, <2>2 DEF CleanUp
  <2>3. CASE stage' # "wait"
    <3>1. worker = {} /\ state' \in {"FAILED", "COMPLETE"}
      BY <1>4, <2>3, FinishedNone DEF CleanUp, FinishedState
    <3> QED
      BY <2>1, <3>1 DEF OverInv
  <2> QED
    BY <2>2, <2>3
<1>5. ASSUME ForceStop PROVE OverInv'
  BY <1>5 DEF ForceStop, FinishedState, OverInv
<1>6. ASSUME Holdoff PROVE OverInv'
  <2>1. UNCHANGED state \/ state' = "COMPLETE"
    BY <1>6, HoldoffNeverFails DEF QueueOrder
  <2>2. stage = "holdoff" /\ stage' # "done" /\ UNCHANGED worker
    BY <1>6 DEF Holdoff, workerVars
  <2> QED
    BY <1>1, <2>1, <2>2
<1>7. ASSUME NEW t \in Task,
             \/ SchedUnexpected(t) \/ SchedSkip(t) \/ SchedNoExec(t) \/ SchedStart(t)
      PROVE  OverInv'
  <2>1. stage = "sched" /\ stage' # "done" /\ (state' = state \/ state' = "CLEAN_UP")
    BY <1>7 DEF SchedUnexpected, SchedSkip, SchedNoExec, SchedStart, Sched, HaltState
  <2> QED
    BY <1>0, <1>1, <2>1
<1>8. ASSUME NEW t \in Setscene, NEW D \in SUBSET PassedOver,
             \/ SceneNotNeeded(t, D) \/ SceneNeedHardDeps(t, D)
             \/ SceneSettle(t, D) \/ SceneStart(t, D)
      PROVE  OverInv'
  <2>1. SceneTurn(t, D) /\ stage' # "done"
    BY <1>8 DEF SceneNotNeeded, SceneNeedHardDeps, SceneSettle, SceneStart, SceneChosen
  <2>2. stage = "scene" /\ UNCHANGED state
    BY <2>1 DEF SceneTurn
  <2> QED
    BY <1>0, <1>1, <2>1, <2>2
<1>9. ASSUME Migrate PROVE OverInv'
  <2>1. stage = "migrate" /\ stage' = "scene" /\ (state' = state \/ state' = "CLEAN_UP")
    BY <1>9 DEF Migrate, HaltOnRerun, Rejudge
  <2> QED
    BY <1>0, <1>1, <2>1
<1>10. ASSUME \/ BeginTurn \/ EndRead \/ NothingToMigrate \/ SceneNone
              \/ SchedNone \/ EndWait \/ Stop
              \/ \E i \in DOMAIN updated_taskhash_queue : ApplyUpdate(i)
              \/ \E t \in Setscene : EndForceDeferred(t)
              \/ \E t \in Task, h \in Hash : UniHashUpdate(t, h)
       PROVE  OverInv'
  <2>1. /\ stage' # "done" /\ (state' = state \/ state' = "CLEAN_UP")
        /\ UNCHANGED worker
    BY <1>10 DEF BeginTurn, EndRead, NothingToMigrate, SceneNone, SchedNone, EndWait, Stop,
                 ApplyUpdate, EndForceDeferred, UniHashUpdate, Reading, buildVars, workerVars
  <2> QED
    BY <1>1, <2>1
<1>11. ASSUME Teardown \/ UNCHANGED vars PROVE OverInv'
  BY <1>11 DEF Teardown, vars, buildVars, workerVars, OverInv
<1>12. ASSUME Turn PROVE OverInv'
  BY <1>3, <1>4, <1>6, <1>7, <1>8, <1>9, <1>10, <1>11, <1>12 DEF Turn
<1> QED
  BY <1>2, <1>5, <1>10, <1>11, <1>12 DEF Next, WorkerEvent, Over

\* What is counted, and what is left when a build ends.
EndOrder == ActiveInv /\ SlotsInv /\ EndInv /\ OverInv

\* Every state has this, too.
LEMMA EndOrderAlways ==
    ASSUME NotEnforced
    PROVE  Spec /\ []FailsAlone => [](SInv /\ XorInv /\ AloneOK /\ QueueOrder /\ EndOrder)
<1>1. Init => EndOrder
  <2>1. Init => OverInv
    BY DEF Init, OverInv
  <2> QED
    BY <2>1, CountInit, EndInit DEF EndOrder
<1>2. IInv /\ SInv /\ XorInv /\ AloneOK /\ QueueOrder /\ EndOrder /\ [Next]_vars => EndOrder'
  <2> SUFFICES ASSUME IInv, SInv, XorInv, AloneOK, QueueOrder, EndOrder, [Next]_vars
               PROVE  EndOrder'
    OBVIOUS
  <2>1. ActiveInv' /\ SlotsInv' /\ EndInv'
    BY ActiveStep, SlotsStep, EndStep DEF IInv, EndOrder
  <2>2. DecidesMore
    BY QueueOrderStep
  <2> QED
    BY <2>1, <2>2, OverStep DEF EndOrder
<1> QED
  BY <1>1, <1>2, QueueOrderAlways, Invariance, PTL DEF Spec

\* stats.active counts the real processes exactly, on every path that starts, ends
\* or refuses a task; and no process is left by a build that is over, for whatever
\* reason it ended.
THEOREM ActiveExactTheorem ==
    ASSUME NotEnforced
    PROVE  Spec /\ []FailsAlone => []ActiveExact
<1>1. EndOrder => ActiveExact
  BY DEF EndOrder, ActiveExact, ActiveInv, OverInv, RealProcesses
<1> QED
  BY <1>1, EndOrderAlways, PTL

-----------------------------------------------------------------------------
(* What a build has seen when it comes to its end.                         *)

\* No setscene task waits for itself through hard dependencies.
HardDepsAcyclic ==
    \A W \in SUBSET Setscene : W # {} => \E t \in W : HardDepsRev[t] \cap W = {}

\* Nothing runs, nothing is deferred.
Idle == active <= 0 /\ sq_live = {} /\ sq_deferred = << >>

\* What is in progress has a process, unless it failed; and so has what holds a stamp.
WorkInv == stage # "done" =>
    /\ InProgress \subseteq Inflight("real") \cup failed_tids
    /\ DOMAIN build_stamps \subseteq Inflight("real") \cup Inflight("scene")

\* WorkInv is inductive: a process that ends gives up its stamp, and its task
\* completes or fails.
LEMMA WorkStep ==
    ASSUME NotEnforced, IInv, SInv, WorkInv, [Next]_vars
    PROVE  WorkInv'
<1>0. TypeOK /\ ProcessInv /\ Apart
  BY DEF IInv, SInv
<1>1. ASSUME stage = "done" => stage' = "done", InProgress' \subseteq InProgress,
             worker \subseteq worker', failed_tids \subseteq failed_tids',
             DOMAIN build_stamps' \subseteq DOMAIN build_stamps
      PROVE  WorkInv'
  <2>1. \A kind \in Kind : Inflight(kind) \subseteq Inflight(kind)'
    BY <1>1 DEF Inflight
  <2>2. Inflight("real") \subseteq Inflight("real")' /\ Inflight("scene") \subseteq Inflight("scene")'
    BY <2>1 DEF Kind
  <2> QED
    BY <1>1, <2>2 DEF WorkInv
<1>2. ASSUME NEW t \in Task, NEW disk, task_completeoutright(t, disk),
             runq_running' \subseteq runq_running \cup {t}
      PROVE  InProgress' \subseteq InProgress \ {t}
  BY <1>2 DEF task_completeoutright, InProgress
<1>3. ASSUME WorkerExit PROVE WorkInv'
  <2> PICK kind \in Kind, t \in Task, h \in Hash, ok \in BOOLEAN : Exit(kind, t, h, ok)
    BY <1>3 DEF WorkerExit
  <2> DEFINE disk == StampsLeft(kind, t, h, ok)
  <2>1. /\ stage \in {"read", "wait"} /\ stage' = stage
        /\ worker' = worker \ {<<kind, t, h>>}
        /\ DOMAIN build_stamps' = DOMAIN build_stamps \ {t}
        /\ ok \in BOOLEAN
    BY DEF Exit, Reading, ForgetStamp, Restrict
  <2>2. \/ kind = "real" /\ (TaskComplete(t, disk) \/ TaskFail(t))
        \/ kind = "scene" /\ t \in sq_live /\ SetsceneExit(t, ok, disk)
    BY <1>0, ExitKinds
  <2> HIDE DEF disk
  <2>3. \A x \in Task \ {t} : /\ x \in Inflight("real") => x \in Inflight("real")'
                              /\ x \in Inflight("scene") => x \in Inflight("scene")'
    BY <2>1 DEF Inflight
  <2>4. DOMAIN build_stamps' \subseteq Inflight("real")' \cup Inflight("scene")'
    BY <1>0, <2>1, <2>3 DEF WorkInv, TypeOK
  <2>5. InProgress' \subseteq InProgress /\ InProgress \subseteq Task
    <3>1. CASE TaskComplete(t, disk)
      BY <1>0, <1>2, <3>1 DEF TaskComplete, TypeOK, InProgress
    <3>2. CASE TaskFail(t) \/ SetsceneExit(t, ok, disk)
      BY <1>0, <3>2 DEF TaskFail, SetsceneExit, runqVars, InProgress, TypeOK
    <3> QED
      BY <2>2, <3>1, <3>2
  <2>6. failed_tids \subseteq failed_tids'
    BY <2>2 DEF TaskComplete, TaskFail, SetsceneExit, runqVars
  <2>7. t \in InProgress' => t \in failed_tids'
    <3>1. CASE TaskComplete(t, disk)
      BY <1>2, <3>1 DEF TaskComplete
    <3>2. CASE TaskFail(t)
      BY <3>2 DEF TaskFail
    <3>3. CASE t \in sq_live
      BY <1>0, <2>5, <3>3 DEF Apart
    <3> QED
      BY <2>2, <3>1, <3>2, <3>3
  <2>8. InProgress' \subseteq Inflight("real")' \cup failed_tids'
    BY <2>1, <2>3, <2>5, <2>6, <2>7 DEF WorkInv
  <2> QED
    BY <2>4, <2>8 DEF WorkInv
<1>4. ASSUME NEW t \in Task, SchedSkip(t) \/ SchedNoExec(t) PROVE WorkInv'
  <2>1. /\ stage = "sched" /\ runq_running' = runq_running \cup {t}
        /\ UNCHANGED <<failed_tids, worker, build_stamps>>
        /\ \E disk : task_completeoutright(t, disk)
    BY <1>4 DEF SchedSkip, SchedNoExec, Sched
  <2>2. InProgress' \subseteq InProgress
    BY <1>2, <2>1
  <2> QED
    BY <1>1, <2>1, <2>2
<1>5. ASSUME NEW t \in Task, SchedStart(t) PROVE WorkInv'
  <2>1. /\ stage = "sched" /\ worker' = worker \cup {<<"real", t, unihash[t]>>}
        /\ DOMAIN build_stamps' = DOMAIN build_stamps \cup {t}
        /\ runq_running' = runq_running \cup {t}
        /\ UNCHANGED <<runq_complete, failed_tids>>
    BY <1>5 DEF SchedStart, Sched
  <2>2. /\ Inflight("real") \cup {t} \subseteq Inflight("real")'
        /\ Inflight("scene") \subseteq Inflight("scene")'
    BY <1>0, <2>1 DEF Inflight, TypeOK
  <2> QED
    BY <2>1, <2>2 DEF WorkInv, InProgress
<1>6. ASSUME NEW t \in Setscene, NEW D \in SUBSET PassedOver, SceneStart(t, D) PROVE WorkInv'
  <2>1. /\ stage = "scene" /\ worker' = worker \cup {<<"scene", t, unihash[t]>>}
        /\ DOMAIN build_stamps' = DOMAIN build_stamps \cup {t}
        /\ UNCHANGED <<runq_running, runq_complete, failed_tids>>
    BY <1>6 DEF SceneStart, SceneChosen, SceneTurn, runqVars
  <2>2. t \in Task
    BY GraphAssumption
  <2>3. /\ Inflight("scene") \cup {t} \subseteq Inflight("scene")'
        /\ Inflight("real") \subseteq Inflight("real")'
    BY <1>0, <2>1, <2>2 DEF Inflight, TypeOK
  <2> QED
    BY <2>1, <2>3 DEF WorkInv, InProgress
<1>7. ASSUME NEW t \in Setscene, NEW D \in SUBSET PassedOver,
             SceneNotNeeded(t, D) \/ SceneNeedHardDeps(t, D) \/ SceneSettle(t, D)
      PROVE  WorkInv'
  <2>1. /\ stage = "scene"
        /\ UNCHANGED <<runq_running, runq_complete, failed_tids, worker, build_stamps>>
    BY <1>7 DEF SceneNotNeeded, SceneNeedHardDeps, SceneSettle, SceneChosen, SceneTurn, runqVars
  <2> QED
    BY <1>1, <2>1 DEF InProgress
<1>8. ASSUME NEW t \in Task, SchedUnexpected(t) PROVE FALSE
  BY <1>0, <1>8 DEF SchedUnexpected, Unexpected, NotEnforced, TypeOK
<1>9. ASSUME Migrate PROVE WorkInv'
  <2>1. /\ stage = "migrate" /\ UNCHANGED <<runq_running, runq_complete, worker>>
    BY <1>9 DEF Migrate
  <2>2. /\ failed_tids \subseteq failed_tids'
        /\ \E mig : build_stamps' = Restrict(build_stamps, DOMAIN build_stamps \ mig)
    BY <1>9 DEF Migrate, HaltOnRerun, Rejudge
  <2>3. DOMAIN build_stamps' \subseteq DOMAIN build_stamps
    BY <2>2 DEF Restrict
  <2> QED
    BY <1>1, <2>1, <2>2, <2>3 DEF InProgress
<1>10. ASSUME ForceStop \/ Teardown PROVE WorkInv'
  BY <1>10 DEF ForceStop, Teardown, WorkInv
<1>11. ASSUME \/ BeginTurn \/ CleanUp \/ EndRead \/ NothingToMigrate \/ SceneNone \/ Holdoff
              \/ SchedNone \/ EndWait \/ Conclude \/ Stop
              \/ \E i \in DOMAIN updated_taskhash_queue : ApplyUpdate(i)
              \/ \E t \in Setscene : EndForceDeferred(t)
              \/ \E t \in Task, h \in Hash : UniHashUpdate(t, h)
       PROVE  WorkInv'
  <2>1. /\ stage = "done" => stage' = "done"
        /\ UNCHANGED <<runq_running, runq_complete, failed_tids, worker, build_stamps>>
    BY <1>11 DEF BeginTurn, CleanUp, EndRead, NothingToMigrate, SceneNone, Holdoff, SchedNone,
                 EndWait, Conclude, Stop, ApplyUpdate, EndForceDeferred, UniHashUpdate,
                 Reading, buildVars, runqVars, workerVars
  <2> QED
    BY <1>1, <2>1 DEF InProgress
<1>12. ASSUME UNCHANGED vars PROVE WorkInv'
  BY <1>12 DEF vars, buildVars, runqVars, workerVars, WorkInv, InProgress, Inflight
<1>13. ASSUME Turn PROVE WorkInv'
  BY <1>4, <1>5, <1>6, <1>7, <1>8, <1>9, <1>10, <1>11, <1>13 DEF Turn
<1> QED
  BY <1>3, <1>10, <1>11, <1>12, <1>13 DEF Next, WorkerEvent, Over

\* With nothing to wait for there is no process, a slot is free, no stamp is held, and
\* what is in progress failed.
LEMMA IdleNone ==
    ASSUME TypeOK, ProcessInv, ActiveInv, WorkInv, stage # "done", Idle
    PROVE  /\ worker = {} /\ active = 0 /\ can_start_task
           /\ BusyStamps = {} /\ InProgress \subseteq failed_tids
<1>1. worker = {}
  BY NoneLeft DEF Idle
<1>2. RealProcesses = {} /\ \A kind \in Kind : Inflight(kind) = {}
  BY <1>1 DEF RealProcesses, Inflight
<1>3. active = 0
  BY <1>2, FS_EmptySet DEF ActiveInv
<1>4. Cardinality(sq_live) = 0
  BY FS_EmptySet DEF Idle
<1>5. can_start_task
  BY <1>3, <1>4, ThreadsAssumption DEF can_start_task
<1> QED
  BY <1>1, <1>2, <1>3, <1>5 DEF WorkInv, BusyStamps, Kind

\* Each setscene task of any has one that reaches no other of them ... that none of
\* them reaches.
LEMMA CollapsedAcyclic ==
    ASSUME NEW U \in SUBSET Setscene, U # {}
    PROVE  \E t \in U : sq_revdeps[t] \cap U = {}
<1> SUFFICES ASSUME \A t \in U : sq_revdeps[t] \cap U # {} PROVE FALSE
  OBVIOUS
<1> DEFINE X == UNION {WalkDown(Depends[s]) : s \in U}
<1>1. U \subseteq X
  BY DEF sq_revdeps
<1>2. X \in SUBSET Task
  BY DEF WalkDown
<1>3. PICK x \in X : RevDeps(x) \cap X = {}
  BY <1>1, <1>2, AcyclicAssumption
<1>4. PICK s \in U : x \in WalkDown(Depends[s])
  OBVIOUS
<1>5. s \in Task /\ Depends[s] \in SUBSET Task
  BY GraphAssumption
<1>6. CASE x \in Depends[s]
  BY <1>1, <1>3, <1>5, <1>6 DEF RevDeps
<1>7. CASE \E y \in WalkDown(Depends[s]) \cap Plain : x \in Depends[y]
  BY <1>2, <1>3, <1>7 DEF RevDeps
<1> QED
  BY <1>4, <1>5, <1>6, <1>7, WalkDownBack

\* The look at the scene queue that finds nothing to pick, and nothing to wait for,
\* finds everything decided: what is undecided waits for a hard dependency that is
\* undecided and was asked for, and so on for ever.
LEMMA LookFindsAll ==
    ASSUME HardDepsAcyclic, IInv, SInv, ActiveInv, WorkInv, RecordInv, SqdoneInv,
           SceneNone, Idle
    PROVE  AllDecided
<1>0. TypeOK /\ ProcessInv /\ stage = "scene"
  BY DEF IInv, SInv, SceneNone
<1>1. /\ can_start_task /\ BusyStamps = {}
      /\ sq_live = {} /\ sq_deferred = << >>
  BY <1>0, IdleNone DEF Idle
<1>2. CASE sqdone
  BY <1>2 DEF SqdoneInv
<1>3. CASE SceneCandidates = PassedOver
  <2> DEFINE U == Setscene \ Decided(sq)
             W == U \cap sq.buildable
  <2> SUFFICES ASSUME U # {} PROVE FALSE
    BY DEF AllDecided
  <2>1. KeptBut(sq, {}) /\ sq.running \subseteq Decided(sq)
        /\ sq_needed_harddeps \subseteq sq.buildable
        /\ \A d \in sq.harddep_deferred : HardDepsRev[d] \subseteq sq_needed_harddeps
    BY <1>1 DEF RecordInv, InOrder
  <2>2. W # {}
    <3>1. PICK t \in U : sq_revdeps[t] \cap U = {}
      BY CollapsedAcyclic
    <3>2. sq_revdeps[t] \subseteq Decided(sq)
      BY <3>1 DEF sq_revdeps
    <3>3. t \in sq.buildable
      BY <2>1, <3>2 DEF KeptBut
    <3> QED
      BY <3>3
  <2>3. ASSUME NEW t \in W PROVE HardDepsRev[t] \cap W # {}
    <3>1. ~(HardDepsRev[t] \subseteq Decided(sq)) /\ HardDepsRev[t] \subseteq sq_needed_harddeps
      <4>1. CASE t \in sq.harddep_deferred
        BY <2>1, <4>1 DEF KeptBut
      <4>2. CASE t \notin sq.harddep_deferred
        <5>1. t \in SceneCandidates
          BY <1>1, <2>1, <4>2 DEF SceneCandidates
        <5> QED
          BY <1>3, <5>1 DEF PassedOver, AwaitsHardDep
      <4> QED
        BY <4>1, <4>2
    <3>2. HardDepsRev[t] \subseteq Setscene
      BY GraphAssumption
    <3> QED
      BY <2>1, <3>1, <3>2
  <2>4. W \in SUBSET Setscene
    OBVIOUS
  <2> QED
    BY <2>2, <2>3, <2>4 DEF HardDepsAcyclic
<1> QED
  BY <1>1, <1>2, <1>3 DEF SceneNone

\* How a turn comes to its last stages.
LEMMA StageEntered ==
    ASSUME [Next]_vars
    PROVE  /\ stage' = "holdoff" => \/ SceneNone \/ UNCHANGED vars
                                    \/ \E t \in Setscene, D \in SUBSET PassedOver : SceneStart(t, D)
           /\ stage' = "sched" => Holdoff \/ UNCHANGED vars
           /\ stage' = "end" => SchedNone \/ (\E t \in Task : SchedStart(t)) \/ UNCHANGED vars
<1> DEFINE Entered ==
             /\ stage' = "holdoff" => \/ SceneNone \/ UNCHANGED vars
                                      \/ \E t \in Setscene, D \in SUBSET PassedOver : SceneStart(t, D)
             /\ stage' = "sched" => Holdoff \/ UNCHANGED vars
             /\ stage' = "end" => SchedNone \/ (\E t \in Task : SchedStart(t)) \/ UNCHANGED vars
<1>1. ASSUME stage' \notin {"holdoff", "sched", "end"} PROVE Entered
  BY <1>1
<1>2. ASSUME \/ WorkerExit \/ WorkerEvent \/ Stop \/ ForceStop \/ BeginTurn \/ CleanUp
             \/ EndRead \/ Teardown \/ NothingToMigrate \/ Migrate \/ EndWait \/ Conclude
             \/ \E i \in DOMAIN updated_taskhash_queue : ApplyUpdate(i)
             \/ \E t \in Setscene : EndForceDeferred(t)
      PROVE  Entered
  <2>1. stage' \notin {"holdoff", "sched", "end"}
    BY <1>2 DEF WorkerExit, Exit, WorkerEvent, UniHashUpdate, Reading, Stop, ForceStop,
                BeginTurn, CleanUp, EndRead, Teardown, NothingToMigrate, Migrate, EndWait,
                Conclude, ApplyUpdate, EndForceDeferred
  <2> QED
    BY <1>1, <2>1
<1>3. ASSUME NEW t \in Setscene, NEW D \in SUBSET PassedOver,
             SceneNotNeeded(t, D) \/ SceneNeedHardDeps(t, D) \/ SceneSettle(t, D)
      PROVE  Entered
  <2>1. stage' = "turn"
    BY <1>3 DEF SceneNotNeeded, SceneNeedHardDeps, SceneSettle
  <2> QED
    BY <1>1, <2>1
<1>4. ASSUME NEW t \in Setscene, NEW D \in SUBSET PassedOver, SceneStart(t, D) PROVE Entered
  <2>1. stage' = "turn" \/ stage' = "holdoff"
    BY <1>4 DEF SceneStart
  <2> QED
    BY <1>4, <2>1
<1>5. ASSUME SceneNone PROVE Entered
  <2>1. stage' = "holdoff"
    BY <1>5 DEF SceneNone
  <2> QED
    BY <1>5, <2>1
<1>6. ASSUME Holdoff PROVE Entered
  <2>1. stage' \in {"turn", "sched"}
    BY <1>6 DEF Holdoff
  <2> QED
    BY <1>6, <2>1
<1>7. ASSUME NEW t \in Task, SchedUnexpected(t) \/ SchedSkip(t) \/ SchedNoExec(t) PROVE Entered
  <2>1. stage' = "turn"
    BY <1>7 DEF SchedUnexpected, SchedSkip, SchedNoExec
  <2> QED
    BY <1>1, <2>1
<1>8. ASSUME NEW t \in Task, SchedStart(t) PROVE Entered
  <2>1. stage' = "turn" \/ stage' = "end"
    BY <1>8 DEF SchedStart
  <2> QED
    BY <1>8, <2>1
<1>9. ASSUME SchedNone PROVE Entered
  <2>1. stage' = "end"
    BY <1>9 DEF SchedNone
  <2> QED
    BY <1>9, <2>1
<1>10. ASSUME UNCHANGED vars PROVE Entered
  BY <1>10
<1> HIDE DEF Entered
<1>11. ASSUME Turn PROVE Entered
  BY <1>2, <1>3, <1>4, <1>5, <1>6, <1>7, <1>8, <1>9, <1>11 DEF Turn
<1>12. Entered
  BY <1>2, <1>10, <1>11 DEF Next, Over
<1> QED
  BY <1>12 DEF Entered

\* The number_threads flag is not used.
NoThreadLimits == \A n \in DOMAIN NumberThreads : NumberThreads[n] = 0

\* A build that only restores runs nothing; its scene queue is called done at once or
\* never.
SceneOnlyInv == configuration.setsceneonly =>
    runq_running = {} /\ (sqdone => Setscene = {})

\* Everything that could be started was.
AllStarted == \A t \in Task : Depends[t] \subseteq runq_complete => t \in runq_running

\* What a turn that comes to its end with nothing to wait for has seen on its way.
LastInv ==
    /\ stage \in {"holdoff", "sched", "end"} /\ Idle => AllDecided
    /\ stage \in {"sched", "end"} => ~holdoff_need_update
    /\ stage \in {"sched", "end"} /\ Idle /\ configuration.setsceneonly => sqdone
    /\ stage = "end" => \A i \in DOMAIN updated_taskhash_queue : UpdateOf(i) \in InProgress
    /\ /\ stage = "end" /\ Idle /\ ~configuration.setsceneonly
       /\ failed_tids = {} \/ NoThreadLimits
       => AllStarted

\* A queue of which nothing is left.
LEMMA QueueEmpty ==
    ASSUME TypeOK, DOMAIN updated_taskhash_queue = {}
    PROVE  updated_taskhash_queue = << >>
<1>1. updated_taskhash_queue \in Seq(Task \X Hash)
  BY DEF TypeOK
<1>2. DOMAIN updated_taskhash_queue = 1 .. Len(updated_taskhash_queue)
      /\ Len(updated_taskhash_queue) \in Nat
  BY <1>1
<1>3. Len(updated_taskhash_queue) = 0
  BY <1>2
<1> QED
  BY <1>1, <1>3

\* What the scheduler finds nothing to run in.
LEMMA NothingRunnable ==
    ASSUME IInv, SInv, ActiveInv, WorkInv, TablesInv, LastInv, SchedNone, Idle,
           ~configuration.setsceneonly, failed_tids = {} \/ NoThreadLimits
    PROVE  AllStarted
<1>0. TypeOK /\ ProcessInv /\ stage = "sched"
  BY DEF IInv, SInv, SchedNone
<1>1. active = 0 /\ can_start_task /\ BusyStamps = {} /\ InProgress \subseteq failed_tids
  BY <1>0, IdleNone
<1>2. Runnable = {}
  BY <1>1 DEF SchedNone
<1>3. /\ AllDecided /\ holdoff_tasks = {} /\ tasks_covered \cup tasks_notcovered = Task
      /\ BuildableInv
  BY <1>0 DEF LastInv, TablesInv
<1>4. ASSUME NEW t \in Task, Depends[t] \subseteq runq_complete, t \notin runq_running
      PROVE  FALSE
  <2>1. t \in runq_buildable
    BY <1>3, <1>4 DEF BuildableInv
  <2>2. StampFree(t)
    BY <1>1 DEF StampFree
  <2>3. TaskName[t] \in DOMAIN NumberThreads /\ NumberThreads[TaskName[t]] \in Nat
    BY <1>4, ThreadsAssumption
  <2>4. NumberThreads[TaskName[t]] # 0 => ThreadsTaken(TaskName[t]) < NumberThreads[TaskName[t]]
    <3>1. CASE failed_tids = {}
      <4>1. {x \in InProgress : TaskName[x] = TaskName[t]} = {}
        BY <1>1, <3>1
      <4>2. ThreadsTaken(TaskName[t]) = 0
        BY <4>1, FS_EmptySet DEF ThreadsTaken
      <4> QED
        BY <2>3, <4>2
    <3>2. CASE NoThreadLimits
      BY <2>3, <3>2 DEF NoThreadLimits
    <3> QED
      BY <3>1, <3>2
  <2>5. t \in Runnable
    BY <1>3, <1>4, <2>1, <2>2, <2>4 DEF Runnable
  <2> QED
    BY <1>2, <2>5
<1> QED
  BY <1>4 DEF AllStarted

\* Nothing has started, or is called done, when the build starts.
LEMMA SceneOnlyInit ==
    Init => SceneOnlyInv
  BY DEF Init, SceneOnlyInv

\* Only the scheduler starts tasks, and only the end of a build that restores and runs
\* calls the scene queue done.
LEMMA SceneOnlyStep ==
    ASSUME SceneOnlyInv, [Next]_vars
    PROVE  SceneOnlyInv'
<1>1. UNCHANGED configuration
  BY ConfigurationKept
<1>2. SUFFICES ASSUME configuration.setsceneonly
               PROVE  UNCHANGED runq_running /\ (sqdone' => sqdone)
  BY <1>1, <1>2 DEF SceneOnlyInv
<1> DEFINE Kept == UNCHANGED runq_running /\ (sqdone' => sqdone)
<1>3. ASSUME WorkerExit PROVE Kept
  BY <1>3 DEF WorkerExit, Exit, SetsceneExit, TaskComplete, TaskFail, runqVars
<1>4. ASSUME Holdoff PROVE Kept
  BY <1>2, <1>4 DEF Holdoff
<1>5. ASSUME NEW t \in Task,
             \/ SchedUnexpected(t) \/ SchedSkip(t) \/ SchedNoExec(t) \/ SchedStart(t)
      PROVE  Kept
  BY <1>2, <1>5 DEF SchedUnexpected, SchedSkip, SchedNoExec, SchedStart, Sched
<1>6. ASSUME NEW t \in Setscene, NEW D \in SUBSET PassedOver,
             \/ SceneNotNeeded(t, D) \/ SceneNeedHardDeps(t, D)
             \/ SceneSettle(t, D) \/ SceneStart(t, D)
      PROVE  Kept
  <2>1. SceneTurn(t, D)
    BY <1>6 DEF SceneNotNeeded, SceneNeedHardDeps, SceneSettle, SceneStart, SceneChosen
  <2> QED
    BY <2>1 DEF SceneTurn, runqVars
<1>7. ASSUME Migrate PROVE Kept
  <2>1. UNCHANGED runq_running
    BY <1>7 DEF Migrate
  <2>2. \E pend, mig, rerun, changed : \/ HaltOnRerun(pend, mig, rerun, unihash')
                                       \/ Rejudge(pend, mig, changed, unihash')
    BY <1>7 DEF Migrate
  <2>3. sqdone' = sqdone \/ sqdone' = FALSE
    BY <2>2 DEF HaltOnRerun, Rejudge
  <2> QED
    BY <2>1, <2>3
<1>8. ASSUME \/ BeginTurn \/ CleanUp \/ EndRead \/ Teardown \/ NothingToMigrate
             \/ SchedNone \/ EndWait \/ Conclude \/ Stop \/ UNCHANGED vars
      PROVE  Kept
  <2>1. UNCHANGED buildVars
    BY <1>8 DEF BeginTurn, CleanUp, EndRead, Teardown, NothingToMigrate, SchedNone, EndWait,
                Conclude, Stop, vars
  <2> QED
    BY <2>1 DEF buildVars, runqVars, sceneVars
<1>9. ASSUME \/ SceneNone \/ ForceStop
             \/ \E i \in DOMAIN updated_taskhash_queue : ApplyUpdate(i)
             \/ \E t \in Setscene : EndForceDeferred(t)
             \/ \E t \in Task, h \in Hash : UniHashUpdate(t, h)
      PROVE  Kept
  <2>1. UNCHANGED <<runq_running, sqdone>>
    BY <1>9 DEF SceneNone, ForceStop, ApplyUpdate, EndForceDeferred, UniHashUpdate, runqVars,
                sceneVars
  <2> QED
    BY <2>1
<1> HIDE DEF Kept
<1>10. Kept
  BY <1>3, <1>4, <1>5, <1>6, <1>7, <1>8, <1>9 DEF Next, Turn, WorkerEvent, Over
<1> QED
  BY <1>10 DEF Kept

\* LastInv is inductive: each stage tells the next what it found.
LEMMA LastStep ==
    ASSUME HardDepsAcyclic, IInv, SInv, ActiveInv, WorkInv, RecordInv, TablesInv, TablesInv',
           SqdoneInv, QueueInv, SceneOnlyInv, LastInv, [Next]_vars
    PROVE  LastInv'
<1>0. TypeOK /\ ProcessInv
  BY DEF IInv, SInv
<1>1. CASE stage' \notin {"holdoff", "sched", "end"}
  BY <1>1 DEF LastInv
<1>2. ASSUME SceneNone PROVE LastInv'
  <2>1. /\ stage' = "holdoff" /\ UNCHANGED <<active, sq_live, sq_deferred>>
        /\ Decided(sq') = Decided(sq)
    <3>1. /\ stage' = "holdoff" /\ UNCHANGED <<active, sq_live, sq_deferred>>
          /\ sq' = sq \/ sq' = PutAside(PassedOver)
      BY <1>2 DEF SceneNone, runqVars
    <3> QED
      BY <1>0, <3>1 DEF PutAside, Decided, TypeOK, SceneRecord
  <2>2. Idle' => Idle
    BY <2>1 DEF Idle
  <2>3. Idle => AllDecided
    BY <1>2, LookFindsAll
  <2>4. AllDecided => AllDecided'
    BY <2>1 DEF AllDecided
  <2> QED
    BY <2>1, <2>2, <2>3, <2>4 DEF LastInv
<1>3. ASSUME NEW t \in Setscene, NEW D \in SUBSET PassedOver, SceneStart(t, D),
             stage' = "holdoff"
      PROVE  LastInv'
  <2>1. ~Idle'
    BY <1>3 DEF SceneStart, Idle
  <2> QED
    BY <1>3, <2>1 DEF LastInv
<1>4. ASSUME Holdoff, stage' = "sched" PROVE LastInv'
  <2>1. /\ stage = "holdoff" /\ UNCHANGED <<configuration, active, sq, sq_live, sq_deferred,
                                            updated_taskhash_queue, runq_running, runq_complete>>
        /\ ~holdoff_need_update'
    BY <1>0, <1>4 DEF Holdoff, update_holdofftasks, holdoffVars, hashVars, TypeOK
  <2>2. Idle' = Idle /\ AllDecided' = AllDecided
    BY <2>1 DEF Idle, AllDecided, Decided
  <2>3. Idle => AllDecided
    BY <2>1 DEF LastInv
  <2>4. ASSUME Idle, configuration.setsceneonly, ~sqdone' PROVE FALSE
    <3>1. ~SceneDrained(holdoff_tasks') /\ UNCHANGED sqdone
      BY <1>4, <2>4 DEF Holdoff
    <3>2. holdoff_tasks' = {}
      BY <2>1, <2>2, <2>3, <2>4 DEF TablesInv
    <3>3. runq_running = {}
      BY <2>4 DEF SceneOnlyInv
    <3>4. DOMAIN updated_taskhash_queue = {}
      BY <2>1, <3>3 DEF QueueInv, InProgress
    <3>5. updated_taskhash_queue = << >>
      BY <1>0, <3>4, QueueEmpty
    <3> QED
      BY <2>4, <3>1, <3>2, <3>5 DEF SceneDrained, Idle
  <2> QED
    BY <1>4, <2>1, <2>2, <2>3, <2>4 DEF LastInv
<1>5. ASSUME SchedNone PROVE LastInv'
  <2>1. stage = "sched" /\ stage' = "end" /\ UNCHANGED buildVars
    BY <1>5 DEF SchedNone
  <2>2. /\ UNCHANGED <<Idle, AllDecided, holdoff_need_update, configuration, sqdone,
                       updated_taskhash_queue, InProgress, failed_tids, AllStarted>>
    BY <2>1 DEF buildVars, runqVars, sceneVars, holdoffVars, hashVars, Idle, AllDecided,
                InProgress, AllStarted
  <2>3. \A i \in DOMAIN updated_taskhash_queue : UpdateOf(i) \in InProgress
    BY <2>1 DEF QueueInv
  <2>4. \A i \in DOMAIN updated_taskhash_queue' : UpdateOf(i)' \in InProgress'
    BY <2>2, <2>3 DEF UpdateOf
  <2>5. Idle /\ ~configuration.setsceneonly /\ (failed_tids = {} \/ NoThreadLimits) => AllStarted
    BY <1>5, NothingRunnable
  <2>6. (Idle => AllDecided) /\ ~holdoff_need_update
        /\ (Idle /\ configuration.setsceneonly => sqdone)
    BY <2>1 DEF LastInv
  <2> QED
    BY <2>1, <2>2, <2>4, <2>5, <2>6 DEF LastInv
<1>6. ASSUME NEW t \in Task, SchedStart(t), stage' = "end" PROVE LastInv'
  <2>1. /\ stage = "sched" /\ active' = active + 1
        /\ UNCHANGED <<holdoff_need_update, updated_taskhash_queue, runq_complete>>
        /\ runq_running' = runq_running \cup {t}
    BY <1>6 DEF SchedStart, Sched, hashVars
  <2>2. ~Idle'
    <3>1. active = Cardinality(RealProcesses) /\ IsFiniteSet(worker)
      BY <2>1 DEF ActiveInv
    <3>2. RealProcesses \in SUBSET worker
      BY DEF RealProcesses
    <3>3. active \in Nat
      BY <3>1, <3>2, FS_Subset, FS_CardinalityType
    <3> QED
      BY <2>1, <3>3 DEF Idle
  <2>3. ~holdoff_need_update'
    BY <2>1 DEF LastInv
  <2>4. \A i \in DOMAIN updated_taskhash_queue' : UpdateOf(i)' \in InProgress'
    BY <2>1 DEF QueueInv, UpdateOf, InProgress
  <2> QED
    BY <1>6, <2>2, <2>3, <2>4 DEF LastInv
<1>7. ASSUME UNCHANGED vars PROVE LastInv'
  <2>1. /\ UNCHANGED <<stage, Idle, AllDecided, holdoff_need_update, configuration, sqdone,
                       updated_taskhash_queue, InProgress, failed_tids, AllStarted>>
    BY <1>7 DEF vars, buildVars, runqVars, sceneVars, holdoffVars, hashVars, Idle, AllDecided,
                InProgress, AllStarted
  <2> QED
    BY <2>1 DEF LastInv, UpdateOf
<1> QED
  BY <1>1, <1>2, <1>3, <1>4, <1>5, <1>6, <1>7, StageEntered

\* What a build that comes to its end with nothing to wait for has seen, with all it
\* rests on.
LastOrder == WorkInv /\ QueueInv /\ RefusedInv /\ SceneOnlyInv /\ LastInv

\* Every state has this, with the rest.
LEMMA LastOrderAlways ==
    ASSUME NotEnforced, HardDepsAcyclic
    PROVE  Spec /\ []FailsAlone =>
              [](SInv /\ XorInv /\ AloneOK /\ QueueOrder /\ EndOrder /\ LastOrder)
<1>1. Init => LastOrder
  <2> SUFFICES ASSUME Init PROVE LastOrder
    OBVIOUS
  <2>1. runq_running = {} /\ DOMAIN build_stamps = {} /\ stage = "turn"
    BY DEF Init
  <2>2. WorkInv /\ LastInv
    BY <2>1 DEF WorkInv, LastInv, InProgress
  <2> QED
    BY <2>2, HashesInit, SceneOnlyInit DEF LastOrder
<1>2. IInv /\ SInv /\ XorInv /\ AloneOK /\ QueueOrder /\ QueueOrder' /\ EndOrder /\ LastOrder
         /\ [Next]_vars => LastOrder'
  <2> SUFFICES ASSUME IInv, SInv, XorInv, AloneOK, QueueOrder, QueueOrder', EndOrder, LastOrder,
                      [Next]_vars
               PROVE  LastOrder'
    OBVIOUS
  <2>1. WorkInv' /\ SceneOnlyInv'
    BY WorkStep, SceneOnlyStep DEF LastOrder
  <2>2. QueueInv' /\ RefusedInv'
    BY QueueStep, RefusedStep DEF LastOrder
  <2>3. LastInv'
    BY LastStep DEF LastOrder, EndOrder, QueueOrder
  <2> QED
    BY <2>1, <2>2, <2>3 DEF LastOrder
<1> QED
  BY <1>1, <1>2, EndOrderAlways, Invariance, PTL DEF Spec

\* A build that concludes with no failure, and nothing left to wait for, has done
\* everything: the sanity checks find nothing.
LEMMA ConcludeFindsNone ==
    ASSUME HardDepsAcyclic, IInv, SInv, ActiveInv, QueueOrder, LastOrder, Conclude,
           failed_tids = {}, Setscene # {} \/ ~configuration.setsceneonly
    PROVE  ~SanityErrors
<1>0. /\ TypeOK /\ OrderInv /\ ProcessInv /\ stage = "end" /\ Idle
      /\ RecordInv /\ TablesInv /\ LastInv /\ SceneOnlyInv /\ WorkInv
  BY DEF IInv, SInv, Conclude, Idle, QueueOrder, LastOrder
<1>1. AllDecided /\ ~holdoff_need_update
  BY <1>0 DEF LastInv
<1>2. /\ holdoff_tasks = {} /\ tasks_covered \cup tasks_notcovered = Task
      /\ BuildableInv
  BY <1>0, <1>1 DEF TablesInv
<1>3. InProgress = {}
  BY <1>0, IdleNone
<1>4. updated_taskhash_queue = << >>
  <2>1. DOMAIN updated_taskhash_queue = {}
    BY <1>0, <1>3 DEF LastInv
  <2> QED
    BY <1>0, <2>1, QueueEmpty
<1>5. ~configuration.setsceneonly
  BY <1>0 DEF LastInv, SceneOnlyInv
<1>6. AllStarted
  BY <1>0, <1>5 DEF LastInv
<1>7. Task \subseteq runq_complete
  <2> DEFINE S == Task \ runq_complete
  <2> SUFFICES ASSUME S # {} PROVE FALSE
    OBVIOUS
  <2>1. PICK t \in S : Depends[t] \cap S = {}
    BY AcyclicAssumption
  <2>2. Depends[t] \subseteq runq_complete
    BY <2>1, GraphAssumption
  <2> QED
    BY <1>3, <1>6, <2>2 DEF AllStarted, InProgress
<1>8. Task \subseteq runq_running /\ Task \subseteq runq_buildable
  BY <1>2, <1>6, <1>7, GraphAssumption DEF AllStarted, BuildableInv
<1>9. Setscene \subseteq sq.buildable \cap sq.running /\ Task \subseteq sq.done
  BY <1>0, <1>1, AllDone DEF RecordInv, InOrder, KeptBut, AllDecided
<1>10. ~SceneErrors(runq_buildable, tasks_covered, tasks_notcovered, holdoff_tasks)
  BY <1>0, <1>1, <1>2, <1>4, <1>8, <1>9 DEF SceneErrors, Idle, AllDecided
<1> QED
  BY <1>7, <1>8, <1>10 DEF SanityErrors

\* How a build comes to stop, or to be called failed or complete.
LEMMA StopsHow ==
    ASSUME NotEnforced, IInv, SInv, XorInv, AloneOK, QueueOrder, EndInv, [Next]_vars
    PROVE  \/ Conclude \/ CleanUp \/ ForceStop
           \/ /\ failed_tids \subseteq failed_tids'
              /\ \/ state' = state
                 \/ state' = "CLEAN_UP" /\ (configuration.halt \/ MayInterrupt # {})
                 \/ state' = "COMPLETE" /\ configuration.setsceneonly
              /\ state \in {"FAILED", "COMPLETE"} => UNCHANGED <<runq_running, runq_complete>>
<1> DEFINE Changed ==
       /\ failed_tids \subseteq failed_tids'
       /\ \/ state' = state
          \/ state' = "CLEAN_UP" /\ (configuration.halt \/ MayInterrupt # {})
          \/ state' = "COMPLETE" /\ configuration.setsceneonly
       /\ state \in {"FAILED", "COMPLETE"} => UNCHANGED <<runq_running, runq_complete>>
<1>0. TypeOK /\ QuietInv /\ (state \in {"FAILED", "COMPLETE"} => stage \in {"turn", "done"})
  BY DEF IInv, SInv, EndInv
<1>1. ASSUME WorkerExit PROVE Changed
  <2> PICK kind \in Kind, t \in Task, h \in Hash, ok \in BOOLEAN : Exit(kind, t, h, ok)
    BY <1>1 DEF WorkerExit
  <2> DEFINE disk == StampsLeft(kind, t, h, ok)
  <2>1. /\ stage \in {"read", "wait"}
        /\ TaskComplete(t, disk) \/ TaskFail(t) \/ SetsceneExit(t, ok, disk)
    BY DEF Exit, Reading
  <2> HIDE DEF disk
  <2>2. ~configuration.setscene_enforce
    BY <1>0 DEF NotEnforced, TypeOK
  <2>3. failed_tids \subseteq failed_tids' /\ (state' = state \/ (state' = "CLEAN_UP" /\ configuration.halt))
    BY <2>1, <2>2 DEF TaskComplete, TaskFail, SetsceneExit, HaltState, runqVars
  <2> QED
    BY <1>0, <2>1, <2>3
<1>2. ASSUME NEW t \in Task,
             \/ SchedUnexpected(t) \/ SchedSkip(t) \/ SchedNoExec(t) \/ SchedStart(t)
      PROVE  Changed
  <2>1. /\ stage = "sched" /\ failed_tids \subseteq failed_tids'
        /\ state' = state \/ (state' = "CLEAN_UP" /\ configuration.halt)
    BY <1>2 DEF SchedUnexpected, SchedSkip, SchedNoExec, SchedStart, Sched, HaltState
  <2> QED
    BY <1>0, <2>1
<1>3. ASSUME NEW t \in Setscene, NEW D \in SUBSET PassedOver,
             \/ SceneNotNeeded(t, D) \/ SceneNeedHardDeps(t, D)
             \/ SceneSettle(t, D) \/ SceneStart(t, D)
      PROVE  Changed
  <2>1. SceneTurn(t, D)
    BY <1>3 DEF SceneNotNeeded, SceneNeedHardDeps, SceneSettle, SceneStart, SceneChosen
  <2> QED
    BY <2>1 DEF SceneTurn, runqVars
<1>4. ASSUME Migrate PROVE Changed
  <2>1. pending_migrations \subseteq sq.notcovered
    BY <1>0, <1>4 DEF AloneOK, HardInv, MayMigrate, Migrate, QuietInv
  <2>2. UNCHANGED <<state, failed_tids>>
    BY <1>4, <2>1, MigrateInOrder DEF QueueOrder
  <2> QED
    BY <1>4, <2>2 DEF Migrate
<1>5. ASSUME Holdoff PROVE Changed
  <2>1. state' = state \/ (state' = "COMPLETE" /\ configuration.setsceneonly)
    <3>1. DecidesMore
      BY QueueOrderStep
    <3> QED
      BY <1>5, <3>1, HoldoffNeverFails DEF QueueOrder
  <2> QED
    BY <1>5, <2>1 DEF Holdoff
<1>6. ASSUME \/ BeginTurn \/ EndRead \/ Teardown \/ NothingToMigrate \/ SchedNone \/ EndWait
             \/ UNCHANGED vars
      PROVE  Changed
  <2>1. UNCHANGED <<state, buildVars>>
    BY <1>6 DEF BeginTurn, EndRead, Teardown, NothingToMigrate, SchedNone, EndWait, vars
  <2> QED
    BY <2>1 DEF buildVars, runqVars
<1>7. ASSUME \/ SceneNone
             \/ \E i \in DOMAIN updated_taskhash_queue : ApplyUpdate(i)
             \/ \E t \in Setscene : EndForceDeferred(t)
             \/ \E t \in Task, h \in Hash : UniHashUpdate(t, h)
      PROVE  Changed
  <2>1. UNCHANGED <<state, runqVars>>
    BY <1>7 DEF SceneNone, ApplyUpdate, EndForceDeferred, UniHashUpdate, runqVars
  <2> QED
    BY <2>1 DEF runqVars
<1>8. ASSUME Stop PROVE Changed
  BY <1>8 DEF Stop, buildVars, runqVars
<1> HIDE DEF Changed
<1>9. Changed \/ Conclude \/ CleanUp \/ ForceStop
  BY <1>1, <1>2, <1>3, <1>4, <1>5, <1>6, <1>7, <1>8 DEF Next, Turn, WorkerEvent, Over
<1> QED
  BY <1>9 DEF Changed

\* A build that restores only has something to restore.
SceneOnlyHasScene == Setscene = {} => \A c \in Configurations : ~c.setsceneonly

\* A build fails only because a task failed: neither the checks on the scene queue
\* nor those on the whole run queue ever find anything undone, once nothing is left to
\* wait for.
THEOREM NoSpuriousFailureTheorem ==
    ASSUME NotEnforced, HardDepsAcyclic, SceneOnlyHasScene
    PROVE  Spec /\ []FailsAlone => []NoSpuriousFailure
<1>1. Init => NoSpuriousFailure
  BY DEF Init, NoSpuriousFailure
<1>2. IInv /\ SInv /\ XorInv /\ AloneOK /\ QueueOrder /\ EndOrder /\ LastOrder
         /\ NoSpuriousFailure /\ [Next]_vars => NoSpuriousFailure'
  <2> SUFFICES ASSUME IInv, SInv, XorInv, AloneOK, QueueOrder, EndOrder, LastOrder,
                      NoSpuriousFailure, [Next]_vars
               PROVE  NoSpuriousFailure'
    OBVIOUS
  <2>0. ActiveInv /\ EndInv /\ (Setscene # {} \/ ~configuration.setsceneonly)
    BY DEF EndOrder, IInv, TypeOK, SceneOnlyHasScene
  <2>1. CASE Conclude
    <3>1. failed_tids = {} => ~SanityErrors
      BY <2>0, <2>1, ConcludeFindsNone
    <3>2. state' = (IF failed_tids # {} \/ SanityErrors THEN "FAILED" ELSE "COMPLETE")
          /\ UNCHANGED failed_tids
      BY <2>1 DEF Conclude, buildVars, runqVars
    <3> QED
      BY <3>1, <3>2 DEF NoSpuriousFailure
  <2>2. CASE CleanUp \/ ForceStop
    <3>1. UNCHANGED <<failed_tids>> /\ (state' = state \/ state' = FinishedState)
      BY <2>2 DEF CleanUp, ForceStop, buildVars, runqVars
    <3> QED
      BY <3>1 DEF FinishedState, NoSpuriousFailure
  <2>3. CASE ~(Conclude \/ CleanUp \/ ForceStop)
    BY <2>0, <2>3, StopsHow DEF NoSpuriousFailure
  <2> QED
    BY <2>1, <2>2, <2>3
<1> QED
  BY <1>1, <1>2, LastOrderAlways, Invariance, PTL DEF Spec

\* A build that may not stop early does not; so all it could start it has.
WentOn == ~configuration.halt /\ MayInterrupt = {} =>
    /\ state # "CLEAN_UP"
    /\ state \in {"FAILED", "COMPLETE"} => AllStarted

\* What restores only is not asked to continue.
SceneOnlyHalts == \A c \in Configurations : c.setsceneonly => c.halt

\* What is left undone when a build ends is what a failure or the user left: "all
\* succeeded" is said of one that ran or skipped every task, and with --continue one
\* that ends by itself, failed or not, has started every task it could.
THEOREM EndIsRightTheorem ==
    ASSUME NotEnforced, HardDepsAcyclic, NoThreadLimits, SceneOnlyHalts
    PROVE  Spec /\ []FailsAlone => []EndIsRight
<1>1. Init => WentOn
  BY DEF Init, WentOn
<1>2. IInv /\ SInv /\ XorInv /\ AloneOK /\ QueueOrder /\ EndOrder /\ LastOrder
         /\ WentOn /\ [Next]_vars => WentOn'
  <2> SUFFICES ASSUME IInv, SInv, XorInv, AloneOK, QueueOrder, EndOrder, LastOrder,
                      WentOn, [Next]_vars, ~configuration'.halt, MayInterrupt = {}
               PROVE  /\ state' # "CLEAN_UP"
                      /\ state' \in {"FAILED", "COMPLETE"} => AllStarted'
    BY DEF WentOn
  <2>1. UNCHANGED configuration /\ ~configuration.halt /\ ~configuration.setsceneonly
    BY ConfigurationKept DEF IInv, TypeOK, SceneOnlyHalts
  <2>2. state # "CLEAN_UP" /\ (state \in {"FAILED", "COMPLETE"} => AllStarted) /\ EndInv
    BY <2>1 DEF WentOn, EndOrder
  <2>3. CASE Conclude
    <3>1. stage = "end" /\ Idle
      BY <2>3 DEF Conclude, Idle
    <3>2. AllStarted
      BY <2>1, <3>1 DEF LastOrder, LastInv
    <3>3. state' # "CLEAN_UP" /\ UNCHANGED <<runq_running, runq_complete>>
      BY <2>3 DEF Conclude, buildVars, runqVars
    <3> QED
      BY <3>2, <3>3 DEF AllStarted
  <2>4. ~CleanUp /\ ~ForceStop
    BY <2>2 DEF CleanUp, ForceStop
  <2>5. CASE ~Conclude
    BY <2>1, <2>2, <2>4, <2>5, StopsHow DEF AllStarted
  <2> QED
    BY <2>3, <2>5
<1>3. IInv /\ EndOrder /\ WentOn => EndIsRight
  BY DEF EndOrder, EndInv, OverInv, WentOn, EndIsRight, ContinuesAsFarAsPossible, AllStarted
<1> QED
  BY <1>1, <1>2, <1>3, LastOrderAlways, Invariance, PTL DEF Spec

-----------------------------------------------------------------------------

\* Without hard dependencies nothing more is asked of a build.
COROLLARY NoHardDependenciesTheorem ==
    ASSUME NoHardDependencies
    PROVE  Spec => []( /\ NoRunUnderRestore /\ CoveredXorNotCovered
                       /\ HashesKept /\ InputsPresent)
<1>1. TypeOK => FailsAlone
  BY NoneAlone
<1>2. FailsAlone => HardApart
  BY AloneApart
<1> QED
  BY <1>1, <1>2, TypeCorrect, NoRunUnderRestoreTheorem, CoveredXorTheorem,
     HashesKeptTheorem, InputsPresentTheorem, PTL

=============================================================================
