----------------------------- MODULE HostProofs -----------------------------
(***************************************************************************)
(* A runner host: the cache of actions it keeps on its disk, the sandboxes *)
(* in its docker daemon, and the executor that runs the steps of a job in  *)
(* them, for every set of commits, files, jobs and step lists, and for any *)
(* number of faults and kills.                                             *)
(***************************************************************************)
EXTENDS RunnerHost, LoopLemmas, ActionCache, Sandbox, StepRunner, SequenceTheorems, TLAPS

-----------------------------------------------------------------------------
(***************************************************************************)
(* The action cache.  A directory with the marker has every file: the      *)
(* marker comes to dir only by the rename, and dir.tmp has it only after   *)
(* the last file.  While a download runs its dir has no marker (or it      *)
(* would not have been started), so a removal of dir that a kill cuts      *)
(* short cannot leave a marker without the files.                          *)
(***************************************************************************)
Whole == ActionFiles \union {Marker}

CacheTyped ==
  /\ branch \in Commit /\ knownRef \in Commit \union {NoActionCommit}
  /\ DOMAIN warm = Commit /\ DOMAIN tmpDir = Commit
  /\ extracting \in {"idle", "clear", "extract", "remove", "rename"}
  /\ extracting # "idle" => fetching \in Commit

CacheInv ==
  /\ CacheTyped
  /\ \A c \in Commit : IsPopulated(c) => warm[c] = Whole
  /\ extracting # "idle" => ~IsPopulated(fetching)
  /\ extracting = "extract" => tmpDir[fetching] \subseteq ActionFiles
  /\ extracting \in {"remove", "rename"} => tmpDir[fetching] = Whole
  /\ ActionsServedWhole

\* An empty cache, in which nothing was served.
LEMMA CacheStart == ActionInit => CacheInv
  BY DEF ActionInit, CacheInv, CacheTyped, IsPopulated, NoDir, Marker, NoActionCommit,
         ActionsServedWhole

\* A whole directory is served as the archive's files.
LEMMA WholeServed ==
  ASSUME ActionsServedWhole, NEW c, Serve(c, Whole)
  PROVE  ActionsServedWhole'
  BY ActionFilesAssumption DEF ActionsServedWhole, Serve, Whole

\* Every call of the download, every failure and every kill keeps it.
LEMMA CacheStep == CacheInv /\ [ActionNext]_actionVars => CacheInv'
<1> SUFFICES ASSUME CacheInv, [ActionNext]_actionVars
             PROVE  CacheInv'
  OBVIOUS
<1> USE DEF CacheInv, CacheTyped, IsPopulated
<1>1. CASE BranchMoves
  BY <1>1 DEF BranchMoves, ActionsServedWhole
<1>2. CASE ResolveAction
  <2>1. PICK c \in Commit :
          /\ knownRef' = c
          /\ IF IsPopulated(c)
             THEN Serve(c, warm[c]) /\ UNCHANGED <<fetching, extracting>>
             ELSE fetching' = c /\ extracting' = "clear" /\ UNCHANGED resolved
    BY <1>2 DEF ResolveAction
  <2>2. UNCHANGED <<branch, warm, tmpDir>>
    BY <1>2 DEF ResolveAction
  <2>3. CASE IsPopulated(c)
    <3>1. ActionsServedWhole'
      BY <2>1, <2>3, WholeServed
    <3> QED
      BY <2>1, <2>2, <2>3, <3>1
  <2>4. CASE ~IsPopulated(c)
    <3>1. ActionsServedWhole'
      BY <2>1, <2>4 DEF ActionsServedWhole
    <3> QED
      BY <2>1, <2>2, <2>4, <3>1
  <2> QED
    BY <2>3, <2>4
<1>3. CASE ClearTmp
  BY <1>3 DEF ClearTmp, ActionsServedWhole
<1>4. CASE ExtractFile
  BY <1>4 DEF ExtractFile, ActionsServedWhole
<1>5. CASE WriteMarker
  BY <1>5 DEF WriteMarker, ActionsServedWhole, Whole
<1>6. CASE RemoveDir
  BY <1>6 DEF RemoveDir, ActionsServedWhole, NoDir, Marker
<1>7. CASE RenameTmp
  <2>1. ActionsServedWhole'
    BY <1>7, WholeServed DEF RenameTmp
  <2> QED
    BY <1>7, <2>1 DEF RenameTmp
<1>8. CASE DownloadFails
  BY <1>8 DEF DownloadFails, ActionsServedWhole
<1>9. CASE RunnerKilled
  <2>1. /\ extracting' = "idle" /\ knownRef' = NoActionCommit
        /\ UNCHANGED <<branch, resolved>>
        /\ DOMAIN warm' = Commit /\ DOMAIN tmpDir' = Commit
    BY <1>9 DEF RunnerKilled
  <2>2. \A c \in Commit : Marker \in warm'[c] => warm'[c] = Whole
    BY <1>9 DEF RunnerKilled
  <2> QED
    BY <2>1, <2>2 DEF ActionsServedWhole
<1>10. CASE UNCHANGED actionVars
  BY <1>10 DEF actionVars, ActionsServedWhole
<1> QED
  BY <1>1, <1>2, <1>3, <1>4, <1>5, <1>6, <1>7, <1>8, <1>9, <1>10 DEF ActionNext

\* A half-extracted action is never run, however often the download failed or
\* the runner was killed in the middle of it (actions/resolver.go, download).
THEOREM ActionsWhole == ActionInit /\ [][ActionNext]_actionVars => []ActionsServedWhole
<1>1. CacheInv => ActionsServedWhole
  BY DEF CacheInv
<1> QED
  BY <1>1, CacheStart, CacheStep, PTL

-----------------------------------------------------------------------------
(***************************************************************************)
(* The sandboxes.  The lock is held by one job at most, and a job under    *)
(* way that has the cache volume and whose container may exist holds it:   *)
(* Create takes it before the container is made, Close gives it back after *)
(* it tried to remove the container.  A container that is still there then *)
(* holds the workspace volume, which was made before it and is known to be *)
(* there: so that one could not be removed either.                         *)
(***************************************************************************)
Early == {"none", "lock"}
Making == {"cache", "workspace", "image", "network", "container"}
Started == {"dockerd", "ready"}
Closing == {"closing", "closing workspace", "closing network", "closing lock"}
Stages == Early \cup Making \cup Started \cup Closing \cup {"gone", "killed"}

Resources == {"container", "workspace", "network"}
Boxes == [at : Stages, made : SUBSET Resources, failed : BOOLEAN]

\* What holds of a sandbox at a stage, with or without the lock and a container.
StageOk(cached, b, locked, there) ==
  /\ b.at \in Early \cup Making => ~there
  /\ cached /\ b.at \in Making \cup Started => locked
  /\ cached /\ b.at \in Closing /\ there => locked
  /\ b.at \in {"image", "network", "container"} \cup Started => "workspace" \in b.made
  /\ b.at \in Closing \cup {"gone"} /\ there => "workspace" \in b.made

BoxInv ==
  /\ box \in [BoxJob -> Boxes]
  /\ \A i, j \in lockHolder : i = j
  /\ \A j : HasContainer(j) => j \in BoxJob
  /\ \A j \in BoxJob : StageOk(j \in CachedJob, box[j], j \in lockHolder, HasContainer(j))

\* The invariant says what the runs check.
LEMMA LockedBoxes == BoxInv => CacheSharedOnlyWithLeft
<1> SUFFICES ASSUME BoxInv, NEW i \in CachedJob, NEW j \in CachedJob,
                    HasContainer(i), HasContainer(j), ~LeftBehind(i), ~LeftBehind(j)
             PROVE  i = j
  BY DEF CacheSharedOnlyWithLeft
<1>1. ASSUME NEW k \in CachedJob, HasContainer(k), ~LeftBehind(k)
      PROVE  k \in lockHolder
  <2>1. /\ k \in BoxJob /\ box[k].at \in Stages
        /\ StageOk(k \in CachedJob, box[k], k \in lockHolder, HasContainer(k))
    BY <1>1 DEF BoxInv, Boxes
  <2>2. box[k].at \in Started \cup Closing
    BY <1>1, <2>1 DEF Stages, StageOk, LeftBehind
  <2> QED
    BY <1>1, <2>1, <2>2 DEF StageOk
<1> QED
  BY <1>1 DEF BoxInv

\* A step of one job: where it may go, what may become of its container and of
\* the lock, so that the invariant is kept.
LEMMA OneBoxStep ==
  ASSUME BoxInv, NEW j \in BoxJob, NEW b \in Boxes,
         box' = [box EXCEPT ![j] = b],
         \A i : i # j => (HasContainer(i)' <=> HasContainer(i)),
         \/ lockHolder' = lockHolder
         \/ lockHolder = {} /\ lockHolder' = {j}
         \/ lockHolder' = lockHolder \ {j},
         StageOk(j \in CachedJob, b, j \in lockHolder', HasContainer(j)')
  PROVE  BoxInv'
<1>1. box' \in [BoxJob -> Boxes] /\ box'[j] = b /\ \A i \in BoxJob : i # j => box'[i] = box[i]
  BY DEF BoxInv
<1>2. \A i, k \in lockHolder' : i = k
  BY DEF BoxInv
<1>3. \A i : HasContainer(i)' => i \in BoxJob
  BY DEF BoxInv
<1>4. ASSUME NEW i \in BoxJob, i # j
      PROVE  StageOk(i \in CachedJob, box'[i], i \in lockHolder', HasContainer(i)')
  <2>1. StageOk(i \in CachedJob, box[i], i \in lockHolder, HasContainer(i))
    BY DEF BoxInv
  <2>2. box'[i] = box[i] /\ (HasContainer(i)' <=> HasContainer(i)) /\ (i \in lockHolder => i \in lockHolder')
    BY <1>1, <1>4
  <2> QED
    BY <2>1, <2>2 DEF StageOk
<1> QED
  BY <1>1, <1>2, <1>3, <1>4 DEF BoxInv

\* What a job's record becomes when it goes on or gives up.
LEMMA BoxWritten ==
  ASSUME NEW b \in Boxes, NEW at \in Stages
  PROVE  /\ [b EXCEPT !.at = at] \in Boxes
         /\ [b EXCEPT !.at = at].at = at /\ [b EXCEPT !.at = at].made = b.made
         /\ [b EXCEPT !.at = at, !.failed = TRUE] \in Boxes
         /\ [b EXCEPT !.at = at, !.failed = TRUE].at = at
         /\ [b EXCEPT !.at = at, !.failed = TRUE].made = b.made
  BY DEF Boxes

\* No sandbox, no lock, no container.
LEMMA BoxStart == BoxInit => BoxInv
<1> SUFFICES ASSUME BoxInit PROVE BoxInv
  OBVIOUS
<1> DEFINE b == [at |-> "none", made |-> {}, failed |-> FALSE]
<1>1. b \in Boxes /\ b.at = "none"
  BY DEF Boxes, Stages, Early
<1>2. box = [j \in BoxJob |-> b] /\ lockHolder = {} /\ \A j : ~HasContainer(j)
  BY DEF BoxInit, HasContainer
<1> HIDE DEF b
<1>3. \A j \in BoxJob : StageOk(j \in CachedJob, box[j], j \in lockHolder, HasContainer(j))
  BY <1>1, <1>2 DEF StageOk, Early, Making, Started, Closing
<1> QED
  BY <1>1, <1>2, <1>3 DEF BoxInv

\* What BoxInv says of the stage a job is at.
LEMMA BoxFacts ==
  ASSUME BoxInv, NEW j \in BoxJob
  PROVE  box[j] \in Boxes /\ StageOk(j \in CachedJob, box[j], j \in lockHolder, HasContainer(j))
  BY DEF BoxInv

\* Going from one stage to another, with the resources and the lock as they are.
LEMMA BoxGoes ==
  ASSUME BoxInv, NEW j \in BoxJob, NEW at \in Stages,
         \/ GoTo(j, at)
         \/ box' = [box EXCEPT ![j].at = at, ![j].failed = TRUE],
         \A i : HasContainer(i)' <=> HasContainer(i), lockHolder' = lockHolder,
         \A b : b.at = at /\ b.made = box[j].made
                  => StageOk(j \in CachedJob, b, j \in lockHolder, HasContainer(j))
  PROVE  BoxInv'
<1>1. box[j] \in Boxes
  BY DEF BoxInv
<1>2. PICK b \in Boxes : b.at = at /\ b.made = box[j].made /\ box' = [box EXCEPT ![j] = b]
  <2>1. CASE GoTo(j, at)
    <3>1. box' = [box EXCEPT ![j] = [box[j] EXCEPT !.at = at]]
      BY <2>1 DEF GoTo
    <3> QED
      BY <1>1, <3>1, BoxWritten
  <2>2. CASE box' = [box EXCEPT ![j].at = at, ![j].failed = TRUE]
    <3>1. box' = [box EXCEPT ![j] = [box[j] EXCEPT !.at = at, !.failed = TRUE]]
      BY <2>2, <1>1 DEF BoxInv, Boxes
    <3> QED
      BY <1>1, <3>1, BoxWritten
  <2> QED
    BY <2>1, <2>2
<1>3. StageOk(j \in CachedJob, b, j \in lockHolder', HasContainer(j)')
  <2>1. StageOk(j \in CachedJob, b, j \in lockHolder, HasContainer(j))
    BY <1>2
  <2> QED
    BY <2>1 DEF StageOk
<1> QED
  BY <1>2, <1>3, OneBoxStep

\* Giving up a setup in which no container may be there leaves the lock to Close.
LEMMA BoxGivenUp ==
  ASSUME BoxInv, NEW j \in BoxJob, GiveUp(j), box[j].at \in Early \cup Making \cup Started,
         UNCHANGED lockHolder, \A i : HasContainer(i)' <=> HasContainer(i)
  PROVE  BoxInv'
<1>1. "closing" \in Stages
  BY DEF Stages, Closing
<1>2. ASSUME NEW b, b.at = "closing", b.made = box[j].made
      PROVE  StageOk(j \in CachedJob, b, j \in lockHolder, HasContainer(j))
  BY <1>2, BoxFacts DEF StageOk, Early, Making, Started, Closing
<1>3. box' = [box EXCEPT ![j].at = "closing", ![j].failed = TRUE]
  BY DEF GiveUp
<1> QED
  BY <1>1, <1>2, <1>3, BoxGoes

\* The docker command that makes a resource: done, failed, or cut off.
LEMMA MakeKeeps ==
  ASSUME BoxInv, NEW j \in BoxJob,
         \/ Make(j, "workspace", "image")
         \/ Make(j, "network", "container")
         \/ Make(j, "container", "dockerd")
  PROVE  BoxInv'
<1>1. PICK kind \in Resources, next \in Making \cup Started :
        /\ Make(j, kind, next)
        /\ \/ kind = "workspace" /\ next = "image"
           \/ kind = "network" /\ next = "container"
           \/ kind = "container" /\ next = "dockerd"
  BY DEF Resources, Making, Started
<1>2. /\ box[j] \in Boxes /\ box[j].at = kind /\ kind \in Making
      /\ StageOk(j \in CachedJob, box[j], j \in lockHolder, HasContainer(j))
  BY <1>1, BoxFacts DEF Make, Making
<1>3. /\ lockHolder' = lockHolder /\ ~HasContainer(j) /\ (j \in CachedJob => j \in lockHolder)
      /\ kind # "workspace" => "workspace" \in box[j].made
  BY <1>1, <1>2 DEF Make, StageOk
<1>4. CASE /\ exists' = exists \cup {<<kind, j>>}
           /\ box' = [box EXCEPT ![j].at = next, ![j].made = @ \cup {kind}]
  <2> DEFINE b == [box[j] EXCEPT !.at = next, !.made = box[j].made \cup {kind}]
  <2>1. box' = [box EXCEPT ![j] = b]
    BY <1>4, <1>2 DEF BoxInv, Boxes
  <2>2. b \in Boxes /\ b.at = next /\ b.made = box[j].made \cup {kind}
    BY <1>2 DEF Boxes, Stages
  <2> HIDE DEF b
  <2>3. /\ \A i : i # j => (HasContainer(i)' <=> HasContainer(i))
        /\ kind # "container" => ~HasContainer(j)'
    BY <1>3, <1>4 DEF HasContainer
  <2>4. StageOk(j \in CachedJob, b, j \in lockHolder', HasContainer(j)')
    BY <1>1, <1>3, <2>2, <2>3 DEF StageOk, Early, Making, Started, Closing
  <2> QED
    BY <1>3, <2>1, <2>2, <2>3, <2>4, OneBoxStep
<1>5. CASE GiveUp(j) /\ exists' \in {exists, exists \cup {<<kind, j>>}}
  <2> DEFINE b == [box[j] EXCEPT !.at = "closing", !.failed = TRUE]
  <2>1. box' = [box EXCEPT ![j] = b]
    BY <1>5, <1>2 DEF GiveUp, BoxInv, Boxes
  <2>2. b \in Boxes /\ b.at = "closing" /\ b.made = box[j].made
    BY <1>2, BoxWritten DEF Stages, Closing
  <2> HIDE DEF b
  <2>3. /\ \A i : i # j => (HasContainer(i)' <=> HasContainer(i))
        /\ kind # "container" => ~HasContainer(j)'
    BY <1>3, <1>5 DEF HasContainer
  <2>4. StageOk(j \in CachedJob, b, j \in lockHolder', HasContainer(j)')
    BY <1>1, <1>3, <2>2, <2>3 DEF StageOk, Early, Making, Started, Closing
  <2> QED
    BY <1>3, <2>1, <2>2, <2>3, <2>4, OneBoxStep
<1> QED
  BY <1>1, <1>4, <1>5 DEF Make

\* The docker command that removes one: done, not needed, or failed.
LEMMA RemoveKeeps ==
  ASSUME BoxInv, NEW j \in BoxJob, NEW kind, NEW next \in Closing,
         box[j].at \in Closing, RemoveBox(j, kind, next)
  PROVE  BoxInv'
<1>1. /\ box[j] \in Boxes /\ next \in Stages /\ UNCHANGED lockHolder
      /\ StageOk(j \in CachedJob, box[j], j \in lockHolder, HasContainer(j))
  BY BoxFacts DEF RemoveBox, Stages
<1>2. /\ HasContainer(j) => "workspace" \in box[j].made
      /\ j \in CachedJob /\ HasContainer(j) => j \in lockHolder
      /\ next \notin Early \cup Making \cup Started \cup {"gone"}
  BY <1>1 DEF StageOk, Closing, Early, Making, Started
<1>3. CASE /\ Removable(kind, j) /\ exists' = exists \ {<<kind, j>>}
           /\ box' = [box EXCEPT ![j].at = next, ![j].made = @ \ {kind}]
  <2> DEFINE b == [box[j] EXCEPT !.at = next, !.made = box[j].made \ {kind}]
  <2>1. box' = [box EXCEPT ![j] = b]
    BY <1>3, <1>1 DEF BoxInv, Boxes
  <2>2. b \in Boxes /\ b.at = next /\ b.made = box[j].made \ {kind}
    BY <1>1 DEF Boxes
  <2> HIDE DEF b
  <2>3. /\ \A i : i # j => (HasContainer(i)' <=> HasContainer(i))
        /\ HasContainer(j)' => HasContainer(j) /\ kind # "workspace"
    <3>1. HasContainer(j)' => HasContainer(j) /\ kind # "container"
      BY <1>3 DEF HasContainer
    <3>2. kind = "container" \/ ~HasContainer(j)
      BY <1>3 DEF Removable, HasContainer
    <3> QED
      BY <1>3, <3>1, <3>2 DEF HasContainer
  <2>4. StageOk(j \in CachedJob, b, j \in lockHolder', HasContainer(j)')
    BY <1>1, <1>2, <2>2, <2>3 DEF StageOk, Early, Making, Started, Closing
  <2> QED
    BY <1>1, <2>1, <2>2, <2>3, <2>4, OneBoxStep
<1>4. CASE UNCHANGED exists /\ (\/ GoTo(j, next)
                                \/ box' = [box EXCEPT ![j].at = next, ![j].failed = TRUE])
  <2>1. ASSUME NEW b, b.at = next, b.made = box[j].made
        PROVE  StageOk(j \in CachedJob, b, j \in lockHolder, HasContainer(j))
    BY <1>2, <2>1 DEF StageOk, Early, Making, Started, Closing
  <2> QED
    BY <1>1, <1>4, <2>1, BoxGoes DEF HasContainer
<1> QED
  BY <1>3, <1>4 DEF RemoveBox

\* The lock goes when the job is over for the sandbox: closed, or killed.
LEMMA LockGoes ==
  ASSUME BoxInv, NEW j \in BoxJob, NEW at, GoTo(j, at),
         \/ at = "gone" /\ box[j].at \in Closing
         \/ at = "killed",
         lockHolder' = lockHolder \ {j}, UNCHANGED exists
  PROVE  BoxInv'
<1>1. /\ box[j] \in Boxes /\ at \in Stages
      /\ StageOk(j \in CachedJob, box[j], j \in lockHolder, HasContainer(j))
  BY BoxFacts DEF Stages
<1> DEFINE b == [box[j] EXCEPT !.at = at]
<1>2. box' = [box EXCEPT ![j] = b] /\ b \in Boxes /\ b.at = at /\ b.made = box[j].made
  BY <1>1, BoxWritten DEF GoTo
<1> HIDE DEF b
<1>3. \A i : HasContainer(i)' <=> HasContainer(i)
  BY DEF HasContainer
<1>4. StageOk(j \in CachedJob, b, j \in lockHolder', HasContainer(j)')
  BY <1>1, <1>2, <1>3 DEF StageOk, Early, Making, Started, Closing
<1> QED
  BY <1>2, <1>3, <1>4, OneBoxStep

\* The stages of Create that go on or give up and touch neither the container
\* nor what was made.
LEMMA SetupKeeps ==
  ASSUME BoxInv, NEW j \in BoxJob, CacheVolume(j) \/ PullImage(j) \/ Prepare(j)
  PROVE  BoxInv'
<1>1. PICK at : /\ UNCHANGED <<lockHolder, exists>> /\ (GoTo(j, at) \/ GiveUp(j))
                /\ \/ box[j].at = "cache" /\ at = "workspace"
                   \/ box[j].at = "image" /\ at = "network"
                   \/ box[j].at = "dockerd" /\ at = "ready"
  BY DEF CacheVolume, PullImage, Prepare, Docker
<1>2. box[j].at \in Making \cup Started /\ at \in Stages
  BY <1>1 DEF Making, Started, Stages
<1>3. ASSUME NEW b, b.at = at, b.made = box[j].made
      PROVE  StageOk(j \in CachedJob, b, j \in lockHolder, HasContainer(j))
  BY <1>1, <1>3, BoxFacts DEF StageOk, Early, Making, Started, Closing
<1>4. \A i : HasContainer(i)' <=> HasContainer(i)
  BY <1>1 DEF HasContainer
<1> QED
  BY <1>1, <1>2, <1>3, <1>4, BoxGoes, BoxGivenUp

\* Every step of a sandbox keeps the invariant.
LEMMA BoxStep == BoxInv /\ [BoxNext]_boxVars => BoxInv'
<1> SUFFICES ASSUME BoxInv, [BoxNext]_boxVars
             PROVE  BoxInv'
  OBVIOUS
<1>1. CASE UNCHANGED boxVars
  <2>1. UNCHANGED <<box, lockHolder>> /\ \A j : HasContainer(j)' <=> HasContainer(j)
    BY <1>1 DEF boxVars, HasContainer
  <2> QED
    BY <2>1 DEF BoxInv, StageOk
<1>2. ASSUME NEW j \in BoxJob,
             \/ CreateBox(j) \/ AcquireLock(j) \/ CacheVolume(j)
             \/ Make(j, "workspace", "image") \/ PullImage(j)
             \/ Make(j, "network", "container") \/ Make(j, "container", "dockerd")
             \/ Prepare(j) \/ JobOver(j) \/ Close(j) \/ KillRunner(j)
      PROVE  BoxInv'
  <2>0. box[j] \in Boxes /\ StageOk(j \in CachedJob, box[j], j \in lockHolder, HasContainer(j))
    BY BoxFacts
  <2>1. CASE CreateBox(j)
    <3>1. PICK at \in {"lock", "workspace"} : GoTo(j, at) /\ (j \in CachedJob => at = "lock")
      BY <2>1 DEF CreateBox
    <3>2. box[j].at = "none" /\ at \in Stages /\ UNCHANGED lockHolder
          /\ \A i : HasContainer(i)' <=> HasContainer(i)
      BY <2>1, <3>1 DEF CreateBox, Docker, HasContainer, Stages, Early, Making
    <3>3. ASSUME NEW b, b.at = at, b.made = box[j].made
          PROVE  StageOk(j \in CachedJob, b, j \in lockHolder, HasContainer(j))
      BY <2>0, <3>1, <3>2, <3>3 DEF StageOk, Early, Making, Started, Closing
    <3> QED
      BY <3>1, <3>2, <3>3, BoxGoes
  <2>2. CASE AcquireLock(j)
    <3>1. UNCHANGED exists /\ box[j].at = "lock" /\ \A i : HasContainer(i)' <=> HasContainer(i)
      BY <2>2 DEF AcquireLock, Docker, HasContainer
    <3>2. CASE lockHolder = {} /\ lockHolder' = {j} /\ GoTo(j, "cache")
      <4> DEFINE b == [box[j] EXCEPT !.at = "cache"]
      <4>1. box' = [box EXCEPT ![j] = b]
        BY <3>2 DEF GoTo
      <4>2. b \in Boxes /\ b.at = "cache"
        BY <2>0 DEF Boxes, Stages, Making
      <4> HIDE DEF b
      <4>3. StageOk(j \in CachedJob, b, j \in lockHolder', HasContainer(j)')
        BY <2>0, <3>1, <3>2, <4>2 DEF StageOk, Early, Making, Started, Closing
      <4> QED
        BY <3>1, <3>2, <4>1, <4>2, <4>3, OneBoxStep
    <3>3. CASE GiveUp(j) /\ UNCHANGED lockHolder
      BY <3>1, <3>3, BoxGivenUp DEF Early
    <3> QED
      BY <2>2, <3>2, <3>3 DEF AcquireLock
  <2>3. CASE \/ Make(j, "workspace", "image")
             \/ Make(j, "network", "container") \/ Make(j, "container", "dockerd")
    BY <2>3, MakeKeeps
  <2>4. CASE JobOver(j)
    <3>1. /\ UNCHANGED lockHolder /\ box[j].at = "ready" /\ GoTo(j, "closing")
          /\ \A i : HasContainer(i)' <=> HasContainer(i)
      BY <2>4 DEF JobOver, Docker, HasContainer
    <3>2. ASSUME NEW b, b.at = "closing", b.made = box[j].made
          PROVE  StageOk(j \in CachedJob, b, j \in lockHolder, HasContainer(j))
      BY <2>0, <3>1, <3>2 DEF StageOk, Early, Making, Started, Closing
    <3>3. "closing" \in Stages
      BY DEF Stages, Closing
    <3> QED
      BY <3>1, <3>2, <3>3, BoxGoes
  <2>5. CASE Close(j)
    <3>1. CASE box[j].at = "closing lock" /\ ReleaseLock(j, "gone")
      BY <3>1, LockGoes DEF ReleaseLock, Docker, Closing
    <3>2. \/ box[j].at = "closing lock" /\ ReleaseLock(j, "gone")
          \/ box[j].at \in Closing /\ RemoveBox(j, "container", "closing workspace")
          \/ box[j].at \in Closing /\ RemoveBox(j, "workspace", "closing network")
          \/ box[j].at \in Closing /\ RemoveBox(j, "network", "closing lock")
      BY <2>5 DEF Close, Closing
    <3>3. {"closing workspace", "closing network", "closing lock"} \subseteq Closing
      BY DEF Closing
    <3> QED
      BY <3>1, <3>2, <3>3, RemoveKeeps
  <2>6. CASE KillRunner(j)
    BY <2>6, LockGoes DEF KillRunner, Docker
  <2> QED
    BY <1>2, <2>1, <2>2, <2>3, <2>4, <2>5, <2>6, SetupKeeps
<1> QED
  BY <1>1, <1>2 DEF BoxNext

\* Two containers are on one cache volume only if one of them was left behind,
\* by a runner that was killed or a Close that logged a removal that failed,
\* whichever other commands failed or were cut off (sandbox.go, acquireLock and
\* Close).
THEOREM CacheVolumeNotShared == BoxInit /\ [][BoxNext]_boxVars => []CacheSharedOnlyWithLeft
  BY BoxStart, BoxStep, LockedBoxes, PTL

-----------------------------------------------------------------------------
(***************************************************************************)
(* The step executor, the verdict.  Once a step has failed and was not     *)
(* excused, at whatever depth, there is a first failure; it is never taken *)
(* back; and its class names a conclusion that is not success, unless the  *)
(* job is cancelled, which the verdict asks first.                         *)
(***************************************************************************)
Excused == {"success", "skipped"}

GreenInv ==
  /\ raw \in {"ok", "infra", "user", "config"}
  /\ firstFailure \in {"nil"} \cup FailureClasses
  /\ firstFailure = "" => jobCancelled
  /\ jobFailed => firstFailure # "nil"
  /\ stepResults \in Seq(Conclusions)
  /\ firstFailure = "nil" => \A i \in DOMAIN stepResults : stepResults[i] \in Excused
  /\ stage # "over" => verdict = ""
  /\ verdict = "success" => ~jobFailed /\ firstFailure = "nil"

\* What finish adds to the results.
LEMMA ResultAppended ==
  ASSUME NEW s \in Seq(Conclusions), NEW c \in Conclusions
  PROVE  /\ Append(s, c) \in Seq(Conclusions)
         /\ \A i \in DOMAIN Append(s, c) :
              Append(s, c)[i] = c \/ (i \in DOMAIN s /\ Append(s, c)[i] = s[i])
  OBVIOUS

\* A step ends: if it failed and was not excused there is a first failure now.
LEMMA StepEnds ==
  ASSUME GreenInv, stage # "over", NEW c \in Conclusions, NEW class \in FailureClasses,
         NEW fails \in BOOLEAN, EndStep(c, class, fails),
         fails /\ class = "" => jobCancelled, fails \/ c \in Excused
  PROVE  GreenInv'
<1>1. /\ jobFailed' = (jobFailed \/ (~Nested /\ fails))
      /\ firstFailure' = IF fails /\ firstFailure = "nil" THEN class ELSE firstFailure
      /\ stepResults' = IF Nested THEN stepResults ELSE Append(stepResults, c)
      /\ stage' = "decide"
      /\ raw' = raw /\ jobCancelled' = jobCancelled /\ verdict' = verdict
  BY DEF EndStep
<1>2. firstFailure' \in {"nil"} \cup FailureClasses /\ "nil" \notin FailureClasses
  BY <1>1 DEF GreenInv, FailureClasses
<1>3. firstFailure' = "" => jobCancelled'
  BY <1>1 DEF GreenInv
<1>4. jobFailed' => firstFailure' # "nil"
  BY <1>1, <1>2 DEF GreenInv
<1>5. stepResults \in Seq(Conclusions)
  BY DEF GreenInv
<1>6. /\ Append(stepResults, c) \in Seq(Conclusions)
      /\ \A i \in DOMAIN Append(stepResults, c) :
           \/ Append(stepResults, c)[i] = c
           \/ i \in DOMAIN stepResults /\ Append(stepResults, c)[i] = stepResults[i]
  BY <1>5, ResultAppended
<1>7. stepResults' \in Seq(Conclusions)
  BY <1>1, <1>5, <1>6, Zenon
<1>8. ASSUME firstFailure' = "nil", NEW i \in DOMAIN stepResults'
      PROVE  stepResults'[i] \in Excused
  <2>1. firstFailure = "nil" /\ ~fails /\ c \in Excused
    BY <1>1, <1>2, <1>8
  <2>2. \A k \in DOMAIN stepResults : stepResults[k] \in Excused
    BY <2>1 DEF GreenInv
  <2>3. stepResults' = stepResults \/ stepResults' = Append(stepResults, c)
    BY <1>1, Zenon
  <2> QED
    BY <1>6, <1>8, <2>1, <2>2, <2>3, Zenon
<1> QED
  BY <1>1, <1>2, <1>3, <1>4, <1>7, <1>8 DEF GreenInv

LEMMA StepFailed ==
  ASSUME GreenInv, stage # "over", NEW class \in FailureClasses, FailStep(class),
         class = "" => jobCancelled
  PROVE  GreenInv'
<1> DEFINE outcome == IF class = "" THEN "cancelled" ELSE ClassConclusion[class]
<1>1. outcome \in Conclusions /\ "success" \in Conclusions
  BY DEF ClassConclusion, FailureClasses, Conclusions
<1> HIDE DEF outcome
<1>2. CASE StepNow.coe
  <2>1. EndStep("success", class, FALSE)
    BY <1>2 DEF FailStep, EndStep
  <2> QED
    BY <1>1, <2>1, StepEnds DEF Excused
<1>3. CASE ~StepNow.coe
  <2>1. EndStep(outcome, class, TRUE)
    BY <1>3 DEF FailStep, EndStep, outcome
  <2> QED
    BY <1>1, <2>1, StepEnds
<1> QED
  BY <1>2, <1>3

LEMMA GreenStep == GreenInv /\ [StepRunnerNext]_stepVars => GreenInv'
<1> SUFFICES ASSUME GreenInv, [StepRunnerNext]_stepVars PROVE GreenInv'
  OBVIOUS
<1> DEFINE Quiet == UNCHANGED <<jobFailed, firstFailure, jobCancelled, stepResults, verdict>>
<1>a. raw # "ok" => Classified(raw) \in FailureClasses /\ (Classified(raw) = "" => jobCancelled)
  BY DEF GreenInv, Classified, FailureClasses
<1>b. ASSUME Quiet, stage # "over", raw' \in {"ok", "infra", "user", "config"} PROVE GreenInv'
  BY <1>b DEF GreenInv
<1>c. raw \in {"ok", "infra", "user", "config"}
  BY DEF GreenInv
<1>1. CASE SkipStep
  <2>1. "skipped" \in Conclusions /\ "" \in FailureClasses
    BY DEF Conclusions, FailureClasses
  <2> QED
    BY <1>1, <2>1, StepEnds DEF SkipStep, Deciding, Excused
<1>2. CASE ConditionFails
  BY <1>2, StepFailed DEF ConditionFails, Deciding, FailureClasses
<1>3. CASE BeginStep
  BY <1>3, <1>b, <1>c DEF BeginStep, Deciding
<1>4. CASE SetupFails
  BY <1>4, <1>b DEF SetupFails, AttemptEnds
<1>5. CASE RunScript
  BY <1>5, <1>b DEF RunScript, Attempting, AttemptEnds
<1>6. CASE ActionFails
  BY <1>6, <1>b DEF ActionFails, Attempting, AttemptEnds
<1>7. CASE RunJavaScript
  BY <1>7, <1>b DEF RunJavaScript, Attempting, AttemptEnds
<1>8. CASE EnterComposite
  BY <1>8, <1>b, <1>c DEF EnterComposite, Attempting
<1>9. CASE LeaveComposite
  BY <1>9, <1>b DEF LeaveComposite
<1>10. CASE StepSucceeds
  <2>1. "success" \in Conclusions /\ "" \in FailureClasses
    BY DEF Conclusions, FailureClasses
  <2> QED
    BY <1>10, <2>1, StepEnds DEF StepSucceeds, Excused
<1>11. CASE StepFails
  BY <1>11, <1>a, StepFailed DEF StepFails
<1>12. CASE StepWaits
  BY <1>12, <1>b, <1>c DEF StepWaits
<1>13. CASE RetryStep
  BY <1>13, <1>b, <1>c DEF RetryStep
<1>14. CASE RetryAbandoned
  BY <1>14, StepFailed DEF RetryAbandoned, FailureClasses
<1>15. CASE StepsDone
  BY <1>15, <1>b, <1>c DEF StepsDone
<1>16. CASE RunPost
  BY <1>16, <1>b, <1>c DEF RunPost, PostTurn
<1>17. CASE ReturnResult
  <2>1. verdict' = "success" => ~jobCancelled /\ (firstFailure = "nil" \/ ClassConclusion[firstFailure] = "success")
    BY <1>17 DEF ReturnResult
  <2>2. verdict' = "success" => firstFailure = "nil"
    BY <2>1 DEF GreenInv, FailureClasses, ClassConclusion
  <2> QED
    BY <1>17, <2>2 DEF ReturnResult, GreenInv
<1>18. CASE JobCancelled
  BY <1>18 DEF JobCancelled, GreenInv
<1>19. CASE UNCHANGED stepVars
  BY <1>19 DEF stepVars, GreenInv
<1> QED
  BY <1>1, <1>2, <1>3, <1>4, <1>5, <1>6, <1>7, <1>8, <1>9, <1>10, <1>11, <1>12, <1>13,
     <1>14, <1>15, <1>16, <1>17, <1>18, <1>19 DEF StepRunnerNext

LEMMA GreenStart == StepRunnerInit => GreenInv
<1> SUFFICES ASSUME StepRunnerInit PROVE GreenInv
  OBVIOUS
<1>1. stepResults = <<>>
  BY DEF StepRunnerInit
<1>2. stepResults \in Seq(Conclusions) /\ DOMAIN stepResults = {}
  BY <1>1
<1> QED
  BY <1>2 DEF StepRunnerInit, GreenInv, FailureClasses

\* A job reported successful had no step, at whatever depth, that failed and was
\* not excused.
THEOREM GreenJobsEarned == StepRunnerInit /\ [][StepRunnerNext]_stepVars => []GreenIsEarned
<1>1. GreenInv => GreenIsEarned
  BY DEF GreenInv, GreenIsEarned, Excused
<1> QED
  BY <1>1, GreenStart, GreenStep, PTL

-----------------------------------------------------------------------------
(***************************************************************************)
(* The step executor, the posts.  Until the steps are done posts is        *)
(* everything that was deferred; then it is a prefix of that whose turn    *)
(* has not come, and postsRun is the rest from the end, or what of it had  *)
(* its turn before the job was cancelled.                                  *)
(***************************************************************************)
PostsTyped(V) == registered \in Seq(V) /\ posts \in Seq(V) /\ postsRun \in Seq(V)

PostsInv ==
  /\ \E V : PostsTyped(V)
  /\ Len(postsRun) + Len(posts) <= Len(registered)
  /\ ~jobCancelled => Len(postsRun) + Len(posts) = Len(registered)
  /\ \A i \in 1..Len(posts) : posts[i] = registered[i]
  /\ \A i \in 1..Len(postsRun) : postsRun[i] = registered[Len(registered) + 1 - i]
  /\ stage \notin {"posts", "over"} => Len(postsRun) = 0 /\ Len(posts) = Len(registered)
  /\ stage = "over" => Len(posts) = 0
  /\ verdict # "" => stage = "over"
  /\ verdict \notin {"", "cancelled"} => ~jobCancelled

LEMMA SeqWidens ==
  ASSUME NEW V, NEW s \in Seq(V), NEW p
  PROVE  s \in Seq(V \cup {p})
<1>1. s = [i \in 1..Len(s) |-> s[i]] /\ \A i \in 1..Len(s) : s[i] \in V
  OBVIOUS
<1> QED
  BY <1>1

\* A post entrypoint is deferred: it will be the first to run.
LEMMA PostDeferred ==
  ASSUME PostsInv, RunJavaScript
  PROVE  PostsInv'
<1>1. PICK V : PostsTyped(V)
  BY DEF PostsInv
<1>2. PICK p : p = Scope.at
  OBVIOUS
<1> DEFINE W == V \cup {p}
<1>3. registered \in Seq(W) /\ posts \in Seq(W) /\ postsRun \in Seq(W) /\ p \in W
  BY <1>1, SeqWidens DEF PostsTyped
<1>4. /\ posts' = Append(posts, p) /\ registered' = Append(registered, p)
      /\ postsRun' = postsRun
  BY <1>2 DEF RunJavaScript, Attempting, AttemptEnds
<1>5. stage = "attempt" /\ stage' = "settle" /\ verdict' = verdict
  BY DEF RunJavaScript, Attempting, AttemptEnds
<1>6. Len(postsRun) = 0 /\ Len(posts) = Len(registered)
  BY <1>5 DEF PostsInv
<1>7. Len(posts) = Len(registered)
  BY <1>6
<1>8. \A i \in 1..Len(posts) : posts[i] = registered[i]
  BY DEF PostsInv
<1> HIDE DEF W
<1>9. registered' \in Seq(W) /\ posts' \in Seq(W) /\ postsRun' \in Seq(W)
  BY <1>3, <1>4
<1>10. Len(posts') = Len(registered') /\ Len(posts') \in Nat
  BY <1>3, <1>4, <1>7
<1>11. \A i \in 1..Len(posts') : posts'[i] = registered'[i]
  BY <1>3, <1>4, <1>7, <1>8
<1>12. Len(postsRun') + Len(posts') = Len(registered') /\ Len(registered') \in Nat
  BY <1>4, <1>6, <1>10
<1>13. PostsTyped(W)'
  BY <1>9 DEF PostsTyped
<1>14. \A i \in 1..Len(postsRun') : FALSE
  BY <1>4, <1>6
<1>15. verdict' = "" /\ Len(postsRun') = 0 /\ Len(posts') = Len(registered')
  BY <1>4, <1>5, <1>6, <1>10 DEF PostsInv
<1>16. Len(postsRun') + Len(posts') <= Len(registered')
  BY <1>12
<1> QED
  BY <1>5, <1>11, <1>12, <1>13, <1>14, <1>15, <1>16, Zenon DEF PostsInv

\* What is left of a sequence without its last, and that.
LEMMA FrontAndLast ==
  ASSUME NEW V, NEW s \in Seq(V), s # <<>>
  PROVE  /\ Len(s) \in Nat \ {0} /\ Last(s) = s[Len(s)] /\ Last(s) \in V
         /\ Front(s) \in Seq(V) /\ Len(Front(s)) = Len(s) - 1
         /\ \A i \in 1..(Len(s) - 1) : Front(s)[i] = s[i]
<1>1. Len(s) \in Nat \ {0}
  OBVIOUS
<1>2. Last(s) = s[Len(s)] /\ s[Len(s)] \in V
  BY <1>1 DEF Last
<1> DEFINE n == Len(s) - 1
<1>3. /\ SubSeq(s, 1, n) \in Seq(V) /\ Len(SubSeq(s, 1, n)) = n
      /\ \A i \in 1..n : SubSeq(s, 1, n)[i] = s[i]
  <2>1. n \in Nat /\ n \in Int /\ 1 \in Int /\ n - 1 + 1 = n
    BY <1>1
  <2>2. \A i \in 1..n : s[i] \in V
    BY <1>1
  <2>3. /\ SubSeq(s, 1, n) \in Seq(V)
        /\ Len(SubSeq(s, 1, n)) = IF 1 <= n THEN n - 1 + 1 ELSE 0
        /\ \A i \in 1..(n - 1 + 1) : SubSeq(s, 1, n)[i] = s[1 + i - 1]
    <3> HIDE DEF n
    <3> QED
      BY <2>1, <2>2, SubSeqProperties
  <2>4. \A i \in 1..n : 1 + i - 1 = i
    BY <2>1
  <2>5. (IF 1 <= n THEN n - 1 + 1 ELSE 0) = n
    BY <2>1
  <2> HIDE DEF n
  <2> QED
    BY <2>1, <2>3, <2>4, <2>5
<1> QED
  BY <1>1, <1>2, <1>3, Zenon DEF Front

\* The last of the posts has its turn: it is tried, or in a cancelled job dropped.
LEMMA PostRuns ==
  ASSUME PostsInv, RunPost
  PROVE  PostsInv'
<1>1. PICK V : PostsTyped(V)
  BY DEF PostsInv
<1>2. registered \in Seq(V) /\ posts \in Seq(V) /\ postsRun \in Seq(V)
  BY <1>1 DEF PostsTyped
<1>3. /\ posts # <<>> /\ posts' = Front(posts) /\ registered' = registered
      /\ postsRun' = IF jobCancelled THEN postsRun ELSE Append(postsRun, Last(posts))
      /\ jobCancelled' = jobCancelled
  BY DEF RunPost, PostTurn
<1>4. stage = "posts" /\ stage' = "posts" /\ verdict' = verdict
  BY DEF RunPost, PostTurn
<1> DEFINE n == Len(posts)
           m == Len(postsRun)
           r == Len(registered)
           last == Last(posts)
<1>5. /\ n \in Nat \ {0} /\ last = posts[n] /\ last \in V
      /\ posts' \in Seq(V) /\ Len(posts') = n - 1
      /\ \A i \in 1..(n - 1) : posts'[i] = posts[i]
  BY <1>2, <1>3, FrontAndLast
<1>6. m \in Nat /\ r \in Nat /\ m + n <= r /\ (~jobCancelled => m + n = r)
  <2>1. m \in Nat /\ r \in Nat
    BY <1>2
  <2> QED
    BY <2>1 DEF PostsInv
<1>7. /\ \A i \in 1..n : posts[i] = registered[i]
      /\ \A i \in 1..m : postsRun[i] = registered[r + 1 - i]
  BY DEF PostsInv
<1> HIDE DEF last
<1>8. CASE jobCancelled
  <2>1. postsRun' = postsRun /\ Len(postsRun') = m
    BY <1>3, <1>8
  <2>2. Len(postsRun') + Len(posts') <= Len(registered')
    <3> HIDE DEF n, m
    <3> QED
      BY <1>3, <1>5, <1>6, <2>1
  <2>3. PostsTyped(V)'
    BY <1>2, <1>3, <1>5, <2>1 DEF PostsTyped
  <2>4. \A i \in 1..Len(posts') : posts'[i] = registered'[i]
    BY <1>3, <1>5, <1>7
  <2>5. \A i \in 1..Len(postsRun') : postsRun'[i] = registered'[Len(registered') + 1 - i]
    BY <1>3, <1>7, <2>1
  <2>6. verdict' = ""
    BY <1>4 DEF PostsInv
  <2> QED
    BY <1>3, <1>4, <1>8, <2>2, <2>3, <2>4, <2>5, <2>6, Zenon DEF PostsInv
<1>9. CASE ~jobCancelled
  <2>1. postsRun' = Append(postsRun, last) /\ last \in V /\ postsRun \in Seq(V)
    BY <1>2, <1>3, <1>5, <1>9 DEF last
  <2>2. /\ postsRun' \in Seq(V) /\ Len(postsRun') = m + 1
        /\ \A i \in 1..m : postsRun'[i] = postsRun[i]
        /\ postsRun'[m + 1] = last
    BY <2>1
  <2>3. Len(registered') = r
    BY <1>3
  <2> HIDE DEF n, m, r
  <2>4. last = registered[n] /\ n = r + 1 - (m + 1)
    BY <1>5, <1>6, <1>7, <1>9
  <2>5. ASSUME NEW i \in 1..(m + 1) PROVE postsRun'[i] = registered[r + 1 - i]
    <3>1. i = m + 1 \/ i \in 1..m
      BY <1>6
    <3> QED
      BY <1>7, <2>2, <2>4, <3>1
  <2>6. \A i \in 1..Len(postsRun') : postsRun'[i] = registered'[Len(registered') + 1 - i]
    BY <1>3, <2>2, <2>3, <2>5
  <2>7. \A i \in 1..Len(posts') : posts'[i] = registered'[i]
    BY <1>3, <1>5, <1>7
  <2>8. (m + 1) + (n - 1) = r /\ r <= r
    BY <1>5, <1>6, <1>9
  <2>9. Len(postsRun') + Len(posts') = Len(registered') /\ Len(registered') <= Len(registered')
    BY <1>5, <2>2, <2>3, <2>8
  <2>10. PostsTyped(V)'
    BY <1>2, <1>3, <1>5, <2>2 DEF PostsTyped
  <2> QED
    BY <1>3, <1>4, <1>9, <2>6, <2>7, <2>9, <2>10 DEF PostsInv
<1> QED
  BY <1>8, <1>9

LEMMA EmptyLength == Len(<<>>) = 0
  OBVIOUS

\* A step that leaves the posts alone.
LEMMA PostsRest ==
  ASSUME PostsInv, UNCHANGED <<posts, registered, postsRun>>,
         jobCancelled => jobCancelled',
         stage' = "over" => Len(posts) = 0,
         stage' \notin {"posts", "over"} => Len(postsRun) = 0 /\ Len(posts) = Len(registered),
         verdict' # "" => stage' = "over",
         verdict' \notin {"", "cancelled"} => ~jobCancelled'
  PROVE  PostsInv'
<1>1. \E V : PostsTyped(V)'
  <2>1. PICK V : PostsTyped(V)
    BY DEF PostsInv
  <2>2. PostsTyped(V)'
    BY <2>1 DEF PostsTyped
  <2> QED
    BY <2>2
<1> QED
  BY <1>1 DEF PostsInv

LEMMA PostsStep == PostsInv /\ [StepRunnerNext]_stepVars => PostsInv'
<1> SUFFICES ASSUME PostsInv, [StepRunnerNext]_stepVars PROVE PostsInv'
  OBVIOUS
<1> DEFINE Quiet == UNCHANGED <<posts, registered, postsRun, verdict, jobCancelled>>
           Quiet2 == UNCHANGED <<posts, registered, postsRun>>
<1>a. ASSUME Quiet, stage \notin {"posts", "over"}, stage' \notin {"over"} PROVE PostsInv'
  <2>1. verdict = "" /\ verdict' = verdict
    BY <1>a DEF PostsInv
  <2> QED
    BY <1>a, <2>1, PostsRest DEF PostsInv
<1>b. ASSUME NEW c, NEW class, NEW fails, stage \notin {"posts", "over"}, EndStep(c, class, fails)
      PROVE  PostsInv'
  BY <1>a, <1>b DEF EndStep
<1>1. CASE SkipStep
  BY <1>1, <1>b DEF SkipStep, Deciding
<1>2. CASE ConditionFails
  BY <1>2, <1>b DEF ConditionFails, Deciding, FailStep
<1>3. CASE BeginStep
  BY <1>3, <1>a DEF BeginStep, Deciding
<1>4. CASE SetupFails
  BY <1>4, <1>a DEF SetupFails, AttemptEnds
<1>5. CASE RunScript
  BY <1>5, <1>a DEF RunScript, Attempting, AttemptEnds
<1>6. CASE ActionFails
  BY <1>6, <1>a DEF ActionFails, Attempting, AttemptEnds
<1>7. CASE RunJavaScript
  BY <1>7, PostDeferred DEF RunJavaScript, Attempting, AttemptEnds
<1>8. CASE EnterComposite
  BY <1>8, <1>a DEF EnterComposite, Attempting
<1>9. CASE LeaveComposite
  BY <1>9, <1>a DEF LeaveComposite
<1>10. CASE StepSucceeds
  BY <1>10, <1>b DEF StepSucceeds
<1>11. CASE StepFails
  BY <1>11, <1>b DEF StepFails, FailStep
<1>12. CASE StepWaits
  BY <1>12, <1>a DEF StepWaits
<1>13. CASE RetryStep
  BY <1>13, <1>a DEF RetryStep
<1>14. CASE RetryAbandoned
  BY <1>14, <1>b DEF RetryAbandoned, FailStep
<1>15. CASE StepsDone
  BY <1>15, <1>a DEF StepsDone
<1>16. CASE RunPost
  BY <1>16, PostRuns
<1>17. CASE ReturnResult
  <2>1. Quiet2 /\ stage = "posts" /\ stage' = "over" /\ jobCancelled' = jobCancelled
    BY <1>17 DEF ReturnResult
  <2>2. Len(posts) = 0
    BY <1>17, EmptyLength DEF ReturnResult
  <2>3. verdict' \notin {"", "cancelled"} => ~jobCancelled'
    <3>1. CASE jobCancelled
      BY <1>17, <3>1 DEF ReturnResult
    <3>2. CASE ~jobCancelled
      BY <2>1, <3>2
    <3> QED
      BY <3>1, <3>2
  <2> QED
    BY <2>1, <2>2, <2>3, PostsRest
<1>18. CASE JobCancelled
  <2>1. Quiet2 /\ stage # "over" /\ UNCHANGED <<stage, verdict>> /\ jobCancelled'
    BY <1>18 DEF JobCancelled
  <2>2. verdict' = ""
    BY <2>1 DEF PostsInv
  <2> QED
    BY <2>1, <2>2, PostsRest DEF PostsInv
<1>19. CASE UNCHANGED stepVars
  BY <1>19, PostsRest DEF stepVars, PostsInv
<1> QED
  BY <1>1, <1>2, <1>3, <1>4, <1>5, <1>6, <1>7, <1>8, <1>9, <1>10, <1>11, <1>12, <1>13,
     <1>14, <1>15, <1>16, <1>17, <1>18, <1>19 DEF StepRunnerNext

LEMMA PostsStart == StepRunnerInit => PostsInv
<1> SUFFICES ASSUME StepRunnerInit PROVE PostsInv
  OBVIOUS
<1>1. registered = <<>> /\ posts = <<>> /\ postsRun = <<>> /\ stage = "decide" /\ verdict = ""
  BY DEF StepRunnerInit
<1>2. <<>> \in Seq({})
  OBVIOUS
<1>3. PostsTyped({})
  BY <1>1, <1>2, Zenon DEF PostsTyped
<1>4. Len(registered) = 0 /\ Len(posts) = 0 /\ Len(postsRun) = 0
  BY <1>1, EmptyLength
<1>5. stage = "decide" /\ verdict = ""
  BY <1>1
<1>6. \A i \in 1..0 : FALSE
  OBVIOUS
<1>7. \E V : PostsTyped(V)
  BY <1>3, Zenon
<1>8. Len(postsRun) + Len(posts) = Len(registered) /\ Len(postsRun) + Len(posts) <= Len(registered)
  <2>1. 0 + 0 = 0 /\ 0 + 0 <= 0
    OBVIOUS
  <2> QED
    BY <1>4, <2>1
<1> QED
  BY <1>4, <1>5, <1>6, <1>7, <1>8, Zenon DEF PostsInv

\* Whatever steps and posts fail, the posts are tried last first, each once and
\* none left out in between; in a job that was not cancelled, all of them.
THEOREM DeferredPostsRun == StepRunnerInit /\ [][StepRunnerNext]_stepVars => []PostsCleanUp
<1>1. ASSUME PostsInv PROVE PostsCleanUp
  <2>1. PICK V : registered \in Seq(V) /\ postsRun \in Seq(V) /\ posts \in Seq(V)
    BY <1>1 DEF PostsInv, PostsTyped
  <2> DEFINE n == Len(registered)
             m == Len(postsRun)
             back == Reverse(registered)
  <2>2. back \in Seq(V) /\ Len(back) = n /\ n \in Nat /\ \A i \in 1..n : back[i] = registered[n + 1 - i]
    <3>1. n \in Nat /\ back = [i \in 1..n |-> registered[n - i + 1]]
      BY <2>1 DEF Reverse
    <3>2. \A i \in 1..n : n - i + 1 = n + 1 - i /\ n - i + 1 \in 1..n
      BY <3>1
    <3>3. \A i \in 1..n : registered[n - i + 1] \in V
      BY <2>1, <3>2
    <3> QED
      BY <3>1, <3>2, <3>3
  <2>3. m \in Nat /\ m <= n
    <3>1. m + Len(posts) <= n
      BY <1>1 DEF PostsInv
    <3>2. m \in Nat /\ Len(posts) \in Nat /\ n \in Nat
      BY <2>1
    <3> QED
      BY <3>1, <3>2
  <2>4. \A i \in 1..m : postsRun[i] = back[i]
    <3>1. \A i \in 1..m : postsRun[i] = registered[n + 1 - i]
      BY <1>1 DEF PostsInv
    <3> HIDE DEF back
    <3> QED
      BY <2>2, <2>3, <3>1
  <2> HIDE DEF back
  <2>5. SubSeq(postsRun, 1, m) = SubSeq(back, 1, m)
    BY <2>1, <2>2, <2>3, <2>4
  <2>6. IsPrefix(postsRun, back)
    BY <2>2, <2>3, <2>5 DEF IsPrefix
  <2>7. ASSUME verdict \notin {"", "cancelled"} PROVE postsRun = back
    <3>1. Len(postsRun) + Len(posts) = Len(registered) /\ Len(posts) = 0
      BY <1>1, <2>7 DEF PostsInv
    <3>2. m = n
      BY <2>1, <2>2, <2>3, <3>1
    <3> QED
      BY <2>1, <2>2, <2>4, <3>2
  <2> QED
    BY <2>6, <2>7 DEF PostsCleanUp, back
<1> QED
  BY <1>1, PostsStart, PostsStep, PTL

-----------------------------------------------------------------------------
(***************************************************************************)
(* The supervisor and its slots.  A command list removes a container right *)
(* after it has waited for its drain, and a pass that stops is never taken *)
(* up again where it stopped, only begun anew: so the container a removal  *)
(* reaches is down, and one that is down has no job.                       *)
(***************************************************************************)
Container == [state : {"absent", "created", "running", "exited"}, image : Nat,
              key : BOOLEAN, busy : BOOLEAN, stopping : BOOLEAN]
Ops == {"ensure", "extra", "drain", "drained", "rm", "create", "cp", "start"}
Command == [op : Ops, slot : 1 .. Slots]

\* A removal comes right after the wait for the drain of its slot.
Drains(t, i) == i # 1 /\ t[i - 1] = Cmd("drained", t[i].slot)
Gentle == {t \in Seq(Command) : \A i \in DOMAIN t : t[i].op = "rm" => Drains(t, i)}

PoolTyped ==
  /\ container \in [1 .. Slots -> Container]
  /\ todo \in Seq(Command) /\ runners \in PoolSize
  /\ pulled \in Nat /\ released \in Nat

\* Only a runner that is up has a job, and a removal that is next is of a
\* container that is not.
PoolInv ==
  /\ PoolTyped
  /\ \A s \in 1 .. Slots : container[s].busy => Up(s)
  /\ \A i \in DOMAIN todo :
       todo[i].op = "rm" => Drains(todo, i) \/ (i = 1 /\ ~Up(todo[i].slot))

LEMMA CmdTyped ==
  ASSUME NEW op \in Ops, NEW s \in 1 .. Slots
  PROVE  Cmd(op, s) \in Command /\ Cmd(op, s).op = op /\ Cmd(op, s).slot = s
  BY DEF Cmd, Command

\* Two gentle passes, one after the other.
LEMMA GentleConcat ==
  ASSUME NEW a \in Gentle, NEW b \in Gentle
  PROVE  a \o b \in Gentle
<1>1. a \in Seq(Command) /\ b \in Seq(Command)
  BY DEF Gentle
<1> DEFINE t == a \o b
           m == Len(a)
<1>2. /\ t \in Seq(Command) /\ m \in Nat /\ Len(b) \in Nat
      /\ DOMAIN t = 1..(m + Len(b)) /\ DOMAIN a = 1..m /\ DOMAIN b = 1..Len(b)
      /\ \A i \in 1..m : t[i] = a[i]
      /\ \A i \in 1..Len(b) : t[m + i] = b[i]
  BY <1>1
<1> HIDE DEF t, m
<1>3. ASSUME NEW i \in DOMAIN t, t[i].op = "rm" PROVE Drains(t, i)
  <2>1. CASE i \in 1..m
    <3>1. Drains(a, i)
      BY <1>2, <1>3, <2>1 DEF Gentle
    <3>2. i - 1 \in 1..m /\ i # 1
      BY <3>1, <2>1, <1>2 DEF Drains
    <3> QED
      BY <3>1, <3>2, <2>1, <1>2 DEF Drains
  <2>2. CASE i \notin 1..m
    <3>1. PICK j \in 1..Len(b) : i = m + j
      <4>1. i - m \in 1..Len(b) /\ i = m + (i - m)
        BY <1>2, <2>2
      <4> QED
        BY <4>1
    <3>2. t[i] = b[j] /\ Drains(b, j)
      BY <1>2, <1>3, <3>1 DEF Gentle
    <3>3. j - 1 \in 1..Len(b) /\ j # 1
      BY <3>1, <3>2, <1>2 DEF Drains
    <3>4. t[m + (j - 1)] = b[j - 1] /\ m + (j - 1) = i - 1 /\ i # 1
      BY <1>2, <3>1, <3>3
    <3> QED
      BY <3>2, <3>4 DEF Drains
  <2> QED
    BY <2>1, <2>2
<1> QED
  BY <1>2, <1>3 DEF Gentle, t

\* The commands for one slot.
LEMMA SlotCommands ==
  ASSUME NEW s \in 1 .. Slots
  PROVE  /\ <<>> \in Gentle /\ CreateSlot(s) \in Gentle /\ RemoveSlot(s) \in Gentle
         /\ ReplaceSlot(s) \in Gentle
         /\ <<Cmd("ensure", s)>> \in Gentle /\ <<Cmd("extra", s)>> \in Gentle
<1>1. \A op \in Ops : Cmd(op, s) \in Command /\ Cmd(op, s).op = op /\ Cmd(op, s).slot = s
  BY CmdTyped
<1>2. {"ensure", "extra", "drain", "drained", "rm", "create", "cp", "start"} = Ops
  BY DEF Ops
<1>3. <<>> \in Gentle
  BY DEF Gentle
<1>4. ASSUME NEW op \in {"ensure", "extra"} PROVE <<Cmd(op, s)>> \in Gentle
  <2> DEFINE c == Cmd(op, s)
  <2>1. c \in Command /\ c.op # "rm"
    BY <1>1, <1>2
  <2> HIDE DEF c
  <2>2. <<c>> \in Gentle
    BY <2>1 DEF Gentle
  <2> QED
    BY <2>2 DEF c
<1>5. CreateSlot(s) \in Gentle
  <2> DEFINE c == Cmd("create", s)
             d == Cmd("cp", s)
             e == Cmd("start", s)
  <2>1. c \in Command /\ c.op # "rm" /\ d \in Command /\ d.op # "rm" /\ e \in Command /\ e.op # "rm"
    BY <1>1, <1>2
  <2>2. CreateSlot(s) = <<c, d, e>>
    BY DEF CreateSlot
  <2> HIDE DEF c, d, e
  <2>3. <<c, d, e>> \in Gentle
    BY <2>1 DEF Gentle
  <2> QED
    BY <2>2, <2>3
<1>6. RemoveSlot(s) \in Gentle
  <2> DEFINE c == Cmd("drain", s)
             d == Cmd("drained", s)
             e == Cmd("rm", s)
  <2>1. c \in Command /\ c.op # "rm" /\ d \in Command /\ d.op # "rm" /\ e \in Command /\ e.slot = s
        /\ d = Cmd("drained", s)
    BY <1>1, <1>2
  <2>2. RemoveSlot(s) = <<c, d, e>>
    BY DEF RemoveSlot
  <2> HIDE DEF c, d, e
  <2>3. <<c, d, e>> \in Gentle
    BY <2>1 DEF Gentle, Drains
  <2> QED
    BY <2>2, <2>3
<1>7. ReplaceSlot(s) \in Gentle
  <2>1. ReplaceSlot(s) = RemoveSlot(s) \o CreateSlot(s)
    BY DEF ReplaceSlot, RemoveSlot
  <2> QED
    BY <2>1, <1>5, <1>6, GentleConcat
<1> QED
  BY <1>3, <1>4, <1>5, <1>6, <1>7

\* A loop over slots whose rounds are gentle is a gentle pass.
LEMMA GentleLoop ==
  ASSUME NEW n \in Nat, NEW ss, ss = [i \in 1..n |-> ss[i]], \A i \in 1..n : ss[i] \in Gentle
  PROVE  FlattenSeq(ss) \in Gentle
<1>1. ss \in Seq(Gentle)
  OBVIOUS
<1>2. Gentle \in SUBSET Seq(Command) /\ <<>> \in Gentle
  BY DEF Gentle
<1>3. \A a, b \in Gentle : a \o b \in Gentle
  BY GentleConcat
<1> QED
  BY <1>1, <1>2, <1>3, FlattenSeqClosed

\* The pass of a supervisor that looks at every slot, and the one that replaces
\* every slot.
LEMMA PassGentle ==
  ASSUME RunnerHostAssumption, runners \in PoolSize
  PROVE  /\ ForEach(1, runners, LAMBDA s : <<Cmd("ensure", s)>>) \in Gentle
         /\ ForEach(runners + 1, Slots, LAMBDA s : <<Cmd("extra", s)>>) \in Gentle
         /\ ForEach(1, runners, ReplaceSlot) \in Gentle
<1>1. runners \in Nat /\ runners <= Slots /\ Slots \in Nat
  BY DEF RunnerHostAssumption
<1> DEFINE n == runners - 1 + 1
           m == Slots - (runners + 1) + 1
<1>2. n \in Nat /\ m \in Nat
  BY <1>1
<1>3. \A i \in 1..n : 1 + i - 1 \in 1 .. Slots
  BY <1>1
<1>4. \A i \in 1..m : runners + 1 + i - 1 \in 1 .. Slots
  BY <1>1
<1>5. FlattenSeq([i \in 1..n |-> <<Cmd("ensure", 1 + i - 1)>>]) \in Gentle
  <2> DEFINE ss == [i \in 1..n |-> <<Cmd("ensure", 1 + i - 1)>>]
  <2>1. \A i \in 1..n : ss[i] \in Gentle
    BY <1>3, SlotCommands
  <2>2. ss = [i \in 1..n |-> ss[i]]
    OBVIOUS
  <2> HIDE DEF ss, n
  <2>3. FlattenSeq(ss) \in Gentle
    BY <1>2, <2>1, <2>2, GentleLoop
  <2> QED
    BY <2>3 DEF ss
<1>6. FlattenSeq([i \in 1..m |-> <<Cmd("extra", runners + 1 + i - 1)>>]) \in Gentle
  <2> DEFINE ss == [i \in 1..m |-> <<Cmd("extra", runners + 1 + i - 1)>>]
  <2>1. \A i \in 1..m : ss[i] \in Gentle
    BY <1>4, SlotCommands
  <2>2. ss = [i \in 1..m |-> ss[i]]
    OBVIOUS
  <2> HIDE DEF ss, m
  <2>3. FlattenSeq(ss) \in Gentle
    BY <1>2, <2>1, <2>2, GentleLoop
  <2> QED
    BY <2>3 DEF ss
<1>7. FlattenSeq([i \in 1..n |-> ReplaceSlot(1 + i - 1)]) \in Gentle
  <2> DEFINE ss == [i \in 1..n |-> ReplaceSlot(1 + i - 1)]
  <2>1. \A i \in 1..n : ss[i] \in Gentle
    BY <1>3, SlotCommands
  <2>2. ss = [i \in 1..n |-> ss[i]]
    OBVIOUS
  <2> HIDE DEF ss, n
  <2>3. FlattenSeq(ss) \in Gentle
    BY <1>2, <2>1, <2>2, GentleLoop
  <2> QED
    BY <2>3 DEF ss
<1> QED
  BY <1>5, <1>6, <1>7 DEF ForEach

\* A gentle pass leaves nothing to be said of the containers.
LEMMA StartPass ==
  ASSUME PoolInv, todo' \in Gentle, UNCHANGED <<container, pulled>>, runners' \in PoolSize,
         released' \in Nat
  PROVE  PoolInv'
  BY DEF PoolInv, PoolTyped, Gentle, Up

LEMMA UpdateKeeps ==
  ASSUME RunnerHostAssumption, PoolInv, Reconcile \/ Update
  PROVE  PoolInv'
<1>1. runners \in PoolSize /\ released \in Nat /\ pulled \in Nat
  BY DEF PoolInv, PoolTyped
<1>2. <<>> \in Gentle
  BY DEF Gentle
<1>3. CASE Reconcile
  <2> DEFINE a == ForEach(1, runners, LAMBDA s : <<Cmd("ensure", s)>>)
             b == ForEach(runners + 1, Slots, LAMBDA s : <<Cmd("extra", s)>>)
  <2>1. todo' = a \o b /\ UNCHANGED <<container, pulled, runners, released>>
    BY <1>3 DEF Reconcile
  <2>2. a \in Gentle /\ b \in Gentle
    BY <1>1, PassGentle
  <2> HIDE DEF a, b
  <2>3. todo' \in Gentle
    BY <2>1, <2>2, GentleConcat
  <2> QED
    BY <1>1, <2>1, <2>3, StartPass
<1>4. CASE Update
  <2>1. todo' = (IF released = imageID THEN <<>> ELSE ForEach(1, runners, ReplaceSlot))
        /\ UNCHANGED <<container, runners, released>> /\ pulled' = released
    BY <1>4 DEF Update
  <2>2. todo' \in Gentle
    BY <1>1, <1>2, <2>1, PassGentle
  <2> QED
    BY <1>1, <2>1, <2>2 DEF PoolInv, PoolTyped, Gentle, Up
<1> QED
  BY <1>3, <1>4

\* What is left of a pass after its first command, which was no wait for a drain.
LEMMA TailGentle ==
  ASSUME PoolInv, todo # <<>>, todo[1].op # "drained"
  PROVE  Tail(todo) \in Gentle
<1> DEFINE t == Tail(todo)
           n == Len(todo)
<1>1. todo \in Seq(Command) /\ n \in Nat \ {0} /\ DOMAIN todo = 1..n
  BY DEF PoolInv, PoolTyped
<1>2. t \in Seq(Command) /\ DOMAIN t = 1..(n - 1) /\ \A i \in 1..(n - 1) : t[i] = todo[i + 1]
  BY <1>1
<1> HIDE DEF t, n
<1>3. ASSUME NEW i \in DOMAIN t, t[i].op = "rm" PROVE Drains(t, i)
  <2>1. i + 1 \in 1..n /\ i + 1 # 1 /\ t[i] = todo[i + 1] /\ i + 1 - 1 = i
    BY <1>1, <1>2, <1>3
  <2>2. Drains(todo, i + 1)
    BY <1>1, <1>3, <2>1 DEF PoolInv
  <2>3. todo[i] = Cmd("drained", t[i].slot)
    BY <2>1, <2>2 DEF Drains
  <2>4. i # 1
    BY <2>3 DEF Cmd
  <2>5. i - 1 \in 1..(n - 1) /\ i - 1 + 1 = i
    BY <1>1, <1>2, <1>3, <2>4
  <2>6. t[i - 1] = todo[i]
    BY <1>2, <2>5
  <2> QED
    BY <2>3, <2>4, <2>6 DEF Drains
<1> QED
  BY <1>2, <1>3 DEF Gentle, t

\* The next command and its slot.
LEMMA NextCommand ==
  ASSUME PoolInv, NEW op, Runs(op)
  PROVE  /\ todo # <<>> /\ todo[1] = Next1 /\ Next1.op = op /\ Slot1 \in 1 .. Slots
         /\ container[Slot1] \in Container /\ todo \in Seq(Command)
         /\ container \in [1 .. Slots -> Container]
<1>1. todo # <<>> /\ todo \in Seq(Command) /\ container \in [1 .. Slots -> Container] /\ Next1.op = op
  BY DEF Runs, PoolInv, PoolTyped
<1>2. todo[1] = Next1 /\ Next1 \in Command
  BY <1>1 DEF Next1
<1> QED
  BY <1>1, <1>2 DEF Command, Slot1

\* The two commands that look at a slot before they say what to do with it.
LEMMA LookKeeps ==
  ASSUME PoolInv, EnsureSlot \/ RemoveExtraSlot
  PROVE  PoolInv'
<1>1. PICK op \in {"ensure", "extra"} : Runs(op)
  BY DEF EnsureSlot, RemoveExtraSlot
<1>2. /\ todo # <<>> /\ todo[1].op # "drained" /\ Slot1 \in 1 .. Slots
      /\ container[Slot1] \in Container
  BY <1>1, NextCommand
<1>3. Tail(todo) \in Gentle
  BY <1>2, TailGentle
<1>4. UNCHANGED <<container, runners, pulled, released>>
  BY DEF EnsureSlot, RemoveExtraSlot
<1>5. ASSUME NEW a \in Gentle, todo' = a \o Tail(todo) PROVE PoolInv'
  <2>1. todo' \in Gentle
    BY <1>3, <1>5, GentleConcat
  <2> QED
    BY <1>4, <2>1, StartPass DEF PoolInv, PoolTyped
<1>6. CASE RemoveExtraSlot
  <2>1. todo' = (IF container[Slot1] = NoContainer THEN <<>> ELSE RemoveSlot(Slot1)) \o Tail(todo)
    BY <1>6 DEF RemoveExtraSlot
  <2> QED
    BY <1>2, <1>5, <2>1, SlotCommands
<1>7. CASE EnsureSlot
  <2>1. CASE Up(Slot1)
    <3>0. container[Slot1] # NoContainer
      BY <2>1 DEF NoContainer, Up
    <3>1. todo' = <<>> \o Tail(todo)
      BY <1>7, <2>1, <3>0 DEF EnsureSlot
    <3> QED
      BY <1>2, <1>5, <3>1, SlotCommands
  <2>2. CASE container[Slot1] = NoContainer
    <3>1. ~Up(Slot1)
      BY <2>2 DEF Up, NoContainer
    <3>2. todo' = CreateSlot(Slot1) \o Tail(todo)
      BY <1>7, <2>2, <3>1 DEF EnsureSlot
    <3> QED
      BY <1>2, <1>5, <3>2, SlotCommands
  <2>3. CASE ~Up(Slot1) /\ container[Slot1] # NoContainer
    <3>1. todo' = (<<Cmd("rm", Slot1)>> \o CreateSlot(Slot1)) \o Tail(todo)
      BY <1>7, <2>3 DEF EnsureSlot
    <3> DEFINE b == CreateSlot(Slot1) \o Tail(todo)
               c == Cmd("rm", Slot1)
               s == Slot1
    <3>2. b \in Gentle
      BY <1>2, <1>3, SlotCommands, GentleConcat
    <3>3. c \in Command /\ c.slot = s
      BY <1>2, CmdTyped DEF Ops
    <3>4. CreateSlot(Slot1) \in Seq(Command) /\ Tail(todo) \in Seq(Command)
      BY <1>2, <1>3, SlotCommands DEF Gentle
    <3> DEFINE x == CreateSlot(Slot1)
               y == Tail(todo)
    <3>5. x \in Seq(Command) /\ y \in Seq(Command)
      BY <3>4
    <3>6. b = x \o y /\ todo' = (<<c>> \o x) \o y
      BY <3>1
    <3> HIDE DEF b, c, s, x, y
    <3>7. todo' = <<c>> \o b /\ b \in Seq(Command)
      BY <3>3, <3>5, <3>6
    <3>8. /\ todo' \in Seq(Command) /\ DOMAIN todo' = 1..(Len(b) + 1) /\ Len(b) \in Nat
          /\ todo'[1] = c /\ \A i \in 1..Len(b) : todo'[i + 1] = b[i]
      BY <3>3, <3>7
    <3>9. ASSUME NEW i \in DOMAIN todo', todo'[i].op = "rm"
          PROVE  (i # 1 /\ todo'[i - 1] = Cmd("drained", todo'[i].slot)) \/ (i = 1 /\ ~Up(todo'[i].slot))
      <4>1. CASE i = 1
        BY <2>3, <3>3, <3>8, <4>1 DEF s
      <4>2. CASE i # 1
        <5>1. PICK j \in 1..Len(b) : i = j + 1
          <6>1. i - 1 \in 1..Len(b) /\ i = (i - 1) + 1
            BY <3>8, <3>9, <4>2
          <6> QED
            BY <6>1
        <5>2. todo'[i] = b[j]
          BY <3>8, <5>1
        <5>3. j # 1 /\ b[j - 1] = Cmd("drained", b[j].slot)
          <6>1. j \in DOMAIN b
            BY <3>7, <5>1
          <6> QED
            BY <3>2, <3>9, <5>2, <6>1 DEF Gentle, Drains
        <5>4. j - 1 \in 1..Len(b) /\ j - 1 + 1 = i - 1
          BY <3>8, <5>1, <5>3
        <5>5. todo'[i - 1] = b[j - 1]
          BY <3>8, <5>4
        <5> QED
          BY <4>2, <5>2, <5>3, <5>5
      <4> QED
        BY <4>1, <4>2
    <3> QED
      BY <1>4, <3>8, <3>9 DEF PoolInv, PoolTyped, Drains, Up
  <2> QED
    BY <2>1, <2>2, <2>3
<1> QED
  BY <1>6, <1>7

\* A command on the container of its slot, other than the end of a drain.
LEMMA CommandKeeps ==
  ASSUME PoolInv, NEW op \in Ops \ {"drained"}, Runs(op), NEW c \in Container,
         SetContainer(c), c.busy => c.state = "running"
  PROVE  PoolInv'
<1>1. /\ todo # <<>> /\ todo[1].op # "drained" /\ Slot1 \in 1 .. Slots
      /\ container \in [1 .. Slots -> Container]
  BY NextCommand
<1>2. todo' \in Gentle
  BY <1>1, TailGentle DEF SetContainer
<1>3. /\ container' \in [1 .. Slots -> Container]
      /\ \A s \in 1 .. Slots : container'[s] = container[s] \/ container'[s] = c
      /\ UNCHANGED <<runners, pulled, released>>
  BY <1>1 DEF SetContainer
<1>4. \A s \in 1 .. Slots : container'[s].busy => container'[s].state = "running"
  BY <1>3 DEF PoolInv, Up
<1> QED
  BY <1>2, <1>3, <1>4 DEF PoolInv, PoolTyped, Gentle, Up

LEMMA CommandsKeep ==
  ASSUME PoolInv, Drain \/ RemoveContainer \/ Create \/ CopyKey \/ Start
  PROVE  PoolInv'
<1> DEFINE k == container[Slot1]
<1>1. ASSUME NEW op, Runs(op)
      PROVE  k \in Container /\ (k.busy => k.state = "running")
  BY <1>1, NextCommand DEF PoolInv, Up
<1>2. NoContainer \in Container /\ ~NoContainer.busy
  BY DEF NoContainer, Container
<1>3. \A op \in {"drain", "rm", "create", "cp", "start"} : op \in Ops \ {"drained"}
  BY DEF Ops
<1>4. CASE Drain
  <2> DEFINE c == [k EXCEPT !.stopping = TRUE]
  <2>1. Runs("drain") /\ SetContainer(c)
    BY <1>4 DEF Drain
  <2>2. c \in Container /\ c.busy = k.busy /\ c.state = k.state
    BY <1>1, <2>1 DEF Container
  <2> HIDE DEF c, k
  <2> QED
    BY <1>1, <1>3, <2>1, <2>2, CommandKeeps
<1>5. CASE RemoveContainer
  BY <1>2, <1>3, <1>5, CommandKeeps DEF RemoveContainer
<1>6. CASE Create
  <2> DEFINE c == [NoContainer EXCEPT !.state = "created", !.image = pulled]
  <2>1. Runs("create") /\ SetContainer(c)
    BY <1>6 DEF Create
  <2>2. c \in Container /\ ~c.busy
    BY <1>2 DEF Container, PoolInv, PoolTyped
  <2> HIDE DEF c, k
  <2> QED
    BY <1>3, <2>1, <2>2, CommandKeeps
<1>7. CASE CopyKey
  <2> DEFINE c == [k EXCEPT !.key = TRUE]
  <2>1. Runs("cp") /\ SetContainer(c)
    BY <1>7 DEF CopyKey
  <2>2. c \in Container /\ c.busy = k.busy /\ c.state = k.state
    BY <1>1, <2>1 DEF Container
  <2> HIDE DEF c, k
  <2> QED
    BY <1>1, <1>3, <2>1, <2>2, CommandKeeps
<1>8. CASE Start
  <2> DEFINE c == [k EXCEPT !.state = "running"]
  <2>1. Runs("start") /\ SetContainer(c)
    BY <1>8 DEF Start
  <2>2. c \in Container /\ c.state = "running"
    BY <1>1, <2>1 DEF Container
  <2> HIDE DEF c, k
  <2> QED
    BY <1>3, <2>1, <2>2, CommandKeeps
<1> QED
  BY <1>4, <1>5, <1>6, <1>7, <1>8

\* The end of a drain: the container is down, and its removal may be next.
LEMMA DrainedKeeps ==
  ASSUME PoolInv, Drained
  PROVE  PoolInv'
<1> DEFINE k == container[Slot1]
           c == [k EXCEPT !.busy = FALSE, !.state = IF Up(Slot1) THEN "exited" ELSE k.state]
           t == todo'
           n == Len(todo)
           s1 == Slot1
<1>1. Runs("drained") /\ SetContainer(c)
  BY DEF Drained
<1>2. /\ todo # <<>> /\ todo[1] = Next1 /\ Next1.op = "drained" /\ s1 \in 1 .. Slots
      /\ k \in Container /\ todo \in Seq(Command)
      /\ container \in [1 .. Slots -> Container]
  BY <1>1, NextCommand
<1>3. c \in Container /\ ~c.busy /\ c.state # "running"
  <2>1. PICK x \in {"absent", "created", "exited"} : x = IF Up(Slot1) THEN "exited" ELSE k.state
    BY <1>2 DEF Container, Up
  <2>2. c = [k EXCEPT !.busy = FALSE, !.state = x]
    BY <2>1
  <2> HIDE DEF k, c
  <2> QED
    BY <1>2, <2>2 DEF Container
<1> HIDE DEF k, c
<1>4. container' = [container EXCEPT ![s1] = c] /\ t = Tail(todo)
      /\ UNCHANGED <<runners, pulled, released>>
  BY <1>1 DEF SetContainer
<1>5. /\ container' \in [1 .. Slots -> Container] /\ container'[s1] = c
      /\ \A s \in 1 .. Slots : s # s1 => container'[s] = container[s]
  BY <1>2, <1>3, <1>4
<1>6. /\ n \in Nat \ {0} /\ DOMAIN todo = 1..n
      /\ t \in Seq(Command) /\ DOMAIN t = 1..(n - 1) /\ \A i \in 1..(n - 1) : t[i] = todo[i + 1]
  BY <1>2, <1>4
<1>7. todo[1].slot = s1
  BY <1>2 DEF Slot1
<1> HIDE DEF t, n, s1
<1>8. ASSUME NEW i \in DOMAIN t, t[i].op = "rm"
      PROVE  Drains(t, i) \/ (i = 1 /\ container'[t[i].slot].state # "running")
  <2>1. i + 1 \in 1..n /\ i + 1 # 1 /\ t[i] = todo[i + 1] /\ i + 1 - 1 = i
    BY <1>6, <1>8
  <2>2. todo[i] = Cmd("drained", t[i].slot)
    BY <1>6, <1>8, <2>1 DEF PoolInv, Drains
  <2>3. CASE i = 1
    <3>1. t[i].slot = s1
      BY <1>7, <2>2, <2>3 DEF Cmd
    <3> QED
      BY <1>3, <1>5, <2>3, <3>1
  <2>4. CASE i # 1
    <3>1. i - 1 \in 1..(n - 1) /\ i - 1 + 1 = i
      BY <1>6, <1>8, <2>4
    <3>2. t[i - 1] = todo[i]
      BY <1>6, <3>1
    <3> QED
      BY <2>2, <2>4, <3>2 DEF Drains
  <2> QED
    BY <2>3, <2>4
<1>9. \A s \in 1 .. Slots : container'[s].busy => container'[s].state = "running"
  BY <1>3, <1>5 DEF PoolInv, Up
<1>10. todo' = t
  BY DEF t
<1>11. \A i \in DOMAIN todo' : todo'[i].op = "rm" =>
         Drains(todo', i) \/ (i = 1 /\ container'[todo'[i].slot].state # "running")
  BY <1>8, <1>10
<1> QED
  BY <1>4, <1>5, <1>6, <1>9, <1>10, <1>11 DEF PoolInv, PoolTyped, Up, Drains

\* What the runners do: none comes up by itself, and only one that is up works.
LEMMA RunnersKeep ==
  ASSUME PoolInv, NEW s \in 1 .. Slots,
         RunnerTakesJob(s) \/ RunnerEndsJob(s) \/ RunnerStops(s) \/ RunnerDies(s)
  PROVE  PoolInv'
<1>1. container \in [1 .. Slots -> Container] /\ container[s] \in Container
  BY DEF PoolInv, PoolTyped
<1>2. UNCHANGED <<todo, runners, pulled, released>> /\ Up(s)
  BY DEF RunnerTakesJob, RunnerEndsJob, RunnerStops, RunnerDies
<1>3. PICK c \in Container :
        /\ container' = [container EXCEPT ![s] = c]
        /\ c.busy => c.state = "running"
  <2>1. CASE RunnerTakesJob(s)
    <3> DEFINE d == [container[s] EXCEPT !.busy = TRUE]
    <3>1. container' = [container EXCEPT ![s] = d]
      BY <2>1 DEF RunnerTakesJob
    <3>2. d \in Container /\ d.state = "running"
      BY <1>1, <1>2 DEF Container, Up
    <3> HIDE DEF d
    <3> QED
      BY <3>1, <3>2
  <2>2. CASE RunnerEndsJob(s)
    <3> DEFINE d == [container[s] EXCEPT !.busy = FALSE]
    <3>1. container' = [container EXCEPT ![s] = d]
      BY <2>2 DEF RunnerEndsJob
    <3>2. d \in Container /\ ~d.busy
      BY <1>1 DEF Container
    <3> HIDE DEF d
    <3> QED
      BY <3>1, <3>2
  <2>3. CASE RunnerStops(s) \/ RunnerDies(s)
    <3> DEFINE d == [container[s] EXCEPT !.state = "exited", !.busy = FALSE]
    <3>1. container' = [container EXCEPT ![s] = d]
      BY <2>3 DEF RunnerStops, RunnerDies
    <3>2. d \in Container /\ ~d.busy
      BY <1>1 DEF Container
    <3> HIDE DEF d
    <3> QED
      BY <3>1, <3>2
  <2> QED
    BY <2>1, <2>2, <2>3
<1>4. container' \in [1 .. Slots -> Container] /\ container'[s] = c
      /\ \A r \in 1 .. Slots : r # s => container'[r] = container[r]
  BY <1>1, <1>3
<1>5. \A r \in 1 .. Slots : container'[r].busy => container'[r].state = "running"
  BY <1>3, <1>4 DEF PoolInv, Up
<1>6. \A r \in 1 .. Slots : ~Up(r) => container'[r] = container[r]
  BY <1>2, <1>4
<1>7. \A i \in DOMAIN todo : todo[i].slot \in 1 .. Slots
  <2>1. todo \in Seq(Command)
    BY DEF PoolInv, PoolTyped
  <2> SUFFICES ASSUME NEW i \in DOMAIN todo
               PROVE  todo[i].slot \in 1 .. Slots
    OBVIOUS
  <2>2. todo[i] \in Command
    BY <2>1
  <2> QED
    BY <2>2 DEF Command
<1>8. \A i \in DOMAIN todo : todo[i].op = "rm" =>
         Drains(todo, i) \/ (i = 1 /\ container'[todo[i].slot].state # "running")
  BY <1>6, <1>7 DEF PoolInv, Up
<1> QED
  BY <1>2, <1>4, <1>5, <1>8 DEF PoolInv, PoolTyped, Up, Drains

LEMMA PoolStep == RunnerHostAssumption /\ PoolInv /\ [RunnerHostNext]_hostVars => PoolInv'
<1> SUFFICES ASSUME RunnerHostAssumption, PoolInv, [RunnerHostNext]_hostVars
             PROVE  PoolInv'
  OBVIOUS
<1>1. <<>> \in Gentle
  BY DEF Gentle
<1>2. runners \in PoolSize /\ released \in Nat
  BY DEF PoolInv, PoolTyped
<1>3. CASE CommandFails
  BY <1>1, <1>2, <1>3, StartPass DEF CommandFails
<1>4. CASE SupervisorRestarts
  BY <1>1, <1>2, <1>4, StartPass DEF SupervisorRestarts
<1>5. CASE ImageReleased
  BY <1>2, <1>5 DEF ImageReleased, PoolInv, PoolTyped, Up, Drains
<1>6. CASE UNCHANGED hostVars
  BY <1>6 DEF hostVars, PoolInv, PoolTyped, Up, Drains
<1> QED
  BY <1>3, <1>4, <1>5, <1>6, UpdateKeeps, LookKeeps, CommandsKeep, DrainedKeeps, RunnersKeep
     DEF RunnerHostNext

\* The only command that takes a container away does it to one that is down.
LEMMA UpStays ==
  ASSUME PoolInv, RunnerHostNext, NEW s \in 1 .. Slots, Up(s) \/ container[s].busy
  PROVE  container'[s] # NoContainer
<1>1. container \in [1 .. Slots -> Container] /\ container[s].state = "running"
      /\ container[s] \in Container
  BY DEF PoolInv, PoolTyped, Up
<1>2. ASSUME NEW c, SetContainer(c), s = Slot1 => c # NoContainer, NEW op, Runs(op)
      PROVE  container'[s] # NoContainer
  <2>1. container' = [container EXCEPT ![Slot1] = c]
    BY <1>2 DEF SetContainer
  <2>2. container[s] # NoContainer
    BY <1>1 DEF NoContainer
  <2> QED
    BY <1>1, <1>2, <2>1, <2>2
<1>3. CASE UNCHANGED container
  BY <1>1, <1>3 DEF NoContainer
<1>4. CASE Drain
  <2> DEFINE c == [container[Slot1] EXCEPT !.stopping = TRUE]
  <2>1. Runs("drain") /\ SetContainer(c)
    BY <1>4 DEF Drain
  <2>2. s = Slot1 => c # NoContainer
    BY <1>1 DEF Container, NoContainer
  <2> HIDE DEF c
  <2> QED
    BY <1>2, <2>1, <2>2
<1>5. CASE Drained
  <2> DEFINE c == [container[Slot1] EXCEPT !.busy = FALSE,
                     !.state = IF Up(Slot1) THEN "exited" ELSE container[Slot1].state]
  <2>1. Runs("drained") /\ SetContainer(c)
    BY <1>5 DEF Drained
  <2>2. s = Slot1 => c # NoContainer
    BY <1>1 DEF Container, NoContainer, Up
  <2> HIDE DEF c
  <2> QED
    BY <1>2, <2>1, <2>2
<1>6. CASE RemoveContainer
  <2>1. Runs("rm") /\ SetContainer(NoContainer)
    BY <1>6 DEF RemoveContainer
  <2>2. todo[1].op = "rm" /\ 1 \in DOMAIN todo /\ todo[1].slot = Slot1
    BY <2>1, NextCommand DEF Slot1
  <2>3. ~Up(Slot1)
    BY <2>2 DEF PoolInv, Drains
  <2>4. s # Slot1
    BY <1>1, <2>3 DEF Up
  <2> QED
    BY <1>2, <2>1, <2>4
<1>7. CASE Create
  <2> DEFINE c == [NoContainer EXCEPT !.state = "created", !.image = pulled]
  <2>1. Runs("create") /\ SetContainer(c)
    BY <1>7 DEF Create
  <2>2. c # NoContainer
    BY DEF NoContainer
  <2> HIDE DEF c
  <2> QED
    BY <1>2, <2>1, <2>2
<1>8. CASE CopyKey
  <2> DEFINE c == [container[Slot1] EXCEPT !.key = TRUE]
  <2>1. Runs("cp") /\ SetContainer(c)
    BY <1>8 DEF CopyKey
  <2>2. s = Slot1 => c # NoContainer
    BY <1>1 DEF Container, NoContainer
  <2> HIDE DEF c
  <2> QED
    BY <1>2, <2>1, <2>2
<1>9. CASE Start
  <2> DEFINE c == [container[Slot1] EXCEPT !.state = "running"]
  <2>1. Runs("start") /\ SetContainer(c)
    BY <1>9 DEF Start
  <2>2. s = Slot1 => c # NoContainer
    BY <1>1 DEF Container, NoContainer
  <2> HIDE DEF c
  <2> QED
    BY <1>2, <2>1, <2>2
<1>10. ASSUME NEW r \in 1 .. Slots,
              RunnerTakesJob(r) \/ RunnerEndsJob(r) \/ RunnerStops(r) \/ RunnerDies(r)
       PROVE  container'[s] # NoContainer
  <2>1. CASE RunnerTakesJob(r)
    <3> DEFINE d == [container[r] EXCEPT !.busy = TRUE]
    <3>1. container' = [container EXCEPT ![r] = d]
      BY <2>1 DEF RunnerTakesJob
    <3>2. s = r => d.state = "running"
      BY <1>1 DEF Container
    <3> HIDE DEF d
    <3> QED
      BY <1>1, <3>1, <3>2 DEF NoContainer
  <2>2. CASE RunnerEndsJob(r)
    <3> DEFINE d == [container[r] EXCEPT !.busy = FALSE]
    <3>1. container' = [container EXCEPT ![r] = d]
      BY <2>2 DEF RunnerEndsJob
    <3>2. s = r => d.state = "running"
      BY <1>1 DEF Container
    <3> HIDE DEF d
    <3> QED
      BY <1>1, <3>1, <3>2 DEF NoContainer
  <2>3. CASE RunnerStops(r) \/ RunnerDies(r)
    <3> DEFINE d == [container[r] EXCEPT !.state = "exited", !.busy = FALSE]
    <3>1. container' = [container EXCEPT ![r] = d]
      BY <2>3 DEF RunnerStops, RunnerDies
    <3>2. s = r => d.state = "exited"
      BY <1>1 DEF Container
    <3> HIDE DEF d
    <3> QED
      BY <1>1, <3>1, <3>2 DEF NoContainer
  <2> QED
    BY <1>10, <2>1, <2>2, <2>3
<1> QED
  BY <1>3, <1>4, <1>5, <1>6, <1>7, <1>8, <1>9, <1>10
     DEF RunnerHostNext, Reconcile, Update, EnsureSlot, RemoveExtraSlot, CommandFails,
         SupervisorRestarts, ImageReleased

\* A container goes only when its runner is down and holds no job: for any
\* number of slots and any pool sizes, whatever the supervisor was doing when it
\* stopped, whichever commands failed and whenever runners died or took jobs.
THEOREM NoJobRemoved == RunnerHostInit /\ [][RunnerHostNext]_hostVars => StoppedBeforeRemoved
<1>1. RunnerHostInit => PoolInv
  <2> SUFFICES ASSUME RunnerHostInit PROVE PoolInv
    OBVIOUS
  <2>1. NoContainer \in Container /\ ~NoContainer.busy
    BY DEF NoContainer, Container
  <2>2. container = [s \in 1 .. Slots |-> NoContainer] /\ todo = <<>> /\ runners \in PoolSize
        /\ pulled = 1 /\ released = 1
    BY DEF RunnerHostInit
  <2>3. PoolTyped /\ DOMAIN todo = {}
    BY <2>1, <2>2 DEF PoolTyped
  <2> QED
    BY <2>1, <2>2, <2>3 DEF PoolInv
<1>2. PoolInv /\ [RunnerHostNext]_hostVars
        => [\A s \in 1 .. Slots :
              Up(s) \/ container[s].busy => container'[s] # NoContainer]_hostVars
  BY UpStays
<1> QED
  BY <1>1, <1>2, PoolStep, RunnerHostAssumption, PTL DEF StoppedBeforeRemoved
=============================================================================
