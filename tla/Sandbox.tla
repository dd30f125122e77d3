------------------------------ MODULE Sandbox -------------------------------
(***************************************************************************)
(* The job sandboxes of internal/runner/sandbox on one docker host: what   *)
(* Create builds, what Close removes, and the file lock on the shared      *)
(* image cache.                                                            *)
(*                                                                         *)
(* Every docker command is a step that succeeds, fails without effect, or  *)
(* is cut off by the setup deadline after the daemon did it.  A runner     *)
(* process may be killed; the system then frees its lock.                  *)
(***************************************************************************)
EXTENDS Integers, FiniteSets

CONSTANTS BoxJob,           \* sandboxes, named after a job and its attempt
          CachedJob,        \* those with an image cache volume
          MaxBoxFaults      \* bound: commands that fail, are cut, and kills

VARIABLES box,              \* per job: [at, made, failed], the runner's side
          lockHolder,       \* who holds the cache's file lock: a set
          exists,           \* docker: resources that exist, <<kind, job>>
          cacheVolume,      \* docker: the image cache volume exists
          imageHere,        \* docker: the sandbox image is on the host
          boxFaults

boxVars == <<box, lockHolder, exists, cacheVolume, imageHere, boxFaults>>

BoxInit ==
  /\ box = [j \in BoxJob |-> [at |-> "none", made |-> {}, failed |-> FALSE]]
  /\ lockHolder = {} /\ exists = {}
  /\ cacheVolume = FALSE /\ imageHere = FALSE /\ boxFaults = 0

BoxFault == boxFaults < MaxBoxFaults /\ boxFaults' = boxFaults + 1
GoTo(j, at) == box' = [box EXCEPT ![j].at = at]
GiveUp(j) == box' = [box EXCEPT ![j].at = "closing", ![j].failed = TRUE]
Docker == <<exists, cacheVolume, imageHere>>

CreateBox(j) ==
  /\ box[j].at = "none"
  /\ GoTo(j, IF j \in CachedJob THEN "lock" ELSE "workspace")
  /\ UNCHANGED <<lockHolder, Docker, boxFaults>>

\* Polls until it has the lock; the setup deadline ends the wait.
AcquireLock(j) ==
  /\ box[j].at = "lock"
  /\ \/ /\ lockHolder = {} /\ lockHolder' = {j}
        /\ GoTo(j, "cache") /\ UNCHANGED boxFaults
     \/ BoxFault /\ GiveUp(j) /\ UNCHANGED lockHolder
  /\ UNCHANGED Docker

CacheVolume(j) ==
  /\ box[j].at = "cache"
  /\ \/ cacheVolume' = TRUE /\ GoTo(j, "workspace") /\ UNCHANGED boxFaults
     \/ BoxFault /\ GiveUp(j) /\ UNCHANGED cacheVolume
  /\ UNCHANGED <<lockHolder, exists, imageHere>>

\* A resource is remembered as made only when the command said so.
Make(j, kind, next) ==
  /\ box[j].at = kind
  /\ \/ /\ exists' = exists \cup {<<kind, j>>}
        /\ box' = [box EXCEPT ![j].at = next, ![j].made = @ \cup {kind}]
        /\ UNCHANGED boxFaults
     \/ BoxFault /\ GiveUp(j) /\ exists' \in {exists, exists \cup {<<kind, j>>}}
  /\ UNCHANGED <<lockHolder, cacheVolume, imageHere>>

\* The image is pulled only when it is absent.
PullImage(j) ==
  /\ box[j].at = "image"
  /\ \/ imageHere' = TRUE /\ GoTo(j, "network") /\ UNCHANGED boxFaults
     \/ ~imageHere /\ BoxFault /\ GiveUp(j) /\ UNCHANGED imageHere
  /\ UNCHANGED <<lockHolder, exists, cacheVolume>>

\* waitForDockerd and the two directories.
Prepare(j) ==
  /\ box[j].at = "dockerd"
  /\ \/ GoTo(j, "ready") /\ UNCHANGED boxFaults
     \/ BoxFault /\ GiveUp(j)
  /\ UNCHANGED <<lockHolder, Docker>>

\* The job is over, however it ended.
JobOver(j) ==
  /\ box[j].at = "ready" /\ GoTo(j, "closing")
  /\ UNCHANGED <<lockHolder, Docker, boxFaults>>

\* Docker removes a volume or network only when no container holds it.
Removable(kind, j) == kind = "container" \/ <<"container", j>> \notin exists

RemoveBox(j, kind, next) ==
  /\ \/ /\ kind \in box[j].made /\ Removable(kind, j)
        /\ exists' = exists \ {<<kind, j>>}
        /\ box' = [box EXCEPT ![j].at = next, ![j].made = @ \ {kind}]
        /\ UNCHANGED boxFaults
     \/ /\ kind \notin box[j].made /\ GoTo(j, next)
        /\ UNCHANGED <<exists, boxFaults>>
     \/ \* TEARDOWN FAILED is logged, and the rest is still removed.
        /\ kind \in box[j].made
        /\ IF Removable(kind, j) THEN BoxFault ELSE UNCHANGED boxFaults
        /\ box' = [box EXCEPT ![j].at = next, ![j].failed = TRUE]
        /\ UNCHANGED exists
  /\ UNCHANGED <<lockHolder, cacheVolume, imageHere>>

ReleaseLock(j, next) ==
  /\ lockHolder' = lockHolder \ {j}
  /\ GoTo(j, next)
  /\ UNCHANGED <<Docker, boxFaults>>

\* A slip to guard against: the lock goes first.
CloseLockFirst(j) ==
  \/ box[j].at = "closing"     /\ ReleaseLock(j, "container gone")
  \/ box[j].at = "container gone" /\ RemoveBox(j, "container", "closing workspace")
  \/ box[j].at = "closing workspace" /\ RemoveBox(j, "workspace", "closing network")
  \/ box[j].at = "closing network" /\ RemoveBox(j, "network", "gone")

\* Close: container, workspace volume, network, and the lock last.
Close(j) ==
  \/ box[j].at = "closing"           /\ RemoveBox(j, "container", "closing workspace")
  \/ box[j].at = "closing workspace" /\ RemoveBox(j, "workspace", "closing network")
  \/ box[j].at = "closing network"   /\ RemoveBox(j, "network", "closing lock")
  \/ box[j].at = "closing lock"      /\ ReleaseLock(j, "gone")

\* The runner process is killed: its sandbox is nobody's any more.
KillRunner(j) ==
  /\ box[j].at \notin {"none", "gone", "killed"}
  /\ BoxFault /\ GoTo(j, "killed")
  /\ lockHolder' = lockHolder \ {j}
  /\ UNCHANGED Docker

BoxNext ==
  \E j \in BoxJob :
    \/ CreateBox(j) \/ AcquireLock(j) \/ CacheVolume(j)
    \/ Make(j, "workspace", "image") \/ PullImage(j)
    \/ Make(j, "network", "container") \/ Make(j, "container", "dockerd")
    \/ Prepare(j) \/ JobOver(j) \/ Close(j) \/ KillRunner(j)

(***************************************************************************)
(* The cache volume is under two inner daemons only when one of them was   *)
(* left behind, and never unsaid: its runner was killed, or Close failed   *)
(* to remove something of it and logged that.  While both sandboxes are in *)
(* a runner's hands, in whatever order they are built and torn down, they  *)
(* do not share it.                                                        *)
(*                                                                         *)
(* So the promise that the volume is never shared (sandbox.go:34-36,       *)
(* lock_unix.go:14-16, docs/deviations.md:154) ends where a container      *)
(* outlives its sandbox, in the code as here: Close gives the lock back    *)
(* after a `docker rm` that failed, and after a `docker run` that was cut  *)
(* off, whose container it does not try to remove at all; the next job's   *)
(* daemon then comes up beside it.  Even that container is not unsaid: the *)
(* workspace volume it holds cannot be removed either.                     *)
(***************************************************************************)
HasContainer(j) == <<"container", j>> \in exists

\* made is, once Close is over, what it could not remove.
LeftBehind(j) == box[j].at = "killed" \/ (box[j].at = "gone" /\ box[j].made # {})

CacheSharedOnlyWithLeft ==
  \A i, j \in CachedJob :
    HasContainer(i) /\ HasContainer(j) /\ i # j => LeftBehind(i) \/ LeftBehind(j)
=============================================================================
