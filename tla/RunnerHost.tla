----------------------------- MODULE RunnerHost -----------------------------
(***************************************************************************)
(* The supervisor of one machine, internal/runnerhost: a loop that keeps a *)
(* pool of runner containers up and replaces them when the runner image    *)
(* changes.  Every docker command is a step and may fail; the runners take *)
(* jobs, finish them, give them back when they are told to stop, and die   *)
(* meanwhile; the supervisor itself may be stopped between any two         *)
(* commands, and leaves the containers running.                            *)
(***************************************************************************)
EXTENDS Integers, SequencesExt

CONSTANTS
  Slots,        \* the slots that are ever used, 1 .. Slots
  PoolSize,     \* the values of -runners
  MaxImage,     \* bound on the releases of the runner image
  MaxHostFaults \* bound on failed commands, dead runners and interrupted passes

ASSUME RunnerHostAssumption ==
  /\ Slots \in Nat \ {0} /\ PoolSize \subseteq 1 .. Slots
  /\ MaxImage \in Nat /\ MaxHostFaults \in Nat

VARIABLES
  container, \* per slot, its container; NoContainer when there is none
  todo,      \* the docker commands the pass under way has left
  runners,   \* -runners of the supervisor that runs
  imageID,   \* the image the pool was last built from, 0 when not resolved
  pulled,    \* the image the daemon has under the runner image's name
  released,  \* the image the registry has
  hostFaults

hostVars == <<container, todo, runners, imageID, pulled, released, hostFaults>>

NoContainer == [state |-> "absent", image |-> 0, key |-> FALSE, busy |-> FALSE, stopping |-> FALSE]
Up(s) == container[s].state = "running"

RunnerHostInit ==
  /\ container = [s \in 1 .. Slots |-> NoContainer]
  /\ todo = <<>> /\ runners \in PoolSize
  /\ imageID = 0 /\ pulled = 1 /\ released = 1
  /\ hostFaults = 0

(***************************************************************************)
(* The passes, as the commands they give.                                  *)
(***************************************************************************)
Cmd(op, s) == [op |-> op, slot |-> s]
ForEach(lo, hi, cmds(_)) == FlattenSeq([i \in 1 .. hi - lo + 1 |-> cmds(lo + i - 1)])

\* A slip to guard against: a slot that goes is removed without being drained.
RemoveSlotAtOnce(s) == <<Cmd("rm", s)>>

CreateSlot(s) == <<Cmd("create", s), Cmd("cp", s), Cmd("start", s)>>
ReplaceSlot(s) == <<Cmd("drain", s), Cmd("drained", s), Cmd("rm", s)>> \o CreateSlot(s)
RemoveSlot(s) == <<Cmd("drain", s), Cmd("drained", s), Cmd("rm", s)>>

Reconcile ==
  /\ todo = <<>>
  /\ imageID' = IF imageID = 0 THEN pulled ELSE imageID
  /\ todo' = ForEach(1, runners, LAMBDA s : <<Cmd("ensure", s)>>)
               \o ForEach(runners + 1, Slots, LAMBDA s : <<Cmd("extra", s)>>)
  /\ UNCHANGED <<container, runners, pulled, released, hostFaults>>

\* The new image is remembered before the first slot is replaced.
Update ==
  /\ todo = <<>> /\ imageID # 0
  /\ pulled' = released
  /\ imageID' = released
  /\ todo' = IF released = imageID THEN <<>> ELSE ForEach(1, runners, ReplaceSlot)
  /\ UNCHANGED <<container, runners, released, hostFaults>>

(***************************************************************************)
(* The commands.                                                           *)
(***************************************************************************)
Next1 == Head(todo)
Slot1 == Next1.slot
Runs(op) == todo # <<>> /\ Next1.op = op

\* What a pass does about a slot depends on the state docker inspect gives.
EnsureSlot ==
  /\ Runs("ensure")
  /\ todo' = (CASE Up(Slot1) -> <<>>
                [] container[Slot1] = NoContainer -> CreateSlot(Slot1)
                [] OTHER -> <<Cmd("rm", Slot1)>> \o CreateSlot(Slot1)) \o Tail(todo)
  /\ UNCHANGED <<container, runners, imageID, pulled, released, hostFaults>>

RemoveExtraSlot ==
  /\ Runs("extra")
  /\ todo' = (IF container[Slot1] = NoContainer THEN <<>> ELSE RemoveSlot(Slot1)) \o Tail(todo)
  /\ UNCHANGED <<container, runners, imageID, pulled, released, hostFaults>>

SetContainer(c) ==
  /\ container' = [container EXCEPT ![Slot1] = c]
  /\ todo' = Tail(todo)
  /\ UNCHANGED <<runners, imageID, pulled, released>>

\* docker stop sends the signal: what the agent makes of it is RunnerStops.
Drain ==
  /\ Runs("drain") /\ container[Slot1] # NoContainer
  /\ SetContainer([container[Slot1] EXCEPT !.stopping = TRUE])
  /\ UNCHANGED hostFaults

\* It returns when the runner has exited, or has been killed at the timeout
\* with the job it still held.
Drained ==
  /\ Runs("drained")
  /\ SetContainer([container[Slot1] EXCEPT !.busy = FALSE,
                     !.state = IF Up(Slot1) THEN "exited" ELSE @])
  /\ \/ ~container[Slot1].busy /\ UNCHANGED hostFaults
     \/ /\ container[Slot1].busy
        /\ hostFaults < MaxHostFaults /\ hostFaults' = hostFaults + 1

RemoveContainer ==
  /\ Runs("rm")
  /\ SetContainer(NoContainer)
  /\ UNCHANGED hostFaults

Create ==
  /\ Runs("create") /\ container[Slot1] = NoContainer
  /\ SetContainer([NoContainer EXCEPT !.state = "created", !.image = pulled])
  /\ UNCHANGED hostFaults

CopyKey ==
  /\ Runs("cp")
  /\ SetContainer([container[Slot1] EXCEPT !.key = TRUE])
  /\ UNCHANGED hostFaults

Start ==
  /\ Runs("start")
  /\ SetContainer([container[Slot1] EXCEPT !.state = "running"])
  /\ UNCHANGED hostFaults

\* A command that fails ends the pass; so does stopping the supervisor, whose
\* successor may have another pool size and starts without an image id.
CommandFails ==
  /\ todo # <<>>
  /\ hostFaults < MaxHostFaults /\ hostFaults' = hostFaults + 1
  /\ todo' = <<>>
  /\ UNCHANGED <<container, runners, imageID, pulled, released>>

SupervisorRestarts ==
  /\ imageID # 0
  /\ IF todo = <<>> THEN UNCHANGED hostFaults
                    ELSE hostFaults < MaxHostFaults /\ hostFaults' = hostFaults + 1
  /\ todo' = <<>> /\ imageID' = 0
  /\ runners' \in PoolSize
  /\ UNCHANGED <<container, pulled, released>>

(***************************************************************************)
(* The runners and the registry.                                           *)
(***************************************************************************)
RunnerTakesJob(s) ==
  /\ Up(s) /\ container[s].key /\ ~container[s].busy /\ ~container[s].stopping
  /\ container' = [container EXCEPT ![s].busy = TRUE]
  /\ UNCHANGED <<todo, runners, imageID, pulled, released, hostFaults>>

\* A job may still end by itself when the signal is on its way.
RunnerEndsJob(s) ==
  /\ Up(s) /\ container[s].busy
  /\ container' = [container EXCEPT ![s].busy = FALSE]
  /\ UNCHANGED <<todo, runners, imageID, pulled, released, hostFaults>>

\* SIGTERM cancels the agent's context: it takes no more jobs, cancels the one
\* it holds, gives it back to the queue, and exits.
RunnerStops(s) ==
  /\ Up(s) /\ container[s].stopping
  /\ container' = [container EXCEPT ![s].state = "exited", ![s].busy = FALSE]
  /\ UNCHANGED <<todo, runners, imageID, pulled, released, hostFaults>>

RunnerDies(s) ==
  /\ Up(s)
  /\ hostFaults < MaxHostFaults /\ hostFaults' = hostFaults + 1
  /\ container' = [container EXCEPT ![s].state = "exited", ![s].busy = FALSE]
  /\ UNCHANGED <<todo, runners, imageID, pulled, released>>

ImageReleased ==
  /\ released < MaxImage
  /\ released' = released + 1
  /\ UNCHANGED <<container, todo, runners, imageID, pulled, hostFaults>>

RunnerHostNext ==
  \/ Reconcile
  \/ Update
  \/ EnsureSlot
  \/ RemoveExtraSlot
  \/ Drain
  \/ Drained
  \/ RemoveContainer
  \/ Create
  \/ CopyKey
  \/ Start
  \/ CommandFails
  \/ SupervisorRestarts
  \/ \E s \in 1 .. Slots : RunnerTakesJob(s)
  \/ \E s \in 1 .. Slots : RunnerEndsJob(s)
  \/ \E s \in 1 .. Slots : RunnerStops(s)
  \/ \E s \in 1 .. Slots : RunnerDies(s)
  \/ ImageReleased

\* No container is taken away while its runner is up or holds a job, whatever
\* pass finds it, however the pool shrinks and wherever a supervisor stopped.
\* The runner was told to stop and came to its end first, with the job given
\* back; or it died, or outlived the drain timeout, and its lease runs out.
\* That the job is finished, as docs/runners.md ("An update never kills a
\* build") and runnerhost.go:8-12 have it, is not what the code does: the agent
\* cancels it on SIGTERM, and another attempt begins anew elsewhere.
StoppedBeforeRemoved ==
  [][\A s \in 1 .. Slots :
       Up(s) \/ container[s].busy => container'[s] # NoContainer]_hostVars
=============================================================================
