------------------------------- MODULE Ingest -------------------------------
(***************************************************************************)
(* internal/ingest turns a webhook delivery into runs, behind the guard of *)
(* internal/installpolicy and the triggers of internal/workflow.           *)
(*                                                                         *)
(* Deliveries are handled concurrently, one goroutine each, and every      *)
(* store or GitHub call of the handler is a step of its own that may fail; *)
(* the process may also stop between two of them.  A delivery that was not *)
(* answered with success may be delivered again.  A pattern is the set of  *)
(* names it matches, and a workflow file is what its text says.            *)
(***************************************************************************)
EXTENDS Integers, Sequences, FiniteSets

CONSTANTS Webhook,          \* deliveries: [event, action, account, gone, tag, name, paths, inst]
          WorkflowFile,     \* the files at the commit, a sequence of
                            \*   [path, garbled, on, filter, types, unsupported, jobs]
          ServedAccount,    \* the accounts this instance serves
          MaxTries,         \* bound: times one delivery is made
          MaxIngestFaults   \* bound: calls that fail and restarts

ASSUME IngestAssumption ==
  WorkflowFile \in Seq({WorkflowFile[i] : i \in DOMAIN WorkflowFile})

VARIABLES repoInst,         \* installation id of the repository's row, 0: no row
          runRows,          \* rows of the runs table, in id order
          runNumbers,       \* run_numbers: the last number of each workflow path
          handling,         \* per delivery: where its handler is
          ingestFaults

ingestVars == <<repoInst, runRows, runNumbers, handling, ingestFaults>>

----------------------------------------------------------------------------
(* Triggers *)

Bad(globs) == \E i \in DOMAIN globs : globs[i].bad

\* The last pattern that matches decides; only exclusions select the rest.
Selects(globs, s) ==
  LET hits == {i \in DOMAIN globs : s \in globs[i].names}
  IN  IF hits = {} THEN \A i \in DOMAIN globs : globs[i].neg
      ELSE \E i \in hits : (\A j \in hits : j <= i) /\ ~globs[i].neg

\* In an ignore list every pattern is an exclusion.
Ignores(globs, s) == \E i \in DOMAIN globs : (s \in globs[i].names) # globs[i].neg

FilterRef(include, ignore, s) ==
  CASE Bad(include)      -> "error"
    [] include # <<>>    -> IF Selects(include, s) THEN "match" ELSE "skip"
    [] Bad(ignore)       -> "error"
    [] OTHER             -> IF Ignores(ignore, s) THEN "skip" ELSE "match"

FilterPath(f, paths) ==
  CASE Bad(f.paths)         -> "error"
    [] f.paths # <<>>       -> IF \E p \in paths : Selects(f.paths, p) THEN "match" ELSE "skip"
    [] Bad(f.pathsIgnore)   -> "error"
    [] f.pathsIgnore # <<>> -> IF \E p \in paths : ~Ignores(f.pathsIgnore, p) THEN "match" ELSE "skip"
    [] OTHER                -> "match"

\* Push and PullRequest: only a push says which paths it changed.
ChangedPaths(e) == IF e.event = "push" THEN e.paths ELSE {}

\* A filter that names only the other kind of ref excludes this one.
MatchBranchFilter(f, e) ==
  LET branches == f.branches # <<>> \/ f.branchesIgnore # <<>>
      tags     == f.tags # <<>> \/ f.tagsIgnore # <<>>
      ref      == IF e.tag THEN FilterRef(f.tags, f.tagsIgnore, e.name)
                  ELSE FilterRef(f.branches, f.branchesIgnore, e.name)
  IN  IF (e.tag /\ branches /\ ~tags) \/ (~e.tag /\ tags /\ ~branches) THEN "skip"
      ELSE IF ref # "match" THEN ref ELSE FilterPath(f, ChangedPaths(e))

Matches(w, e) ==
  IF e.event \notin w.on THEN "skip"
  ELSE IF e.event = "pull_request" /\ w.types # {} /\ e.action \notin w.types THEN "skip"
  ELSE MatchBranchFilter(w.filter, e)

\* What handleFile does with one file: no run, a rejected run, or a real one.
Verdict(w, e) ==
  IF w.garbled THEN "reject"
  ELSE CASE Matches(w, e) = "error" -> "reject"
         [] Matches(w, e) = "skip"  -> "none"
         [] w.unsupported           -> "reject"
         [] OTHER                   -> "run"

----------------------------------------------------------------------------
Idle == [at |-> "due", file |-> 0, run |-> 0, number |-> 0, failed |-> FALSE, tries |-> 0, answer |-> "none"]

IngestInit ==
  /\ repoInst = 0 /\ runRows = <<>> /\ ingestFaults = 0
  /\ runNumbers = [p \in {WorkflowFile[i].path : i \in DOMAIN WorkflowFile} |-> 0]
  /\ handling = [d \in Webhook |-> Idle]

At(d, where) == handling[d].at = where
FileOf(d) == WorkflowFile[handling[d].file]
Goto(d, where) == handling' = [handling EXCEPT ![d].at = where]
Reply(d, answer) == handling' = [handling EXCEPT ![d].at = "over", ![d].answer = answer]
CallFails == /\ ingestFaults < MaxIngestFaults
             /\ ingestFaults' = ingestFaults + 1

\* A slip to guard against: the result of the last file is the result of the delivery.
EndOfFileLast(d, h, err) ==
  IF h.file < Len(WorkflowFile)
  THEN [h EXCEPT !.at = "read", !.file = @ + 1, !.run = 0, !.failed = err]
  ELSE [h EXCEPT !.at = "over", !.run = 0, !.answer = IF err THEN "error" ELSE "ok"]

\* The first error is kept, the other files are still handled, and the
\* handler answers when none is left.
FileDone(d, h, err) ==
  LET failed == h.failed \/ err
  IN  IF h.file < Len(WorkflowFile)
      THEN [h EXCEPT !.at = "read", !.file = @ + 1, !.run = 0, !.failed = failed]
      ELSE [h EXCEPT !.at = "over", !.run = 0, !.answer = IF failed THEN "error" ELSE "ok"]

\* Guard.allowed
Served(d) == d.account \in ServedAccount

\* The delivery arrives; the guard drops the accounts not served, and a push
\* that deleted its ref is ignored.  Both are answered with success.
Deliver(d) ==
  /\ \/ At(d, "due")
     \/ At(d, "over") /\ handling[d].answer \in {"error", "lost"} /\ handling[d].tries < MaxTries
  /\ LET dropped == ~Served(d) \/ d.gone
     IN  handling' = [handling EXCEPT ![d] =
           [Idle EXCEPT !.tries = handling[d].tries + 1,
                        !.at = IF dropped THEN "over" ELSE "repo",
                        !.answer = IF dropped THEN "ok" ELSE "none"]]
  /\ UNCHANGED <<repoInst, runRows, runNumbers, ingestFaults>>

\* repo: the row is created, or its installation id refreshed.  An
\* installation event does only this.
RecordRepo(d) ==
  /\ At(d, "repo")
  /\ \/ /\ repoInst' = d.inst
        /\ IF d.event = "installation" THEN Reply(d, "ok") ELSE Goto(d, "list")
        /\ UNCHANGED ingestFaults
     \/ CallFails /\ Reply(d, "error") /\ UNCHANGED repoInst
  /\ UNCHANGED <<runRows, runNumbers>>

ListFiles(d) ==
  /\ At(d, "list")
  /\ \/ /\ handling' = [handling EXCEPT ![d] =
             IF WorkflowFile = <<>> THEN [@ EXCEPT !.at = "over", !.answer = "ok"]
             ELSE [@ EXCEPT !.at = "read", !.file = 1]]
        /\ UNCHANGED ingestFaults
     \/ CallFails /\ Reply(d, "error")
  /\ UNCHANGED <<repoInst, runRows, runNumbers>>

\* handleFile up to its decision.
ReadFile(d) ==
  /\ At(d, "read")
  /\ \/ /\ IF Verdict(FileOf(d), d) = "none"
           THEN handling' = [handling EXCEPT ![d] = FileDone(d, @, FALSE)]
           ELSE Goto(d, "number")
        /\ UNCHANGED ingestFaults
     \/ CallFails /\ handling' = [handling EXCEPT ![d] = FileDone(d, @, TRUE)]
  /\ UNCHANGED <<repoInst, runRows, runNumbers>>

\* NextRunNumber allocates in one statement.
AllocateNumber(d) ==
  /\ At(d, "number")
  /\ \/ /\ runNumbers' = [runNumbers EXCEPT ![FileOf(d).path] = @ + 1]
        /\ handling' = [handling EXCEPT ![d].at = "create", ![d].number = runNumbers[FileOf(d).path] + 1]
        /\ UNCHANGED ingestFaults
     \/ CallFails /\ handling' = [handling EXCEPT ![d] = FileDone(d, @, TRUE)] /\ UNCHANGED runNumbers
  /\ UNCHANGED <<repoInst, runRows>>

CreateRun(d) ==
  /\ At(d, "create")
  /\ \/ /\ runRows' = Append(runRows, [path |-> FileOf(d).path, number |-> handling[d].number,
                                       payload |-> d, status |-> "queued", jobs |-> 0])
        /\ handling' = [handling EXCEPT ![d].run = Len(runRows) + 1,
             ![d].at = IF Verdict(FileOf(d), d) = "reject" \/ FileOf(d).jobs < 0 THEN "reject" ELSE "jobs"]
        /\ UNCHANGED ingestFaults
     \/ CallFails /\ handling' = [handling EXCEPT ![d] = FileDone(d, @, TRUE)] /\ UNCHANGED runRows
  /\ UNCHANGED <<repoInst, runNumbers>>

\* completeAsConfigError: the run ends; its event row may still fail.
RejectRun(d) ==
  /\ At(d, "reject")
  /\ \/ /\ runRows' = [runRows EXCEPT ![handling[d].run].status = "completed"]
        /\ \/ /\ handling' = [handling EXCEPT ![d] = FileDone(d, @, FALSE)]
              /\ UNCHANGED ingestFaults
           \/ CallFails /\ handling' = [handling EXCEPT ![d] = FileDone(d, @, TRUE)]
     \/ CallFails /\ handling' = [handling EXCEPT ![d] = FileDone(d, @, TRUE)] /\ UNCHANGED runRows
  /\ UNCHANGED <<repoInst, runNumbers>>

\* StartRun: a plan with no jobs is refused, every job is a row of its own,
\* and the run is in progress only after all of them.
StartRun(d) ==
  LET r == handling[d].run
      planned == FileOf(d).jobs
  IN /\ At(d, "jobs")
     /\ \/ /\ runRows[r].jobs < planned
           /\ runRows' = [runRows EXCEPT ![r].jobs = @ + 1]
           /\ UNCHANGED <<handling, ingestFaults>>
        \/ /\ planned > 0 /\ runRows[r].jobs = planned
           /\ runRows' = [runRows EXCEPT ![r].status = "in_progress"]
           /\ handling' = [handling EXCEPT ![d] = FileDone(d, @, FALSE)]
           /\ UNCHANGED ingestFaults
        \/ /\ planned = 0
           /\ handling' = [handling EXCEPT ![d] = FileDone(d, @, TRUE)]
           /\ UNCHANGED <<runRows, ingestFaults>>
        \/ CallFails /\ handling' = [handling EXCEPT ![d] = FileDone(d, @, TRUE)] /\ UNCHANGED runRows
     /\ UNCHANGED <<repoInst, runNumbers>>

\* The process stops: every delivery being handled is lost, its rows stay.
IngestRestart ==
  /\ CallFails
  /\ handling' = [d \in Webhook |->
       IF handling[d].at \in {"due", "over"} THEN handling[d]
       ELSE [handling[d] EXCEPT !.at = "over", !.run = 0, !.answer = "lost"]]
  /\ UNCHANGED <<repoInst, runRows, runNumbers>>

IngestNext ==
  \/ \E d \in Webhook :
       \/ Deliver(d) \/ RecordRepo(d) \/ ListFiles(d) \/ ReadFile(d)
       \/ AllocateNumber(d) \/ CreateRun(d) \/ RejectRun(d) \/ StartRun(d)
  \/ IngestRestart

----------------------------------------------------------------------------
Accounted(d, w) ==
  \E i \in DOMAIN runRows :
    /\ runRows[i].payload = d /\ runRows[i].path = w.path
    /\ \/ runRows[i].status = "completed"
       \/ runRows[i].status = "in_progress" /\ runRows[i].jobs = w.jobs

(***************************************************************************)
(* A delivery answered with success left, for every file of the commit     *)
(* that its event selects or that cannot be read as a workflow, a run that *)
(* is finished as a configuration error or started with all of its jobs:   *)
(* no failure on one file is hidden by the files after it, and no run      *)
(* stays half created (Handle, handleFile, StartRun).                      *)
(***************************************************************************)
SuccessLeavesNothingOut ==
  \A d \in Webhook :
    /\ handling[d].answer = "ok" /\ Served(d)
    /\ ~d.gone /\ d.event # "installation"
    => \A i \in DOMAIN WorkflowFile :
         Verdict(WorkflowFile[i], d) # "none" => Accounted(d, WorkflowFile[i])
=============================================================================
