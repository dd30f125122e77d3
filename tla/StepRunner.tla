----------------------------- MODULE StepRunner -----------------------------
(***************************************************************************)
(* The executor of one job attempt, internal/runner/exec: its steps in     *)
(* order, a composite action's steps inside their own scope, the attempts  *)
(* of a step, the post entrypoints, and the verdict that comes out.  The   *)
(* recursion of runStep through runComposite is a stack of frames; what a  *)
(* command does is any outcome its kind can have; the job may be cancelled *)
(* between any two steps.                                                  *)
(***************************************************************************)
EXTENDS Conclusions, SequencesExt

CONSTANTS
  JobPlan,   \* the step lists a job may have
  StepTries, \* the attempts of the assignment's retry policy
  RetryOn    \* the failure classes that policy retries

ASSUME StepRunnerAssumption ==
  /\ StepTries \in Nat \ {0}
  /\ RetryOn \subseteq {"infra", "user", "config"}

VARIABLES
  frames,       \* the scopes under way: the job's, then a composite's in it
  stage,        \* where runStep is: "decide", "attempt", "settle", "wait", "posts", "over"
  raw,          \* the last attempt's outcome: "ok" or the class of its failure
  jobFailed,    \* the executor's failed
  firstFailure, \* the class of its firstFailure, "nil" when there is none
  jobCancelled, \* the job's context is done
  posts,        \* the deferred post entrypoints: the step each belongs to
  registered,   \* ghost: every post entrypoint that was ever deferred
  postsRun,     \* the post entrypoints that were tried
  stepResults,  \* the conclusions of the job's own steps
  verdict       \* what Run returned

stepVars == <<frames, stage, raw, jobFailed, firstFailure, jobCancelled, posts,
              registered, postsRun, stepResults, verdict>>

Frame(body) == [body |-> body, at |-> 1, try |-> 1, failed |-> FALSE]
Depth == Len(frames)
Scope == frames[Depth]
Nested == Depth > 1
Exhausted == Scope.at > Len(Scope.body)
StepNow == Scope.body[Scope.at]

StepRunnerInit ==
  /\ \E body \in JobPlan : frames = <<Frame(body)>>
  /\ stage = "decide" /\ raw = "ok"
  /\ jobFailed = FALSE /\ firstFailure = "nil" /\ jobCancelled = FALSE
  /\ posts = <<>> /\ registered = <<>> /\ postsRun = <<>>
  /\ stepResults = <<>> /\ verdict = ""

(***************************************************************************)
(* How a step ends.                                                        *)
(***************************************************************************)
\* A cancelled step's failure belongs to nobody.
Classified(class) == IF jobCancelled THEN "" ELSE class

\* A slip to guard against: a later step forgives an earlier failure.
EndStepForgiving(conclusion, class, fails) ==
  /\ frames' = [frames EXCEPT ![Depth].at = @ + 1, ![Depth].try = 1,
                              ![Depth].failed = @ \/ (Nested /\ fails)]
  /\ jobFailed' = (jobFailed \/ (~Nested /\ fails))
  /\ firstFailure' = IF fails THEN class ELSE "nil"
  /\ stepResults' = IF Nested THEN stepResults ELSE Append(stepResults, conclusion)
  /\ stage' = "decide"
  /\ UNCHANGED <<raw, jobCancelled, posts, registered, postsRun, verdict>>

\* finish, markFailed and firstFailure: the last does not ask for the scope.
EndStep(conclusion, class, fails) ==
  /\ frames' = [frames EXCEPT ![Depth].at = @ + 1, ![Depth].try = 1,
                              ![Depth].failed = @ \/ (Nested /\ fails)]
  /\ jobFailed' = (jobFailed \/ (~Nested /\ fails))
  /\ firstFailure' = IF fails /\ firstFailure = "nil" THEN class ELSE firstFailure
  /\ stepResults' = IF Nested THEN stepResults ELSE Append(stepResults, conclusion)
  /\ stage' = "decide"
  /\ UNCHANGED <<raw, jobCancelled, posts, registered, postsRun, verdict>>

\* completeFailure
FailStep(class) ==
  LET outcome == IF class = "" THEN "cancelled" ELSE ClassConclusion[class] IN
  EndStep(IF StepNow.coe THEN "success" ELSE outcome, class, ~StepNow.coe)

(***************************************************************************)
(* shouldRun.  A step without a condition asks its own scope; success()    *)
(* and failure() ask the job, whatever the scope.                          *)
(***************************************************************************)
ScopeFailed == IF Nested THEN Scope.failed ELSE jobFailed

ConditionHolds ==
  CASE StepNow.cond = "" -> ~ScopeFailed
    [] StepNow.cond = "always" -> TRUE
    [] StepNow.cond = "success" -> ~jobFailed
    [] StepNow.cond = "failure" -> jobFailed
    [] OTHER -> FALSE

Deciding == stage = "decide" /\ ~Exhausted

SkipStep ==
  /\ Deciding
  /\ jobCancelled \/ (StepNow.cond # "broken" /\ ~ConditionHolds)
  /\ EndStep("skipped", "", FALSE)

ConditionFails ==
  /\ Deciding
  /\ ~jobCancelled /\ StepNow.cond = "broken"
  /\ FailStep("config")

BeginStep ==
  /\ Deciding
  /\ ~jobCancelled /\ ConditionHolds
  /\ stage' = "attempt"
  /\ UNCHANGED <<frames, raw, jobFailed, firstFailure, jobCancelled, posts,
                 registered, postsRun, stepResults, verdict>>

(***************************************************************************)
(* One attempt.                                                            *)
(***************************************************************************)
Attempting(kind) == stage = "attempt" /\ StepNow.kind = kind

AttemptEnds(outcome) ==
  /\ raw' = outcome /\ stage' = "settle"
  /\ UNCHANGED <<frames, jobFailed, firstFailure, jobCancelled, postsRun,
                 stepResults, verdict>>

\* The sandbox could not prepare the attempt, whatever it was to run.
SetupFails ==
  /\ stage = "attempt"
  /\ AttemptEnds("infra")
  /\ UNCHANGED <<posts, registered>>

\* The script, and the env files it left: a malformed one fails the step.
RunScript ==
  /\ Attempting("run")
  /\ \E outcome \in {"ok", "user", "infra", "config"} : AttemptEnds(outcome)
  /\ UNCHANGED <<posts, registered>>

\* The action cannot be fetched, or its pre entrypoint fails.
ActionFails ==
  /\ Attempting("js") \/ Attempting("composite")
  /\ \E outcome \in {"infra", "config", "user"} :
       /\ outcome = "user" => StepNow.kind = "js"
       /\ AttemptEnds(outcome)
  /\ UNCHANGED <<posts, registered>>

\* The post entrypoint is deferred before main runs, in every attempt.
RunJavaScript ==
  /\ Attempting("js")
  /\ \E outcome \in {"ok", "user", "infra"} : AttemptEnds(outcome)
  /\ posts' = Append(posts, Scope.at)
  /\ registered' = Append(registered, Scope.at)

EnterComposite ==
  /\ Attempting("composite")
  /\ frames' = Append(frames, Frame(StepNow.body))
  /\ stage' = "decide"
  /\ UNCHANGED <<raw, jobFailed, firstFailure, jobCancelled, posts, registered,
                 postsRun, stepResults, verdict>>

\* However its steps failed, the composite's own failure is the user's.
LeaveComposite ==
  /\ stage = "decide" /\ Nested /\ Exhausted
  /\ raw' = IF Scope.failed THEN "user" ELSE "ok"
  /\ frames' = Front(frames)
  /\ stage' = "settle"
  /\ UNCHANGED <<jobFailed, firstFailure, jobCancelled, posts, registered,
                 postsRun, stepResults, verdict>>

(***************************************************************************)
(* After an attempt: success, another attempt or the failure.              *)
(***************************************************************************)
RetriesStep(class) == Retries([attempts |-> StepTries, on |-> RetryOn], class, Scope.try)

StepSucceeds ==
  /\ stage = "settle" /\ raw = "ok"
  /\ EndStep("success", "", FALSE)

StepFails ==
  /\ stage = "settle" /\ raw # "ok"
  /\ ~RetriesStep(Classified(raw))
  /\ FailStep(Classified(raw))

StepWaits ==
  /\ stage = "settle" /\ raw # "ok"
  /\ RetriesStep(Classified(raw))
  /\ stage' = "wait"
  /\ UNCHANGED <<frames, raw, jobFailed, firstFailure, jobCancelled, posts,
                 registered, postsRun, stepResults, verdict>>

\* The timer may win even when the context is done.
RetryStep ==
  /\ stage = "wait"
  /\ frames' = [frames EXCEPT ![Depth].try = @ + 1]
  /\ stage' = "attempt"
  /\ UNCHANGED <<raw, jobFailed, firstFailure, jobCancelled, posts, registered,
                 postsRun, stepResults, verdict>>

RetryAbandoned ==
  /\ stage = "wait" /\ jobCancelled
  /\ FailStep("")

(***************************************************************************)
(* The end of the job: the posts, last first, and the verdict.             *)
(***************************************************************************)
StepsDone ==
  /\ stage = "decide" /\ ~Nested /\ Exhausted
  /\ stage' = "posts"
  /\ UNCHANGED <<frames, raw, jobFailed, firstFailure, jobCancelled, posts,
                 registered, postsRun, stepResults, verdict>>

\* The turn of the last one left: it is tried, or dropped.
PostTurn(dropped) ==
  /\ stage = "posts" /\ posts # <<>>
  /\ postsRun' = IF dropped THEN postsRun ELSE Append(postsRun, Last(posts))
  /\ posts' = Front(posts)
  /\ UNCHANGED <<frames, stage, raw, jobFailed, firstFailure, jobCancelled,
                 registered, stepResults, verdict>>

\* A slip to guard against: a job that failed cleans nothing up.
RunPostUnlessFailed == PostTurn(jobFailed \/ jobCancelled)

\* Run hands it the job's own context, and no command starts under one that is
\* done.  What it comes to is a result of its own and changes nothing else.
RunPost == PostTurn(jobCancelled)

ReturnResult ==
  /\ stage = "posts" /\ posts = <<>>
  /\ verdict' = IF jobCancelled THEN "cancelled"
                ELSE IF firstFailure # "nil" THEN ClassConclusion[firstFailure]
                ELSE "success"
  /\ stage' = "over"
  /\ UNCHANGED <<frames, raw, jobFailed, firstFailure, jobCancelled, posts,
                 registered, postsRun, stepResults>>

JobCancelled ==
  /\ stage # "over" /\ ~jobCancelled
  /\ jobCancelled' = TRUE
  /\ UNCHANGED <<frames, stage, raw, jobFailed, firstFailure, posts, registered,
                 postsRun, stepResults, verdict>>

StepRunnerNext ==
  \/ SkipStep
  \/ ConditionFails
  \/ BeginStep
  \/ SetupFails
  \/ RunScript
  \/ ActionFails
  \/ RunJavaScript
  \/ EnterComposite
  \/ LeaveComposite
  \/ StepSucceeds
  \/ StepFails
  \/ StepWaits
  \/ RetryStep
  \/ RetryAbandoned
  \/ StepsDone
  \/ RunPost
  \/ ReturnResult
  \/ JobCancelled

\* A job reported successful had no step, at whatever depth its failure arose,
\* that failed and was not excused, whatever steps succeeded after it.
GreenIsEarned ==
  verdict = "success" =>
    ~jobFailed /\ \A i \in DOMAIN stepResults : stepResults[i] \in {"success", "skipped"}

\* What the actions deferred is cleaned up last first, each once, and never with
\* a gap; and in a job that came to its end by itself, however it failed, all of
\* it is ("Post entrypoints run even when the job has already failed", exec.go).
\* From the moment the job is cancelled, loses its lease or its runner shuts
\* down none of the rest runs, since runPost's commands have the job's context:
\* that is what the code does, whatever action.go:187 says of "the job's outcome".
PostsCleanUp ==
  /\ IsPrefix(postsRun, Reverse(registered))
  /\ verdict \notin {"", "cancelled"} => postsRun = Reverse(registered)

\* step.go:195-196, completeFailure: with continue-on-error "the step still
\* reports what really happened; only the job's verdict changes".  So a job all
\* of whose steps were concluded successful is a successful job.
ExcusedFailuresExcuse ==
  verdict \notin {"", "cancelled"} /\ (\A i \in DOMAIN stepResults : stepResults[i] \in {"success", "skipped"})
    => verdict = "success"
=============================================================================
