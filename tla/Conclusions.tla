---------------------------- MODULE Conclusions ----------------------------
(***************************************************************************)
(* The vocabulary of outcomes (internal/model/status.go) and the three     *)
(* pure decisions taken over it: how a run's jobs reduce to one conclusion *)
(* (Aggregate), how the legs of a needed job reduce to the value that      *)
(* gates its dependents (needsResult), and whether a retry policy permits  *)
(* another attempt (RetryPolicy.Retries).                                  *)
(*                                                                         *)
(* The loops of the source run over a slice and keep flags.  The operators *)
(* here are over the set of conclusions in the slice: ConclusionScan.tla   *)
(* holds the loops themselves and the run that compares the two.           *)
(***************************************************************************)
EXTENDS Integers

Conclusions ==
  {"success", "failure", "neutral", "cancelled", "timed_out",
   "action_required", "skipped", "stale", "infra_failure", "config_error"}

FailureConclusions ==
  {"failure", "timed_out", "infra_failure", "config_error", "action_required"}

IsFailure(c) == c \in FailureConclusions

FailureClasses == {"", "user", "infra", "config"}

\* FailureClass.Conclusion: the conclusion a class produces.
ClassConclusion ==
  [class \in FailureClasses |->
     CASE class = ""       -> "success"
       [] class = "user"   -> "failure"
       [] class = "infra"  -> "infra_failure"
       [] class = "config" -> "config_error"]

\* The severity order of Aggregate: higher is worse.
Rank(c) ==
  CASE c = "config_error"    -> 5
    [] c = "infra_failure"   -> 4
    [] c = "timed_out"       -> 3
    [] c = "failure"         -> 2
    [] c = "action_required" -> 1
    [] OTHER                 -> 0

\* The worst member of a set that holds a failure.
Worst(cs) == CHOOSE c \in cs : \A d \in cs : Rank(d) <= Rank(c)

\* Aggregate: what a run is reported as, given the conclusions of its jobs.
Aggregate(cs) ==
  IF cs \cap FailureConclusions # {} THEN Worst(cs)
  ELSE IF "cancelled" \in cs THEN "cancelled"
  ELSE IF cs \cap {"neutral", "stale"} # {} THEN "neutral"
  ELSE IF cs = {"skipped"} THEN "skipped"
  ELSE IF cs = {"success"} THEN "success"
  ELSE "neutral"

\* needsResult: what the needs context says of a needed job, given the
\* conclusions of its legs.
NeedsResult(cs) ==
  IF cs \cap FailureConclusions # {} THEN "failure"
  ELSE IF "cancelled" \in cs THEN "cancelled"
  ELSE IF cs \subseteq {"skipped"} THEN "skipped"
  ELSE "success"

\* RetryPolicy.Retries: attempt counts from 1, and an attempt numbered at or
\* past the policy's Attempts is the last one.
Retries(policy, class, attempt) ==
  /\ attempt < policy.attempts
  /\ class \in policy.on

=============================================================================
