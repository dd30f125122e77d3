--------------------------- MODULE ConclusionScan ---------------------------
(***************************************************************************)
(* The loops of model.Aggregate and scheduler.needsResult, one element of  *)
(* the slice per step.  `seen` is what the loops have read so far (order   *)
(* and multiplicity are forgotten: the answers must not depend on them,    *)
(* and the scans below, which do read in order, show that they do not),    *)
(* `agg` and `need` are the local variables of the two functions.          *)
(*                                                                         *)
(* ContinueOnError is applied where computeNeeds applies it: to the value  *)
(* needsResult reads, never to the value Aggregate reports.                *)
(***************************************************************************)
EXTENDS Conclusions

VARIABLES
  seen,     \* the conclusions Aggregate has read
  masked,   \* the conclusions needsResult has read, after continue-on-error
  agg,      \* Aggregate's locals: worst and the four saw flags
  need      \* needsResult's locals: failed stands for its early return

vars == <<seen, masked, agg, need>>

NoWorst == "none"

AggLocals == [worst : FailureConclusions \cup {NoWorst}, skipped : BOOLEAN,
              success : BOOLEAN, cancelled : BOOLEAN, neutral : BOOLEAN]

NeedLocals == [failed : BOOLEAN, success : BOOLEAN, cancelled : BOOLEAN,
               skipped : BOOLEAN]

-----------------------------------------------------------------------------
\* A slip to guard against: the last failure read wins, not the worst.
AggStepLast(a, c) ==
  [worst     |-> IF IsFailure(c) THEN c ELSE a.worst,
   skipped   |-> a.skipped   \/ c = "skipped",
   success   |-> a.success   \/ c = "success",
   cancelled |-> a.cancelled \/ c = "cancelled",
   neutral   |-> a.neutral   \/ c \in {"neutral", "stale"}]

\* The body of Aggregate's loop.
AggStep(a, c) ==
  [worst     |-> IF IsFailure(c) /\ (a.worst = NoWorst \/ Rank(c) > Rank(a.worst))
                 THEN c ELSE a.worst,
   skipped   |-> a.skipped   \/ c = "skipped",
   success   |-> a.success   \/ c = "success",
   cancelled |-> a.cancelled \/ c = "cancelled",
   neutral   |-> a.neutral   \/ c \in {"neutral", "stale"}]

\* What Aggregate returns for the locals it ends with (some: the slice was
\* not empty).
AggResult(a, some) ==
  IF ~some THEN "neutral"
  ELSE IF a.worst # NoWorst THEN a.worst
  ELSE IF a.cancelled THEN "cancelled"
  ELSE IF a.neutral THEN "neutral"
  ELSE IF a.skipped /\ ~a.success THEN "skipped"
  ELSE IF a.skipped THEN "neutral"
  ELSE "success"

\* The body of needsResult's loop: nothing after a failure is read.
NeedStep(n, c) ==
  IF n.failed THEN n
  ELSE [failed    |-> IsFailure(c),
        success   |-> n.success   \/ (~IsFailure(c) /\ c \notin {"cancelled", "skipped"}),
        cancelled |-> n.cancelled \/ c = "cancelled",
        skipped   |-> n.skipped   \/ c = "skipped"]

\* A slip to guard against: one success hides the cancelled legs.
NeedAnswerSuccessFirst(n, some) ==
  IF ~some THEN "skipped"
  ELSE IF n.failed THEN "failure"
  ELSE IF n.success THEN "success"
  ELSE IF n.cancelled THEN "cancelled"
  ELSE IF n.skipped THEN "skipped"
  ELSE "success"

\* What needsResult returns.
NeedAnswer(n, some) ==
  IF ~some THEN "skipped"
  ELSE IF n.failed THEN "failure"
  ELSE IF n.cancelled THEN "cancelled"
  ELSE IF n.success THEN "success"
  ELSE IF n.skipped THEN "skipped"
  ELSE "success"

\* computeNeeds: a continue-on-error failure counts as success for dependents.
Mask(c, continueOnError) == IF IsFailure(c) /\ continueOnError THEN "success" ELSE c

-----------------------------------------------------------------------------
Init ==
  /\ seen = {}
  /\ masked = {}
  /\ agg = [worst |-> NoWorst, skipped |-> FALSE, success |-> FALSE,
            cancelled |-> FALSE, neutral |-> FALSE]
  /\ need = [failed |-> FALSE, success |-> FALSE, cancelled |-> FALSE,
             skipped |-> FALSE]

\* One more leg of the run is read.
Read(c, continueOnError) ==
  /\ seen' = seen \cup {c}
  /\ masked' = masked \cup {Mask(c, continueOnError)}
  /\ agg' = AggStep(agg, c)
  /\ need' = NeedStep(need, Mask(c, continueOnError))

Next == \E c \in Conclusions, continueOnError \in BOOLEAN : Read(c, continueOnError)

Spec == Init /\ [][Next]_vars

Reported == AggResult(agg, seen # {})
Gate     == NeedAnswer(need, masked # {})

-----------------------------------------------------------------------------
\* The locals keep their types.
TypeOK ==
  /\ seen \subseteq Conclusions
  /\ masked \subseteq Conclusions
  /\ agg \in AggLocals
  /\ need \in NeedLocals

\* Whatever the order and the repetitions of the slice, Aggregate's loop
\* returns the worst failure if there is one, and otherwise the reduction the
\* set of conclusions calls for (status.go, Aggregate).
AggregateAgrees == Reported = Aggregate(seen)

\* needsResult returns early on a failure and so has read only part of the
\* slice; its answer is still that of the whole slice (readiness.go).
NeedsResultAgrees == Gate = NeedsResult(masked)

=============================================================================
