---------------------------- MODULE MCScheduler ----------------------------
EXTENDS Scheduler, TLC

CONSTANTS r1, r2, t1, t2

PlannedJob == [run |-> 1, key |-> "build", needs |-> {}, cond |-> "success()",
               failFast |-> FALSE, maxParallel |-> 0, group |-> "",
               cancelInProgress |-> FALSE, continueOnError |-> FALSE,
               retry |-> [attempts |-> 2, on |-> {"infra"}]]

Ordinary == [group |-> "", cancelInProgress |-> FALSE, fork |-> FALSE]

\* Run 1: a build and two legs of a matrix that needs it.  Run 2: a deployment
\* in the build's concurrency group.
MCJob == {1, 2, 3, 4}
MCPlan ==
  (1 :> [PlannedJob EXCEPT !.group = "g"]) @@
  (2 :> [PlannedJob EXCEPT !.key = "test", !.needs = {"build"}, !.failFast = TRUE,
                           !.maxParallel = 1]) @@
  (3 :> [PlannedJob EXCEPT !.key = "test", !.needs = {"build"}, !.failFast = TRUE,
                           !.maxParallel = 1]) @@
  (4 :> [PlannedJob EXCEPT !.run = 2, !.key = "deploy", !.group = "g",
                           !.cancelInProgress = TRUE])
MCRunPlan == [r \in {1, 2} |-> Ordinary]
Succeeds == Result("success", "", "")
Fails == Result("failure", "user", "")
Breaks == Result("infra_failure", "infra", "")
MCResults == (1 :> {Succeeds, Breaks}) @@ (2 :> {Succeeds, Fails}) @@ (3 :> {Succeeds})
             @@ (4 :> {Succeeds})
MCJobLabels == [j \in Job |-> {}]
MCRunnerLabels == [r \in Runner |-> {}]

\* Three runs of one workflow group: the second waits for the first, the third
\* cancels the others and is held for approval.
OpsPlan ==
  (1 :> [PlannedJob EXCEPT !.run = 1]) @@
  (2 :> [PlannedJob EXCEPT !.run = 2]) @@
  (3 :> [PlannedJob EXCEPT !.run = 3])
OpsRunPlan ==
  (1 :> [Ordinary EXCEPT !.group = "w"]) @@
  (2 :> [Ordinary EXCEPT !.group = "w"]) @@
  (3 :> [Ordinary EXCEPT !.group = "w", !.cancelInProgress = TRUE, !.fork = TRUE])
OpsResults == [j \in {1, 2, 3} |-> {Succeeds}]

\* A run: two legs of a matrix, one at a time, and what needs both.  A second
\* run, in the concurrency group of the first leg.
OverlapPlan ==
  (1 :> [PlannedJob EXCEPT !.key = "test", !.maxParallel = 1, !.group = "g"]) @@
  (2 :> [PlannedJob EXCEPT !.key = "test", !.maxParallel = 1]) @@
  (3 :> [PlannedJob EXCEPT !.key = "deploy", !.needs = {"test"}, !.cond = "always()"]) @@
  (4 :> [PlannedJob EXCEPT !.run = 2, !.group = "g"])
OverlapRunPlan == [r \in {1, 2} |-> Ordinary]
OverlapResults == [j \in 1..4 |-> IF j = 1 THEN {Succeeds, Breaks} ELSE {Succeeds}]

\* A build and what needs it.
PairPlan ==
  (1 :> PlannedJob) @@ (2 :> [PlannedJob EXCEPT !.key = "test", !.needs = {"build"}])
PairResults == [j \in {1, 2} |-> {Succeeds}]

\* Calls are interchangeable, and so are runners with the same labels.
OverlapSymmetry == Permutations(Call) \cup Permutations(Runner)

=============================================================================
