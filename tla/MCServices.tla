----------------------------- MODULE MCServices -----------------------------
(* One small instance of every component that shares no state with the others:
   the store and its in-memory double, the reducers, and the services around
   the scheduler. A behaviour is one component's: `turn` names it, and the
   others keep their initial state. So the states of the run are the states of
   the components side by side, and each property is about its own. *)
EXTENDS MemStore, ConclusionScan, LogStore, ChecksReporter, CacheService, Artifacts,
        Enrolment, RunnerHost, StepRunner, JobGraph, Matrix, Ingest, IdTokens,
        GitHubClient, Sandbox, StepOutput, Conditions, ActionCache

CONSTANTS r1, r2, u1

VARIABLE turn

-----------------------------------------------------------------------------
(* The store: two jobs, one of which only one of the two runners may take. The
   store tells completed rows from the others; a caller's copy may have either
   attempt. *)
MCJob == {1, 2}
MCRunner == {r1, r2}
MCJobLabels == [j \in MCJob |-> IF j = 1 THEN {"linux"} ELSE {}]
MCRunnerLabels == (r1 :> {"linux"}) @@ (r2 :> {})
MCRest == {"rest"}
MCClientRows ==
  [status : {"queued", "completed"}, attempt : 1..MaxAttempt, runner : {NoRunner},
   setup : {FALSE}, queued : {TRUE}, rest : MCRest]

(* Only job 1 is tried again. *)
TriedOnce(rows) == 2 \in DOMAIN rows => rows[2].attempt <= 1

(* A time-out differs from a failure in rank only, and stale is read as neutral;
   the theorems of ConclusionProofs are about all conclusions. *)
MCConclusions == Conclusions \ {"timed_out", "stale"}

(* Three updates of a check run, each with one annotation more. *)
MCAnnCount == <<1, 2, 3>>

(* The default branch may write the cache, a topic branch may only read. *)
MCCacheToken == {[ref |-> "main", read |-> TRUE, write |-> TRUE],
                 [ref |-> "topic", read |-> TRUE, write |-> FALSE]}
MCCacheKey == {<<"go">>}
MCChunk == {<<0, 1>>, <<1, 1>>}
MCDeclaredSize == {-1, 2}

MCUpload == {<<1, 2>>}

(* A host's clock may be off by more than the window on one side. *)
MCHostSkew == {-2, -1, 1}

(* Steps: a script, a JavaScript action with a post entrypoint, a composite. *)
Plain(cond, coe) == [cond |-> cond, coe |-> coe, kind |-> "run", body |-> <<>>]
Js(coe) == [cond |-> "", coe |-> coe, kind |-> "js", body |-> <<>>]
Composite(coe, body) == [cond |-> "", coe |-> coe, kind |-> "composite", body |-> body]
MCJobPlan ==
  {<<Js(FALSE), Plain("failure", FALSE), Js(TRUE)>>,
   <<Composite(FALSE, <<Plain("", FALSE), Plain("always", TRUE)>>), Plain("success", FALSE)>>,
   <<Composite(TRUE, <<Plain("", FALSE), Js(FALSE), Plain("", FALSE)>>), Plain("broken", TRUE)>>}

MCMatrixKeys == <<"os", "x">>
MCMatrixValue == <<1, 2>>

(* A push to main, a pull request and a push of an account
   nobody serves; a workflow for some branches and paths, one with a bad
   pattern, and one for pull requests that plans no job. *)
NoFilter == [branches |-> <<>>, branchesIgnore |-> <<>>, tags |-> <<>>, tagsIgnore |-> <<>>,
             paths |-> <<>>, pathsIgnore |-> <<>>]
Glob(names, neg) == [names |-> names, neg |-> neg, bad |-> FALSE]
Workflow(path, filter, legs) ==
  [path |-> path, garbled |-> FALSE, on |-> {"push"}, types |-> {"opened"},
   filter |-> filter, unsupported |-> FALSE, jobs |-> legs]
MCWorkflowFile ==
  <<Workflow("ci", [NoFilter EXCEPT !.branches = <<Glob({"main", "dev"}, FALSE), Glob({"dev"}, TRUE)>>,
                                    !.pathsIgnore = <<Glob({"b"}, FALSE)>>], 2),
    Workflow("lint", [NoFilter EXCEPT !.branches = <<[Glob({}, FALSE) EXCEPT !.bad = TRUE]>>], 1),
    [Workflow("docs", NoFilter, 0) EXCEPT !.on = {"pull_request"}]>>
Hook(event, account, inst) ==
  [event |-> event, action |-> "opened", account |-> account, gone |-> FALSE, tag |-> FALSE,
   name |-> "main", paths |-> {"a"}, inst |-> inst]
MCWebhook == {Hook("push", "us", 1), Hook("pull_request", "us", 1), Hook("push", "them", 3)}

(* A step that opens a group, pauses the commands and resumes them, and writes
   to the other stream meanwhile, which may resume them before; both end without
   a newline. *)
MCScript ==
  {[stdout |-> <<"group", "a", "nl", "stop", "t", "nl", "endgroup", "nl", "t", "nl", "x">>,
    stderr |-> <<"t", "y", "nl", "endgroup", "nl", "x">>]}

(* Strings 0 to 4 stand for "", "os", "OS", "1" and "01". *)
MCFold == [s \in 0..4 |-> <<1, 4, 4, 3, 2>>[s + 1]]
MCParsed == [s \in 0..4 |-> CASE s = 0 -> {0} [] s \in {1, 2} -> {} [] OTHER -> {1}]
MCObject == [t |-> "object", v |-> 1,
             elems |-> <<[key |-> 1, val |-> Scalar("num", 1)], [key |-> 3, val |-> Scalar("str", 2)]>>]
MCLeaf ==
  {Null, Bool(TRUE), Bool(FALSE), Scalar("num", 1), Scalar("str", 0), Scalar("str", 2), Scalar("str", 4),
   MCObject, [t |-> "array", v |-> 2, elems |-> <<[key |-> 0, val |-> MCObject]>>]}

-----------------------------------------------------------------------------
Turns == {"store", "memory", "reducers", "log", "checks", "cache", "artifacts", "enrolment",
          "hosts", "steps", "graph", "matrix", "ingest", "tokens", "github", "sandbox",
          "output", "conditions", "actions"}

(* Where a component has several initial states, one of them will do for the
   behaviours of the others. *)
ServicesInit ==
  /\ turn \in Turns
  /\ StoreInit /\ MemInit /\ Init /\ LogInit /\ ReporterInit /\ ArtInit
  /\ IngestInit /\ TokenInit /\ HubInit /\ BoxInit /\ OutputInit
  /\ CacheInit /\ (turn # "cache" => ~staging)
  /\ EnrolInit /\ (turn # "enrolment" => skew \in [Host -> {1}])
  /\ RunnerHostInit /\ (turn # "hosts" => runners = 1)
  /\ StepRunnerInit /\ (turn # "steps" => StepNow = Js(FALSE))
  /\ JobGraphInit /\ (turn # "graph" => needs \in [Declared -> {{}}])
  /\ MatrixInit /\ (turn # "matrix" => matrix.dims = {})
  /\ ConditionInit /\ (turn # "conditions" => tree[1].op = "always")
  /\ ActionInit /\ (turn # "actions" => branch = "c1")

Others(t) ==
  /\ UNCHANGED turn
  /\ t # "store" => UNCHANGED storeVars
  /\ t # "memory" => UNCHANGED memVars
  /\ t # "reducers" => UNCHANGED vars
  /\ t # "log" => UNCHANGED logVars
  /\ t # "checks" => UNCHANGED chkVars
  /\ t # "cache" => UNCHANGED cacheVars
  /\ t # "artifacts" => UNCHANGED artVars
  /\ t # "enrolment" => UNCHANGED enrolVars
  /\ t # "hosts" => UNCHANGED hostVars
  /\ t # "steps" => UNCHANGED stepVars
  /\ t # "graph" => UNCHANGED graphVars
  /\ t # "matrix" => UNCHANGED matrix
  /\ t # "ingest" => UNCHANGED ingestVars
  /\ t # "tokens" => UNCHANGED tokenVars
  /\ t # "github" => UNCHANGED hubVars
  /\ t # "sandbox" => UNCHANGED boxVars
  /\ t # "output" => UNCHANGED outputVars
  /\ t # "conditions" => UNCHANGED conditionVars
  /\ t # "actions" => UNCHANGED actionVars

ServicesNext ==
  \/ turn = "store" /\ StoreNext /\ TriedOnce(jobs') /\ Others(turn)
  \/ turn = "memory" /\ MemNext /\ TriedOnce(memJobs') /\ Others(turn)
  \/ turn = "reducers" /\ (\E c \in MCConclusions, coe \in BOOLEAN : Read(c, coe)) /\ Others(turn)
  \/ turn = "log" /\ LogNext /\ Others(turn)
  \/ turn = "checks" /\ ReporterNext /\ Others(turn)
  \/ turn = "cache" /\ CacheNext /\ Others(turn)
  \/ turn = "artifacts" /\ ArtNext /\ Others(turn)
  \/ turn = "enrolment" /\ EnrolNext /\ Others(turn)
  \/ turn = "hosts" /\ RunnerHostNext /\ Others(turn)
  \/ turn = "steps" /\ StepRunnerNext /\ Others(turn)
  \/ turn = "graph" /\ JobGraphNext /\ Others(turn)
  \/ turn = "matrix" /\ MatrixNext /\ Others(turn)
  \/ turn = "ingest" /\ IngestNext /\ Others(turn)
  \/ turn = "tokens" /\ TokenNext /\ Others(turn)
  \/ turn = "github" /\ HubNext /\ Others(turn)
  \/ turn = "sandbox" /\ BoxNext /\ Others(turn)
  \/ turn = "output" /\ OutputNext /\ Others(turn)
  \/ turn = "conditions" /\ ConditionNext /\ Others(turn)
  \/ turn = "actions" /\ ActionNext /\ Others(turn)

ServicesSpec ==
  ServicesInit /\ [][ServicesNext]_<<turn, storeVars, memVars, vars, logVars, chkVars, cacheVars,
    artVars, enrolVars, hostVars, stepVars, graphVars, matrix, ingestVars, tokenVars, hubVars,
    boxVars, outputVars, conditionVars, actionVars>>
=============================================================================
