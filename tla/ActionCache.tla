----------------------------- MODULE ActionCache -----------------------------
(* The cache of downloaded actions of a runner:
   internal/runner/actions/resolver.go.

   An action is cached as a directory named by repository and commit. download
   extracts the archive file by file into dir.tmp, writes the marker into it,
   removes dir and renames dir.tmp to it; a directory with the marker is warm
   and is used without looking further. The process may be killed between any
   two of these calls, and a runner that starts again finds what is on disk.
   A fetch, and every file operation, may fail; the deferred RemoveAll of
   dir.tmp may fail as well and nobody is told.

   One job at a time resolves actions, as on a runner of capacity 1, which is
   the default (cmd/ci-runner/run.go); jobs of a larger runner share dir.tmp
   and are not modelled. A branch moves on the code host; refs remembers for
   the life of the process which commit it was. *)
EXTENDS Integers, FiniteSets

CONSTANTS
    Commit,          \* the commits of the action's repository
    ActionFiles,     \* the files in its archive
    MaxResolves,     \* how many uses of the action are resolved
    MaxCacheCrashes  \* how many faults and kills there are

VARIABLES
    branch,     \* the commit the branch is at
    knownRef,   \* the commit the process resolved it to, if any
    warm,       \* by commit, what is in dir, including the marker
    tmpDir,     \* by commit, what is in dir.tmp
    fetching,   \* the commit being downloaded, if any
    extracting, \* which call of download is next
    resolved,   \* the uses served: the commit and the files seen
    cacheBudget \* [resolves, crashes] left

actionVars == <<branch, knownRef, warm, tmpDir, fetching, extracting, resolved, cacheBudget>>

NoActionCommit == "none"
Marker == "marker"
NoDir == {"absent"}

(* The marker is told apart from the files of the archive. *)
ASSUME ActionFilesAssumption == Marker \notin ActionFiles

ActionInit ==
    /\ branch \in Commit
    /\ knownRef = NoActionCommit
    /\ warm = [c \in Commit |-> NoDir] /\ tmpDir = [c \in Commit |-> NoDir]
    /\ fetching = NoActionCommit /\ extracting = "idle"
    /\ resolved = {}
    /\ cacheBudget = [resolves |-> MaxResolves, crashes |-> MaxCacheCrashes]

BranchMoves ==
    /\ branch' \in Commit \ {branch}
    /\ UNCHANGED <<knownRef, warm, tmpDir, fetching, extracting, resolved, cacheBudget>>

IsPopulated(c) == Marker \in warm[c]
Serve(c, files) == resolved' = resolved \union {[commit |-> c, files |-> files \ {Marker}]}

(* Resolve: the ref is asked for once in a process; a warm directory is used,
   anything else is downloaded. *)
ResolveAction ==
    /\ fetching = NoActionCommit /\ cacheBudget.resolves > 0
    /\ cacheBudget' = [cacheBudget EXCEPT !.resolves = @ - 1]
    /\ LET c == IF knownRef = NoActionCommit THEN branch ELSE knownRef
       IN /\ knownRef' = c
          /\ IF IsPopulated(c)
             THEN Serve(c, warm[c]) /\ UNCHANGED <<fetching, extracting>>
             ELSE fetching' = c /\ extracting' = "clear" /\ UNCHANGED resolved
    /\ UNCHANGED <<branch, warm, tmpDir>>

(* The calls of download in their order. What RemoveAll and MkdirAll, or
   RemoveAll and Rename, do between them nobody looks at but after a kill. *)
ClearTmp ==
    /\ extracting = "clear"
    /\ tmpDir' = [tmpDir EXCEPT ![fetching] = {}]
    /\ extracting' = "extract"
    /\ UNCHANGED <<branch, knownRef, warm, fetching, resolved, cacheBudget>>

ExtractFile ==
    /\ extracting = "extract"
    /\ \E f \in ActionFiles \ tmpDir[fetching] : tmpDir' = [tmpDir EXCEPT ![fetching] = @ \union {f}]
    /\ UNCHANGED <<branch, knownRef, warm, fetching, extracting, resolved, cacheBudget>>

(* A slip to guard against: the marker is written when the directory is made,
   so that the extraction cannot fail after it. *)
MarkFirst ==
    /\ extracting = "extract"
    /\ tmpDir' = [tmpDir EXCEPT ![fetching] = @ \union {Marker}]
    /\ extracting' = "remove"
    /\ UNCHANGED <<branch, knownRef, warm, fetching, resolved, cacheBudget>>

WriteMarker ==
    /\ extracting = "extract" /\ ActionFiles \subseteq tmpDir[fetching]
    /\ tmpDir' = [tmpDir EXCEPT ![fetching] = @ \union {Marker}]
    /\ extracting' = "remove"
    /\ UNCHANGED <<branch, knownRef, warm, fetching, resolved, cacheBudget>>

RemoveDir ==
    /\ extracting = "remove"
    /\ warm' = [warm EXCEPT ![fetching] = NoDir]
    /\ extracting' = "rename"
    /\ UNCHANGED <<branch, knownRef, tmpDir, fetching, resolved, cacheBudget>>

RenameTmp ==
    /\ extracting = "rename"
    /\ warm' = [warm EXCEPT ![fetching] = tmpDir[fetching]]
    /\ tmpDir' = [tmpDir EXCEPT ![fetching] = NoDir]
    /\ Serve(fetching, tmpDir[fetching])
    /\ fetching' = NoActionCommit /\ extracting' = "idle"
    /\ UNCHANGED <<branch, knownRef, cacheBudget>>

CacheFault ==
    /\ cacheBudget.crashes > 0
    /\ cacheBudget' = [cacheBudget EXCEPT !.crashes = @ - 1]

(* A call fails: the download is given up and dir.tmp removed, or a part of it
   when that fails too. *)
DownloadFails ==
    /\ CacheFault /\ fetching # NoActionCommit
    /\ \E left \in SUBSET tmpDir[fetching] \union {NoDir} : tmpDir' = [tmpDir EXCEPT ![fetching] = left]
    /\ fetching' = NoActionCommit /\ extracting' = "idle"
    /\ UNCHANGED <<branch, knownRef, warm, resolved>>

(* The runner is killed and starts again. A removal may be half done. *)
RunnerKilled ==
    /\ CacheFault
    /\ fetching' = NoActionCommit /\ extracting' = "idle" /\ knownRef' = NoActionCommit
    /\ \/ UNCHANGED <<warm, tmpDir>>
       \/ /\ extracting = "clear" /\ UNCHANGED warm
          /\ \E left \in SUBSET tmpDir[fetching] : tmpDir' = [tmpDir EXCEPT ![fetching] = left]
       \/ /\ extracting = "remove" /\ UNCHANGED tmpDir
          /\ \E left \in SUBSET warm[fetching] : warm' = [warm EXCEPT ![fetching] = left]
    /\ UNCHANGED <<branch, resolved>>

ActionNext ==
    \/ BranchMoves \/ ResolveAction
    \/ ClearTmp \/ ExtractFile \/ WriteMarker \/ RemoveDir \/ RenameTmp
    \/ DownloadFails \/ RunnerKilled

-----------------------------------------------------------------------------
(* Whatever failed or was killed before, a step is never given an action of
   which files are missing: a half-extracted directory is never taken for a
   warm one. *)
ActionsServedWhole == \A use \in resolved : use.files = ActionFiles
=============================================================================
