--------------------------- MODULE ChecksReporter ---------------------------
(***************************************************************************)
(* The check-run reporter (internal/github/checks) for one job: updates    *)
(* are coalesced, one flush at a time writes, a failed update is put back, *)
(* annotations follow in chunks.  An update is its number; the last one is *)
(* terminal, and its annotations are the first AnnCount[u] of the job's.   *)
(* The caller reports in order, from one goroutine; the ticker flushes     *)
(* beside it.  Time is whether MinInterval has passed since the last write.*)
(***************************************************************************)
EXTENDS Integers, Sequences

CONSTANTS
  AnnCount,         \* the length of the annotation list of each update
  AnnChunk,         \* MaxAnnotationsPerRequest
  FinalAttempts,    \* tries of a terminal update
  MaxApiFaults      \* bound on failed requests

Updates == DOMAIN AnnCount
Final == CHOOSE u \in Updates : \A v \in Updates : v <= u

ASSUME ReporterAssumption ==
  /\ Final \in Nat
  /\ AnnCount \in [1..Final -> Nat]
  /\ \A u, v \in Updates : u <= v => AnnCount[u] <= AnnCount[v]
  /\ AnnChunk \in Nat \ {0}
  /\ FinalAttempts \in Nat \ {0} /\ MaxApiFaults \in Nat

VARIABLES
  chkReported, \* the last update given to Report
  chkPending,  \* jobState.pending, 0 when nil
  chkDue,      \* MinInterval has passed since lastSent
  chkKnown,    \* jobState.checkRunID, 0 when none was created
  chkAnnSent,  \* jobState.annSent
  chkLock,     \* who holds sendMu, "" when nobody
  chkFlush,    \* per goroutine: its flushJob
  chkRemote,   \* per check run on GitHub: the last update and the annotations it has
  chkFaults

chkVars == <<chkReported, chkPending, chkDue, chkKnown, chkAnnSent, chkLock, chkFlush,
             chkRemote, chkFaults>>

Reporters == {"caller", "ticker"}

NoFlushJob == [at |-> "idle", force |-> FALSE, update |-> 0, tries |-> 0, from |-> 0, sent |-> 0]

ReporterInit ==
  /\ chkReported = 0 /\ chkPending = 0 /\ chkDue = TRUE /\ chkKnown = 0 /\ chkAnnSent = 0
  /\ chkLock = "" /\ chkFlush = [g \in Reporters |-> NoFlushJob]
  /\ chkRemote = <<>> /\ chkFaults = 0

FlushIs(g, f) == chkFlush' = [chkFlush EXCEPT ![g] = f]
ApiFault == chkFaults < MaxApiFaults /\ chkFaults' = chkFaults + 1

\* Report: the update replaces the pending one (the longer annotation list is
\* the newer); a terminal one is flushed by force, another if one is due.
Report ==
  /\ chkFlush["caller"].at = "idle" /\ chkReported < Final
  /\ chkReported' = chkReported + 1
  /\ chkPending' = chkReported + 1
  /\ IF chkReported + 1 = Final
       THEN FlushIs("caller", [NoFlushJob EXCEPT !.at = "lock", !.force = TRUE])
       ELSE IF chkDue THEN FlushIs("caller", [NoFlushJob EXCEPT !.at = "lock"])
       ELSE UNCHANGED chkFlush
  /\ UNCHANGED <<chkDue, chkKnown, chkAnnSent, chkLock, chkRemote, chkFaults>>

\* flushDue, by the ticker; Close does the same by force.
FlushDue(force) ==
  /\ chkFlush["ticker"].at = "idle" /\ chkPending # 0 /\ (chkDue \/ force)
  /\ FlushIs("ticker", [NoFlushJob EXCEPT !.at = "lock", !.force = force])
  /\ UNCHANGED <<chkReported, chkPending, chkDue, chkKnown, chkAnnSent, chkLock, chkRemote, chkFaults>>

\* flushJob: a flush by force waits for sendMu, another gives up when it is
\* held.
FlushSkips(g) ==
  /\ chkFlush[g].at = "lock" /\ ~chkFlush[g].force /\ chkLock # ""
  /\ FlushIs(g, NoFlushJob)
  /\ UNCHANGED <<chkReported, chkPending, chkDue, chkKnown, chkAnnSent, chkLock, chkRemote, chkFaults>>

FlushLock(g) ==
  /\ chkFlush[g].at = "lock" /\ chkLock = ""
  /\ chkLock' = g
  /\ FlushIs(g, [chkFlush[g] EXCEPT !.at = "take"])
  /\ UNCHANGED <<chkReported, chkPending, chkDue, chkKnown, chkAnnSent, chkRemote, chkFaults>>

\* The pending update is taken; nothing is pending while it is written.
FlushPending(g) ==
  /\ chkFlush[g].at = "take"
  /\ chkPending' = 0
  /\ IF chkPending = 0 THEN FlushIs(g, NoFlushJob) /\ chkLock' = ""
     ELSE /\ FlushIs(g, [chkFlush[g] EXCEPT !.at = "write", !.update = chkPending,
               !.tries = IF chkFlush[g].force /\ chkPending = Final THEN FinalAttempts ELSE 1])
          /\ UNCHANGED chkLock
  /\ UNCHANGED <<chkReported, chkDue, chkKnown, chkAnnSent, chkRemote, chkFaults>>

\* The annotations a write begins with: those not yet sent, unless the count of
\* sent ones is beyond the list.
AnnFrom(u) == IF chkAnnSent <= AnnCount[u] THEN chkAnnSent ELSE 0

ChunkEnd(from, u) == IF from + AnnChunk < AnnCount[u] THEN from + AnnChunk ELSE AnnCount[u]

Shown(run, u, from, to) == [update |-> u, anns |-> run.anns \cup {a \in 1..to : a > from}]

\* What a request leaves on GitHub: a new check run if none is known, or the
\* one that is known brought up to date.
RemoteAfter(u, from, to) ==
  IF chkKnown = 0 THEN Append(chkRemote, Shown([update |-> 0, anns |-> {}], u, from, to))
  ELSE [chkRemote EXCEPT ![chkKnown] = Shown(@, u, from, to)]

\* write: the create or the update, with the head of the annotations.
WriteHead(g) ==
  LET f == chkFlush[g]  u == f.update  from == AnnFrom(u)  to == ChunkEnd(from, u) IN
  /\ f.at = "write"
  /\ chkRemote' = RemoteAfter(u, from, to)
  /\ chkKnown' = IF chkKnown = 0 THEN Len(chkRemote) + 1 ELSE chkKnown
  /\ FlushIs(g, [f EXCEPT !.at = "follow", !.from = from, !.sent = to])
  /\ UNCHANGED <<chkReported, chkPending, chkDue, chkAnnSent, chkLock, chkFaults>>

\* The annotations that are left, a chunk per request.
WriteFollow(g) ==
  LET f == chkFlush[g]  u == f.update  to == ChunkEnd(f.sent, u) IN
  /\ f.at = "follow" /\ f.sent < AnnCount[u]
  /\ chkRemote' = RemoteAfter(chkRemote[chkKnown].update, f.sent, to)
  /\ FlushIs(g, [f EXCEPT !.sent = to])
  /\ UNCHANGED <<chkReported, chkPending, chkDue, chkKnown, chkAnnSent, chkLock, chkFaults>>

\* A slip to guard against: the failed update is put back over a newer one.
PutBackAlways(u) == chkPending' = u

\* A failed update is put back unless a newer one is pending.
PutBack(u) == chkPending' = IF chkPending = 0 THEN u ELSE chkPending

\* What annSent counts after a follow-up failed: the chunks delivered so far.
SentSoFar(f) == f.sent - f.from

Retry(g) ==
  LET f == chkFlush[g] IN
  IF f.tries > 1
    THEN FlushIs(g, [f EXCEPT !.at = "write", !.tries = @ - 1]) /\ UNCHANGED <<chkPending, chkLock>>
    ELSE PutBack(f.update) /\ FlushIs(g, NoFlushJob) /\ chkLock' = ""

\* A request fails, or its answer is lost: then it was done, and a create is
\* done again, as a second check run.
WriteHeadFails(g) ==
  LET f == chkFlush[g]  u == f.update  from == AnnFrom(u) IN
  /\ f.at = "write" /\ ApiFault
  /\ Retry(g)
  /\ UNCHANGED chkRemote \/ chkRemote' = RemoteAfter(u, from, ChunkEnd(from, u))
  /\ UNCHANGED <<chkReported, chkDue, chkKnown, chkAnnSent>>

WriteFollowFails(g) ==
  LET f == chkFlush[g]  u == f.update IN
  /\ f.at = "follow" /\ f.sent < AnnCount[u] /\ ApiFault
  /\ chkAnnSent' = chkAnnSent + SentSoFar(f)
  /\ Retry(g)
  /\ \/ UNCHANGED chkRemote
     \/ chkRemote' = RemoteAfter(chkRemote[chkKnown].update, f.sent, ChunkEnd(f.sent, u))
  /\ UNCHANGED <<chkReported, chkDue, chkKnown>>

WriteDone(g) ==
  LET f == chkFlush[g] IN
  /\ f.at = "follow" /\ f.sent = AnnCount[f.update]
  /\ chkAnnSent' = chkAnnSent + SentSoFar(f)
  /\ chkDue' = FALSE
  /\ FlushIs(g, NoFlushJob) /\ chkLock' = ""
  /\ UNCHANGED <<chkReported, chkPending, chkKnown, chkRemote, chkFaults>>

IntervalOver ==
  /\ ~chkDue /\ chkDue' = TRUE
  /\ UNCHANGED <<chkReported, chkPending, chkKnown, chkAnnSent, chkLock, chkFlush, chkRemote, chkFaults>>

ReporterNext ==
  \/ Report \/ IntervalOver
  \/ \E force \in BOOLEAN : FlushDue(force)
  \/ \E g \in Reporters : \/ FlushSkips(g) \/ FlushLock(g) \/ FlushPending(g)
                          \/ WriteHead(g) \/ WriteHeadFails(g)
                          \/ WriteFollow(g) \/ WriteFollowFails(g) \/ WriteDone(g)

-----------------------------------------------------------------------------
Written(u) == \E g \in Reporters : chkFlush[g].update = u

\* checks package comment: "the completion update is never coalesced away".  The
\* newest update is on GitHub with all its annotations, or it is pending, or a
\* flush is writing it and will put it back if it cannot: no order of a slow
\* write, a failure and a newer report leaves an older update in its place.
NewestNotLost ==
  chkReported = 0 \/ chkPending = chkReported \/ Written(chkReported) \/
    /\ chkKnown # 0
    /\ chkRemote[chkKnown].update = chkReported
    /\ 1..AnnCount[chkReported] \subseteq chkRemote[chkKnown].anns

=============================================================================
