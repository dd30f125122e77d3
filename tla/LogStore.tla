------------------------------ MODULE LogStore ------------------------------
(***************************************************************************)
(* The log of one job attempt: the agent's LogSink that ships it, the hot  *)
(* buffer and the sealed blob of internal/logstore, and the readers that   *)
(* page through it and subscribe by way of internal/api.  Every lock that  *)
(* is let go of between two steps of a call ends a step here.  A hot entry *)
(* is an object: a call may still hold one that the index has forgotten.   *)
(* A line is its number in the sink; its Seq is its place in the entry.    *)
(***************************************************************************)
EXTENDS Integers, SequencesExt

CONSTANTS
  Watcher,    \* readers: each reads pages, subscribes, and may subscribe again
  MaxLogLines,\* bound on the lines the job prints
  RingCap,    \* SubscriberBuffer
  PageSize,   \* the limit of a paged read
  MaxResumes, \* bound on what a reader has read before its subscription
  MaxEntries, \* bound on the hot entries that are ever created
  MaxLogFaults\* bound on storage errors and lost answers

ASSUME LogBoundsAssumption ==
  /\ MaxLogLines \in Nat /\ RingCap \in Nat \ {0} /\ MaxEntries \in Nat \ {0}
  /\ MaxLogFaults \in Nat /\ PageSize \in Nat \ {0} /\ MaxResumes \in Nat

VARIABLES
  sinkSeq,   \* LogSink.seq: the lines printed
  sinkBuf,   \* LogSink.buf
  flush,     \* per goroutine that flushes: its step, batch and entry
  entries,   \* the hot entries created, in order
  current,   \* the entry the index has, 0 when none
  blob,      \* the sealed log
  seal,      \* the call of Finalize under way
  sub,       \* per watcher: its subscription
  acked,     \* lines whose Append answered without an error, for the properties
  raced,     \* lines that met a call between two of its locks, for the properties
  logFaults

logVars == <<sinkSeq, sinkBuf, flush, entries, current, blob, seal, sub, acked, raced, logFaults>>

\* The ticker of LogSink.Start, and the goroutine that runs the job.
Flushers == {"ticker", "job"}

NoBlob == <<0>>

NewEntry == [lines |-> <<>>, sealed |-> FALSE, subs |-> {}]
NoFlush  == [at |-> "idle", batch |-> <<>>, entry |-> 0]
NoSeal   == [at |-> "none", entry |-> 0, copy |-> <<>>]
NoSub    == [at |-> "none", entry |-> 0, buf |-> <<>>, batch |-> <<>>, fell |-> FALSE,
             closed |-> FALSE, wake |-> FALSE, told |-> FALSE, ends |-> FALSE, got |-> <<>>,
             from |-> 0, seen |-> <<>>, cut |-> FALSE, resumes |-> 0]

LogInit ==
  /\ sinkSeq = 0 /\ sinkBuf = <<>>
  /\ flush = [f \in Flushers |-> NoFlush]
  /\ entries = <<>> /\ current = 0 /\ blob = NoBlob
  /\ seal = NoSeal
  /\ sub = [u \in Watcher |-> NoSub]
  /\ acked = {} /\ raced = {} /\ logFaults = 0

\* get(k, create): the entry the index has, or a new one.
GetEntry ==
  IF current # 0 THEN UNCHANGED <<entries, current>>
  ELSE /\ Len(entries) < MaxEntries
       /\ entries' = Append(entries, NewEntry)
       /\ current' = Len(entries) + 1

\* forget removes the entry the index has, whichever that is by now, with the
\* lines other calls have put into it.
Forget ==
  /\ current' = 0
  /\ raced' = raced \cup UNION {ToSet(entries[e].lines) : e \in {current} \ {0}}

LogFault == logFaults < MaxLogFaults /\ logFaults' = logFaults + 1

-----------------------------------------------------------------------------
\* LogSink.

\* Line: the job prints a line, until it goes on to report its result.
Line ==
  /\ seal.at = "none" /\ flush["job"].at = "idle" /\ sinkSeq < MaxLogLines
  /\ sinkSeq' = sinkSeq + 1
  /\ sinkBuf' = Append(sinkBuf, sinkSeq + 1)
  /\ UNCHANGED <<flush, entries, current, blob, seal, sub, acked, raced, logFaults>>

\* flush takes the batch and lets go of the lock before it is sent.
FlushTake(f) ==
  /\ flush[f].at = "idle" /\ sinkBuf # <<>>
  /\ flush' = [flush EXCEPT ![f] = [NoFlush EXCEPT !.at = "sent", !.batch = sinkBuf]]
  /\ sinkBuf' = <<>>
  /\ UNCHANGED <<sinkSeq, entries, current, blob, seal, sub, acked, raced, logFaults>>

\* The batch is gone when the send failed: nothing puts it back.
FlushDone(f) == flush' = [flush EXCEPT ![f] = NoFlush]

FlushFails(f) ==
  /\ flush[f].at = "sent" /\ LogFault
  /\ FlushDone(f)
  /\ UNCHANGED <<sinkSeq, sinkBuf, entries, current, blob, seal, sub, acked, raced>>

-----------------------------------------------------------------------------
\* Log.Append, called for a batch.

AppendGet(f) ==
  /\ flush[f].at = "sent"
  /\ GetEntry
  /\ flush' = [flush EXCEPT ![f] = [@ EXCEPT !.entry = current',
                                             !.at = IF current = 0 THEN "check" ELSE "lock"]]
  /\ UNCHANGED <<sinkSeq, sinkBuf, blob, seal, sub, acked, raced, logFaults>>

\* Only the call that created the entry asks whether the log was sealed before;
\* if so, or if it cannot tell, whatever entry the index has is forgotten.
AppendCheck(f) ==
  /\ flush[f].at = "check"
  /\ \/ /\ blob = NoBlob
        /\ flush' = [flush EXCEPT ![f] = [@ EXCEPT !.at = "lock"]]
        /\ UNCHANGED <<current, raced, logFaults>>
     \/ /\ blob # NoBlob
        /\ Forget /\ FlushDone(f) /\ UNCHANGED logFaults
     \/ LogFault /\ Forget /\ FlushDone(f)
  /\ UNCHANGED <<sinkSeq, sinkBuf, entries, blob, seal, sub, acked>>

\* A slip to guard against: what does not fit is dropped and nobody is told.
PushedSilently(s, batch, from) ==
  LET fits == IF Len(s.buf) >= RingCap THEN 0
              ELSE IF Len(batch) <= RingCap - Len(s.buf) THEN Len(batch) ELSE RingCap - Len(s.buf)
  IN [s EXCEPT !.buf = @ \o [i \in 1..fits |-> from + i], !.wake = TRUE]

\* push: a full ring cuts the subscriber off; it stays cut off.
Pushed(s, batch, from) ==
  LET fits == IF Len(s.buf) >= RingCap THEN 0
              ELSE IF Len(batch) <= RingCap - Len(s.buf) THEN Len(batch) ELSE RingCap - Len(s.buf)
  IN [s EXCEPT !.buf = @ \o [i \in 1..fits |-> from + i],
               !.fell = fits < Len(batch), !.wake = TRUE]

\* Under the entry's lock the lines get their Seqs and go to the subscribers.
\* When the answer is lost the client sends the batch again.
AppendLines(f) ==
  LET e == flush[f].entry  b == flush[f].batch IN
  /\ flush[f].at = "lock"
  /\ IF entries[e].sealed
       THEN FlushDone(f) /\ UNCHANGED <<entries, sub, acked, raced, logFaults>>
       ELSE LET from == Len(entries[e].lines)
                live == {u \in entries[e].subs : ~Pushed(sub[u], b, from).fell}
            IN /\ entries' = [entries EXCEPT ![e].lines = @ \o b, ![e].subs = live]
               /\ sub' = [u \in Watcher |-> IF u \in entries[e].subs
                                            THEN Pushed(sub[u], b, from) ELSE sub[u]]
               /\ acked' = acked \cup ToSet(b)
               /\ raced' = IF current # e THEN raced \cup ToSet(b) ELSE raced
               /\ \/ FlushDone(f) /\ UNCHANGED logFaults
                  \/ LogFault /\ flush' = [flush EXCEPT ![f] = [@ EXCEPT !.at = "sent"]]
  /\ UNCHANGED <<sinkSeq, sinkBuf, current, blob, seal>>

-----------------------------------------------------------------------------
\* Log.Finalize, called when the result of the attempt is reported, after the
\* job's own flush has returned; the ticker's may be under way.

FinalizeStart ==
  /\ seal.at = "none" /\ flush["job"].at = "idle"
  /\ sinkBuf = <<>>
  /\ seal' = [seal EXCEPT !.at = IF current = 0 THEN "done" ELSE "copy", !.entry = current]
  /\ UNCHANGED <<sinkSeq, sinkBuf, flush, entries, current, blob, sub, acked, raced, logFaults>>

FinalizeCopy ==
  /\ seal.at = "copy"
  /\ seal' = IF entries[seal.entry].sealed THEN [seal EXCEPT !.at = "done"]
             ELSE [seal EXCEPT !.at = "put", !.copy = entries[seal.entry].lines]
  /\ UNCHANGED <<sinkSeq, sinkBuf, flush, entries, current, blob, sub, acked, raced, logFaults>>

\* A slip to guard against: the attempt is sealed although the write failed.
PutOrSeal ==
  /\ seal.at = "put"
  /\ \/ blob' = seal.copy /\ UNCHANGED logFaults
     \/ LogFault /\ UNCHANGED blob
  /\ seal' = [seal EXCEPT !.at = "seal"]
  /\ UNCHANGED <<sinkSeq, sinkBuf, flush, entries, current, sub, acked, raced>>

\* The copy is written with no lock held.  If that fails the log stays live and
\* the error is only logged.
FinalizePut ==
  /\ seal.at = "put"
  /\ \/ blob' = seal.copy /\ seal' = [seal EXCEPT !.at = "seal"] /\ UNCHANGED logFaults
     \/ LogFault /\ seal' = [seal EXCEPT !.at = "done"] /\ UNCHANGED blob
  /\ UNCHANGED <<sinkSeq, sinkBuf, flush, entries, current, sub, acked, raced>>

\* Sealed: the lines are dropped, what came since the copy with them, and every
\* subscriber is closed.
FinalizeSeal ==
  LET e == seal.entry IN
  /\ seal.at = "seal"
  /\ raced' = raced \cup (ToSet(entries[e].lines) \ ToSet(seal.copy))
  /\ entries' = [entries EXCEPT ![e] = [lines |-> <<>>, sealed |-> TRUE, subs |-> {}]]
  /\ sub' = [u \in Watcher |-> IF u \in entries[e].subs
                               THEN [sub[u] EXCEPT !.closed = TRUE, !.wake = TRUE] ELSE sub[u]]
  /\ seal' = [seal EXCEPT !.at = "forget"]
  /\ UNCHANGED <<sinkSeq, sinkBuf, flush, current, blob, acked, logFaults>>

FinalizeForget ==
  /\ seal.at = "forget" /\ Forget
  /\ seal' = [seal EXCEPT !.at = "done"]
  /\ UNCHANGED <<sinkSeq, sinkBuf, flush, entries, blob, sub, acked, logFaults>>

-----------------------------------------------------------------------------
\* What a reader asks for: pages, then a subscription, which it repeats when the
\* connection breaks.  `from` is the fromSeq of its next request, `seen` what its
\* earlier ones have brought.

Watches(u, s) == sub' = [sub EXCEPT ![u] = s]

\* The Seqs of lines that Read and Subscribe deliver when there are n lines.
Above(from, n) == [i \in 1..(IF n > from THEN n - from ELSE 0) |-> from + i]

\* snapshot: the hot lines if an entry is live, else the blob.
Snapshot ==
  IF current # 0 /\ ~entries[current].sealed THEN Len(entries[current].lines)
  ELSE IF blob = NoBlob THEN 0 ELSE Len(blob)

\* NextSeq of a page, and the position that a Last-Event-ID stands for.
NextSeq(from, lines) == IF lines = <<>> THEN from ELSE lines[Len(lines)] + 1

\* getJobLogs, or a page of rawJobLogs, before the reader subscribes.  An attempt
\* without a log answers with an error, which brings no line.
ReadPage(u) ==
  LET all == Above(sub[u].from, Snapshot)
      page == SubSeq(all, 1, IF Len(all) < PageSize THEN Len(all) ELSE PageSize)
  IN /\ sub[u].at = "none" /\ sub[u].resumes < MaxResumes
     /\ Watches(u, [sub[u] EXCEPT !.seen = @ \o page, !.from = NextSeq(@, page), !.resumes = @ + 1])
     /\ UNCHANGED <<sinkSeq, sinkBuf, flush, entries, current, blob, seal, acked, raced, logFaults>>

\* streamJobLogs again: the browser reconnects with the last Seq it has got.
\* Its former subscription is taken to be gone by then.
Resume(u) ==
  /\ sub[u].at = "done" /\ sub[u].cut /\ sub[u].resumes < MaxResumes
  /\ Watches(u, [NoSub EXCEPT !.seen = sub[u].seen \o sub[u].got,
                              !.from = NextSeq(sub[u].from, sub[u].got),
                              !.resumes = sub[u].resumes + 1])
  /\ UNCHANGED <<sinkSeq, sinkBuf, flush, entries, current, blob, seal, acked, raced, logFaults>>

-----------------------------------------------------------------------------
\* Log.Subscribe, and the subscriber's pump.

SubscribeGet(u) ==
  /\ sub[u].at = "none"
  /\ Watches(u, [sub[u] EXCEPT !.at = IF current = 0 THEN "check" ELSE "lock", !.entry = current])
  /\ UNCHANGED <<sinkSeq, sinkBuf, flush, entries, current, blob, seal, acked, raced, logFaults>>

\* No entry: a sealed log is replayed and ends, one that has not begun gets an
\* entry, which the call does not ask about again.
SubscribeCheck(u) ==
  /\ sub[u].at = "check"
  /\ Watches(u, [sub[u] EXCEPT !.at = IF blob # NoBlob THEN "replay" ELSE "create"])
  /\ UNCHANGED <<sinkSeq, sinkBuf, flush, entries, current, blob, seal, acked, raced, logFaults>>

SubscribeCreate(u) ==
  /\ sub[u].at = "create"
  /\ GetEntry
  /\ Watches(u, [sub[u] EXCEPT !.at = "lock", !.entry = current'])
  /\ UNCHANGED <<sinkSeq, sinkBuf, flush, blob, seal, acked, raced, logFaults>>

SubscribeLock(u) ==
  LET e == sub[u].entry IN
  /\ sub[u].at = "lock"
  /\ IF entries[e].sealed
       THEN Watches(u, [sub[u] EXCEPT !.at = "replay"]) /\ UNCHANGED entries
       ELSE /\ Watches(u, [sub[u] EXCEPT !.at = "take", !.buf = Above(sub[u].from, Len(entries[e].lines))])
            /\ entries' = [entries EXCEPT ![e].subs = @ \cup {u}]
  /\ UNCHANGED <<sinkSeq, sinkBuf, flush, current, blob, seal, acked, raced, logFaults>>

\* replayOnly of a snapshot.
Replay(u) ==
  /\ sub[u].at = "replay"
  /\ Watches(u, [sub[u] EXCEPT !.at = "done", !.got = Above(sub[u].from, Snapshot)])
  /\ UNCHANGED <<sinkSeq, sinkBuf, flush, entries, current, blob, seal, acked, raced, logFaults>>

\* run takes the ring, and reads fell and closed with it.
PumpTake(u) ==
  /\ sub[u].at = "take"
  /\ Watches(u, [sub[u] EXCEPT !.at = "send", !.batch = sub[u].buf, !.buf = <<>>,
                               !.told = sub[u].fell, !.ends = sub[u].closed])
  /\ UNCHANGED <<sinkSeq, sinkBuf, flush, entries, current, blob, seal, acked, raced, logFaults>>

\* The batch goes out; then the stream ends if it fell behind, or if it was
\* closed and there was nothing in the ring; otherwise the pump waits.
PumpSend(u) ==
  /\ sub[u].at = "send"
  /\ Watches(u, [sub[u] EXCEPT !.got = @ \o sub[u].batch, !.batch = <<>>,
       !.at = IF sub[u].told \/ (sub[u].ends /\ sub[u].batch = <<>>) THEN "unregister" ELSE "wait"])
  /\ UNCHANGED <<sinkSeq, sinkBuf, flush, entries, current, blob, seal, acked, raced, logFaults>>

PumpWake(u) ==
  /\ sub[u].at = "wait" /\ sub[u].wake
  /\ Watches(u, [sub[u] EXCEPT !.at = "take", !.wake = FALSE])
  /\ UNCHANGED <<sinkSeq, sinkBuf, flush, entries, current, blob, seal, acked, raced, logFaults>>

\* The reader goes away, or its connection does, with part of the batch sent.
Leave(u) ==
  /\ sub[u].at \in {"send", "wait"}
  /\ \E n \in 0..Len(sub[u].batch) :
       Watches(u, [sub[u] EXCEPT !.at = "unregister", !.cut = TRUE,
                                 !.got = @ \o SubSeq(sub[u].batch, 1, n),
                                 !.batch = SubSeq(@, n + 1, Len(@))])
  /\ UNCHANGED <<sinkSeq, sinkBuf, flush, entries, current, blob, seal, acked, raced, logFaults>>

\* unregister, under the entry's lock; an entry that is idle by then is
\* forgotten in a step of its own.
Unregister(u) ==
  LET e == sub[u].entry IN
  /\ sub[u].at = "unregister"
  /\ entries' = [entries EXCEPT ![e].subs = @ \ {u}]
  /\ LET idle == entries[e].subs \subseteq {u} /\ entries[e].lines = <<>> /\ ~entries[e].sealed
     IN Watches(u, [sub[u] EXCEPT !.at = IF idle THEN "leaving" ELSE "done"])
  /\ UNCHANGED <<sinkSeq, sinkBuf, flush, current, blob, seal, acked, raced, logFaults>>

ForgetIdle(u) ==
  /\ sub[u].at = "leaving" /\ Forget
  /\ Watches(u, [sub[u] EXCEPT !.at = "done"])
  /\ UNCHANGED <<sinkSeq, sinkBuf, flush, entries, blob, seal, acked, logFaults>>

LogNext ==
  \/ Line
  \/ \E f \in Flushers : \/ FlushTake(f) \/ FlushFails(f)
                         \/ AppendGet(f) \/ AppendCheck(f) \/ AppendLines(f)
  \/ FinalizeStart \/ FinalizeCopy \/ FinalizePut \/ FinalizeSeal \/ FinalizeForget
  \/ \E u \in Watcher : \/ ReadPage(u) \/ Resume(u)
                        \/ SubscribeGet(u) \/ SubscribeCheck(u) \/ SubscribeCreate(u)
                        \/ SubscribeLock(u) \/ Replay(u)
                        \/ PumpTake(u) \/ PumpSend(u) \/ PumpWake(u) \/ Leave(u)
                        \/ Unregister(u) \/ ForgetIdle(u)

\* The pump is a goroutine and its reader reads; nobody has to leave.
LogFairness ==
  \A u \in Watcher : WF_logVars(PumpTake(u)) /\ WF_logVars(PumpSend(u))
                     /\ WF_logVars(PumpWake(u)) /\ WF_logVars(Unregister(u))

LogSpec == LogInit /\ [][LogNext]_logVars /\ LogFairness

-----------------------------------------------------------------------------
\* What is readable: the live entry and the sealed log.
Readable ==
  (IF blob = NoBlob THEN {} ELSE ToSet(blob))
  \cup UNION {ToSet(entries[e].lines) : e \in {current} \ {0}}

\* logstore.go, Finalize: "a log that silently vanished ... is worse than an
\* upload that failed loudly".  A line whose Append was answered stays readable,
\* in the buffer or sealed, whatever fails, except the lines that met a call
\* between its two locks; those are named, and nothing else is lost.
LostOnlyInRaces == acked \ Readable \subseteq raced

\* logstore.go, Subscribe: replay from fromSeq, then live lines.  A watcher gets
\* Seqs in a row from that position on (a position ahead of the log skips
\* nothing), none twice and none left out, across the change from backlog to live
\* lines; one that is not cut off has all of them in the end.
StreamsWhole ==
  \A u \in Watcher :
    LET s == sub[u]  all == s.got \o s.batch \o s.buf IN
    \E first \in 0..s.from :
      /\ all = [i \in 1..Len(all) |-> first + i]
      /\ s.at \in {"take", "send", "wait"} /\ ~s.fell /\ ~entries[s.entry].sealed =>
           first + Len(all) = Len(entries[s.entry].lines)

\* api/logs.go, LogPageDTO: "NextSeq is where the next page starts", and
\* streamJobLogs: "the stream restarts at the next one".  What a reader gets over
\* its pages and subscriptions are the lines in a row from the first on.
ResumedWhole ==
  \A u \in Watcher :
    LET all == sub[u].seen \o sub[u].got IN all = [i \in 1..Len(all) |-> i]

\* logstore.go, Subscribe: "The channel closes when the attempt is finalized".
StreamEnds == \A u \in Watcher : sub[u].closed ~> sub[u].at = "done"

=============================================================================
