----------------------------- MODULE LeaseQueue -----------------------------
(***************************************************************************)
(* What the job queue promises whoever uses it, with no rows, tables or    *)
(* clocks: every job is out of the queue, waiting in it, or held by one    *)
(* runner.  A job comes to be held only from waiting, so a hold never      *)
(* passes from one runner to another, and never falls on a job that is not *)
(* offered; a step gives at most one job to a runner.                      *)
(***************************************************************************)
CONSTANTS Job, Runner, Out, Waiting

VARIABLE holder

TypeOK == holder \in [Job -> Runner \cup {Out, Waiting}]

Init == holder = [j \in Job |-> Out]

\* A runner is handed a waiting job.
Claim(r, j) ==
  /\ holder[j] = Waiting
  /\ holder' = [holder EXCEPT ![j] = r]

\* Some jobs are offered, or are taken back from whoever held them.
Offer(js) ==
  holder' = [j \in Job |-> IF j \in js THEN Waiting ELSE holder[j]]

\* A job leaves the queue: it ended, or its entry is void.
Leave(j) ==
  holder' = [holder EXCEPT ![j] = Out]

Next ==
  \/ \E r \in Runner, j \in Job : Claim(r, j)
  \/ \E js \in SUBSET Job : Offer(js)
  \/ \E j \in Job : Leave(j)

Spec == Init /\ [][Next]_holder

=============================================================================
