----------------------------- MODULE SerialProofs ----------------------------
(***************************************************************************)
(* What holds of the scheduler when its calls are taken one after the      *)
(* other (restarts, lost leases and ended backoffs still fall between the  *)
(* writes of a call), for every plan, set of jobs and runners.             *)
(*                                                                         *)
(* A gate is decided from a snapshot, and the rows are written later, one  *)
(* by one.  So the invariants say of the writes a call has left in which   *)
(* order they open and close jobs, and what the snapshot of a tick has to  *)
(* do with the tables as they will be.  The first part is about the gates  *)
(* of a group and of a matrix, the second about the gate of the needs, the *)
(* third about runs: what closes one, and what holds it.                   *)
(***************************************************************************)
EXTENDS SchedulerProofs

-----------------------------------------------------------------------------
Open(row) == row.status \notin {"absent", "completed"} /\ (row.queued \/ row.status = "in_progress")

\* The row of a job that has a runner is of one that was handed to the queue,
\* and no job is handed on that waits for an approval.
Sane(row) ==
  /\ row.runner # NoRunner => row.status = "in_progress"
  /\ row.status = "in_progress" => row.queued
  /\ row.rest.awaiting => ~row.queued

IsRow(w) == w.do \in {"create", "update"}
Opens(w, j)  == w.do \in {"create", "update", "offer"} /\ w.job = j /\ (IsRow(w) => Open(w.row))
Closes(w, j) == IsRow(w) /\ w.job = j /\ ~Open(w.row)

Siblings(j) == {k \in Job : Plan[k].run = Plan[j].run /\ Plan[k].key = Plan[j].key}
Peers(j)    == {k \in Job \ {j} : Plan[j].group # "" /\ Plan[k].group = Plan[j].group}

\* The k-th write lets in the job j, which none of the jobs A is.
Entering(todo, k, j, A) ==
  /\ \A i \in DOMAIN todo, p \in Job : Opens(todo[i], p) => p = j
  /\ \A p \in Peers(j) \cap A : \E i \in 1..(k - 1) : Closes(todo[i], p)
  /\ Plan[j].maxParallel > 0 => Cardinality(A \cap Siblings(j)) < Plan[j].maxParallel

\* What a call may have left to write when the jobs A are with the queue.
Orderly(todo, A) ==
  /\ \A i \in DOMAIN todo : IsRow(todo[i]) => Sane(todo[i].row)
  /\ \A i, k \in DOMAIN todo, j \in Job : i < k /\ Closes(todo[i], j) => ~Opens(todo[k], j)
  /\ \A k \in DOMAIN todo, j \in Job : Opens(todo[k], j) => j \in A \/ Entering(todo, k, j, A)
  /\ \A k \in DOMAIN todo, j \in Job :
       Closes(todo[k], j) /\ todo[k].do = "update" /\ todo[k].row.status # "completed"
         => j \notin A /\ \A i \in DOMAIN todo : ~Opens(todo[i], j)

Exclusive(A) == \A j \in A : Peers(j) \cap A = {}
Parallel(A) == \A j \in A : Plan[j].maxParallel > 0 => Cardinality(A \cap Siblings(j)) <= Plan[j].maxParallel

\* A row of a job that is offered to the runners.
Handed(row) == row.status = "queued" /\ row.queued

\* A job is offered once its row says so.
Offered(todo, rows) ==
  \A k \in DOMAIN todo : todo[k].do = "offer" =>
    /\ \A i \in 1..(k - 1) : IsRow(todo[i]) /\ todo[i].job = todo[k].job => Handed(todo[i].row)
    /\ \/ Handed(rows[todo[k].job])
       \/ \E i \in 1..(k - 1) : IsRow(todo[i]) /\ todo[i].job = todo[k].job

\* A plan is registered once its jobs are there.
Registers(todo, there) ==
  \A k \in DOMAIN todo : todo[k].do = "register" =>
    \A j \in JobsOf(todo[k].run) \ there :
      \E i \in 1..(k - 1) : todo[i].do = "create" /\ todo[i].job = j

\* The row of a job agrees with a call's copy of it, but that a job the call has
\* cancelled for its group is still under way in the copy.
Agrees(row, copy) ==
  /\ copy.status = "completed" => row.status = "completed" /\ row.rest.conclusion = copy.rest.conclusion
  /\ Open(row) => copy.status # "completed" /\ copy.queued
  /\ row.status = "completed" => copy.status = "completed" \/ copy.queued

\* The rows will agree with a call's copy once it has written what it has left.
Catches(todo, snap, rows) ==
  \A j \in DOMAIN snap : \E i \in DOMAIN todo \cup {0} :
    /\ IF i = 0 THEN Agrees(rows[j], snap[j]) ELSE IsRow(todo[i]) /\ todo[i].job = j
    /\ \A m \in DOMAIN todo : m >= i /\ IsRow(todo[m]) /\ todo[m].job = j
                                => Agrees(todo[m].row, snap[j])

\* What one write makes of the jobs with the queue.
Moves(w, A, B) ==
  \A j \in Job : /\ Closes(w, j) => j \notin B
                 /\ Opens(w, j) => j \in B
                 /\ ~Closes(w, j) /\ ~Opens(w, j) => (j \in B <=> j \in A)

LEMMA TailIs ==
  ASSUME NEW W, NEW todo \in Seq(W), todo # <<>>
  PROVE  /\ Tail(todo) \in Seq(W) /\ Head(todo) = todo[1] /\ 1 \in DOMAIN todo /\ Head(todo) \in W
         /\ DOMAIN todo \subseteq Nat \ {0}
         /\ \A i \in DOMAIN Tail(todo) : /\ i \in Nat \ {0} /\ i + 1 \in DOMAIN todo
                                         /\ Tail(todo)[i] = todo[i + 1]
         /\ \A i \in DOMAIN todo : i = 1 \/ (/\ i - 1 \in DOMAIN Tail(todo)
                                             /\ Tail(todo)[i - 1] = todo[i])
<1>1. Len(todo) \in Nat /\ Len(todo) # 0 /\ DOMAIN todo = 1..Len(todo)
  OBVIOUS
<1>2. /\ Tail(todo) \in Seq(W) /\ Len(Tail(todo)) = Len(todo) - 1
      /\ \A i \in 1..(Len(todo) - 1) : Tail(todo)[i] = todo[i + 1]
  BY <1>1
<1>3. DOMAIN Tail(todo) = 1..(Len(todo) - 1)
  BY <1>2
<1> QED
  BY <1>1, <1>2, <1>3

\* One write less is left, and the jobs with the queue are those it made.
LEMMA OrderlyTail ==
  ASSUME NEW todo \in Seq(Write), todo # <<>>, NEW A \in SUBSET Job, NEW B \in SUBSET Job,
         Orderly(todo, A), Moves(Head(todo), A, B)
  PROVE  Orderly(Tail(todo), B)
<1> DEFINE w == Head(todo)
           rest == Tail(todo)
<1>1. /\ w = todo[1] /\ 1 \in DOMAIN todo /\ DOMAIN todo \subseteq Nat \ {0}
      /\ \A i \in DOMAIN rest : i \in Nat \ {0} /\ i + 1 \in DOMAIN todo /\ rest[i] = todo[i + 1]
      /\ \A i \in DOMAIN todo : i = 1 \/ (i - 1 \in DOMAIN rest /\ rest[i - 1] = todo[i])
  BY TailIs
<1> HIDE DEF w, rest
<1>2. \A i \in DOMAIN rest : IsRow(rest[i]) => Sane(rest[i].row)
  BY <1>1 DEF Orderly
<1>3. ASSUME NEW i \in DOMAIN rest, NEW k \in DOMAIN rest, NEW j \in Job,
             i < k, Closes(rest[i], j)
      PROVE  ~Opens(rest[k], j)
  <2>1. i + 1 < k + 1
    BY <1>1, <1>3
  <2> QED
    BY <1>1, <1>3, <2>1 DEF Orderly
<1>4. ASSUME NEW k \in DOMAIN rest, NEW j \in Job, Opens(rest[k], j), j \notin B
      PROVE  Entering(rest, k, j, B)
  <2>1. /\ k + 1 \in DOMAIN todo /\ Opens(todo[k + 1], j) /\ rest[k] = todo[k + 1]
        /\ k \in Nat /\ 1 < k + 1
    BY <1>1, <1>4
  <2>2. ~Closes(w, j)
    BY <1>1, <2>1 DEF Orderly
  <2>3. ~Opens(w, j)
    BY <1>4 DEF Moves, w
  <2>4. j \notin A
    BY <1>4, <2>2, <2>3 DEF Moves, w
  <2>5. Entering(todo, k + 1, j, A)
    BY <2>1, <2>4 DEF Orderly
  <2>6. \A p \in Job : ~Opens(w, p)
    BY <1>1, <2>3, <2>5 DEF Entering
  <2>7. B \subseteq A
    BY <2>6 DEF Moves, w
  <2>a. (k + 1) - 1 = k
    BY <2>1
  <2>8. ASSUME NEW i \in 1..k
        PROVE  i = 1 \/ (i - 1 \in 1..(k - 1) /\ rest[i - 1] = todo[i])
    <3>1. Len(todo) \in Nat /\ DOMAIN todo = 1..Len(todo)
      OBVIOUS
    <3>2. i \in DOMAIN todo /\ (i = 1 \/ i - 1 \in 1..(k - 1))
      BY <2>1, <3>1
    <3> QED
      BY <1>1, <3>2
  <2>9. \A i \in DOMAIN rest, p \in Job : Opens(rest[i], p) => p = j
    BY <1>1, <2>5 DEF Entering
  <2>10. ASSUME NEW p \in Peers(j) \cap B PROVE \E i \in 1..(k - 1) : Closes(rest[i], p)
    <3>1. PICK i \in 1..k : Closes(todo[i], p)
      BY <2>5, <2>7, <2>10, <2>a DEF Entering
    <3>2. ~Closes(w, p)
      BY <2>10 DEF Moves, w
    <3> QED
      BY <1>1, <2>8, <3>1, <3>2
  <2>11. Plan[j].maxParallel > 0 => Cardinality(B \cap Siblings(j)) < Plan[j].maxParallel
    <3>1. IsFiniteSet(A \cap Siblings(j)) /\ B \cap Siblings(j) \subseteq A \cap Siblings(j)
      BY <2>7, FS_Subset, SchedulerAssumption
    <3>2. /\ Cardinality(B \cap Siblings(j)) <= Cardinality(A \cap Siblings(j))
          /\ Cardinality(B \cap Siblings(j)) \in Nat /\ Cardinality(A \cap Siblings(j)) \in Nat
      BY <3>1, FS_Subset, FS_CardinalityType
    <3>3. Plan[j].maxParallel \in Nat
      BY PlanAssumption
    <3>4. Plan[j].maxParallel > 0 => Cardinality(A \cap Siblings(j)) < Plan[j].maxParallel
      BY <2>5 DEF Entering
    <3> QED
      BY <3>2, <3>3, <3>4
  <2> QED
    BY <2>9, <2>10, <2>11 DEF Entering
<1>5. ASSUME NEW k \in DOMAIN rest, NEW j \in Job, Closes(rest[k], j), rest[k].do = "update",
             rest[k].row.status # "completed"
      PROVE  j \notin B /\ \A i \in DOMAIN rest : ~Opens(rest[i], j)
  <2>1. k + 1 \in DOMAIN todo /\ rest[k] = todo[k + 1]
    BY <1>1
  <2>2. j \notin A /\ \A i \in DOMAIN todo : ~Opens(todo[i], j)
    BY <1>5, <2>1 DEF Orderly
  <2>3. ~Opens(w, j)
    BY <1>1, <2>2
  <2> QED
    BY <1>1, <2>2, <2>3 DEF Moves, w
<1> QED
  BY <1>2, <1>3, <1>4, <1>5 DEF Orderly, rest

\* The write that is next lets in no job whose place is taken.
LEMMA NextWriteKeeps ==
  ASSUME NEW todo \in Seq(Write), todo # <<>>, NEW A \in SUBSET Job, NEW B \in SUBSET Job,
         Orderly(todo, A), Moves(Head(todo), A, B), Exclusive(A), Parallel(A)
  PROVE  Exclusive(B) /\ Parallel(B)
<1> DEFINE w == Head(todo)
<1>1. w = todo[1] /\ 1 \in DOMAIN todo
  BY TailIs
<1>2. \A S \in SUBSET Job, k \in Job :
        /\ IsFiniteSet(S \cap Siblings(k)) /\ Cardinality(S \cap Siblings(k)) \in Nat
        /\ Plan[k].maxParallel \in Nat
  BY FS_Subset, FS_CardinalityType, SchedulerAssumption, PlanAssumption
<1> HIDE DEF w
<1>3. CASE B \subseteq A
  <2>1. Exclusive(B)
    BY <1>3 DEF Exclusive
  <2>2. ASSUME NEW j \in B, Plan[j].maxParallel > 0
        PROVE  Cardinality(B \cap Siblings(j)) <= Plan[j].maxParallel
    <3>1. Cardinality(B \cap Siblings(j)) <= Cardinality(A \cap Siblings(j))
      BY <1>2, <1>3, FS_Subset
    <3>2. Cardinality(A \cap Siblings(j)) <= Plan[j].maxParallel
      BY <1>3, <2>2 DEF Parallel
    <3>3. PICK n \in Nat, m \in Nat, max \in Nat :
            /\ n = Cardinality(B \cap Siblings(j)) /\ m = Cardinality(A \cap Siblings(j))
            /\ max = Plan[j].maxParallel
      BY <1>2
    <3> QED
      BY <3>1, <3>2, <3>3
  <2> QED
    BY <2>1, <2>2 DEF Parallel
<1>4. CASE ~(B \subseteq A)
  <2>1. PICK q \in Job : q \in B /\ q \notin A
    BY <1>4
  <2>2. Opens(w, q)
    BY <2>1 DEF Moves, w
  <2>3. Entering(todo, 1, q, A)
    BY <1>1, <2>1, <2>2 DEF Orderly
  <2>4. Peers(q) \cap A = {}
    BY <2>3 DEF Entering
  <2>5. ASSUME NEW p \in Job, p # q PROVE p \in B <=> p \in A
    <3>1. ~Opens(w, p)
      BY <1>1, <2>3, <2>5 DEF Entering
    <3>2. ~Closes(w, p)
      BY <2>2, <2>5 DEF Opens, Closes
    <3> QED
      BY <3>1, <3>2 DEF Moves, w
  <2>6. B = A \cup {q}
    BY <2>1, <2>5
  <2>7. Exclusive(B)
    BY <2>4, <2>6 DEF Exclusive, Peers
  <2>8. ASSUME NEW j \in B, Plan[j].maxParallel > 0
        PROVE  Cardinality(B \cap Siblings(j)) <= Plan[j].maxParallel
    <3>1. CASE q \in Siblings(j)
      <4>1. Siblings(j) = Siblings(q)
        BY <3>1 DEF Siblings
      <4>2. B \cap Siblings(j) = (A \cap Siblings(j)) \cup {q} /\ q \notin A \cap Siblings(j)
        BY <2>1, <2>6, <3>1
      <4>3. Cardinality(B \cap Siblings(j)) = Cardinality(A \cap Siblings(j)) + 1
        BY <1>2, <4>2, FS_AddElement
      <4>4. Plan[j].maxParallel = Plan[q].maxParallel
        BY <3>1, PlanAssumption DEF Siblings
      <4>5. Cardinality(A \cap Siblings(j)) < Plan[j].maxParallel
        BY <2>3, <2>8, <4>1, <4>4 DEF Entering
      <4>6. PICK n \in Nat, m \in Nat : n = Cardinality(A \cap Siblings(j)) /\ m = Plan[j].maxParallel
        BY <1>2
      <4>7. n + 1 <= m
        BY <4>5, <4>6
      <4> QED
        BY <4>3, <4>6, <4>7
    <3>2. CASE q \notin Siblings(j)
      <4>1. B \cap Siblings(j) = A \cap Siblings(j) /\ j \in A
        BY <2>6, <3>2 DEF Siblings
      <4> QED
        BY <2>8, <4>1 DEF Parallel
    <3> QED
      BY <3>1, <3>2
  <2> QED
    BY <2>7, <2>8 DEF Parallel
<1> QED
  BY <1>3, <1>4

\* What one write makes of the rows.
Writing(w, rows, new) ==
  \A j \in Job : new[j] = IF IsRow(w) /\ w.job = j THEN w.row ELSE rows[j]

LEMMA OfferedTail ==
  ASSUME NEW todo \in Seq(Write), todo # <<>>, NEW rows, NEW new,
         Offered(todo, rows), Writing(Head(todo), rows, new)
  PROVE  Offered(Tail(todo), new)
<1> DEFINE w == Head(todo)
           rest == Tail(todo)
<1>1. /\ w = todo[1] /\ 1 \in DOMAIN todo /\ DOMAIN todo \subseteq Nat \ {0}
      /\ \A i \in DOMAIN rest : i \in Nat \ {0} /\ i + 1 \in DOMAIN todo /\ rest[i] = todo[i + 1]
      /\ rest \in Seq(Write)
  BY TailIs
<1>2. \A j \in Job : new[j] = IF IsRow(w) /\ w.job = j THEN w.row ELSE rows[j]
  BY DEF Writing
<1> HIDE DEF w, rest
<1> SUFFICES ASSUME NEW k \in DOMAIN rest, rest[k].do = "offer"
             PROVE  /\ \A i \in 1..(k - 1) :
                         IsRow(rest[i]) /\ rest[i].job = rest[k].job => Handed(rest[i].row)
                    /\ \/ Handed(new[rest[k].job])
                       \/ \E i \in 1..(k - 1) : IsRow(rest[i]) /\ rest[i].job = rest[k].job
  BY DEF Offered, rest
<1>3. k \in Nat \ {0} /\ k + 1 \in DOMAIN todo /\ rest[k] = todo[k + 1] /\ (k + 1) - 1 = k
  BY <1>1
<1>4. PICK j : j = rest[k].job
  OBVIOUS
<1>5. j \in Job
  <2>1. rest[k] \in Write
    BY <1>1
  <2> QED
    BY <1>4, <2>1 DEF Write, RowWrites, QueueWrites, RunWrites
<1>6. /\ \A i \in 1..k : IsRow(todo[i]) /\ todo[i].job = j => Handed(todo[i].row)
      /\ Handed(rows[j]) \/ \E i \in 1..k : IsRow(todo[i]) /\ todo[i].job = j
  BY <1>3, <1>4 DEF Offered
<1>7. \A i \in 1..(k - 1) : i + 1 \in 1..k /\ rest[i] = todo[i + 1]
  <2>1. ASSUME NEW i \in 1..(k - 1) PROVE i \in DOMAIN rest /\ i + 1 \in 1..k
    <3>1. Len(rest) \in Nat /\ DOMAIN rest = 1..Len(rest)
      BY <1>1
    <3> QED
      BY <1>3, <3>1
  <2> QED
    BY <1>1, <2>1
<1>8. \A i \in 1..(k - 1) : IsRow(rest[i]) /\ rest[i].job = j => Handed(rest[i].row)
  BY <1>6, <1>7
<1>9. Handed(new[j]) \/ \E i \in 1..(k - 1) : IsRow(rest[i]) /\ rest[i].job = j
  <2>1. CASE IsRow(w) /\ w.job = j
    <3>1. new[j] = w.row
      BY <1>2, <1>5, <2>1
    <3>2. 1 \in 1..k
      BY <1>3
    <3> QED
      BY <1>1, <1>6, <2>1, <3>1, <3>2
  <2>2. CASE ~(IsRow(w) /\ w.job = j)
    <3>1. new[j] = rows[j]
      BY <1>2, <1>5, <2>2
    <3>2. ASSUME NEW i \in 1..k, IsRow(todo[i]), todo[i].job = j
          PROVE  i - 1 \in 1..(k - 1) /\ rest[i - 1] = todo[i]
      <4>1. i # 1
        BY <1>1, <2>2, <3>2
      <4>2. i - 1 \in 1..(k - 1) /\ (i - 1) + 1 = i
        BY <1>3, <4>1
      <4> QED
        BY <1>7, <4>2
    <3> QED
      BY <1>6, <3>1, <3>2
  <2> QED
    BY <2>1, <2>2
<1> QED
  BY <1>4, <1>8, <1>9

LEMMA RegistersTail ==
  ASSUME NEW todo \in Seq(Write), todo # <<>>, NEW there, NEW now, there \subseteq now,
         Head(todo).do = "create" => Head(todo).job \in now, Registers(todo, there)
  PROVE  Registers(Tail(todo), now)
<1> DEFINE w == Head(todo)
           rest == Tail(todo)
<1>1. /\ w = todo[1] /\ rest \in Seq(Write)
      /\ \A i \in DOMAIN rest : i \in Nat \ {0} /\ i + 1 \in DOMAIN todo /\ rest[i] = todo[i + 1]
  BY TailIs
<1>a. w.do = "create" => w.job \in now
  OBVIOUS
<1> HIDE DEF w, rest
<1> SUFFICES ASSUME NEW k \in DOMAIN rest, rest[k].do = "register",
                    NEW j \in JobsOf(rest[k].run) \ now
             PROVE  \E i \in 1..(k - 1) : rest[i].do = "create" /\ rest[i].job = j
  BY DEF Registers, rest
<1>2. k \in Nat \ {0} /\ k + 1 \in DOMAIN todo /\ rest[k] = todo[k + 1] /\ (k + 1) - 1 = k
  BY <1>1
<1>3. PICK i \in 1..k : todo[i].do = "create" /\ todo[i].job = j
  BY <1>2 DEF Registers
<1>4. i # 1
  BY <1>1, <1>a, <1>3
<1>5. i - 1 \in 1..(k - 1) /\ (i - 1) + 1 = i
  BY <1>2, <1>4
<1>6. i - 1 \in DOMAIN rest
  <2>1. Len(rest) \in Nat /\ DOMAIN rest = 1..Len(rest)
    BY <1>1
  <2> QED
    BY <1>2, <1>5, <2>1
<1> QED
  BY <1>1, <1>3, <1>5, <1>6

LEMMA CatchesTail ==
  ASSUME NEW todo \in Seq(Write), todo # <<>>, NEW snap, DOMAIN snap \in SUBSET Job,
         NEW rows, NEW new, Catches(todo, snap, rows), Writing(Head(todo), rows, new)
  PROVE  Catches(Tail(todo), snap, new)
<1> DEFINE w == Head(todo)
           rest == Tail(todo)
<1>1. /\ w = todo[1] /\ 1 \in DOMAIN todo /\ DOMAIN todo \subseteq Nat \ {0}
      /\ \A i \in DOMAIN rest : i \in Nat \ {0} /\ i + 1 \in DOMAIN todo /\ rest[i] = todo[i + 1]
      /\ \A i \in DOMAIN todo : i = 1 \/ (i - 1 \in DOMAIN rest /\ rest[i - 1] = todo[i])
  BY TailIs
<1>2. \A j \in Job : new[j] = IF IsRow(w) /\ w.job = j THEN w.row ELSE rows[j]
  BY DEF Writing
<1> HIDE DEF w, rest
<1> SUFFICES ASSUME NEW j \in DOMAIN snap
             PROVE  \E i \in DOMAIN rest \cup {0} :
                      /\ IF i = 0 THEN Agrees(new[j], snap[j]) ELSE IsRow(rest[i]) /\ rest[i].job = j
                      /\ \A m \in DOMAIN rest : m >= i /\ IsRow(rest[m]) /\ rest[m].job = j
                                                  => Agrees(rest[m].row, snap[j])
  BY DEF Catches, rest
<1>3. PICK i \in DOMAIN todo \cup {0} :
        /\ IF i = 0 THEN Agrees(rows[j], snap[j]) ELSE IsRow(todo[i]) /\ todo[i].job = j
        /\ \A m \in DOMAIN todo : m >= i /\ IsRow(todo[m]) /\ todo[m].job = j
                                    => Agrees(todo[m].row, snap[j])
  BY DEF Catches
<1>4. i \in Nat
  BY <1>1
<1>5. CASE i \in {0, 1}
  <2>1. \A m \in DOMAIN todo : IsRow(todo[m]) /\ todo[m].job = j => Agrees(todo[m].row, snap[j])
    BY <1>1, <1>3, <1>5
  <2>2. Agrees(new[j], snap[j])
    <3>1. CASE IsRow(w) /\ w.job = j
      BY <1>1, <1>2, <2>1, <3>1
    <3>2. CASE ~(IsRow(w) /\ w.job = j)
      <4>1. i = 0
        BY <1>1, <1>3, <1>5, <3>2
      <4> QED
        BY <1>2, <1>3, <3>2, <4>1
    <3> QED
      BY <3>1, <3>2
  <2>3. \A m \in DOMAIN rest : IsRow(rest[m]) /\ rest[m].job = j => Agrees(rest[m].row, snap[j])
    BY <1>1, <2>1
  <2> QED
    BY <2>2, <2>3
<1>6. CASE i \notin {0, 1}
  <2>1. i - 1 \in DOMAIN rest /\ rest[i - 1] = todo[i] /\ i - 1 # 0
    BY <1>1, <1>4, <1>6
  <2>2. \A m \in DOMAIN rest : m >= i - 1 => m + 1 >= i /\ m + 1 \in DOMAIN todo
    BY <1>1, <1>4
  <2>3. \A m \in DOMAIN rest : m >= i - 1 /\ IsRow(rest[m]) /\ rest[m].job = j
                                 => Agrees(rest[m].row, snap[j])
    BY <1>1, <1>3, <2>2
  <2> QED
    BY <1>3, <1>6, <2>1, <2>3
<1> QED
  BY <1>5, <1>6

-----------------------------------------------------------------------------
\* What the operations make of a row.

LEMMA OpenQueued ==
  ASSUME NEW row \in SchedRow, Sane(row), Open(row)
  PROVE  row.queued /\ ~row.rest.awaiting /\ ~Completed(row)
  BY DEF Sane, Open, Completed

\* Rows that differ in nothing that Sane and Open ask of them.
LEMMA SaneFinished ==
  ASSUME NEW row \in SchedRow, NEW res, Sane(row)
  PROVE  Sane(Finished(row, res)) /\ ~Open(Finished(row, res))
<1> DEFINE rest == [row.rest EXCEPT !.conclusion = res.conclusion, !.cancel = res.cancel]
<1>1. row.rest \in RowColumns
  BY DEF SchedRow
<1>2. rest.awaiting = row.rest.awaiting
  BY <1>1 DEF RowColumns
<1>3. Finished(row, res) = [row EXCEPT !.status = "completed", !.runner = NoRunner, !.rest = rest]
  BY <1>1 DEF Finished, SchedRow, RowColumns
<1> HIDE DEF rest
<1>4. /\ Finished(row, res).status = "completed" /\ Finished(row, res).runner = NoRunner
      /\ Finished(row, res).queued = row.queued /\ Finished(row, res).rest = rest
  BY <1>3 DEF SchedRow
<1> QED
  BY <1>2, <1>4 DEF Sane, Open

LEMMA SaneNext ==
  ASSUME NEW j \in Job, NEW row \in Kept(j), Sane(row), row.queued
  PROVE  /\ Sane(NextAttempt(row)) /\ Handed(NextAttempt(row))
         /\ row.rest.retries + 1 < Plan[j].retry.attempts
              => Sane(RetryOf(row)) /\ Handed(RetryOf(row))
<1> DEFINE next == NextAttempt(row)
           rest == [row.rest EXCEPT !.conclusion = "", !.cancel = ""]
<1>1. row \in SchedRow /\ row.rest \in RowColumns
  BY DEF Kept, SchedRow
<1>2. rest.awaiting = row.rest.awaiting /\ ~row.rest.awaiting /\ rest \in RowColumns
  BY <1>1 DEF RowColumns, Sane
<1>3. next = [row EXCEPT !.status = "queued", !.attempt = row.attempt + 1,
                !.runner = NoRunner, !.setup = FALSE, !.queued = TRUE, !.rest = rest]
  BY <1>1 DEF NextAttempt, SchedRow, RowColumns
<1> HIDE DEF rest
<1>4. /\ next.status = "queued" /\ next.runner = NoRunner /\ next.queued = TRUE
      /\ next.rest = rest
  BY <1>1, <1>3 DEF SchedRow
<1>5. next \in SchedRow
  BY NextAttemptKept DEF Kept
<1> HIDE DEF next
<1>6. Sane(next) /\ Handed(next)
  BY <1>2, <1>4 DEF Sane, Handed
<1>7. Sane([next EXCEPT !.rest.retries = @ + 1]) /\ Handed([next EXCEPT !.rest.retries = @ + 1])
  <2> DEFINE more == [next.rest EXCEPT !.retries = next.rest.retries + 1]
             retry == [next EXCEPT !.rest = more]
  <2>1. [next EXCEPT !.rest.retries = @ + 1] = retry
    BY <1>5 DEF SchedRow, RowColumns
  <2>2. more.awaiting = next.rest.awaiting
    BY <1>2, <1>4 DEF RowColumns
  <2> HIDE DEF more
  <2>3. retry.status = "queued" /\ retry.runner = NoRunner /\ retry.queued = TRUE /\ retry.rest = more
    BY <1>4, <1>5 DEF SchedRow
  <2> HIDE DEF retry
  <2> QED
    BY <1>2, <1>4, <2>1, <2>2, <2>3 DEF Sane, Handed
<1> QED
  BY <1>6, <1>7 DEF RetryOf, next

LEMMA HandedOpen == \A row : Handed(row) => Open(row)
  BY DEF Handed, Open

LEMMA SaneRow ==
  ASSUME NEW row \in SchedRow, Sane(row)
  PROVE  /\ Sane(BackToQueue(row)) /\ BackToQueue(row) \in SchedRow
         /\ Open(row) => Handed(BackToQueue(row))
         /\ Sane([row EXCEPT !.setup = TRUE])
         /\ Open([row EXCEPT !.setup = TRUE]) => Open(row)
         /\ ~row.queued => /\ Sane([row EXCEPT !.status = "waiting"])
                           /\ ~Open([row EXCEPT !.status = "waiting"])
                           /\ [row EXCEPT !.status = "waiting"].status = "waiting"
         /\ ~row.queued /\ ~row.rest.awaiting =>
              /\ Sane([row EXCEPT !.status = "queued", !.queued = TRUE])
              /\ Handed([row EXCEPT !.status = "queued", !.queued = TRUE])
         /\ Open(row) => \A r \in Runner \cup {NoRunner} :
              LET run == [row EXCEPT !.status = "in_progress", !.runner = r] IN
              Sane(run) /\ Open(run) /\ run.status = "in_progress" /\ run.queued
         /\ Open(row) => \A r \in Runner :
              Sane(RunningOn(r, row)) /\ Open(RunningOn(r, row)) /\ RunningOn(r, row).queued
  BY DEF Sane, Open, Handed, BackToQueue, RunningOn, SchedRow

LEMMA SaneApproved ==
  ASSUME NEW row \in SchedRow, Sane(row), row.rest.awaiting
  PROVE  LET new == [row EXCEPT !.status = "queued", !.rest.awaiting = FALSE] IN
         Sane(new) /\ ~Open(new)
<1> DEFINE rest == [row.rest EXCEPT !.awaiting = FALSE]
           new == [row EXCEPT !.status = "queued", !.rest = rest]
<1>1. row.rest \in RowColumns
  BY DEF SchedRow
<1>2. rest.awaiting = FALSE
  BY <1>1 DEF RowColumns
<1>3. [row EXCEPT !.status = "queued", !.rest.awaiting = FALSE] = new
  BY DEF SchedRow
<1> HIDE DEF rest
<1>4. new.status = "queued" /\ new.runner = row.runner /\ new.queued = row.queued /\ new.rest = rest
  BY DEF SchedRow
<1>5. ~row.queued /\ row.runner = NoRunner
  BY DEF Sane
<1> HIDE DEF new
<1> QED
  BY <1>2, <1>3, <1>4, <1>5 DEF Sane, Open

LEMMA SaneNew == \A j \in Job : Sane(NewRow(j)) /\ ~Open(NewRow(j)) /\ ~Completed(NewRow(j))
<1> TAKE j \in Job
<1> DEFINE held == RunPlan[Plan[j].run].fork
           rest == [NoColumns EXCEPT !.awaiting = held]
           status == IF held THEN "waiting" ELSE "queued"
<1>1. NewRow(j) = [AbsentJob EXCEPT !.status = status, !.attempt = 1, !.rest = rest]
  <2>1. AbsentJob.rest = NoColumns
    BY DEF AbsentJob
  <2> QED
    BY <2>1 DEF NewRow, AbsentJob
<1>2. status \in {"waiting", "queued"}
  OBVIOUS
<1> HIDE DEF rest, status
<1>3. NewRow(j).status = status /\ NewRow(j).runner = NoRunner /\ NewRow(j).queued = FALSE
  BY <1>1 DEF AbsentJob
<1> QED
  BY <1>2, <1>3 DEF Sane, Open, Completed

-----------------------------------------------------------------------------
\* One call at a time.

OneAtATime == \A t, u \in Call : t = u

Holding == {j \in Job : Admitted(j)}
There   == {j \in Job : Exists(j)}

SerialTables ==
  /\ \A j \in Job : Sane(jobs[j]) /\ (InQueue(j) => Admitted(j))
  /\ \A r \in plans : JobsOf(r) \subseteq There
  /\ Exclusive(Holding) /\ Parallel(Holding)

SerialCall(c) ==
  /\ \A j \in DOMAIN c.snap : Sane(c.snap[j])
  /\ c.at \in {"dispatch", "completed"} => Admitted(c.job) /\ c.todo = <<>>
  /\ c.at = "dispatch" => Sane(c.row) /\ Open(c.row)
  /\ c.at \in {"gate", "admit"} => DOMAIN c.snap = JobsOf(c.run) /\ Catches(c.todo, c.snap, jobs)
  /\ Orderly(c.todo, Holding) /\ Offered(c.todo, jobs) /\ Registers(c.todo, There)

SerialInv == SerialTables /\ \A t \in Call : SerialCall(calls[t])

LEMMA AdmittedOpen == \A j : Admitted(j) <=> Open(jobs[j])
  BY DEF Admitted, Open

LEMMA NothingLeft ==
  ASSUME NEW A, NEW rows, NEW there
  PROVE  Orderly(<<>>, A) /\ Offered(<<>>, rows) /\ Registers(<<>>, there)
<1> DEFINE todo == <<>>
<1>1. DOMAIN todo = {}
  OBVIOUS
<1> HIDE DEF todo
<1>2. Orderly(todo, A) /\ Offered(todo, rows) /\ Registers(todo, there)
  BY <1>1 DEF Orderly, Offered, Registers
<1> QED
  BY <1>2 DEF todo

LEMMA IdleSerial == SerialCall(Idle)
<1>1. Idle.at = "" /\ Idle.todo = <<>> /\ Idle.snap = <<>>
  BY DEF Idle
<1>2. DOMAIN Idle.snap = {}
  <2> DEFINE none == <<>>
  <2>1. DOMAIN none = {}
    OBVIOUS
  <2> HIDE DEF none
  <2>2. Idle.snap = none
    BY <1>1 DEF none
  <2> QED
    BY <2>1, <2>2
<1> QED
  BY <1>1, <1>2, NothingLeft DEF SerialCall

\* A call that goes on, or returns, beside no other.
LEMMA OnlyCall ==
  ASSUME OneAtATime, CallsInv, NEW t \in Call, NEW c, SerialCall(c)', Goes(t, c) \/ Returns(t)
  PROVE  \A u \in Call : SerialCall(calls[u])'
<1>1. SerialCall(Idle)'
  BY IdleSerial, PTL
<1>2. PICK d : calls' = [calls EXCEPT ![t] = d] /\ SerialCall(d)'
  <2>1. CASE Goes(t, c)
    BY <1>1, <2>1 DEF Goes
  <2>2. CASE Returns(t)
    BY <1>1, <2>2 DEF Returns
  <2> QED
    BY <2>1, <2>2
<1>3. ASSUME NEW u \in Call PROVE calls'[u] = d
  BY <1>2 DEF CallsInv, OneAtATime
<1> QED
  BY <1>2, <1>3 DEF SerialCall

\* What the tables say is kept by a call that only decides.
LEMMA Settled ==
  ASSUME UNCHANGED <<jobs, queue>>
  PROVE  /\ Holding' = Holding /\ There' = There
         /\ \A c : SerialCall(c) => SerialCall(c)'
         /\ plans' \subseteq plans /\ SerialTables => SerialTables'
<1>1. Holding' = Holding /\ There' = There
  BY DEF Holding, There, Admitted, Exists
<1>2. ASSUME NEW c, SerialCall(c) PROVE SerialCall(c)'
  BY <1>1, <1>2 DEF SerialCall, Admitted
<1>3. ASSUME plans' \subseteq plans, SerialTables PROVE SerialTables'
  BY <1>1, <1>3 DEF SerialTables, Admitted, InQueue
<1> QED
  BY <1>1, <1>2, <1>3

LEMMA SerialDecides ==
  ASSUME OneAtATime, SchedInv, SerialInv, UNCHANGED <<jobs, queue>>, plans' \subseteq plans,
         NEW t \in Call, NEW c, SerialCall(c), Goes(t, c) \/ Returns(t)
  PROVE  SerialInv'
<1>1. SerialCall(c)' /\ SerialTables'
  BY Settled DEF SerialInv
<1>2. \A u \in Call : SerialCall(calls[u])'
  BY <1>1, OnlyCall DEF SchedInv
<1> QED
  BY <1>1, <1>2 DEF SerialInv

\* What the store does with a write of a call.
Stores(w) ==
  \/ w.do = "create" /\ CreateJob(w.job, w.row)
  \/ w.do = "update" /\ UpdateJob(w.job, w.row)
  \/ w.do = "offer"  /\ Enqueue(w.job, w.attempt, 0, w.ready)
  \/ w.do = "drop"   /\ DropFromQueue(w.job)
  \/ ~IsRow(w) /\ UNCHANGED <<jobs, queue, dispatches>>

\* A write whose turn it is changes the row it carries and no other.
LEMMA WriteWrites ==
  ASSUME TablesInv, NEW w \in Write, Stores(w), w.do = "offer" => Handed(jobs[w.job])
  PROVE  Writing(w, jobs, jobs')
<1>1. /\ jobs = [j \in Job |-> jobs[j]] /\ \A j \in Job : jobs[j] \in SchedRow
  BY RowsOfJob
<1>2. CASE IsRow(w)
  <2>1. jobs' = [jobs EXCEPT ![w.job] = w.row]
    BY <1>2 DEF Stores, IsRow, CreateJob, UpdateJob
  <2> QED
    BY <1>1, <1>2, <2>1 DEF Writing
<1>3. CASE ~IsRow(w)
  <2>1. jobs' = jobs
    <3>1. CASE w.do = "offer" /\ Enqueue(w.job, w.attempt, 0, w.ready)
      <4>1. w.job \in Job
        BY <3>1 DEF Write, RowWrites, QueueWrites, RunWrites
      <4>2. [jobs[w.job] EXCEPT !.status = "queued", !.queued = TRUE] = jobs[w.job]
        <5>1. jobs[w.job] \in SchedRow /\ jobs[w.job].status = "queued" /\ jobs[w.job].queued
          BY <1>1, <3>1, <4>1 DEF Handed
        <5>2. jobs[w.job].queued = TRUE
          BY <5>1 DEF SchedRow
        <5> QED
          BY <5>1, <5>2 DEF SchedRow
      <4>3. jobs' = jobs \/ jobs' = [jobs EXCEPT ![w.job] = jobs[w.job]]
        BY <3>1, <4>2 DEF Enqueue
      <4> QED
        BY <1>1, <4>1, <4>3
    <3> QED
      BY <1>3, <3>1 DEF Stores, IsRow, DropFromQueue
  <2> QED
    BY <1>1, <1>3, <2>1 DEF Writing
<1> QED
  BY <1>2, <1>3

\* What it makes of the jobs with the queue and of those that are there.
LEMMA WriteMoves ==
  ASSUME TablesInv, NEW w \in Write, Stores(w), w.do = "offer" => Handed(jobs[w.job]),
         Writing(w, jobs, jobs')
  PROVE  /\ Moves(w, Holding, Holding') /\ There \subseteq There'
         /\ w.do = "create" => w.job \in There'
<1>1. \A j \in Job : jobs'[j] = IF IsRow(w) /\ w.job = j THEN w.row ELSE jobs[j]
  BY DEF Writing
<1>2. \A j \in Job : (j \in Holding <=> Open(jobs[j])) /\ (j \in Holding' <=> Open(jobs'[j]))
  BY DEF Holding, Admitted, Open
<1>3. ASSUME NEW j \in Job
      PROVE  /\ Closes(w, j) => j \notin Holding'
             /\ Opens(w, j) => j \in Holding'
             /\ ~Closes(w, j) /\ ~Opens(w, j) => (j \in Holding' <=> j \in Holding)
  <2>1. CASE IsRow(w) /\ w.job = j
    BY <1>1, <1>2, <2>1 DEF Closes, Opens, IsRow
  <2>2. CASE ~IsRow(w) \/ w.job # j
    <3>1. jobs'[j] = jobs[j] /\ ~Closes(w, j)
      BY <1>1, <2>2 DEF Closes
    <3>2. Opens(w, j) => Open(jobs[j])
      BY <2>2, HandedOpen DEF Opens, IsRow
    <3> QED
      BY <1>2, <3>1, <3>2
  <2> QED
    BY <2>1, <2>2
<1>4. IsRow(w) => w.job \in Job /\ w.row.status # "absent"
  BY DEF Write, RowWrites, QueueWrites, RunWrites, IsRow, Kept
<1>5. There \subseteq There' /\ (w.do = "create" => w.job \in There')
  BY <1>1, <1>4 DEF There, Exists, IsRow
<1> QED
  BY <1>3, <1>5 DEF Moves

\* A job in the queue stays one that was handed to it.
LEMMA WriteQueue ==
  ASSUME TablesInv, NEW w \in Write, Stores(w), w.do = "offer" => Handed(jobs[w.job]),
         Writing(w, jobs, jobs'), \A j \in Job : InQueue(j) => Admitted(j),
         w.do = "update" /\ w.row.status # "completed" /\ ~Open(w.row) => w.job \notin Holding
  PROVE  \A j \in Job : InQueue(j)' => Admitted(j)'
<1> SUFFICES ASSUME NEW j \in Job, InQueue(j)' PROVE Admitted(j)'
  OBVIOUS
<1>1. /\ \A k \in Job : jobs'[k] = IF IsRow(w) /\ w.job = k THEN w.row ELSE jobs[k]
      /\ queue = [k \in Job |-> queue[k]] /\ AbsentEntry.state = "absent"
      /\ Admitted(j) <=> Open(jobs[j])
      /\ Admitted(j)' <=> Open(jobs'[j])
  BY RowsOfJob, AdmittedOpen DEF Writing, AbsentEntry, Admitted, Open
<1>2. CASE IsRow(w) /\ w.job = j
  <2>1. CASE w.do = "create"
    <3>1. ~Exists(j) /\ queue' = queue
      BY <1>2, <2>1 DEF Stores, CreateJob, IsRow
    <3>2. InQueue(j)
      BY <3>1 DEF InQueue
    <3> QED
      BY <3>1, <3>2 DEF Admitted, Exists
  <2>2. CASE w.do = "update"
    <3>1. queue' = [queue EXCEPT ![j] = IF w.row.status = "completed" THEN AbsentEntry ELSE @]
      BY <1>2, <2>2 DEF Stores, UpdateJob, IsRow
    <3>2. w.row.status # "completed" /\ InQueue(j)
      BY <1>1, <3>1 DEF InQueue
    <3>3. j \in Holding
      BY <3>2 DEF Holding
    <3> QED
      BY <1>1, <1>2, <2>2, <3>2, <3>3
  <2> QED
    BY <1>2, <2>1, <2>2 DEF IsRow
<1>3. CASE ~(IsRow(w) /\ w.job = j)
  <2>1. jobs'[j] = jobs[j]
    BY <1>1, <1>3
  <2>2. InQueue(j) \/ (w.do = "offer" /\ w.job = j)
    <3>1. CASE IsRow(w)
      <4>1. w.job # j /\ w.job \in Job
        BY <1>3, <3>1 DEF Write, RowWrites, QueueWrites, RunWrites, IsRow
      <4>2. queue' = queue \/ \E e : queue' = [queue EXCEPT ![w.job] = e]
        BY <3>1 DEF Stores, CreateJob, UpdateJob, IsRow
      <4> QED
        BY <1>1, <4>1, <4>2 DEF InQueue
    <3>2. CASE w.do = "drop" /\ DropFromQueue(w.job)
      BY <1>1, <3>2 DEF InQueue, DropFromQueue
    <3>3. CASE w.do = "offer" /\ Enqueue(w.job, w.attempt, 0, w.ready)
      BY <1>1, <3>3 DEF InQueue, Enqueue
    <3>4. CASE UNCHANGED queue
      BY <3>4 DEF InQueue
    <3> QED
      BY <3>1, <3>2, <3>3, <3>4 DEF Stores, IsRow
  <2>3. Open(jobs[j])
    BY <1>1, <2>2, HandedOpen
  <2> QED
    BY <1>1, <2>1, <2>3
<1> QED
  BY <1>2, <1>3

\* A call with one write less to do.
LEMMA OneLess ==
  ASSUME NEW c, CallOK(c), SerialCall(c), c.todo # <<>>,
         Writing(Head(c.todo), jobs, jobs'), Moves(Head(c.todo), Holding, Holding'),
         There \subseteq There', Head(c.todo).do = "create" => Head(c.todo).job \in There'
  PROVE  SerialCall([c EXCEPT !.todo = Tail(c.todo)])'
<1> DEFINE d == [c EXCEPT !.todo = Tail(c.todo)]
<1>1. /\ c.todo \in Seq(Write) /\ DOMAIN c.snap \in SUBSET Job
  BY SnapIs DEF CallOK, CallState
<1>2. /\ d.todo = Tail(c.todo) /\ d.snap = c.snap /\ d.at = c.at /\ d.job = c.job /\ d.row = c.row
      /\ d.run = c.run
  BY DEF CallOK, CallState
<1>3. /\ Orderly(Tail(c.todo), Holding') /\ Offered(Tail(c.todo), jobs')
      /\ Registers(Tail(c.todo), There')
  <2>1. Holding \in SUBSET Job /\ Holding' \in SUBSET Job
    BY DEF Holding
  <2>2. Orderly(c.todo, Holding) /\ Offered(c.todo, jobs) /\ Registers(c.todo, There)
    BY DEF SerialCall
  <2>3. Orderly(Tail(c.todo), Holding')
    BY <1>1, <2>1, <2>2, OrderlyTail
  <2>4. Offered(Tail(c.todo), jobs')
    BY <1>1, <2>2, OfferedTail
  <2>5. Registers(Tail(c.todo), There')
    BY <1>1, <2>2, RegistersTail
  <2> QED
    BY <2>3, <2>4, <2>5
<1>4. c.at \notin {"dispatch", "completed"}
  BY DEF SerialCall
<1>5. ASSUME c.at \in {"gate", "admit"}
      PROVE  DOMAIN c.snap = JobsOf(c.run) /\ Catches(Tail(c.todo), c.snap, jobs')
  BY <1>1, <1>5, CatchesTail DEF SerialCall
<1>6. \A j \in DOMAIN c.snap : Sane(c.snap[j])
  BY DEF SerialCall
<1> HIDE DEF d
<1>7. SerialCall(d)'
  BY <1>2, <1>3, <1>4, <1>5, <1>6 DEF SerialCall
<1> QED
  BY <1>7 DEF d

LEMMA SerialWrite ==
  ASSUME OneAtATime, SchedInv, SerialInv, NEW t \in Call, WriteStep(t)
  PROVE  SerialInv'
<1> DEFINE c == calls[t]
           w == Head(c.todo)
<1>1. /\ CallOK(c) /\ SerialCall(c) /\ c.todo \in Seq(Write) /\ c.todo # <<>> /\ TablesInv /\ CallsInv
  BY CallFacts DEF SerialInv, WriteStep, SchedInv
<1>2. /\ w \in Write /\ w = c.todo[1] /\ 1 \in DOMAIN c.todo
  BY <1>1, TailIs
<1>3. Stores(w)
  BY DEF WriteStep, Stores, IsRow
<1>4. /\ plans' \subseteq plans \cup (IF w.do = "register" THEN {w.run} ELSE {})
      /\ \/ Returns(t)
         \/ Goes(t, [c EXCEPT !.todo = Tail(c.todo)])
  BY DEF WriteStep
<1> HIDE DEF c, w
<1>5. /\ Orderly(c.todo, Holding) /\ Offered(c.todo, jobs) /\ Registers(c.todo, There)
      /\ \A j \in Job : Sane(jobs[j]) /\ (InQueue(j) => Admitted(j))
      /\ \A r \in plans : JobsOf(r) \subseteq There
      /\ Exclusive(Holding) /\ Parallel(Holding)
  BY <1>1 DEF SerialCall, SerialInv, SerialTables
<1>6. /\ IsRow(w) => Sane(w.row)
      /\ w.do = "update" /\ w.row.status # "completed" /\ ~Open(w.row) => w.job \notin Holding
      /\ w.do = "offer" => Handed(jobs[w.job])
      /\ w.do = "register" => JobsOf(w.run) \subseteq There
  <2>1. IsRow(w) => Sane(w.row)
    BY <1>2, <1>5 DEF Orderly
  <2>2. ASSUME w.do = "update", w.row.status # "completed", ~Open(w.row) PROVE w.job \notin Holding
    <3>1. w.job \in Job
      BY <1>2, <2>2 DEF Write, RowWrites, QueueWrites, RunWrites
    <3>2. Closes(w, w.job)
      BY <2>2 DEF Closes, IsRow
    <3> QED
      BY <1>2, <1>5, <2>2, <3>1, <3>2 DEF Orderly
  <2>3. 1..(1 - 1) = {}
    OBVIOUS
  <2>4. w.do = "offer" => Handed(jobs[w.job])
    BY <1>2, <1>5, <2>3 DEF Offered
  <2>5. w.do = "register" => JobsOf(w.run) \subseteq There
    BY <1>2, <1>5, <2>3 DEF Registers
  <2> QED
    BY <2>1, <2>2, <2>4, <2>5
<1>7. Writing(w, jobs, jobs')
  BY <1>1, <1>2, <1>3, <1>6, WriteWrites
<1>8. /\ Moves(w, Holding, Holding') /\ There \subseteq There'
      /\ w.do = "create" => w.job \in There'
  BY <1>1, <1>2, <1>3, <1>6, <1>7, WriteMoves
<1>9. \A j \in Job : InQueue(j)' => Admitted(j)'
  BY <1>1, <1>2, <1>3, <1>5, <1>6, <1>7, WriteQueue
<1>10. \A j \in Job : Sane(jobs'[j])
  BY <1>5, <1>6, <1>7 DEF Writing
<1>11. Exclusive(Holding') /\ Parallel(Holding')
  <2>1. Holding \in SUBSET Job /\ Holding' \in SUBSET Job
    BY DEF Holding
  <2> QED
    BY <1>1, <1>5, <1>8, <2>1, NextWriteKeeps DEF w
<1>12. \A r \in plans' : JobsOf(r) \subseteq There'
  BY <1>4, <1>5, <1>6, <1>8
<1>13. SerialTables'
  BY <1>9, <1>10, <1>11, <1>12 DEF SerialTables
<1>14. \A u \in Call : SerialCall(calls[u])'
  <2>1. PICK d : SerialCall(d)' /\ (Goes(t, d) \/ Returns(t))
    <3>1. CASE Returns(t)
      <4>1. SerialCall(Idle)'
        BY IdleSerial, PTL
      <4> QED
        BY <3>1, <4>1
    <3>2. CASE Goes(t, [c EXCEPT !.todo = Tail(c.todo)])
      <4>1. PICK cc : cc = c
        OBVIOUS
      <4>2. SerialCall([cc EXCEPT !.todo = Tail(cc.todo)])'
        BY <1>1, <1>7, <1>8, <4>1, OneLess DEF w
      <4> QED
        BY <3>2, <4>1, <4>2
    <3> QED
      BY <1>4, <3>1, <3>2
  <2> QED
    BY <1>1, <2>1, OnlyCall
<1> QED
  BY <1>13, <1>14 DEF SerialInv

-----------------------------------------------------------------------------
\* Sequences of writes.

LEMMA ConcatIs ==
  ASSUME NEW W, NEW s \in Seq(W), NEW t \in Seq(W)
  PROVE  /\ s \o t \in Seq(W) /\ Len(s) \in Nat /\ Len(t) \in Nat
         /\ DOMAIN s = 1..Len(s) /\ DOMAIN t = 1..Len(t) /\ DOMAIN (s \o t) = 1..(Len(s) + Len(t))
         /\ \A i \in DOMAIN (s \o t) :
              \/ i \in DOMAIN s /\ (s \o t)[i] = s[i]
              \/ i > Len(s) /\ i - Len(s) \in DOMAIN t /\ (s \o t)[i] = t[i - Len(s)]
         /\ \A i \in DOMAIN s : i \in DOMAIN (s \o t) /\ (s \o t)[i] = s[i] /\ i <= Len(s)
         /\ \A i \in DOMAIN t : Len(s) + i \in DOMAIN (s \o t) /\ (s \o t)[Len(s) + i] = t[i]
<1> DEFINE u == s \o t
<1>1. /\ u \in Seq(W) /\ Len(u) = Len(s) + Len(t) /\ Len(s) \in Nat /\ Len(t) \in Nat
      /\ DOMAIN s = 1..Len(s) /\ DOMAIN t = 1..Len(t)
      /\ \A i \in 1..(Len(s) + Len(t)) : u[i] = IF i <= Len(s) THEN s[i] ELSE t[i - Len(s)]
  BY ConcatProperties
<1>2. DOMAIN u = 1..(Len(s) + Len(t))
  BY <1>1
<1> HIDE DEF u
<1>3. ASSUME NEW i \in DOMAIN u
      PROVE  \/ i \in DOMAIN s /\ u[i] = s[i]
             \/ i > Len(s) /\ i - Len(s) \in DOMAIN t /\ u[i] = t[i - Len(s)]
  BY <1>1, <1>2
<1>4. ASSUME NEW i \in DOMAIN s PROVE i \in DOMAIN u /\ u[i] = s[i] /\ i <= Len(s)
  BY <1>1, <1>2
<1>5. ASSUME NEW i \in DOMAIN t PROVE Len(s) + i \in DOMAIN u /\ u[Len(s) + i] = t[i]
  <2>1. Len(s) + i \in 1..(Len(s) + Len(t)) /\ ~(Len(s) + i <= Len(s)) /\ (Len(s) + i) - Len(s) = i
    BY <1>1
  <2> QED
    BY <1>1, <1>2, <2>1
<1> QED
  BY <1>1, <1>2, <1>3, <1>4, <1>5 DEF u

\* The n-th write of a sequence is one of a round, which has come so far.
OfRound(todo, n, round) ==
  \E m \in DOMAIN round : /\ todo[n] = round[m]
                          /\ \A l \in 1..(m - 1) : \E p \in 1..(n - 1) : todo[p] = round[l]

\* The writes of a loop are those of its rounds.
RoundsOf(rounds, js, f) ==
  /\ ForEach(f) = FlattenSeq(rounds)
  /\ \A i \in DOMAIN rounds : \E j \in js : rounds[i] = f[j]
  /\ \A j \in js : \E i \in DOMAIN rounds : rounds[i] = f[j]

LEMMA LoopIsFlat ==
  ASSUME NEW W, NEW js \in SUBSET Job, NEW f \in [js -> Seq(W)]
  PROVE  \E rounds \in Seq(Seq(W)) : RoundsOf(rounds, js, f)
<1> DEFINE c == Cardinality(js)
           rounds == [i \in 1..c |-> f[Nth(js, i)]]
<1>1. IsFiniteSet(js) /\ c \in Nat /\ js \in SUBSET Nat
  BY FS_Subset, FS_CardinalityType, SchedulerAssumption, JobAssumption
<1>2. ASSUME NEW i \in 1..c PROVE Nth(js, i) \in js /\ Cardinality({k \in js : k < Nth(js, i)}) = i - 1
  BY <1>1, RankExists DEF Nth
<1>3. ASSUME NEW j \in js PROVE \E i \in 1..c : Nth(js, i) = j
  <2> DEFINE Below(l) == {k \in js : k < l}
  <2>1. /\ Cardinality(Below(j)) \in Nat /\ Cardinality(Below(j)) + 1 \in 1..c
        /\ \A l \in js : Cardinality(Below(l)) = Cardinality(Below(j)) => l = j
    BY <1>1, RankOf
  <2>2. \A i \in 1..c : Nth(js, i) \in js /\ Cardinality(Below(Nth(js, i))) = i - 1
    BY <1>2
  <2> HIDE DEF Below, c
  <2>3. PICK n \in Nat : n = Cardinality(Below(j)) /\ n + 1 \in 1..c /\ (n + 1) - 1 = n
    BY <2>1
  <2>4. Nth(js, n + 1) = j
    BY <2>1, <2>2, <2>3
  <2> QED
    BY <2>3, <2>4
<1>4. rounds \in Seq(Seq(W)) /\ DOMAIN rounds = 1..c
  <2>1. \A i \in 1..c : f[Nth(js, i)] \in Seq(W)
    BY <1>2
  <2> HIDE DEF c
  <2> QED
    BY <1>1, <2>1
<1>5. ForEach(f) = FlattenSeq(rounds)
  BY DEF ForEach
<1>6. \A i \in 1..c : rounds[i] = f[Nth(js, i)]
  OBVIOUS
<1> HIDE DEF rounds, c
<1>7. \A i \in DOMAIN rounds : \E j \in js : rounds[i] = f[j]
  BY <1>2, <1>4, <1>6
<1>8. \A j \in js : \E i \in DOMAIN rounds : rounds[i] = f[j]
  BY <1>3, <1>4, <1>6
<1> QED
  BY <1>4, <1>5, <1>7, <1>8 DEF RoundsOf

\* Those of a round come in its order.
LEMMA LoopRounds ==
  ASSUME NEW W, NEW js \in SUBSET Job, NEW f \in [js -> Seq(W)]
  PROVE  /\ ForEach(f) \in Seq(W)
         /\ \A n \in DOMAIN ForEach(f) : \E j \in js : OfRound(ForEach(f), n, f[j])
<1>a. PICK rounds \in Seq(Seq(W)) : RoundsOf(rounds, js, f)
  BY LoopIsFlat
<1>1. /\ ForEach(f) = FlattenSeq(rounds)
      /\ \A i \in DOMAIN rounds : \E j \in js : rounds[i] = f[j]
  BY <1>a DEF RoundsOf
<1>2. FlattenSeq(rounds) \in Seq(W)
  BY FlattenSeqType
<1>3. ASSUME NEW n \in DOMAIN FlattenSeq(rounds)
      PROVE  \E j \in js : OfRound(FlattenSeq(rounds), n, f[j])
  <2>1. PICK r \in DOMAIN rounds : \E m \in DOMAIN rounds[r] :
           /\ FlattenSeq(rounds)[n] = rounds[r][m]
           /\ \A l \in 1..(m - 1) : \E p \in 1..(n - 1) : FlattenSeq(rounds)[p] = rounds[r][l]
    BY <1>3, FlattenSeqOrder
  <2>2. PICK m \in DOMAIN rounds[r] :
           /\ FlattenSeq(rounds)[n] = rounds[r][m]
           /\ \A l \in 1..(m - 1) : \E p \in 1..(n - 1) : FlattenSeq(rounds)[p] = rounds[r][l]
    BY <2>1
  <2>3. PICK j \in js : rounds[r] = f[j]
    BY <1>1
  <2> QED
    BY <2>2, <2>3 DEF OfRound
<1> QED
  BY <1>1, <1>2, <1>3

\* No round's write is left out.
LEMMA LoopCovers ==
  ASSUME NEW W, NEW js \in SUBSET Job, NEW f \in [js -> Seq(W)], NEW j \in js, NEW m \in DOMAIN f[j]
  PROVE  \E n \in DOMAIN ForEach(f) : ForEach(f)[n] = f[j][m]
<1>a. PICK rounds \in Seq(Seq(W)) : RoundsOf(rounds, js, f)
  BY LoopIsFlat
<1>1. /\ ForEach(f) = FlattenSeq(rounds)
      /\ \A k \in js : \E i \in DOMAIN rounds : rounds[i] = f[k]
  BY <1>a DEF RoundsOf
<1>2. PICK i \in DOMAIN rounds : rounds[i] = f[j]
  BY <1>1
<1>3. m \in DOMAIN rounds[i]
  BY <1>2
<1>4. \E n \in DOMAIN FlattenSeq(rounds) : FlattenSeq(rounds)[n] = rounds[i][m]
  BY <1>2, <1>3, FlattenSeqCovers
<1> QED
  BY <1>1, <1>2, <1>4

\* Writes that end jobs, or are none of jobs: at any time in any order.
Ending(todo) ==
  \A k \in DOMAIN todo : /\ todo[k].do # "offer"
                         /\ IsRow(todo[k]) => Completed(todo[k].row) /\ Sane(todo[k].row)

Quiet(todo) == \A k \in DOMAIN todo : todo[k].do # "register"

LEMMA EndingOpens ==
  ASSUME NEW todo, Ending(todo), NEW k \in DOMAIN todo, NEW j
  PROVE  /\ ~Opens(todo[k], j) /\ (IsRow(todo[k]) => Sane(todo[k].row))
         /\ ~(Closes(todo[k], j) /\ todo[k].do = "update" /\ todo[k].row.status # "completed")
  BY DEF Ending, Opens, Closes, Open, Completed, IsRow

LEMMA EndingOrderly ==
  ASSUME NEW todo, Ending(todo), NEW A, NEW rows
  PROVE  Orderly(todo, A) /\ Offered(todo, rows)
<1>1. Orderly(todo, A)
  BY EndingOpens DEF Orderly
<1>2. Offered(todo, rows)
  BY DEF Ending, Offered
<1> QED
  BY <1>1, <1>2

LEMMA QuietRegisters == ASSUME NEW todo, Quiet(todo), NEW there PROVE Registers(todo, there)
  BY DEF Quiet, Registers

LEMMA EndingConcat ==
  ASSUME NEW s \in Seq(Write), NEW t \in Seq(Write)
  PROVE  /\ Ending(s) /\ Ending(t) => Ending(s \o t)
         /\ Quiet(s) /\ Quiet(t) => Quiet(s \o t)
<1> DEFINE u == s \o t
<1>1. \A i \in DOMAIN u : (i \in DOMAIN s /\ u[i] = s[i]) \/ (\E k \in DOMAIN t : u[i] = t[k])
  BY ConcatIs
<1> HIDE DEF u
<1>2. Ending(s) /\ Ending(t) => Ending(u)
  BY <1>1 DEF Ending
<1>3. Quiet(s) /\ Quiet(t) => Quiet(u)
  BY <1>1 DEF Quiet
<1> QED
  BY <1>2, <1>3 DEF u

LEMMA EndingLoop ==
  ASSUME NEW js \in SUBSET Job, NEW f \in [js -> Seq(Write)]
  PROVE  /\ (\A j \in js : Ending(f[j])) => Ending(ForEach(f))
         /\ (\A j \in js : Quiet(f[j])) => Quiet(ForEach(f))
<1>1. ASSUME NEW n \in DOMAIN ForEach(f)
      PROVE  \E j \in js : \E m \in DOMAIN f[j] : ForEach(f)[n] = f[j][m]
  <2>1. \E j \in js : OfRound(ForEach(f), n, f[j])
    BY LoopRounds
  <2> QED
    BY <2>1 DEF OfRound
<1> DEFINE u == ForEach(f)
<1> HIDE DEF u
<1>2. (\A j \in js : Ending(f[j])) => Ending(u)
  BY <1>1 DEF Ending, u
<1>3. (\A j \in js : Quiet(f[j])) => Quiet(u)
  BY <1>1 DEF Quiet, u
<1> QED
  BY <1>2, <1>3 DEF u

\* What may be written anyhow may be written last.
LEMMA EndingThen ==
  ASSUME NEW s \in Seq(Write), NEW t \in Seq(Write), NEW A, NEW rows,
         Orderly(s, A), Offered(s, rows), Ending(t)
  PROVE  Orderly(s \o t, A) /\ Offered(s \o t, rows)
<1> DEFINE u == s \o t
<1>1. /\ Len(s) \in Nat /\ DOMAIN s = 1..Len(s) /\ DOMAIN u \subseteq Nat
      /\ \A i \in DOMAIN u : \/ i \in DOMAIN s /\ u[i] = s[i]
                             \/ i > Len(s) /\ \E k \in DOMAIN t : u[i] = t[k]
      /\ \A i \in DOMAIN s : i \in DOMAIN u /\ u[i] = s[i]
  BY ConcatIs
<1> HIDE DEF u
<1>2. ASSUME NEW i \in DOMAIN u, i \notin DOMAIN s
      PROVE  /\ i > Len(s) /\ u[i].do # "offer" /\ (IsRow(u[i]) => Sane(u[i].row))
             /\ \A j \in Job :
                  /\ ~Opens(u[i], j)
                  /\ ~(Closes(u[i], j) /\ u[i].do = "update" /\ u[i].row.status # "completed")
  BY <1>1, <1>2, EndingOpens DEF Ending
<1>3. \A k \in DOMAIN s : 1..(k - 1) \subseteq DOMAIN s
  BY <1>1
<1>4. \A k \in DOMAIN s, j \in Job : Entering(s, k, j, A) => Entering(u, k, j, A)
  BY <1>1, <1>2, <1>3 DEF Entering
<1>5. \A i \in DOMAIN u : IsRow(u[i]) => Sane(u[i].row)
  BY <1>1, <1>2 DEF Orderly
<1>6. ASSUME NEW i \in DOMAIN u, NEW k \in DOMAIN u, NEW j \in Job, i < k, Closes(u[i], j)
      PROVE  ~Opens(u[k], j)
  <2>1. CASE k \in DOMAIN s
    <3>1. i \in DOMAIN s
      BY <1>1, <1>2, <1>6, <2>1
    <3> QED
      BY <1>1, <1>6, <2>1, <3>1 DEF Orderly
  <2>2. CASE k \notin DOMAIN s
    BY <1>2, <2>2
  <2> QED
    BY <2>1, <2>2
<1>7. \A k \in DOMAIN u, j \in Job : Opens(u[k], j) => j \in A \/ Entering(u, k, j, A)
  BY <1>1, <1>2, <1>4 DEF Orderly
<1>8. ASSUME NEW k \in DOMAIN u, NEW j \in Job, Closes(u[k], j), u[k].do = "update",
             u[k].row.status # "completed"
      PROVE  j \notin A /\ \A i \in DOMAIN u : ~Opens(u[i], j)
  BY <1>1, <1>2, <1>8 DEF Orderly
<1>9. Orderly(u, A)
  BY <1>5, <1>6, <1>7, <1>8 DEF Orderly
<1>10. ASSUME NEW k \in DOMAIN u, u[k].do = "offer"
       PROVE  /\ \A i \in 1..(k - 1) : IsRow(u[i]) /\ u[i].job = u[k].job => Handed(u[i].row)
              /\ \/ Handed(rows[u[k].job])
                 \/ \E i \in 1..(k - 1) : IsRow(u[i]) /\ u[i].job = u[k].job
  <2>1. k \in DOMAIN s
    BY <1>2, <1>10
  <2>2. u[k] = s[k] /\ \A i \in 1..(k - 1) : u[i] = s[i]
    BY <1>1, <1>3, <2>1
  <2> QED
    BY <1>10, <2>1, <2>2 DEF Offered
<1> QED
  BY <1>9, <1>10 DEF u, Offered

\* Writes of one row for each job, each job offered once its row is written.
PlainWrite(todo, k, g, A, rows) ==
  LET w == todo[k] IN
  /\ w.do # "register"
  /\ IsRow(w) => /\ w.row = g[w.job] /\ Sane(w.row)
                 /\ Open(w.row) => w.job \in A
                 /\ w.do = "update" /\ ~Open(w.row) /\ ~Completed(w.row) => w.job \notin A
  /\ w.do = "offer" => /\ Handed(g[w.job]) /\ w.job \in A
                       /\ \/ Handed(rows[w.job])
                          \/ \E i \in 1..(k - 1) : IsRow(todo[i]) /\ todo[i].job = w.job

Plain(todo, g, A, rows) == \A k \in DOMAIN todo : PlainWrite(todo, k, g, A, rows)

LEMMA PlainOrderly ==
  ASSUME NEW todo \in Seq(Write), NEW g, NEW A, NEW rows, Plain(todo, g, A, rows)
  PROVE  Orderly(todo, A) /\ Offered(todo, rows) /\ Quiet(todo)
<1>1. \A k \in DOMAIN todo : PlainWrite(todo, k, g, A, rows)
  BY DEF Plain
<1>2. ASSUME NEW k \in DOMAIN todo, NEW j \in Job
      PROVE  /\ Opens(todo[k], j) => Open(g[j]) /\ j \in A
             /\ Closes(todo[k], j) => ~Open(g[j])
             /\ Closes(todo[k], j) /\ todo[k].do = "update" /\ todo[k].row.status # "completed"
                  => j \notin A
             /\ IsRow(todo[k]) => Sane(todo[k].row)
  BY <1>1, HandedOpen DEF PlainWrite, Opens, Closes, IsRow, Completed
<1>3. Orderly(todo, A)
  <2>1. \A i \in DOMAIN todo : IsRow(todo[i]) => Sane(todo[i].row)
    BY <1>1 DEF PlainWrite
  <2>2. \A i, k \in DOMAIN todo, j \in Job : i < k /\ Closes(todo[i], j) => ~Opens(todo[k], j)
    BY <1>2
  <2>3. \A k \in DOMAIN todo, j \in Job : Opens(todo[k], j) => j \in A
    BY <1>2
  <2>4. \A k \in DOMAIN todo, j \in Job :
          Closes(todo[k], j) /\ todo[k].do = "update" /\ todo[k].row.status # "completed"
            => j \notin A /\ \A i \in DOMAIN todo : ~Opens(todo[i], j)
    BY <1>2
  <2> QED
    BY <2>1, <2>2, <2>3, <2>4 DEF Orderly
<1>4. ASSUME NEW k \in DOMAIN todo, todo[k].do = "offer"
      PROVE  /\ \A i \in 1..(k - 1) : IsRow(todo[i]) /\ todo[i].job = todo[k].job => Handed(todo[i].row)
             /\ \/ Handed(rows[todo[k].job])
                \/ \E i \in 1..(k - 1) : IsRow(todo[i]) /\ todo[i].job = todo[k].job
  <2>1. 1..(k - 1) \subseteq DOMAIN todo
    <3>1. Len(todo) \in Nat /\ DOMAIN todo = 1..Len(todo)
      OBVIOUS
    <3> QED
      BY <3>1
  <2> QED
    BY <1>1, <1>4, <2>1 DEF PlainWrite
<1>5. Offered(todo, rows)
  BY <1>4 DEF Offered
<1>6. Quiet(todo)
  BY <1>1 DEF PlainWrite, Quiet
<1> QED
  BY <1>3, <1>5, <1>6

LEMMA PlainLoop ==
  ASSUME NEW js \in SUBSET Job, NEW f \in [js -> Seq(Write)], NEW g, NEW A, NEW rows,
         \A j \in js : Plain(f[j], g, A, rows)
  PROVE  Plain(ForEach(f), g, A, rows)
<1>1. \A n \in DOMAIN ForEach(f) : \E j \in js : OfRound(ForEach(f), n, f[j])
  BY LoopRounds
<1> DEFINE u == ForEach(f)
<1> HIDE DEF u
<1>2. ASSUME NEW n \in DOMAIN u PROVE PlainWrite(u, n, g, A, rows)
  <2>1. PICK j \in js : OfRound(u, n, f[j])
    BY <1>1 DEF u
  <2>2. PICK m \in DOMAIN f[j] : /\ u[n] = f[j][m]
                                 /\ \A l \in 1..(m - 1) : \E p \in 1..(n - 1) : u[p] = f[j][l]
    BY <2>1 DEF OfRound
  <2>3. PlainWrite(f[j], m, g, A, rows)
    BY DEF Plain
  <2> QED
    BY <2>2, <2>3 DEF PlainWrite
<1> QED
  BY <1>2 DEF Plain, u

LEMMA PlainConcat ==
  ASSUME NEW s \in Seq(Write), NEW t \in Seq(Write), NEW g, NEW A, NEW rows,
         Plain(s, g, A, rows), Plain(t, g, A, rows)
  PROVE  Plain(s \o t, g, A, rows)
<1> DEFINE u == s \o t
<1>1. /\ Len(s) \in Nat /\ DOMAIN s = 1..Len(s) /\ DOMAIN t = 1..Len(t) /\ Len(t) \in Nat
      /\ DOMAIN u = 1..(Len(s) + Len(t))
      /\ \A i \in DOMAIN u : \/ i \in DOMAIN s /\ u[i] = s[i]
                             \/ i > Len(s) /\ i - Len(s) \in DOMAIN t /\ u[i] = t[i - Len(s)]
      /\ \A i \in DOMAIN s : i \in DOMAIN u /\ u[i] = s[i]
      /\ \A i \in DOMAIN t : Len(s) + i \in DOMAIN u /\ u[Len(s) + i] = t[i]
  BY ConcatIs
<1> HIDE DEF u
<1>2. ASSUME NEW n \in DOMAIN u PROVE PlainWrite(u, n, g, A, rows)
  <2>1. CASE n \in DOMAIN s /\ u[n] = s[n]
    <3>1. \A i \in 1..(n - 1) : u[i] = s[i]
      BY <1>1, <2>1
    <3>2. PlainWrite(s, n, g, A, rows)
      BY <2>1 DEF Plain
    <3> QED
      BY <2>1, <3>1, <3>2 DEF PlainWrite
  <2>2. CASE n > Len(s) /\ n - Len(s) \in DOMAIN t /\ u[n] = t[n - Len(s)]
    <3>1. PICK m \in DOMAIN t : m = n - Len(s)
      BY <2>2
    <3>2. ASSUME NEW i \in 1..(m - 1) PROVE Len(s) + i \in 1..(n - 1) /\ u[Len(s) + i] = t[i]
      <4>1. PICK a \in Nat, b \in Nat : a = Len(s) /\ b = Len(t)
        BY <1>1
      <4>2. m \in 1..b /\ n \in 1..(a + b) /\ m = n - a
        BY <1>1, <1>2, <3>1, <4>1
      <4>3. i \in 1..b /\ a + i \in 1..(n - 1)
        BY <4>2
      <4> QED
        BY <1>1, <4>1, <4>3
    <3>3. PlainWrite(t, m, g, A, rows)
      BY DEF Plain
    <3> QED
      BY <2>2, <3>1, <3>2, <3>3 DEF PlainWrite
  <2> QED
    BY <1>1, <2>1, <2>2
<1> QED
  BY <1>2 DEF Plain, u

\* One row.
LEMMA PlainUpdate ==
  ASSUME NEW j, NEW row, NEW g, NEW A, NEW rows, row = g[j], Sane(row),
         Open(row) => j \in A, ~Open(row) /\ ~Completed(row) => j \notin A
  PROVE  Plain(Update(j, row), g, A, rows)
<1> DEFINE w == [do |-> "update", job |-> j, row |-> row]
           todo == <<w>>
<1>1. DOMAIN todo = {1} /\ todo[1] = w
  OBVIOUS
<1>2. w.do = "update" /\ w.job = j /\ w.row = row
  OBVIOUS
<1> HIDE DEF w, todo
<1>3. Plain(todo, g, A, rows)
  BY <1>1, <1>2 DEF Plain, PlainWrite, IsRow
<1> QED
  BY <1>3 DEF Update, todo, w

LEMMA PlainCreate ==
  ASSUME NEW j, NEW row, NEW g, NEW A, NEW rows, row = g[j], Sane(row), ~Open(row)
  PROVE  Plain(Create(j, row), g, A, rows)
<1> DEFINE w == [do |-> "create", job |-> j, row |-> row]
           todo == <<w>>
<1>1. DOMAIN todo = {1} /\ todo[1] = w
  OBVIOUS
<1>2. w.do = "create" /\ w.job = j /\ w.row = row
  OBVIOUS
<1> HIDE DEF w, todo
<1>3. Plain(todo, g, A, rows)
  BY <1>1, <1>2 DEF Plain, PlainWrite, IsRow
<1> QED
  BY <1>3 DEF Create, todo, w

LEMMA PlainRun ==
  ASSUME NEW r, NEW row, NEW g, NEW A, NEW rows
  PROVE  Plain(UpdateRun(r, row), g, A, rows)
<1> DEFINE w == [do |-> "run", run |-> r, row |-> row]
           todo == <<w>>
<1>1. DOMAIN todo = {1} /\ todo[1] = w
  OBVIOUS
<1>2. w.do = "run"
  OBVIOUS
<1> HIDE DEF w, todo
<1>3. Plain(todo, g, A, rows)
  BY <1>1, <1>2 DEF Plain, PlainWrite, IsRow
<1> QED
  BY <1>3 DEF UpdateRun, todo, w

LEMMA Listed ==
  ASSUME NEW a, NEW b, NEW c
  PROVE  <<a>> \o <<b>> = <<a, b>> /\ <<a>> \o <<b>> \o <<c>> = <<a, b, c>>
<1> DEFINE S == {a, b, c}
<1>1. /\ <<a>> \in Seq(S) /\ <<b>> \in Seq(S) /\ <<c>> \in Seq(S)
      /\ <<a, b>> \in Seq(S) /\ <<a, b, c>> \in Seq(S)
  OBVIOUS
<1>2. /\ Len(<<a>>) = 1 /\ Len(<<b>>) = 1 /\ Len(<<c>>) = 1 /\ Len(<<a, b>>) = 2 /\ Len(<<a, b, c>>) = 3
      /\ <<a>>[1] = a /\ <<b>>[1] = b /\ <<c>>[1] = c /\ <<a, b>>[1] = a /\ <<a, b>>[2] = b
      /\ <<a, b, c>>[1] = a /\ <<a, b, c>>[2] = b /\ <<a, b, c>>[3] = c
  OBVIOUS
<1> HIDE DEF S
<1>3. <<a>> \o <<b>> = <<a, b>>
  <2> DEFINE u == <<a>> \o <<b>>
             v == <<a, b>>
  <2>1. u \in Seq(S) /\ Len(u) = 1 + 1 /\ u[1] = a /\ u[2] = b
    BY <1>1, <1>2, ConcatProperties
  <2>2. v \in Seq(S) /\ Len(v) = 2 /\ v[1] = a /\ v[2] = b
    BY <1>1, <1>2
  <2> HIDE DEF u, v
  <2>3. Len(u) = Len(v) /\ \A i \in 1..Len(u) : u[i] = v[i]
    BY <2>1, <2>2
  <2>4. u = v
    BY <2>1, <2>2, <2>3, SeqEqual, Zenon
  <2> QED
    BY <2>4 DEF u, v
<1>4. <<a, b>> \o <<c>> = <<a, b, c>>
  <2> DEFINE u == <<a, b>> \o <<c>>
             v == <<a, b, c>>
  <2>1. u \in Seq(S) /\ Len(u) = 2 + 1 /\ u[1] = a /\ u[2] = b /\ u[3] = c
    BY <1>1, <1>2, ConcatProperties
  <2>2. v \in Seq(S) /\ Len(v) = 3 /\ v[1] = a /\ v[2] = b /\ v[3] = c
    BY <1>1, <1>2
  <2> HIDE DEF u, v
  <2>3. Len(u) = Len(v) /\ \A i \in 1..Len(u) : u[i] = v[i]
    BY <2>1, <2>2
  <2>4. u = v
    BY <2>1, <2>2, <2>3, SeqEqual, Zenon
  <2> QED
    BY <2>4 DEF u, v
<1> QED
  BY <1>3, <1>4

\* A row that is offered, as Enqueue is called by the ticks and by a retry.
LEMMA PlainOffer ==
  ASSUME NEW j, NEW row, NEW g, NEW A, NEW rows, row = g[j], Sane(row), Handed(row), j \in A
  PROVE  /\ Plain(Update(j, row) \o Offer(j), g, A, rows)
         /\ Plain(Update(j, row) \o Drop(j) \o OfferRetry(j, row), g, A, rows)
<1> DEFINE w == [do |-> "update", job |-> j, row |-> row]
           d == [do |-> "drop", job |-> j]
           o == [do |-> "offer", job |-> j, attempt |-> 0, ready |-> TRUE]
           e == [do |-> "offer", job |-> j, attempt |-> row.attempt, ready |-> FALSE]
           s == <<w, o>>
           t == <<w, d, e>>
<1>1. /\ w.do = "update" /\ w.job = j /\ w.row = row /\ d.do = "drop"
      /\ o.do = "offer" /\ o.job = j /\ e.do = "offer" /\ e.job = j
  OBVIOUS
<1>2. /\ Update(j, row) = <<w>> /\ Drop(j) = <<d>> /\ Offer(j) = <<o>> /\ OfferRetry(j, row) = <<e>>
  BY DEF Update, Drop, Offer, OfferRetry
<1> HIDE DEF w, d, o, e
<1>a. Update(j, row) \o Offer(j) = s /\ Update(j, row) \o Drop(j) \o OfferRetry(j, row) = t
  BY <1>2, Listed
<1>3. /\ DOMAIN s = {1, 2} /\ s[1] = w /\ s[2] = o
      /\ DOMAIN t = {1, 2, 3} /\ t[1] = w /\ t[2] = d /\ t[3] = e
  OBVIOUS
<1> HIDE DEF s, t
<1>4. 1 \in 1..(2 - 1) /\ 1 \in 1..(3 - 1)
  OBVIOUS
<1>5. Plain(s, g, A, rows)
  <2>1. PlainWrite(s, 1, g, A, rows) /\ PlainWrite(s, 2, g, A, rows)
    BY <1>1, <1>3, <1>4, HandedOpen DEF PlainWrite, IsRow
  <2> QED
    BY <1>3, <2>1 DEF Plain
<1>6. Plain(t, g, A, rows)
  <2>1. PlainWrite(t, 1, g, A, rows) /\ PlainWrite(t, 2, g, A, rows)
    BY <1>1, <1>3, HandedOpen DEF PlainWrite, IsRow
  <2>2. PlainWrite(t, 3, g, A, rows)
    BY <1>1, <1>3, <1>4 DEF PlainWrite, IsRow
  <2> QED
    BY <1>3, <2>1, <2>2 DEF Plain
<1> QED
  BY <1>a, <1>5, <1>6

\* What ends an attempt: the last one for good, another with an offer.
LEMMA FinishedRowSane ==
  ASSUME NEW j \in Job, NEW row \in Kept(j), NEW res, NEW allow, Sane(row), row.queued
  PROVE  LET end == FinishedRow(j, row, res, allow) IN
         Sane(end) /\ ((Completed(end) /\ ~Open(end)) \/ (Handed(end) /\ ~Completed(end)))
<1> DEFINE Fine(end) == Sane(end) /\ ((Completed(end) /\ ~Open(end)) \/ (Handed(end) /\ ~Completed(end)))
<1>a. \A end : Handed(end) => ~Completed(end)
  BY DEF Handed, Completed
<1>1. CASE allow /\ RetryPermitted(j, row, res)
  <2>1. row.rest.retries + 1 < Plan[j].retry.attempts
    BY <1>1 DEF RetryPermitted, Retries
  <2>2. FinishedRow(j, row, res, allow) = RetryOf(row)
    BY <1>1 DEF FinishedRow
  <2>3. Sane(RetryOf(row)) /\ Handed(RetryOf(row))
    BY <2>1, SaneNext
  <2>4. Fine(RetryOf(row))
    BY <1>a, <2>3
  <2> HIDE DEF Fine
  <2>5. Fine(FinishedRow(j, row, res, allow))
    BY <2>2, <2>4
  <2> QED
    BY <2>5 DEF Fine
<1>2. CASE ~(allow /\ RetryPermitted(j, row, res))
  <2>1. FinishedRow(j, row, res, allow) = Finished(row, res)
    BY <1>2 DEF FinishedRow
  <2>2. row \in SchedRow
    BY DEF Kept
  <2>3. Completed(Finished(row, res))
    BY <2>2 DEF Finished, Completed, SchedRow
  <2>6. Sane(Finished(row, res)) /\ ~Open(Finished(row, res))
    BY <2>2, SaneFinished
  <2>4. Fine(Finished(row, res))
    BY <2>3, <2>6
  <2> HIDE DEF Fine
  <2>5. Fine(FinishedRow(j, row, res, allow))
    BY <2>1, <2>4
  <2> QED
    BY <2>5 DEF Fine
<1> QED
  BY <1>1, <1>2

LEMMA PlainFinish ==
  ASSUME NEW j \in Job, NEW row \in Kept(j), NEW res, NEW allow, NEW g, NEW A, NEW rows,
         Sane(row), row.queued, j \in A, g[j] = FinishedRow(j, row, res, allow)
  PROVE  Plain(FinishWrites(j, row, res, allow), g, A, rows)
<1> DEFINE end == FinishedRow(j, row, res, allow)
<1>1. Sane(end) /\ ((Completed(end) /\ ~Open(end)) \/ (Handed(end) /\ ~Completed(end)))
  BY FinishedRowSane
<1>2. FinishWrites(j, row, res, allow) =
        IF Completed(end) THEN Update(j, end) ELSE Update(j, end) \o Drop(j) \o OfferRetry(j, end)
  BY DEF FinishWrites
<1> HIDE DEF end
<1>3. CASE Completed(end)
  BY <1>1, <1>2, <1>3, PlainUpdate DEF end
<1>4. CASE ~Completed(end)
  BY <1>1, <1>2, <1>4, PlainOffer DEF end
<1> QED
  BY <1>3, <1>4

-----------------------------------------------------------------------------
\* Writes that end jobs.

LEMMA EndingUpdate ==
  ASSUME NEW j, NEW row, Completed(row), Sane(row)
  PROVE  Ending(Update(j, row)) /\ Quiet(Update(j, row))
<1> DEFINE w == [do |-> "update", job |-> j, row |-> row]
           todo == <<w>>
<1>1. DOMAIN todo = {1} /\ todo[1] = w /\ w.do = "update" /\ w.row = row
  OBVIOUS
<1> HIDE DEF w, todo
<1>2. Ending(todo) /\ Quiet(todo)
  BY <1>1 DEF Ending, Quiet
<1> QED
  BY <1>2 DEF Update, todo, w

LEMMA EndingRun ==
  ASSUME NEW r, NEW row
  PROVE  /\ Ending(UpdateRun(r, row)) /\ Quiet(UpdateRun(r, row))
         /\ Ending(ForgetPlan(r)) /\ Quiet(ForgetPlan(r)) /\ Ending(RegisterPlan(r))
<1>1. ASSUME NEW w, w.do \in {"run", "forget", "register"}
      PROVE  Ending(<<w>>) /\ (w.do # "register" => Quiet(<<w>>))
  <2> DEFINE todo == <<w>>
  <2>1. DOMAIN todo = {1} /\ todo[1] = w
    OBVIOUS
  <2> HIDE DEF todo
  <2>2. Ending(todo) /\ (w.do # "register" => Quiet(todo))
    BY <1>1, <2>1 DEF Ending, Quiet, IsRow
  <2> QED
    BY <2>2 DEF todo
<1>2. Ending(UpdateRun(r, row)) /\ Quiet(UpdateRun(r, row))
  <2> DEFINE w == [do |-> "run", run |-> r, row |-> row]
  <2>1. w.do = "run"
    OBVIOUS
  <2> HIDE DEF w
  <2> QED
    BY <1>1, <2>1 DEF UpdateRun, w
<1>3. Ending(ForgetPlan(r)) /\ Quiet(ForgetPlan(r))
  <2> DEFINE w == [do |-> "forget", run |-> r]
  <2>1. w.do = "forget"
    OBVIOUS
  <2> HIDE DEF w
  <2> QED
    BY <1>1, <2>1 DEF ForgetPlan, w
<1>4. Ending(RegisterPlan(r))
  <2> DEFINE w == [do |-> "register", run |-> r]
  <2>1. w.do = "register"
    OBVIOUS
  <2> HIDE DEF w
  <2> QED
    BY <1>1, <2>1 DEF RegisterPlan, w
<1> QED
  BY <1>2, <1>3, <1>4

LEMMA EndingNone == Ending(<<>>) /\ Quiet(<<>>)
<1> DEFINE todo == <<>>
<1>1. DOMAIN todo = {}
  OBVIOUS
<1> HIDE DEF todo
<1>2. Ending(todo) /\ Quiet(todo)
  BY <1>1 DEF Ending, Quiet
<1> QED
  BY <1>2 DEF todo

LEMMA EndingFinalize ==
  ASSUME NEW r \in Run, NEW rrow \in SchedRun, NEW snap \in Snaps
  PROVE  Ending(FinalizeWrites(r, rrow, snap)) /\ Quiet(FinalizeWrites(r, rrow, snap))
<1>1. CASE Live(snap) # {}
  BY <1>1, EndingNone DEF FinalizeWrites
<1>2. CASE Live(snap) = {}
  <2> DEFINE row == [rrow EXCEPT !.status = "completed",
                       !.conclusion = Aggregate({snap[j].rest.conclusion : j \in DOMAIN snap})]
  <2>1. row \in SchedRun
    BY ClosedRunType
  <2>2. FinalizeWrites(r, rrow, snap) = UpdateRun(r, row) \o ForgetPlan(r)
    BY <1>2 DEF FinalizeWrites
  <2> HIDE DEF row
  <2>3. UpdateRun(r, row) \in Seq(Write) /\ ForgetPlan(r) \in Seq(Write)
    BY <2>1, RunWrite
  <2> QED
    BY <2>2, <2>3, EndingRun, EndingConcat
<1> QED
  BY <1>1, <1>2

LEMMA StoppedSane ==
  ASSUME NEW snap \in Snaps, NEW res \in AnyResult, \A j \in DOMAIN snap : Sane(snap[j])
  PROVE  Ending(StopWrites(snap, res)) /\ Quiet(StopWrites(snap, res))
<1> DEFINE f == [j \in Live(snap) |-> Update(j, Finished(snap[j], res))]
<1>1. /\ DOMAIN snap \in SUBSET Job /\ \A j \in DOMAIN snap : snap[j] \in Kept(j) /\ snap[j] \in SchedRow
      /\ Live(snap) \in SUBSET Job /\ Live(snap) \in SUBSET DOMAIN snap
  BY SnapIs DEF Live
<1>2. ASSUME NEW j \in Live(snap)
      PROVE  /\ f[j] \in Seq(Write) /\ Ending(f[j]) /\ Quiet(f[j])
  <2>1. /\ Finished(snap[j], res) \in Kept(j) /\ Finished(snap[j], res).status = "completed"
        /\ Sane(Finished(snap[j], res)) /\ j \in Job
    BY <1>1, FinishedKept, SaneFinished
  <2>2. f[j] = Update(j, Finished(snap[j], res))
    OBVIOUS
  <2>3. Completed(Finished(snap[j], res))
    BY <2>1 DEF Completed
  <2> HIDE DEF f
  <2> QED
    BY <2>1, <2>2, <2>3, RowWrite, EndingUpdate
<1>3. f \in [Live(snap) -> Seq(Write)]
  BY <1>2
<1>4. StopWrites(snap, res) = ForEach(f)
  BY DEF StopWrites
<1> HIDE DEF f
<1> QED
  BY <1>1, <1>2, <1>3, <1>4, EndingLoop

LEMMA EndingStop ==
  ASSUME NEW r \in Run, NEW rrow \in SchedRun, NEW snap \in Snaps, NEW res \in AnyResult,
         \A j \in DOMAIN snap : Sane(snap[j])
  PROVE  Ending(StopRunWrites(r, rrow, snap, res)) /\ Quiet(StopRunWrites(r, rrow, snap, res))
<1>1. [rrow EXCEPT !.cancel = res.cancel] \in SchedRun
  BY DEF SchedRun, AnyResult
<1>2. PICK row \in SchedRun : row = [rrow EXCEPT !.cancel = res.cancel]
  BY <1>1
<1>3. /\ Stopped(snap, res) \in Snaps /\ StopWrites(snap, res) \in Seq(Write)
      /\ FinalizeWrites(r, row, Stopped(snap, res)) \in Seq(Write)
  BY StoppedSnap, FinalizeWritesType
<1>4. StopRunWrites(r, rrow, snap, res) = StopWrites(snap, res) \o FinalizeWrites(r, row, Stopped(snap, res))
  BY <1>2 DEF StopRunWrites
<1> QED
  BY <1>3, <1>4, StoppedSane, EndingFinalize, EndingConcat

-----------------------------------------------------------------------------
\* What each step keeps when the calls are taken one after the other.

\* A call that has decided what to write, and not from a copy it goes on with.
LEMMA BareCall ==
  ASSUME NEW c, c.at \notin {"dispatch", "completed", "gate", "admit"},
         \A j \in DOMAIN c.snap : Sane(c.snap[j]),
         Orderly(c.todo, Holding), Offered(c.todo, jobs), Registers(c.todo, There)
  PROVE  SerialCall(c)
  BY DEF SerialCall

LEMMA IdleSnap == \A j \in DOMAIN Idle.snap : Sane(Idle.snap[j])
  BY IdleSerial DEF SerialCall

LEMMA WritingFields ==
  ASSUME NEW op, NEW todo
  PROVE  LET c == [Idle EXCEPT !.op = op, !.at = "return", !.todo = todo] IN
         c.at = "return" /\ c.todo = todo /\ c.snap = Idle.snap
  BY DEF Idle

LEMMA TickOnFields ==
  ASSUME NEW c, NEW left, NEW todo
  PROVE  /\ TickOn(c, left).at \in {"return", "runs"} /\ TickOn(c, left).todo = <<>>
         /\ TickOn(c, left).snap = Idle.snap
         /\ [TickOn(c, left) EXCEPT !.todo = todo].at \in {"return", "runs"}
         /\ [TickOn(c, left) EXCEPT !.todo = todo].todo = todo
         /\ [TickOn(c, left) EXCEPT !.todo = todo].snap = Idle.snap
<1> DEFINE at == IF left = {} THEN "return" ELSE "runs"
<1>1. at \in {"return", "runs"}
  OBVIOUS
<1>2. TickOn(c, left) = [Idle EXCEPT !.op = "tick", !.left = left, !.at = at]
  BY DEF TickOn
<1> HIDE DEF at
<1> QED
  BY <1>1, <1>2 DEF Idle

LEMMA EndingCall ==
  ASSUME OneAtATime, SchedInv, SerialInv, UNCHANGED <<jobs, queue>>, plans' \subseteq plans,
         NEW t \in Call, NEW c, c.at \notin {"dispatch", "completed", "gate", "admit"},
         \A j \in DOMAIN c.snap : Sane(c.snap[j]), Ending(c.todo), Quiet(c.todo),
         Goes(t, c) \/ Returns(t)
  PROVE  SerialInv'
<1>1. Orderly(c.todo, Holding) /\ Offered(c.todo, jobs) /\ Registers(c.todo, There)
  BY EndingOrderly, QuietRegisters
<1>2. SerialCall(c)
  BY <1>1, BareCall
<1> QED
  BY <1>2, SerialDecides

\* The rows a call reads are sane.
LEMMA SnapSane ==
  ASSUME SchedInv, SerialInv, NEW r
  PROVE  \A j \in DOMAIN SnapOf(r) : Sane(SnapOf(r)[j])
  BY SnapOfType DEF SchedInv, SerialInv, SerialTables

LEMMA SerialTickLeave ==
  ASSUME OneAtATime, SchedInv, SerialInv, NEW t \in Call, NEW r \in Run, TickLeave(t, r)
  PROVE  SerialInv'
<1> DEFINE on == TickOn(calls[t], TickTracked(calls[t]) \ {r})
<1>1. /\ UNCHANGED <<jobs, queue>> /\ plans' \subseteq plans
      /\ Goes(t, on) \/ Returns(t)
  BY DEF TickLeave
<1>2. on.at \notin {"dispatch", "completed", "gate", "admit"} /\ on.todo = <<>> /\ on.snap = Idle.snap
  BY TickOnFields
<1> HIDE DEF on
<1> QED
  BY <1>1, <1>2, IdleSnap, EndingNone, EndingCall

LEMMA SerialTickNothing ==
  ASSUME OneAtATime, SchedInv, SerialInv, NEW t \in Call, TickNothing(t)
  PROVE  SerialInv'
  BY IdleSerial, SerialDecides DEF TickNothing

LEMMA SerialTickRunTimeout ==
  ASSUME OneAtATime, SchedInv, SerialInv, NEW t \in Call, NEW r \in Run, TickRunTimeout(t, r)
  PROVE  SerialInv'
<1> DEFINE todo == StopRunWrites(r, runs[r], SnapOf(r), Result("timed_out", "user", "timeout"))
           on == [TickOn(calls[t], TickTracked(calls[t]) \ {r}) EXCEPT !.todo = todo]
<1>1. UNCHANGED <<jobs, queue>> /\ plans' \subseteq plans /\ Goes(t, on)
  BY DEF TickRunTimeout
<1>2. Ending(todo) /\ Quiet(todo)
  BY CallFacts, SnapOfType, SnapSane, ResultTypes, EndingStop
<1> HIDE DEF todo
<1>3. on.at \notin {"dispatch", "completed", "gate", "admit"} /\ on.todo = todo /\ on.snap = Idle.snap
  BY TickOnFields
<1> HIDE DEF on
<1> QED
  BY <1>1, <1>2, <1>3, IdleSnap, EndingCall

LEMMA SerialTickFinalize ==
  ASSUME OneAtATime, SchedInv, SerialInv, NEW t \in Call, TickFinalize(t)
  PROVE  SerialInv'
<1> DEFINE c == calls[t]
           todo == FinalizeWrites(c.run, c.rrow, c.snap)
           on == [TickOn(c, c.left) EXCEPT !.todo = todo]
<1>1. UNCHANGED <<jobs, queue>> /\ plans' \subseteq plans /\ Goes(t, on)
  BY DEF TickFinalize
<1>2. CallOK(c) /\ c.run \in Run /\ c.rrow \in SchedRun /\ c.snap \in Snaps
  BY CallFacts DEF TickFinalize, Admitting, CallOK
<1>3. Ending(todo) /\ Quiet(todo)
  BY <1>2, EndingFinalize
<1> HIDE DEF todo
<1>4. on.at \notin {"dispatch", "completed", "gate", "admit"} /\ on.todo = todo /\ on.snap = Idle.snap
  BY TickOnFields
<1> HIDE DEF on
<1> QED
  BY <1>1, <1>3, <1>4, IdleSnap, EndingCall

LEMMA SerialSupersede ==
  ASSUME OneAtATime, SchedInv, SerialInv, NEW t \in Call, SupersedeNext(t)
  PROVE  SerialInv'
<1> DEFINE c == calls[t]
           o == FirstOf(c.left)
           stop == Cancelled("superseded_by_newer_run")
           todo == IF o \notin plans \/ runs[o].status = "completed" THEN <<>>
                   ELSE StopRunWrites(o, runs[o], SnapOf(o), stop)
           on == [c EXCEPT !.left = c.left \ {o}, !.todo = todo]
<1>1. UNCHANGED <<jobs, queue>> /\ plans' \subseteq plans /\ Goes(t, on)
  BY DEF SupersedeNext
<1>2. c \in CallState /\ c.at = "supersede" /\ SerialCall(c) /\ plans \in SUBSET Run
  BY CallFacts DEF SupersedeNext, Deciding, SerialInv
<1>3. Ending(todo) /\ Quiet(todo)
  <2>1. stop \in AnyResult
    BY ResultTypes DEF CancelActors
  <2>2. CASE o \notin plans \/ runs[o].status = "completed"
    BY <2>2, EndingNone
  <2>3. CASE ~(o \notin plans \/ runs[o].status = "completed")
    <3>1. o \in Run /\ runs[o] \in SchedRun
      BY <1>2, <2>3, CallFacts
    <3>2. todo = StopRunWrites(o, runs[o], SnapOf(o), stop)
      BY <2>3
    <3> HIDE DEF todo, stop, o
    <3> QED
      BY <2>1, <3>1, <3>2, CallFacts, SnapOfType, SnapSane, EndingStop
  <2> QED
    BY <2>2, <2>3
<1> HIDE DEF todo
<1>4. on.at = "supersede" /\ on.todo = todo /\ on.snap = c.snap
  BY <1>2 DEF CallState
<1> HIDE DEF on
<1>5. \A j \in DOMAIN on.snap : Sane(on.snap[j])
  BY <1>2, <1>4 DEF SerialCall
<1> QED
  BY <1>1, <1>3, <1>4, <1>5, EndingCall

LEMMA SerialCancelRun ==
  ASSUME OneAtATime, SchedInv, SerialInv, NEW t \in Call, NEW r \in Run, CancelRun(t, r)
  PROVE  SerialInv'
<1> DEFINE todo == StopRunWrites(r, runs[r], SnapOf(r), Cancelled("user"))
           on == [Idle EXCEPT !.op = "cancel", !.at = "return", !.todo = todo]
<1>1. UNCHANGED <<jobs, queue>> /\ plans' \subseteq plans /\ Goes(t, on)
  BY DEF CancelRun, Order, Writes
<1>2. Ending(todo) /\ Quiet(todo)
  <2>1. Cancelled("user") \in AnyResult
    BY ResultTypes DEF CancelActors
  <2> QED
    BY <2>1, CallFacts, SnapOfType, SnapSane, EndingStop
<1> HIDE DEF todo
<1>3. on.at = "return" /\ on.todo = todo /\ on.snap = Idle.snap
  BY WritingFields
<1> HIDE DEF on
<1> QED
  BY <1>1, <1>2, <1>3, IdleSnap, EndingCall

LEMMA SerialCancelJob ==
  ASSUME OneAtATime, SchedInv, SerialInv, NEW t \in Call, NEW j \in Job, CancelJob(t, j)
  PROVE  SerialInv'
<1> DEFINE row == Finished(jobs[j], Cancelled("user"))
           todo == Update(j, row)
           on == [Idle EXCEPT !.op = "cancelJob", !.at = "return", !.todo = todo]
<1>1. UNCHANGED <<jobs, queue>> /\ plans' \subseteq plans /\ Goes(t, on)
  BY DEF CancelJob, Order, Writes
<1>2. Ending(todo) /\ Quiet(todo)
  <2>1. Cancelled("user") \in AnyResult
    BY ResultTypes DEF CancelActors
  <2>2. jobs[j] \in Kept(j) /\ jobs[j] \in SchedRow /\ Sane(jobs[j])
    BY CallFacts, RowsOfJob DEF CancelJob, SerialInv, SerialTables
  <2>3. Completed(row) /\ Sane(row)
    BY <2>1, <2>2, FinishedKept, SaneFinished DEF Completed
  <2> HIDE DEF row
  <2> QED
    BY <2>3, EndingUpdate
<1> HIDE DEF todo
<1>3. on.at = "return" /\ on.todo = todo /\ on.snap = Idle.snap
  BY WritingFields
<1> HIDE DEF on
<1> QED
  BY <1>1, <1>2, <1>3, IdleSnap, EndingCall

LEMMA SerialStartRun ==
  ASSUME OneAtATime, SchedInv, SerialInv, NEW t \in Call, NEW r \in Run, StartRun(t, r)
  PROVE  SerialInv'
<1> DEFINE left == IF RunPlan[r].group # "" /\ RunPlan[r].cancelInProgress
                   THEN {o \in plans \ {r} : RunPlan[o].group = RunPlan[r].group} ELSE {}
           on == [Idle EXCEPT !.op = "start", !.at = "supersede", !.run = r, !.left = left]
<1>1. UNCHANGED <<jobs, queue>> /\ plans' \subseteq plans /\ Goes(t, on)
  BY DEF StartRun
<1> HIDE DEF left
<1>2. on.at = "supersede" /\ on.todo = <<>> /\ on.snap = Idle.snap
  BY DEF Idle
<1> HIDE DEF on
<1> QED
  BY <1>1, <1>2, IdleSnap, EndingNone, EndingCall

LEMMA SerialRestart ==
  ASSUME OneAtATime, SchedInv, SerialInv, Restart
  PROVE  SerialInv'
<1>1. UNCHANGED <<jobs, queue>> /\ plans' \subseteq plans /\ \A u \in Call : calls'[u] = Idle
  BY DEF Restart
<1>2. SerialTables'
  BY <1>1, Settled DEF SerialInv
<1>3. SerialCall(Idle)'
  BY IdleSerial, PTL
<1>4. \A u \in Call : SerialCall(calls[u])'
  BY <1>1, <1>3 DEF SerialCall
<1> QED
  BY <1>2, <1>4 DEF SerialInv

\* A job whose row is written anew, and that is with the queue as it was.
LEMMA RowOfHolder ==
  ASSUME SchedInv, SerialInv, NEW j \in Job, NEW row, NEW entry,
         jobs' = [jobs EXCEPT ![j] = row], queue' = [queue EXCEPT ![j] = entry],
         plans' \subseteq plans, Sane(row), row.status # "absent",
         Open(row) <=> Open(jobs[j]), entry.state # "absent" => InQueue(j)
  PROVE  SerialTables' /\ Holding' = Holding /\ There \subseteq There' /\ j \in There'
<1>1. /\ jobs = [k \in Job |-> jobs[k]] /\ queue = [k \in Job |-> queue[k]]
      /\ \A k \in Job : Sane(jobs[k]) /\ (InQueue(k) => Admitted(k))
      /\ \A r \in plans : JobsOf(r) \subseteq There
      /\ Exclusive(Holding) /\ Parallel(Holding)
  BY RowsOfJob DEF SchedInv, SerialInv, SerialTables
<1>2. /\ jobs'[j] = row /\ queue'[j] = entry
      /\ \A k \in Job : k # j => jobs'[k] = jobs[k] /\ queue'[k] = queue[k]
  BY <1>1
<1>3. \A k \in Job : Admitted(k)' <=> Admitted(k)
  <2> TAKE k \in Job
  <2>1. (Admitted(k)' <=> Open(jobs'[k])) /\ (Admitted(k) <=> Open(jobs[k]))
    BY DEF Admitted, Open
  <2>2. Open(jobs'[k]) <=> Open(jobs[k])
    BY <1>2
  <2> QED
    BY <2>1, <2>2
<1>4. Holding' = Holding
  BY <1>3 DEF Holding
<1>5. There \subseteq There' /\ j \in There'
  BY <1>2 DEF There, Exists
<1>6. \A k \in Job : Sane(jobs'[k])
  BY <1>1, <1>2
<1>7. \A k \in Job : InQueue(k)' => InQueue(k)
  BY <1>2 DEF InQueue
<1>8. \A k \in Job : InQueue(k)' => Admitted(k)'
  BY <1>1, <1>3, <1>7
<1>9. \A r \in plans' : JobsOf(r) \subseteq There'
  BY <1>1, <1>5
<1>10. SerialTables'
  BY <1>1, <1>4, <1>6, <1>8, <1>9 DEF SerialTables
<1> QED
  BY <1>4, <1>5, <1>10

\* Nothing but a flag of an entry.
LEMMA SerialFlag ==
  ASSUME SchedInv, SerialInv, UNCHANGED <<jobs, plans, calls>>,
         \A j \in Job : InQueue(j)' => InQueue(j)
  PROVE  SerialInv'
<1>1. Holding' = Holding /\ There' = There /\ \A j \in Job : Admitted(j)' <=> Admitted(j)
  BY DEF Holding, There, Admitted, Exists
<1>2. SerialTables'
  BY <1>1 DEF SerialTables, SerialInv
<1>3. ASSUME NEW u \in Call PROVE SerialCall(calls[u])'
  BY <1>1 DEF SerialCall, SerialInv, Admitted
<1> QED
  BY <1>2, <1>3 DEF SerialInv

LEMMA SerialFlags ==
  ASSUME SchedInv, SerialInv, NEW r, NEW j \in Job, Beat(r, j) \/ Lost(j) \/ BackoffOver(j)
  PROVE  SerialInv'
<1>1. UNCHANGED <<jobs, plans, calls>>
  BY DEF Beat, Lost, BackoffOver, OneStepCall, Heartbeat, LeaseRunsOut, BackoffRunsOut
<1>2. queue = [k \in Job |-> queue[k]] /\ queue[j] \in SchedEntry
  BY RowsOfJob DEF SchedInv
<1>3. PICK b \in BOOLEAN : \/ queue' = [queue EXCEPT ![j] = [queue[j] EXCEPT !.expired = b]]
                           \/ queue' = [queue EXCEPT ![j] = [queue[j] EXCEPT !.ready = b]]
  BY <1>2 DEF Beat, Lost, BackoffOver, Heartbeat, LeaseRunsOut, BackoffRunsOut
<1>4. PICK entry : queue' = [queue EXCEPT ![j] = entry] /\ entry.state = queue[j].state
  <2>1. CASE queue' = [queue EXCEPT ![j] = [queue[j] EXCEPT !.expired = b]]
    BY <1>2, <2>1, EntryFlagged
  <2>2. CASE queue' = [queue EXCEPT ![j] = [queue[j] EXCEPT !.ready = b]]
    BY <1>2, <2>2, EntryFlagged
  <2> QED
    BY <1>3, <2>1, <2>2
<1>5. \A k \in Job : InQueue(k)' => InQueue(k)
  BY <1>2, <1>4 DEF InQueue
<1> QED
  BY <1>1, <1>5, SerialFlag

\* A runner's job is with the queue.
LEMMA HolderAdmitted ==
  ASSUME SerialInv, NEW r \in Runner, NEW j \in Job, HoldsJob(r, j)
  PROVE  Admitted(j)
<1>1. Sane(jobs[j]) /\ jobs[j].runner # NoRunner
  BY SchedulerAssumption DEF SerialInv, SerialTables, HoldsJob
<1> QED
  BY <1>1 DEF Sane, Admitted

LEMMA SerialComplete ==
  ASSUME OneAtATime, SchedInv, SerialInv, NEW t \in Call, NEW r \in Runner, NEW j \in Job, NEW res,
         Complete(t, r, j, res)
  PROVE  SerialInv'
<1> DEFINE on == [Idle EXCEPT !.op = "complete", !.at = "completed", !.job = j, !.res = res]
<1>1. UNCHANGED <<jobs, queue>> /\ plans' \subseteq plans /\ Goes(t, on) /\ HoldsJob(r, j)
  BY DEF Complete
<1>2. on.at = "completed" /\ on.todo = <<>> /\ on.snap = Idle.snap /\ on.job = j
  BY DEF Idle
<1> HIDE DEF on
<1>3. Admitted(j)
  BY <1>1, HolderAdmitted
<1>4. SerialCall(on)
  BY <1>2, <1>3, IdleSnap, NothingLeft DEF SerialCall
<1> QED
  BY <1>1, <1>4, SerialDecides

LEMMA SerialSetupDone ==
  ASSUME OneAtATime, SchedInv, SerialInv, NEW t \in Call, NEW r \in Runner, NEW j \in Job,
         SetupDone(t, r, j)
  PROVE  SerialInv'
<1> DEFINE on == [Idle EXCEPT !.op = "setup", !.at = "setup", !.job = j]
<1>1. UNCHANGED <<jobs, queue>> /\ plans' \subseteq plans /\ Goes(t, on)
  BY DEF SetupDone
<1>2. on.at = "setup" /\ on.todo = <<>> /\ on.snap = Idle.snap
  BY DEF Idle
<1> HIDE DEF on
<1> QED
  BY <1>1, <1>2, IdleSnap, EndingNone, EndingCall

\* A call that writes the row of one job.
LEMMA PlainCall ==
  ASSUME OneAtATime, SchedInv, SerialInv, UNCHANGED <<jobs, queue>>, plans' \subseteq plans,
         NEW t \in Call, NEW c, c.at \notin {"dispatch", "completed", "gate", "admit"},
         \A j \in DOMAIN c.snap : Sane(c.snap[j]), c.todo \in Seq(Write),
         NEW g, Plain(c.todo, g, Holding, jobs), Goes(t, c) \/ Returns(t)
  PROVE  SerialInv'
<1>1. Orderly(c.todo, Holding) /\ Offered(c.todo, jobs) /\ Registers(c.todo, There)
  BY PlainOrderly, QuietRegisters
<1>2. SerialCall(c)
  BY <1>1, BareCall
<1> QED
  BY <1>2, SerialDecides

LEMMA SerialSetupCompleted ==
  ASSUME OneAtATime, SchedInv, SerialInv, NEW t \in Call, JobSetupCompleted(t)
  PROVE  SerialInv'
<1> DEFINE c == calls[t]
           j == c.job
           row == [jobs[j] EXCEPT !.setup = TRUE]
           todo == Update(j, row)
           on == [c EXCEPT !.at = "return", !.todo = todo]
           g == [k \in {j} |-> row]
<1>1. UNCHANGED <<jobs, queue>> /\ plans' \subseteq plans /\ (Goes(t, on) \/ Returns(t))
  BY DEF JobSetupCompleted
<1>2. c \in CallState /\ CallOK(c) /\ c.at = "setup" /\ j \in Job /\ Exists(j) /\ SerialCall(c)
  BY CallFacts DEF JobSetupCompleted, Deciding, CallOK, SchedInv, CallsInv, SerialInv
<1>3. jobs[j] \in Kept(j) /\ jobs[j] \in SchedRow /\ Sane(jobs[j])
  BY <1>2, CallFacts, RowsOfJob DEF SerialInv, SerialTables
<1>4. row \in Kept(j) /\ Sane(row) /\ (Open(row) <=> Open(jobs[j]))
  <2>1. row \in Kept(j)
    BY <1>2, <1>3, RowChanges
  <2>2. row.status = jobs[j].status /\ row.queued = jobs[j].queued /\ row.rest = jobs[j].rest
        /\ row.runner = jobs[j].runner
    BY <1>3 DEF SchedRow
  <2> QED
    BY <1>3, <2>1, <2>2 DEF Sane, Open
<1>5. g[j] = row
  OBVIOUS
<1> HIDE DEF row, g, j
<1>6. j \in Holding <=> Open(jobs[j])
  BY <1>2, AdmittedOpen DEF Holding
<1>7. Plain(todo, g, Holding, jobs) /\ todo \in Seq(Write)
  BY <1>2, <1>4, <1>5, <1>6, PlainUpdate, RowWrite
<1> HIDE DEF todo
<1>8. on.at = "return" /\ on.todo = todo /\ on.snap = c.snap
  BY <1>2 DEF CallState
<1> HIDE DEF on
<1>9. \A k \in DOMAIN on.snap : Sane(on.snap[k])
  BY <1>2, <1>8 DEF SerialCall
<1> QED
  BY <1>1, <1>7, <1>8, <1>9, PlainCall

LEMMA SerialJobCompleted ==
  ASSUME OneAtATime, SchedInv, SerialInv, NEW t \in Call, JobCompleted(t)
  PROVE  SerialInv'
<1> DEFINE c == calls[t]
           j == c.job
           end == FinishedRow(j, jobs[j], c.res, TRUE)
           todo == FinishWrites(j, jobs[j], c.res, TRUE)
           on == [c EXCEPT !.at = "return", !.todo = todo]
           g == [k \in {j} |-> end]
<1>1. UNCHANGED <<jobs, queue>> /\ plans' \subseteq plans /\ (Goes(t, on) \/ Returns(t))
  BY DEF JobCompleted
<1>2. c \in CallState /\ CallOK(c) /\ c.at = "completed" /\ j \in Job /\ Exists(j) /\ SerialCall(c)
      /\ c.res \in AnyResult
  BY CallFacts DEF JobCompleted, Deciding, CallOK, SchedInv, CallsInv, SerialInv
<1>3. jobs[j] \in Kept(j) /\ jobs[j] \in SchedRow /\ Sane(jobs[j])
  BY <1>2, CallFacts, RowsOfJob DEF SerialInv, SerialTables
<1>4. Admitted(j) /\ Open(jobs[j]) /\ j \in Holding
  BY <1>2, AdmittedOpen DEF SerialCall, Holding
<1>5. jobs[j].queued
  BY <1>3, <1>4, OpenQueued
<1>6. g[j] = end
  OBVIOUS
<1> HIDE DEF g
<1>7. Plain(todo, g, Holding, jobs) /\ todo \in Seq(Write)
  BY <1>2, <1>3, <1>4, <1>5, <1>6, PlainFinish, FinishWritesType
<1> HIDE DEF todo, end, j
<1>8. on.at = "return" /\ on.todo = todo /\ on.snap = c.snap
  BY <1>2 DEF CallState
<1> HIDE DEF on
<1>9. \A k \in DOMAIN on.snap : Sane(on.snap[k])
  BY <1>2, <1>8 DEF SerialCall
<1> QED
  BY <1>1, <1>7, <1>8, <1>9, PlainCall

LEMMA SerialAcquire ==
  ASSUME OneAtATime, SchedInv, SerialInv, NEW t \in Call, NEW r \in Runner, Acquire(t, r)
  PROVE  SerialInv'
<1>1. PICK j \in Eligible(r) :
        /\ Dequeue(r, j)
        /\ LET row == RunningOn(r, jobs[j]) IN
           Goes(t, [Idle EXCEPT !.op = "acquire", !.job = j, !.runner = r, !.row = row,
                    !.at = IF Completed(row) \/ row.rest.conclusion # "" THEN "withdraw" ELSE "dispatch"])
  BY DEF Acquire
<1>2. PICK row, at : /\ row = RunningOn(r, jobs[j]) /\ at \in {"withdraw", "dispatch"}
                     /\ Goes(t, [Idle EXCEPT !.op = "acquire", !.job = j, !.runner = r,
                                             !.row = row, !.at = at])
  BY <1>1
<1>3. j \in Job /\ InQueue(j) /\ Admitted(j) /\ Sane(jobs[j]) /\ jobs[j] \in SchedRow /\ Open(jobs[j])
      /\ SchedInv /\ CallsInv
  <2>1. j \in Job /\ InQueue(j)
    BY DEF Eligible, InQueue
  <2> QED
    BY <2>1, AdmittedOpen, RowsOfJob DEF SchedInv, SerialInv, SerialTables
<1>4. Sane(row) /\ Open(row)
  BY <1>2, <1>3, SaneRow
<1>5. SerialTables' /\ Holding' = Holding /\ There \subseteq There'
  <2>1. /\ jobs' = [jobs EXCEPT ![j] = row] /\ queue' = [queue EXCEPT ![j] = LeasedTo(r, queue[j])]
        /\ plans' \subseteq plans /\ row.status # "absent"
    BY <1>1, <1>2, <1>4 DEF Dequeue, Acquire, Open
  <2> QED
    BY <1>3, <1>4, <2>1, RowOfHolder
<1>6. PICK c : c = [Idle EXCEPT !.op = "acquire", !.job = j, !.runner = r, !.row = row, !.at = at]
  OBVIOUS
<1>7. c.at = at /\ c.todo = <<>> /\ c.snap = Idle.snap /\ c.job = j /\ c.row = row
  BY <1>6 DEF Idle
<1>8. Admitted(j)'
  BY <1>3, <1>5 DEF Holding
<1>9. SerialCall(c)'
  <2>1. Orderly(<<>>, Holding') /\ Offered(<<>>, jobs') /\ Registers(<<>>, There')
    BY NothingLeft
  <2>2. \A k \in DOMAIN c.snap : Sane(c.snap[k])
    BY <1>7, IdleSnap
  <2> QED
    BY <1>2, <1>4, <1>7, <1>8, <2>1, <2>2 DEF SerialCall
<1>10. \A u \in Call : SerialCall(calls[u])'
  BY <1>2, <1>3, <1>6, <1>9, OnlyCall
<1> QED
  BY <1>5, <1>10 DEF SerialInv

\* The call returns, and the store has written one row.
LEMMA SerialReturns ==
  ASSUME OneAtATime, SchedInv, SerialTables', NEW t \in Call, Returns(t) 
  PROVE  SerialInv'
<1>1. SerialCall(Idle)'
  BY IdleSerial, PTL
<1>2. \A u \in Call : SerialCall(calls[u])'
  BY <1>1, OnlyCall DEF SchedInv
<1> QED
  BY <1>2 DEF SerialInv

LEMMA ReleaseTables ==
  ASSUME SchedInv, SerialInv, NEW r, NEW j \in Job, ReleaseLease(r, j), plans' \subseteq plans
  PROVE  SerialTables'
<1>1. InQueue(j) /\ Admitted(j) /\ Sane(jobs[j]) /\ jobs[j] \in SchedRow /\ Open(jobs[j])
  <2>1. InQueue(j)
    BY DEF ReleaseLease, LeasedBy, Leased, InQueue
  <2> QED
    BY <2>1, AdmittedOpen, RowsOfJob DEF SchedInv, SerialInv, SerialTables
<1>2. Sane(BackToQueue(jobs[j])) /\ Open(BackToQueue(jobs[j]))
  BY <1>1, SaneRow, HandedOpen
<1>3. /\ jobs' = [jobs EXCEPT ![j] = BackToQueue(jobs[j])]
      /\ queue' = [queue EXCEPT ![j] = Unleased(queue[j])]
      /\ BackToQueue(jobs[j]).status # "absent"
  BY <1>2 DEF ReleaseLease, Open
<1> QED
  BY <1>1, <1>2, <1>3, RowOfHolder

LEMMA SerialWithdraw ==
  ASSUME OneAtATime, SchedInv, SerialInv, NEW t \in Call, Withdraw(t)
  PROVE  SerialInv'
<1>1. Returns(t) /\ plans' \subseteq plans /\ calls[t].job \in Job
  BY CallFacts DEF Withdraw, Deciding, CallOK
<1>2. SerialTables'
  <2>1. CASE LeasedBy(calls[t].runner, calls[t].job)
    BY <1>1, <2>1, ReleaseTables DEF Withdraw
  <2>2. CASE ~LeasedBy(calls[t].runner, calls[t].job)
    <3>1. UNCHANGED <<jobs, queue>>
      BY <2>2 DEF Withdraw
    <3> QED
      BY <1>1, <3>1, Settled DEF SerialInv
  <2> QED
    BY <2>1, <2>2
<1> QED
  BY <1>1, <1>2, SerialReturns

LEMMA SerialRelease ==
  ASSUME OneAtATime, SchedInv, SerialInv, NEW r \in Runner, NEW j \in Job, ReleaseJob(r, j)
  PROVE  SerialInv'
<1>1. ReleaseLease(r, j) /\ plans' \subseteq plans /\ calls' = calls /\ \E t \in Call : calls[t] = Idle
  BY DEF ReleaseJob, OneStepCall
<1>2. SerialTables'
  BY <1>1, ReleaseTables
<1>3. SerialCall(Idle)'
  BY IdleSerial, PTL
<1>4. \A u \in Call : SerialCall(calls[u])'
  BY <1>1, <1>3 DEF OneAtATime, SerialCall
<1> QED
  BY <1>2, <1>4 DEF SerialInv

LEMMA SerialDispatch ==
  ASSUME OneAtATime, SchedInv, SerialInv, NEW t \in Call, Dispatch(t)
  PROVE  SerialInv'
<1> DEFINE c == calls[t]
           j == c.job
           row == [c.row EXCEPT !.status = "in_progress", !.runner = c.runner]
<1>1. /\ Returns(t) /\ plans' \subseteq plans /\ j \in Job /\ c.row \in SchedRow
      /\ c.runner \in Runner \cup {NoRunner}
      /\ Admitted(j) /\ Sane(c.row) /\ Open(c.row)
  BY CallFacts DEF Dispatch, Deciding, CallOK, CallState, SerialInv, SerialCall
<1>2. SerialTables'
  <2>1. CASE Plan[c.job].run \in plans
    <3>1. Sane(row) /\ Open(row) /\ row.status = "in_progress"
      BY <1>1, SaneRow
    <3>2. UpdateJob(j, row)
      BY <2>1 DEF Dispatch
    <3> HIDE DEF row, c, j
    <3>3. /\ jobs' = [jobs EXCEPT ![j] = row] /\ queue' = [queue EXCEPT ![j] = queue[j]]
          /\ Open(jobs[j])
      BY <1>1, <3>1, <3>2, AdmittedOpen DEF UpdateJob
    <3> QED
      BY <1>1, <3>1, <3>3, RowOfHolder DEF InQueue
  <2>2. CASE Plan[c.job].run \notin plans
    <3>1. UNCHANGED <<jobs, queue>>
      BY <2>2 DEF Dispatch
    <3> QED
      BY <1>1, <3>1, Settled DEF SerialInv
  <2> QED
    BY <2>1, <2>2
<1> QED
  BY <1>1, <1>2, SerialReturns

LEMMA SerialTickStart ==
  ASSUME OneAtATime, SchedInv, SerialInv, NEW t \in Call, TickStart(t)
  PROVE  SerialInv'
<1> DEFINE js == ExpiredLeases
           Back(j) == BackToQueue(jobs[j])
           Row(j) == NextAttempt(Back(j))
           f == [j \in js |-> Update(j, Row(j)) \o Offer(j)]
           g == [j \in js |-> Row(j)]
<1>1. /\ ReapExpiredLeases /\ plans' \subseteq plans
      /\ Goes(t, [Idle EXCEPT !.op = "tick", !.at = "track", !.todo = ForEach(f)])
  BY DEF TickStart
<1>2. /\ jobs' = [j \in Job |-> IF j \in js THEN Back(j) ELSE jobs[j]]
      /\ queue' = [j \in Job |-> IF j \in js THEN Unleased(queue[j]) ELSE queue[j]]
      /\ TablesInv /\ CallsInv
  BY <1>1 DEF ReapExpiredLeases, SchedInv
<1>3. ASSUME NEW j \in js
      PROVE  /\ j \in Job /\ InQueue(j) /\ j \in Holding
             /\ jobs[j] \in Kept(j) /\ jobs[j] \in SchedRow /\ Sane(jobs[j]) /\ Open(jobs[j])
  <2>1. j \in Job /\ InQueue(j)
    BY DEF ExpiredLeases, Leased, InQueue
  <2>2. Admitted(j) /\ Sane(jobs[j]) /\ Open(jobs[j])
    BY <2>1, AdmittedOpen DEF SerialInv, SerialTables
  <2> QED
    BY <1>2, <2>1, <2>2, RowsOfJob DEF Holding, InQueue
<1> HIDE DEF js
<1>4. ASSUME NEW j \in js
      PROVE  /\ Sane(Back(j)) /\ Handed(Back(j)) /\ Open(Back(j))
             /\ Sane(Row(j)) /\ Handed(Row(j)) /\ Row(j) \in Kept(j)
  <2>1. Back(j) \in Kept(j) /\ Sane(Back(j)) /\ Handed(Back(j))
    BY <1>3, SaneRow, RowChanges
  <2>2. Back(j).queued
    BY <2>1 DEF Handed
  <2> HIDE DEF Back
  <2> QED
    BY <1>3, <2>1, <2>2, HandedOpen, SaneNext, NextAttemptKept
<1> HIDE DEF Row
<1>5. js \in SUBSET Job /\ f \in [js -> Seq(Write)]
  <2>1. ASSUME NEW j \in js PROVE Update(j, Row(j)) \o Offer(j) \in Seq(Write)
    BY <1>3, <1>4, RowWrite, QueueWrite
  <2> QED
    BY <1>3, <2>1
<1>6. \A j \in js : Plain(f[j], g, Holding, jobs')
  <2> TAKE j \in js
  <2>1. f[j] = Update(j, Row(j)) \o Offer(j) /\ g[j] = Row(j)
    OBVIOUS
  <2> HIDE DEF f, g
  <2> QED
    BY <1>3, <1>4, <2>1, PlainOffer
<1> HIDE DEF f, g
<1>7. PICK todo : /\ todo = ForEach(f) /\ Orderly(todo, Holding) /\ Offered(todo, jobs')
                  /\ Registers(todo, There')
  <2>1. Plain(ForEach(f), g, Holding, jobs') /\ ForEach(f) \in Seq(Write)
    BY <1>5, <1>6, PlainLoop, LoopRounds
  <2> QED
    BY <2>1, PlainOrderly, QuietRegisters
<1>8. \A j \in Job : jobs'[j] = IF j \in js THEN Back(j) ELSE jobs[j]
  BY <1>2
<1>9. \A j \in Job : /\ Admitted(j)' <=> Admitted(j)
                     /\ Sane(jobs'[j]) /\ (InQueue(j)' => Admitted(j)')
                     /\ Exists(j) => Exists(j)'
  <2> TAKE j \in Job
  <2>1. /\ (Admitted(j)' <=> Open(jobs'[j])) /\ (Admitted(j) <=> Open(jobs[j]))
        /\ Sane(jobs[j]) /\ (InQueue(j) => Admitted(j))
        /\ (Open(jobs'[j]) => Exists(j)')
    BY DEF Admitted, Open, SerialInv, SerialTables, Exists
  <2>2. CASE j \in js
    BY <1>3, <1>4, <1>8, <2>1, <2>2
  <2>3. CASE j \notin js
    <3>1. queue'[j] = queue[j] /\ jobs'[j] = jobs[j]
      BY <1>2, <2>3
    <3> QED
      BY <2>1, <3>1 DEF InQueue, Exists
  <2> QED
    BY <2>2, <2>3
<1>10. Holding' = Holding /\ There \subseteq There'
  BY <1>9 DEF Holding, There
<1>11. SerialTables'
  <2>1. \A r \in plans' : JobsOf(r) \subseteq There'
    BY <1>1, <1>10 DEF SerialInv, SerialTables
  <2>2. Exclusive(Holding') /\ Parallel(Holding')
    BY <1>10 DEF SerialInv, SerialTables
  <2> QED
    BY <1>9, <2>1, <2>2 DEF SerialTables
<1>12. PICK c : c = [Idle EXCEPT !.op = "tick", !.at = "track", !.todo = todo]
  OBVIOUS
<1>13. c.at = "track" /\ c.todo = todo /\ c.snap = Idle.snap
  BY <1>12 DEF Idle
<1>14. SerialCall(c)'
  <2>1. \A j \in DOMAIN c.snap : Sane(c.snap[j])
    BY <1>13, IdleSnap
  <2> QED
    BY <1>7, <1>10, <1>13, <2>1 DEF SerialCall
<1>15. \A u \in Call : SerialCall(calls[u])'
  BY <1>1, <1>2, <1>7, <1>12, <1>14, OnlyCall
<1> QED
  BY <1>11, <1>15 DEF SerialInv

\* A plan that is registered after its jobs were created, and what comes after.
LEMMA RegisteredLast ==
  ASSUME NEW s \in Seq(Write), NEW r \in Run, NEW there, Quiet(s),
         \A j \in JobsOf(r) : \E i \in DOMAIN s : s[i].do = "create" /\ s[i].job = j
  PROVE  Registers(s \o RegisterPlan(r), there)
<1> DEFINE t == RegisterPlan(r)
           w == [do |-> "register", run |-> r]
           u == s \o t
<1>1. t = <<w>> /\ t \in Seq(Write) /\ DOMAIN t = {1} /\ t[1] = w /\ w.run = r
  BY RunWrite DEF RegisterPlan
<1> HIDE DEF t, w
<1>2. /\ Len(s) \in Nat /\ DOMAIN s = 1..Len(s)
      /\ \A i \in DOMAIN u : \/ i \in DOMAIN s /\ u[i] = s[i]
                             \/ i > Len(s) /\ i - Len(s) \in DOMAIN t /\ u[i] = t[i - Len(s)]
      /\ \A i \in DOMAIN s : i \in DOMAIN u /\ u[i] = s[i]
      /\ DOMAIN u = 1..(Len(s) + Len(t)) /\ Len(t) \in Nat
  BY <1>1, ConcatIs
<1> HIDE DEF u
<1>3. ASSUME NEW k \in DOMAIN u, u[k].do = "register", NEW j \in JobsOf(u[k].run) \ there
      PROVE  \E i \in 1..(k - 1) : u[i].do = "create" /\ u[i].job = j
  <2>1. k > Len(s) /\ k - Len(s) \in DOMAIN t /\ u[k] = t[k - Len(s)]
    BY <1>2, <1>3 DEF Quiet
  <2>2. u[k].run = r
    BY <1>1, <2>1
  <2>3. PICK i \in DOMAIN s : s[i].do = "create" /\ s[i].job = j
    BY <1>3, <2>2
  <2>4. i \in 1..(k - 1)
    BY <1>2, <2>1
  <2> QED
    BY <1>2, <2>3, <2>4
<1>4. Registers(u, there)
  BY <1>3 DEF Registers
<1> QED
  BY <1>4 DEF u, t

LEMMA QuietThen ==
  ASSUME NEW s \in Seq(Write), NEW t \in Seq(Write), NEW there, Registers(s, there), Quiet(t)
  PROVE  Registers(s \o t, there)
<1> DEFINE u == s \o t
<1>1. /\ Len(s) \in Nat /\ DOMAIN s = 1..Len(s)
      /\ \A i \in DOMAIN u : \/ i \in DOMAIN s /\ u[i] = s[i]
                             \/ \E k \in DOMAIN t : u[i] = t[k]
      /\ \A i \in DOMAIN s : i \in DOMAIN u /\ u[i] = s[i]
  BY ConcatIs
<1> HIDE DEF u
<1>2. ASSUME NEW k \in DOMAIN u, u[k].do = "register", NEW j \in JobsOf(u[k].run) \ there
      PROVE  \E i \in 1..(k - 1) : u[i].do = "create" /\ u[i].job = j
  <2>1. k \in DOMAIN s /\ u[k] = s[k]
    BY <1>1, <1>2 DEF Quiet
  <2>2. PICK i \in 1..(k - 1) : s[i].do = "create" /\ s[i].job = j
    BY <1>2, <2>1 DEF Registers
  <2>3. i \in DOMAIN s
    BY <1>1, <2>1
  <2> QED
    BY <1>1, <2>2, <2>3
<1>3. Registers(u, there)
  BY <1>2 DEF Registers
<1> QED
  BY <1>3 DEF u

LEMMA SerialStartJobs ==
  ASSUME OneAtATime, SchedInv, SerialInv, NEW t \in Call, StartJobs(t)
  PROVE  SerialInv'
<1> DEFINE c == calls[t]
           r == c.run
           js == JobsOf(r)
           f == [j \in js |-> Create(j, NewRow(j))]
           g == [j \in js |-> NewRow(j)]
           row == [NoRun EXCEPT !.status = "in_progress", !.attempt = 1]
           todo == ForEach(f) \o RegisterPlan(r) \o UpdateRun(r, row)
           on == [c EXCEPT !.at = "return", !.todo = todo]
<1>1. UNCHANGED <<jobs, queue>> /\ plans' \subseteq plans /\ Goes(t, on)
  BY DEF StartJobs
<1>2. c \in CallState /\ r \in Run /\ SerialCall(c)
  BY CallFacts DEF StartJobs, Deciding, CallOK, SerialInv
<1>3. row \in SchedRun
  BY DEF NoRun, SchedRun
<1>4. js \in SUBSET Job
  BY DEF JobsOf
<1>5. ASSUME NEW j \in js
      PROVE  /\ f[j] \in Seq(Write) /\ Plain(f[j], g, Holding, jobs)
             /\ DOMAIN f[j] = {1} /\ f[j][1].do = "create" /\ f[j][1].job = j
  <2>1. f[j] = Create(j, NewRow(j)) /\ g[j] = NewRow(j)
    OBVIOUS
  <2> HIDE DEF f, g
  <2>2. f[j] \in Seq(Write) /\ Plain(f[j], g, Holding, jobs)
    BY <1>4, <2>1, NewRowKept, SaneNew, RowWrite, PlainCreate
  <2>3. DOMAIN f[j] = {1} /\ f[j][1].do = "create" /\ f[j][1].job = j
    BY <2>1 DEF Create
  <2> QED
    BY <2>2, <2>3
<1>6. f \in [js -> Seq(Write)]
  BY <1>5
<1> HIDE DEF f, g
<1>7. /\ ForEach(f) \in Seq(Write)
      /\ Orderly(ForEach(f), Holding) /\ Offered(ForEach(f), jobs) /\ Quiet(ForEach(f))
  <2>1. ForEach(f) \in Seq(Write) /\ Plain(ForEach(f), g, Holding, jobs)
    BY <1>4, <1>5, <1>6, LoopRounds, PlainLoop
  <2> QED
    BY <2>1, PlainOrderly
<1>8. \A j \in js : \E i \in DOMAIN ForEach(f) : ForEach(f)[i].do = "create" /\ ForEach(f)[i].job = j
  <2> HIDE DEF js
  <2> TAKE j \in js
  <2>3. 1 \in DOMAIN f[j]
    BY <1>5
  <2>1. PICK i \in DOMAIN ForEach(f) : ForEach(f)[i] = f[j][1]
    BY <1>4, <1>6, <2>3, LoopCovers
  <2> QED
    BY <1>5, <2>1
<1>9. PICK s \in Seq(Write) : /\ s = ForEach(f) /\ Orderly(s, Holding) /\ Offered(s, jobs)
                              /\ Registers(s \o RegisterPlan(r), There)
  BY <1>2, <1>7, <1>8, RegisteredLast
<1> HIDE DEF row
<1>10. /\ todo = (s \o RegisterPlan(r)) \o UpdateRun(r, row)
       /\ RegisterPlan(r) \in Seq(Write) /\ UpdateRun(r, row) \in Seq(Write)
  BY <1>2, <1>3, <1>9, RunWrite
<1> HIDE DEF todo, r
<1>11. /\ s \o RegisterPlan(r) \in Seq(Write)
       /\ Orderly(s \o RegisterPlan(r), Holding) /\ Offered(s \o RegisterPlan(r), jobs)
  BY <1>9, <1>10, EndingRun, EndingThen
<1>12. Orderly(todo, Holding) /\ Offered(todo, jobs) /\ Registers(todo, There)
  BY <1>9, <1>10, <1>11, EndingRun, EndingThen, QuietThen
<1>13. on.at = "return" /\ on.todo = todo /\ on.snap = c.snap
  BY <1>2 DEF CallState
<1> HIDE DEF on
<1>14. SerialCall(on)
  <2>1. \A k \in DOMAIN on.snap : Sane(on.snap[k])
    BY <1>2, <1>13 DEF SerialCall
  <2> QED
    BY <1>12, <1>13, <2>1, BareCall
<1> QED
  BY <1>1, <1>14, SerialDecides

LEMMA SerialApprove ==
  ASSUME OneAtATime, SchedInv, SerialInv, NEW t \in Call, NEW r \in Run, Approve(t, r)
  PROVE  SerialInv'
<1> DEFINE js == {j \in DOMAIN SnapOf(r) : jobs[j].rest.awaiting}
           Row(j) == [jobs[j] EXCEPT !.status = "queued", !.rest.awaiting = FALSE]
           f == [j \in js |-> Update(j, Row(j))]
           g == [j \in js |-> Row(j)]
           todo == UpdateRun(r, runs[r]) \o ForEach(f)
           on == [Idle EXCEPT !.op = "approve", !.at = "return", !.todo = todo]
<1>1. UNCHANGED <<jobs, queue>> /\ plans' \subseteq plans /\ Goes(t, on)
  BY DEF Approve, Order, Writes
<1>2. ASSUME NEW j \in js
      PROVE  /\ j \in Job /\ jobs[j] \in Kept(j) /\ jobs[j] \in SchedRow /\ Sane(jobs[j])
             /\ jobs[j].rest.awaiting
  <2>1. j \in Job /\ SnapOf(r) \in Snaps /\ SnapOf(r)[j] = jobs[j] /\ TablesInv
    BY CallFacts, SnapOfType
  <2>2. jobs[j] \in Kept(j) /\ jobs[j] \in SchedRow
    BY <2>1, SnapIs
  <2> QED
    BY <2>1, <2>2 DEF SerialInv, SerialTables
<1>3. ASSUME NEW j \in js
      PROVE  Row(j) \in Kept(j) /\ Sane(Row(j)) /\ ~Open(Row(j)) /\ j \notin Holding
  <2>1. Row(j) \in Kept(j) /\ Sane(Row(j)) /\ ~Open(Row(j))
    BY <1>2, ApprovedKept, SaneApproved
  <2>2. ~Open(jobs[j])
    BY <1>2, OpenQueued
  <2> QED
    BY <2>1, <2>2, AdmittedOpen DEF Holding
<1>4. js \in SUBSET Job
  BY <1>2
<1> HIDE DEF js, Row
<1>5. ASSUME NEW j \in js PROVE f[j] \in Seq(Write) /\ Plain(f[j], g, Holding, jobs)
  <2>1. f[j] = Update(j, Row(j)) /\ g[j] = Row(j)
    OBVIOUS
  <2> HIDE DEF f, g
  <2> QED
    BY <1>2, <1>3, <2>1, RowWrite, PlainUpdate
<1>6. f \in [js -> Seq(Write)]
  BY <1>5
<1> HIDE DEF f, g
<1>7. ForEach(f) \in Seq(Write) /\ Plain(ForEach(f), g, Holding, jobs)
  BY <1>4, <1>5, <1>6, LoopRounds, PlainLoop
<1>8. UpdateRun(r, runs[r]) \in Seq(Write) /\ Plain(UpdateRun(r, runs[r]), g, Holding, jobs)
  BY CallFacts, RunWrite, PlainRun
<1>9. todo \in Seq(Write) /\ Plain(todo, g, Holding, jobs)
  BY <1>7, <1>8, PlainConcat, ConcatIs
<1> HIDE DEF todo
<1>10. on.at = "return" /\ on.todo = todo /\ on.snap = Idle.snap
  BY WritingFields
<1> HIDE DEF on
<1> QED
  BY <1>1, <1>9, <1>10, IdleSnap, PlainCall

-----------------------------------------------------------------------------
\* A tick's copy of a run's jobs, and what it writes of them.

LEMMA AgreesItself == \A row : Sane(row) => Agrees(row, row)
  BY DEF Sane, Agrees, Open

LEMMA FinishFirst ==
  ASSUME NEW j, NEW row, NEW res, NEW allow
  PROVE  LET todo == FinishWrites(j, row, res, allow) IN
         1 \in DOMAIN todo /\ todo[1].do = "update" /\ todo[1].job = j
<1> DEFINE end == FinishedRow(j, row, res, allow)
           w == [do |-> "update", job |-> j, row |-> end]
           d == [do |-> "drop", job |-> j]
           e == [do |-> "offer", job |-> j, attempt |-> end.attempt, ready |-> FALSE]
<1>1. w.do = "update" /\ w.job = j
  OBVIOUS
<1>2. /\ Update(j, end) = <<w>> /\ Drop(j) = <<d>> /\ OfferRetry(j, end) = <<e>>
      /\ FinishWrites(j, row, res, allow) =
           IF Completed(end) THEN Update(j, end) ELSE Update(j, end) \o Drop(j) \o OfferRetry(j, end)
  BY DEF Update, Drop, OfferRetry, FinishWrites
<1> HIDE DEF w, d, e, end
<1>3. FinishWrites(j, row, res, allow) \in {<<w>>, <<w, d, e>>}
  BY <1>2, Listed
<1>4. 1 \in DOMAIN <<w>> /\ <<w>>[1] = w /\ 1 \in DOMAIN <<w, d, e>> /\ <<w, d, e>>[1] = w
  OBVIOUS
<1> QED
  BY <1>1, <1>3, <1>4

\* What is written in two rounds, the second from what the first left.
LEMMA CatchesTwo ==
  ASSUME NEW s \in Seq(Write), NEW t \in Seq(Write), NEW snap, NEW first, NEW rows,
         \A k \in DOMAIN s : IsRow(s[k]) => s[k].row = first[s[k].job],
         \A k \in DOMAIN t : IsRow(t[k]) => t[k].row = snap[t[k].job],
         \A j \in DOMAIN snap :
           /\ Agrees(snap[j], snap[j])
           /\ \/ \E k \in DOMAIN t : IsRow(t[k]) /\ t[k].job = j
              \/ /\ first[j] = snap[j]
                 /\ rows[j] = snap[j] \/ \E k \in DOMAIN s : IsRow(s[k]) /\ s[k].job = j
  PROVE  Catches(s \o t, snap, rows)
<1> DEFINE u == s \o t
<1>1. /\ Len(s) \in Nat /\ DOMAIN s = 1..Len(s) /\ DOMAIN t = 1..Len(t) /\ Len(t) \in Nat
      /\ DOMAIN u = 1..(Len(s) + Len(t))
      /\ \A i \in DOMAIN u : \/ i \in DOMAIN s /\ u[i] = s[i]
                             \/ i > Len(s) /\ i - Len(s) \in DOMAIN t /\ u[i] = t[i - Len(s)]
      /\ \A i \in DOMAIN s : i \in DOMAIN u /\ u[i] = s[i]
      /\ \A i \in DOMAIN t : Len(s) + i \in DOMAIN u /\ u[Len(s) + i] = t[i]
  BY ConcatIs
<1> HIDE DEF u
<1> SUFFICES ASSUME NEW j \in DOMAIN snap
             PROVE  \E i \in DOMAIN u \cup {0} :
                      /\ IF i = 0 THEN Agrees(rows[j], snap[j]) ELSE IsRow(u[i]) /\ u[i].job = j
                      /\ \A m \in DOMAIN u : m >= i /\ IsRow(u[m]) /\ u[m].job = j
                                               => Agrees(u[m].row, snap[j])
  BY DEF Catches, u
<1>2. ASSUME NEW m \in DOMAIN u, IsRow(u[m]), u[m].job = j, m > Len(s) \/ first[j] = snap[j]
      PROVE  Agrees(u[m].row, snap[j])
  <2>1. u[m].row = snap[j]
    BY <1>1, <1>2
  <2> QED
    BY <2>1
<1>3. CASE \E k \in DOMAIN t : IsRow(t[k]) /\ t[k].job = j
  <2>1. PICK k \in DOMAIN t : IsRow(t[k]) /\ t[k].job = j
    BY <1>3
  <2>2. PICK i : i = Len(s) + k
    OBVIOUS
  <2>3. i \in DOMAIN u /\ u[i] = t[k] /\ i > Len(s) /\ i # 0
    BY <1>1, <2>2
  <2>4. \A m \in DOMAIN u : m >= i => m > Len(s)
    BY <1>1, <2>3
  <2> QED
    BY <1>2, <2>1, <2>3, <2>4
<1>4. CASE first[j] = snap[j] /\ rows[j] = snap[j]
  BY <1>2, <1>4
<1>5. CASE first[j] = snap[j] /\ \E k \in DOMAIN s : IsRow(s[k]) /\ s[k].job = j
  <2>1. PICK k \in DOMAIN s : IsRow(s[k]) /\ s[k].job = j
    BY <1>5
  <2>2. k \in DOMAIN u /\ u[k] = s[k] /\ k # 0
    BY <1>1
  <2> QED
    BY <1>2, <1>5, <2>1, <2>2
<1> QED
  BY <1>3, <1>4, <1>5

\* One job decided about, beside some that the tick cancels for it.
LEMMA CatchesOne ==
  ASSUME NEW todo \in Seq(Write), NEW snap, NEW rows, NEW j \in DOMAIN snap, NEW new,
         \A k \in DOMAIN snap : Agrees(rows[k], snap[k]),
         \A m \in DOMAIN todo : IsRow(todo[m]) =>
           IF todo[m].job = j THEN Agrees(todo[m].row, new)
           ELSE todo[m].job \in DOMAIN snap => Agrees(todo[m].row, snap[todo[m].job]),
         Agrees(rows[j], new) \/ \E m \in DOMAIN todo : IsRow(todo[m]) /\ todo[m].job = j
  PROVE  Catches(todo, [snap EXCEPT ![j] = new], rows)
<1> DEFINE S == [snap EXCEPT ![j] = new]
<1>1. DOMAIN S = DOMAIN snap /\ S[j] = new /\ \A k \in DOMAIN snap : k # j => S[k] = snap[k]
  OBVIOUS
<1> HIDE DEF S
<1>2. DOMAIN todo \subseteq Nat \ {0}
  <2>1. Len(todo) \in Nat /\ DOMAIN todo = 1..Len(todo)
    OBVIOUS
  <2> QED
    BY <2>1
<1>3. \A k \in DOMAIN S : \A m \in DOMAIN todo :
        IsRow(todo[m]) /\ todo[m].job = k => Agrees(todo[m].row, S[k])
  BY <1>1
<1>4. ASSUME NEW k \in DOMAIN S
      PROVE  \E i \in DOMAIN todo \cup {0} :
               IF i = 0 THEN Agrees(rows[k], S[k]) ELSE IsRow(todo[i]) /\ todo[i].job = k
  <2>1. CASE k # j \/ Agrees(rows[j], new)
    <3>1. Agrees(rows[k], S[k])
      BY <1>1, <2>1
    <3> QED
      BY <3>1
  <2>2. CASE k = j /\ \E m \in DOMAIN todo : IsRow(todo[m]) /\ todo[m].job = j
    <3>1. PICK m \in DOMAIN todo : IsRow(todo[m]) /\ todo[m].job = j
      BY <2>2
    <3> QED
      BY <1>2, <2>2, <3>1
  <2> QED
    BY <2>1, <2>2
<1>5. Catches(todo, S, rows)
  BY <1>3, <1>4 DEF Catches
<1> QED
  BY <1>5 DEF S

\* A tick's copy of a run it drives is of all its jobs.
LEMMA SnapWhole ==
  ASSUME SerialInv, NEW r \in plans
  PROVE  DOMAIN SnapOf(r) = JobsOf(r)
  BY DEF SerialInv, SerialTables, SnapOf, There, JobsOf

\* What the timeouts write, and the copy they leave.
TimedFrom(snap, over, timed, f) ==
  /\ DOMAIN timed = DOMAIN snap
  /\ f = [j \in over |-> f[j]]
  /\ \A j \in DOMAIN snap : j \notin over => timed[j] = snap[j]
  /\ \A j \in over : \E result \in AnyResult, allow \in BOOLEAN :
       /\ timed[j] = FinishedRow(j, snap[j], result, allow)
       /\ f[j] = FinishWrites(j, snap[j], result, allow)

WroteOver(s, from, to) ==
  \A j \in DOMAIN from : to[j] = from[j] \/ \E k \in DOMAIN s : IsRow(s[k]) /\ s[k].job = j
AllSane(snap) == \A j \in DOMAIN snap : Sane(snap[j])
RowsOf(s, g) == \A k \in DOMAIN s : IsRow(s[k]) => s[k].row = g[s[k].job]

LEMMA TimesOutPlain ==
  ASSUME NEW snap \in Snaps, NEW over \in SUBSET DOMAIN snap, NEW timed, NEW f,
         NEW A, NEW rows, AllSane(snap),
         \A j \in over : snap[j].queued /\ j \in A,
         TimedFrom(snap, over, timed, f)
  PROVE  /\ Plain(ForEach(f), timed, A, rows) /\ ForEach(f) \in Seq(Write)
         /\ AllSane(timed) /\ WroteOver(ForEach(f), snap, timed)
<1>1. \A j \in DOMAIN snap : j \in Job /\ snap[j] \in Kept(j) /\ Sane(snap[j])
  BY SnapIs DEF AllSane
<1>2. ASSUME NEW j \in over
      PROVE  /\ j \in Job /\ j \in DOMAIN snap
             /\ f[j] \in Seq(Write) /\ Plain(f[j], timed, A, rows) /\ Sane(timed[j])
             /\ 1 \in DOMAIN f[j] /\ IsRow(f[j][1]) /\ f[j][1].job = j
  <2>1. /\ j \in DOMAIN snap /\ j \in Job /\ snap[j] \in Kept(j) /\ Sane(snap[j])
        /\ snap[j].queued /\ j \in A
    BY <1>1
  <2>2. PICK result \in AnyResult, allow \in BOOLEAN :
          /\ timed[j] = FinishedRow(j, snap[j], result, allow)
          /\ f[j] = FinishWrites(j, snap[j], result, allow)
    BY DEF TimedFrom
  <2>3. f[j] \in Seq(Write) /\ Plain(f[j], timed, A, rows)
    BY <2>1, <2>2, PlainFinish, FinishWritesType
  <2>4. Sane(timed[j])
    BY <2>1, <2>2, FinishedRowSane
  <2>5. 1 \in DOMAIN f[j] /\ IsRow(f[j][1]) /\ f[j][1].job = j
    BY <2>2, FinishFirst DEF IsRow
  <2> QED
    BY <2>1, <2>3, <2>4, <2>5
<1>3. over \in SUBSET Job
  BY <1>2
<1>4. f \in [over -> Seq(Write)]
  BY <1>2 DEF TimedFrom
<1>5. Plain(ForEach(f), timed, A, rows) /\ ForEach(f) \in Seq(Write)
  BY <1>2, <1>3, <1>4, PlainLoop, LoopWrites
<1>6. ASSUME NEW j \in over
      PROVE  \E k \in DOMAIN ForEach(f) : IsRow(ForEach(f)[k]) /\ ForEach(f)[k].job = j
  <2>1. 1 \in DOMAIN f[j]
    BY <1>2
  <2>2. PICK k \in DOMAIN ForEach(f) : ForEach(f)[k] = f[j][1]
    BY <1>3, <1>4, <2>1, LoopCovers
  <2> QED
    BY <1>2, <2>2
<1>7. AllSane(timed)
  BY <1>1, <1>2 DEF TimedFrom, AllSane
<1>8. WroteOver(ForEach(f), snap, timed)
  BY <1>6 DEF TimedFrom, WroteOver
<1> QED
  BY <1>5, <1>7, <1>8

\* What fail-fast writes after that.
EndedFrom(timed, failed, left, f) ==
  /\ DOMAIN left = DOMAIN timed
  /\ f = [j \in failed |-> f[j]]
  /\ \A j \in DOMAIN timed : j \notin failed => left[j] = timed[j]
  /\ \A j \in failed : \E result \in AnyResult :
       /\ left[j] = Finished(timed[j], result)
       /\ f[j] = Update(j, left[j])

LEMMA FailFastEnding ==
  ASSUME NEW timed \in Snaps, AllSane(timed),
         NEW failed \in SUBSET DOMAIN timed, NEW left, NEW f, EndedFrom(timed, failed, left, f)
  PROVE  /\ Ending(ForEach(f)) /\ Quiet(ForEach(f)) /\ ForEach(f) \in Seq(Write)
         /\ AllSane(left) /\ RowsOf(ForEach(f), left) /\ WroteOver(ForEach(f), timed, left)
<1>1. \A j \in DOMAIN timed : j \in Job /\ timed[j] \in Kept(j) /\ timed[j] \in SchedRow /\ Sane(timed[j])
  BY SnapIs DEF AllSane
<1>2. ASSUME NEW j \in failed
      PROVE  /\ j \in Job /\ j \in DOMAIN timed /\ f[j] \in Seq(Write)
             /\ Ending(f[j]) /\ Quiet(f[j]) /\ Sane(left[j])
             /\ Plain(f[j], left, {}, <<>>)
             /\ 1 \in DOMAIN f[j] /\ IsRow(f[j][1]) /\ f[j][1].job = j
  <2>1. PICK result \in AnyResult : left[j] = Finished(timed[j], result) /\ f[j] = Update(j, left[j])
    BY DEF EndedFrom
  <2>2. j \in DOMAIN timed /\ j \in Job
    BY <1>1
  <2>3. left[j] \in Kept(j) /\ Completed(left[j]) /\ Sane(left[j]) /\ ~Open(left[j])
    BY <1>1, <2>1, <2>2, FinishedKept, SaneFinished DEF Completed
  <2>4. f[j] \in Seq(Write) /\ Ending(f[j]) /\ Quiet(f[j]) /\ Plain(f[j], left, {}, <<>>)
    BY <2>1, <2>2, <2>3, RowWrite, EndingUpdate, PlainUpdate
  <2>5. 1 \in DOMAIN f[j] /\ IsRow(f[j][1]) /\ f[j][1].job = j
    BY <2>1 DEF Update, IsRow
  <2> QED
    BY <2>2, <2>3, <2>4, <2>5
<1>3. failed \in SUBSET Job
  BY <1>2
<1>4. f \in [failed -> Seq(Write)]
  BY <1>2 DEF EndedFrom
<1>5. Ending(ForEach(f)) /\ Quiet(ForEach(f)) /\ Plain(ForEach(f), left, {}, <<>>)
      /\ ForEach(f) \in Seq(Write)
  BY <1>2, <1>3, <1>4, EndingLoop, PlainLoop, LoopWrites
<1>6. RowsOf(ForEach(f), left)
  BY <1>5 DEF Plain, PlainWrite, RowsOf
<1>7. ASSUME NEW j \in failed
      PROVE  \E k \in DOMAIN ForEach(f) : IsRow(ForEach(f)[k]) /\ ForEach(f)[k].job = j
  <2>1. 1 \in DOMAIN f[j]
    BY <1>2
  <2>2. PICK k \in DOMAIN ForEach(f) : ForEach(f)[k] = f[j][1]
    BY <1>3, <1>4, <2>1, LoopCovers
  <2> QED
    BY <1>2, <2>2
<1>8. AllSane(left)
  BY <1>1, <1>2 DEF EndedFrom, AllSane
<1>9. WroteOver(ForEach(f), timed, left)
  BY <1>7 DEF EndedFrom, WroteOver
<1> QED
  BY <1>5, <1>6, <1>8, <1>9

LEMMA SerialTickRun ==
  ASSUME OneAtATime, SchedInv, SerialInv, NEW t \in Call, NEW r \in Run, TickRun(t, r)
  PROVE  SerialInv'
<1> DEFINE snap == SnapOf(r)
           stop == Cancelled("dependency_failed")
<1>1. UNCHANGED <<jobs, queue>> /\ plans' \subseteq plans /\ r \in plans
  BY DEF TickRun
<1>2. PICK setupLate \in SUBSET UnderWay(r), late \in SUBSET UnderWay(r) :
        Drives(t, r, setupLate, late)
  BY TickRunDrives
<1>a. /\ setupLate \in SUBSET DOMAIN snap /\ late \in SUBSET DOMAIN snap
      /\ \A j \in setupLate \cup late : snap[j].status = "in_progress"
  BY <1>2 DEF UnderWay
<1> DEFINE over == setupLate \cup late
           ending(j) == IF j \in setupLate THEN Result("infra_failure", "infra", "timeout")
                                           ELSE Result("timed_out", "user", "timeout")
           timed == [j \in DOMAIN snap |->
                       IF j \in setupLate \cup late
                       THEN FinishedRow(j, snap[j], ending(j), j \in setupLate)
                       ELSE snap[j]]
           failed == FailFastLegs(timed)
           left == [j \in DOMAIN snap |-> IF j \in failed THEN Finished(timed[j], stop) ELSE timed[j]]
           e == [j \in setupLate \cup late |->
                   FinishWrites(j, snap[j], ending(j), j \in setupLate)]
           s == [j \in failed |-> Update(j, Finished(timed[j], stop))]
           ends == ForEach(e)
           stops == ForEach(s)
           idle == TickOn(calls[t], TickTracked(calls[t]) \ {r})
           on == [idle EXCEPT !.at = "gate", !.run = r, !.rrow = runs[r], !.snap = left,
                              !.todo = ends \o stops]
<1>3. Goes(t, on)
  BY <1>2 DEF Drives
<1>4. /\ snap \in Snaps /\ DOMAIN snap = JobsOf(r) /\ \A j \in DOMAIN snap : Sane(snap[j])
      /\ \A j \in DOMAIN snap : snap[j] = jobs[j] /\ j \in Job
  BY <1>1, CallFacts, SnapOfType, SnapWhole, SnapSane
<1>b. AllSane(snap)
  BY <1>4 DEF AllSane
<1>5. over \in SUBSET DOMAIN snap /\ \A j \in over : snap[j].queued /\ j \in Holding
  <2>1. over \in SUBSET DOMAIN snap /\ \A j \in over : snap[j].status = "in_progress"
    BY <1>a
  <2> HIDE DEF snap, over
  <2>2. \A j \in over : Open(snap[j]) /\ snap[j].queued
    BY <1>4, <2>1 DEF Sane, Open
  <2> QED
    BY <1>4, <2>1, <2>2, AdmittedOpen DEF Holding
<1>6. TimedFrom(snap, over, timed, e)
  <2>1. \A j : ending(j) \in AnyResult
    BY ResultTypes
  <2> HIDE DEF ending, snap
  <2>2. DOMAIN timed = DOMAIN snap /\ e = [j \in over |-> e[j]]
    OBVIOUS
  <2>3. \A j \in DOMAIN snap : j \notin over => timed[j] = snap[j]
    OBVIOUS
  <2>4. ASSUME NEW j \in over
        PROVE  \E result \in AnyResult, allow \in BOOLEAN :
                 /\ timed[j] = FinishedRow(j, snap[j], result, allow)
                 /\ e[j] = FinishWrites(j, snap[j], result, allow)
    <3>1. timed[j] = FinishedRow(j, snap[j], ending(j), j \in setupLate)
      BY <1>5
    <3>2. e[j] = FinishWrites(j, snap[j], ending(j), j \in setupLate)
      OBVIOUS
    <3>3. (j \in setupLate) \in BOOLEAN
      OBVIOUS
    <3> HIDE DEF timed, e, over
    <3> QED
      BY <2>1, <3>1, <3>2, <3>3
  <2> HIDE DEF timed, e, over
  <2> QED
    BY <2>2, <2>3, <2>4 DEF TimedFrom
<1>7. timed \in Snaps
  <2> HIDE DEF snap
  <2> QED
    BY <1>4, <1>a, TimedOut
<1>8. DOMAIN timed = DOMAIN snap
  OBVIOUS
<1>9. failed \in SUBSET DOMAIN timed
  <2> HIDE DEF timed
  <2> QED
    BY DEF FailFastLegs, Live
<1>10. EndedFrom(timed, failed, left, s)
  <2>1. stop \in AnyResult
    BY ResultTypes DEF CancelActors
  <2> HIDE DEF stop, failed, timed, snap
  <2> QED
    BY <1>8, <1>9, <2>1 DEF EndedFrom
<1>11. /\ idle.todo = <<>> /\ on.at = "gate" /\ on.todo = ends \o stops /\ on.snap = left /\ on.run = r
  BY DEF TickOn, Idle
<1>12. /\ ends = ForEach(e) /\ stops = ForEach(s)
  OBVIOUS
<1> HIDE DEF on, idle, left, stops, ends, timed, snap, e, s, over, failed
<1>13. Plain(ends, timed, Holding, jobs) /\ ends \in Seq(Write) /\ AllSane(timed)
       /\ WroteOver(ends, snap, timed)
  BY <1>4, <1>b, <1>5, <1>6, <1>12, TimesOutPlain
<1>15. /\ Ending(stops) /\ Quiet(stops) /\ stops \in Seq(Write)
       /\ AllSane(left) /\ RowsOf(stops, left) /\ WroteOver(stops, timed, left)
  BY <1>7, <1>9, <1>10, <1>12, <1>13, FailFastEnding
<1>16. DOMAIN left = DOMAIN snap
  BY <1>8, <1>10 DEF EndedFrom
<1>17. Orderly(ends, Holding) /\ Offered(ends, jobs) /\ Quiet(ends)
  BY <1>13, PlainOrderly
<1>18. PICK todo : todo = ends \o stops
  OBVIOUS
<1>19. Orderly(todo, Holding) /\ Offered(todo, jobs) /\ Registers(todo, There)
  BY <1>13, <1>15, <1>17, <1>18, EndingThen, EndingConcat, QuietRegisters
<1>20. Catches(todo, left, jobs)
  <2>1. \A k \in DOMAIN ends : IsRow(ends[k]) => ends[k].row = timed[ends[k].job]
    BY <1>13 DEF Plain, PlainWrite
  <2>2. \A j \in DOMAIN left : Agrees(left[j], left[j])
    BY <1>8, <1>15, <1>16, AgreesItself DEF AllSane
  <2>4. \A k \in DOMAIN stops : IsRow(stops[k]) => stops[k].row = left[stops[k].job]
    BY <1>15 DEF RowsOf
  <2>3. \A j \in DOMAIN left :
          \/ \E k \in DOMAIN stops : IsRow(stops[k]) /\ stops[k].job = j
          \/ /\ timed[j] = left[j]
             /\ jobs[j] = left[j] \/ \E k \in DOMAIN ends : IsRow(ends[k]) /\ ends[k].job = j
    BY <1>4, <1>8, <1>13, <1>15, <1>16 DEF WroteOver
  <2> QED
    BY <1>13, <1>15, <1>18, <2>1, <2>2, <2>3, <2>4, CatchesTwo
<1>21. SerialCall(on)
  BY <1>4, <1>8, <1>11, <1>15, <1>16, <1>18, <1>19, <1>20 DEF SerialCall, AllSane
<1> QED
  BY <1>1, <1>3, <1>21, SerialDecides

-----------------------------------------------------------------------------
\* A tick decides about one job of its copy.

\* Updates of the rows of the jobs js to those of g.
UpdatesOf(s, js, g) ==
  /\ \A n \in DOMAIN s : s[n].do = "update" /\ s[n].job \in js /\ s[n].row = g[s[n].job]
  /\ \A k \in js : \E n \in DOMAIN s : s[n].job = k

LEMMA UpdatesLoop ==
  ASSUME NEW js \in SUBSET Job, NEW f \in [js -> Seq(Write)], NEW g,
         \A k \in js : f[k] = Update(k, g[k])
  PROVE  UpdatesOf(ForEach(f), js, g)
<1>1. ASSUME NEW k \in js
      PROVE  /\ DOMAIN f[k] = {1} /\ f[k][1].do = "update" /\ f[k][1].job = k /\ f[k][1].row = g[k]
  BY <1>1 DEF Update
<1>2. ASSUME NEW n \in DOMAIN ForEach(f)
      PROVE  /\ ForEach(f)[n].do = "update" /\ ForEach(f)[n].job \in js
             /\ ForEach(f)[n].row = g[ForEach(f)[n].job]
  <2>1. PICK k \in js : OfRound(ForEach(f), n, f[k])
    BY LoopRounds
  <2>2. PICK m \in DOMAIN f[k] : ForEach(f)[n] = f[k][m]
    BY <2>1 DEF OfRound
  <2> QED
    BY <1>1, <2>2
<1>3. ASSUME NEW k \in js PROVE \E n \in DOMAIN ForEach(f) : ForEach(f)[n].job = k
  <2>1. 1 \in DOMAIN f[k]
    BY <1>1
  <2>2. PICK n \in DOMAIN ForEach(f) : ForEach(f)[n] = f[k][1]
    BY <2>1, LoopCovers
  <2> QED
    BY <1>1, <2>2
<1> QED
  BY <1>2, <1>3 DEF UpdatesOf

\* The writes that let a job in, after its group was cleared.
Admits(u, s, j, row) ==
  /\ DOMAIN u = 1..(Len(s) + 2)
  /\ \A i \in DOMAIN s : i \in DOMAIN u /\ u[i] = s[i]
  /\ u[Len(s) + 1].do = "update" /\ u[Len(s) + 1].job = j /\ u[Len(s) + 1].row = row
  /\ u[Len(s) + 2].do = "offer" /\ u[Len(s) + 2].job = j

LEMMA AdmitsIs ==
  ASSUME NEW s \in Seq(Write), NEW j \in Job, NEW row \in Kept(j)
  PROVE  Admits(s \o Update(j, row) \o Offer(j), s, j, row)
<1> DEFINE a == Update(j, row)
           b == Offer(j)
           v == s \o a
           u == v \o b
<1>1. a \in Seq(Write) /\ b \in Seq(Write)
  BY RowWrite, QueueWrite
<1>2. /\ Len(a) = 1 /\ DOMAIN a = {1} /\ a[1].do = "update" /\ a[1].job = j /\ a[1].row = row
      /\ Len(b) = 1 /\ DOMAIN b = {1} /\ b[1].do = "offer" /\ b[1].job = j
  BY DEF Update, Offer
<1> HIDE DEF a, b
<1>3. /\ v \in Seq(Write) /\ Len(s) \in Nat /\ DOMAIN v = 1..(Len(s) + 1)
      /\ DOMAIN s = 1..Len(s)
      /\ \A i \in DOMAIN s : i \in DOMAIN v /\ v[i] = s[i]
      /\ v[Len(s) + 1] = a[1]
  BY <1>1, <1>2, ConcatIs
<1> HIDE DEF v
<1>4. DOMAIN v = 1..Len(v) /\ Len(v) \in Nat
  BY <1>3
<1>5. Len(v) = Len(s) + 1
  BY <1>3, <1>4
<1>6. /\ DOMAIN u = 1..(Len(s) + 2)
      /\ \A i \in DOMAIN v : i \in DOMAIN u /\ u[i] = v[i]
      /\ u[Len(s) + 2] = b[1]
  <2>1. /\ DOMAIN u = 1..(Len(v) + Len(b))
        /\ \A i \in DOMAIN v : i \in DOMAIN u /\ u[i] = v[i]
        /\ \A i \in DOMAIN b : Len(v) + i \in DOMAIN u /\ u[Len(v) + i] = b[i]
    BY <1>1, <1>3, ConcatIs
  <2> HIDE DEF u
  <2>2. Len(v) + Len(b) = Len(s) + 2 /\ Len(v) + 1 = Len(s) + 2 /\ 1 \in DOMAIN b
    BY <1>2, <1>3, <1>5
  <2> QED
    BY <2>1, <2>2
<1> HIDE DEF u
<1>7. Len(s) + 1 \in DOMAIN v
  BY <1>3
<1>8. Admits(u, s, j, row)
  BY <1>2, <1>3, <1>6, <1>7 DEF Admits
<1> QED
  BY <1>8 DEF u, v, a, b

LEMMA AdmittedOrderly ==
  ASSUME NEW s \in Seq(Write), NEW u, NEW j \in Job, NEW row, NEW A, NEW js, NEW g, NEW rows,
         Admits(u, s, j, row), UpdatesOf(s, js, g), j \notin js, Sane(row), Handed(row),
         \A k \in js : Completed(g[k]) /\ Sane(g[k]),
         Peers(j) \cap A \subseteq js,
         Plan[j].maxParallel > 0 => Cardinality(A \cap Siblings(j)) < Plan[j].maxParallel
  PROVE  Orderly(u, A) /\ Offered(u, rows) /\ Quiet(u)
<1>1. PICK m \in Nat : m = Len(s) /\ DOMAIN s = 1..m
  OBVIOUS
<1>2. /\ DOMAIN u = 1..(m + 2)
      /\ \A i \in DOMAIN s : i \in DOMAIN u /\ u[i] = s[i]
      /\ u[m + 1].do = "update" /\ u[m + 1].job = j /\ u[m + 1].row = row
      /\ u[m + 2].do = "offer" /\ u[m + 2].job = j
  BY <1>1 DEF Admits
<1>3. ASSUME NEW i \in 1..m
      PROVE  /\ u[i].do = "update" /\ u[i].job \in js /\ u[i].job # j
             /\ Completed(u[i].row) /\ Sane(u[i].row) /\ ~Open(u[i].row)
  BY <1>1, <1>2 DEF UpdatesOf, Completed, Open
<1>4. Open(row) /\ ~Completed(row)
  BY DEF Handed, Open, Completed
<1>5. \A i \in DOMAIN u : i \in 1..m \/ i = m + 1 \/ i = m + 2
  BY <1>2
<1>6. \A i \in DOMAIN u, p \in Job : Opens(u[i], p) => p = j /\ i \in {m + 1, m + 2}
  BY <1>2, <1>3, <1>5 DEF Opens, IsRow
<1>7. \A i \in DOMAIN u, p \in Job : Closes(u[i], p) => i \in 1..m /\ Completed(u[i].row) /\ p # j
  BY <1>2, <1>3, <1>4, <1>5 DEF Closes, IsRow
<1>8. ASSUME NEW k \in {m + 1, m + 2} PROVE Entering(u, k, j, A)
  <2>1. ASSUME NEW p \in Peers(j) \cap A PROVE \E i \in 1..(k - 1) : Closes(u[i], p)
    <3>1. PICK n \in DOMAIN s : s[n].job = p
      BY <2>1 DEF UpdatesOf
    <3>2. n \in 1..(k - 1) /\ n \in 1..m /\ u[n] = s[n]
      BY <1>1, <1>2, <3>1
    <3> QED
      BY <1>3, <3>1, <3>2 DEF Closes, IsRow
  <2> QED
    BY <1>6, <2>1 DEF Entering
<1>9. \A i \in DOMAIN u : IsRow(u[i]) => Sane(u[i].row)
  BY <1>2, <1>3, <1>5 DEF IsRow
<1>10. \A i, k \in DOMAIN u, p \in Job : i < k /\ Closes(u[i], p) => ~Opens(u[k], p)
  BY <1>6, <1>7
<1>11. \A k \in DOMAIN u, p \in Job : Opens(u[k], p) => p \in A \/ Entering(u, k, p, A)
  BY <1>6, <1>8
<1>12. \A k \in DOMAIN u, p \in Job :
         Closes(u[k], p) /\ u[k].do = "update" /\ u[k].row.status # "completed"
           => p \notin A /\ \A i \in DOMAIN u : ~Opens(u[i], p)
  BY <1>7 DEF Completed
<1>13. Orderly(u, A)
  BY <1>9, <1>10, <1>11, <1>12 DEF Orderly
<1>14. ASSUME NEW k \in DOMAIN u, u[k].do = "offer"
       PROVE  /\ \A i \in 1..(k - 1) : IsRow(u[i]) /\ u[i].job = u[k].job => Handed(u[i].row)
              /\ \E i \in 1..(k - 1) : IsRow(u[i]) /\ u[i].job = u[k].job
  <2>1. k = m + 2 /\ u[k].job = j
    BY <1>2, <1>3, <1>5, <1>14
  <2>2. \A i \in 1..(k - 1) : IsRow(u[i]) /\ u[i].job = j => Handed(u[i].row)
    <3>1. \A i \in 1..(k - 1) : i \in 1..m \/ i = m + 1
      BY <2>1
    <3> QED
      BY <1>2, <1>3, <3>1
  <2>3. m + 1 \in 1..(k - 1) /\ IsRow(u[m + 1]) /\ u[m + 1].job = j
    BY <1>2, <2>1 DEF IsRow
  <2> QED
    BY <2>1, <2>2, <2>3
<1>15. Offered(u, rows)
  BY <1>14 DEF Offered
<1>16. Quiet(u)
  BY <1>2, <1>3, <1>5 DEF Quiet
<1> QED
  BY <1>13, <1>15, <1>16

\* The jobs with the queue of a matrix are in flight in a copy the rows agree with.
LEMMA SlotsTaken ==
  ASSUME SchedInv, NEW snap \in Snaps, NEW r, DOMAIN snap = JobsOf(r), NEW j \in DOMAIN snap,
         \A k \in DOMAIN snap : Agrees(jobs[k], snap[k]),
         SlotFree(snap, j), Plan[j].maxParallel > 0
  PROVE  Cardinality(Holding \cap Siblings(j)) < Plan[j].maxParallel
<1> DEFINE taken == Holding \cap Siblings(j)
           flying == {l \in Legs(snap, Plan[j].key) : InFlight(snap[l])}
<1>1. j \in Job /\ Plan[j].run = r /\ DOMAIN snap \subseteq Job
  BY DEF JobsOf
<1>2. ASSUME NEW k \in taken PROVE k \in flying
  <2>1. k \in Job /\ Plan[k].run = r /\ Plan[k].key = Plan[j].key /\ Open(jobs[k])
    BY <1>1, AdmittedOpen DEF Holding, Siblings
  <2>2. k \in DOMAIN snap
    BY <2>1 DEF JobsOf
  <2>3. InFlight(snap[k])
    BY <2>1, <2>2 DEF Agrees, InFlight, Completed
  <2> QED
    BY <2>1, <2>2, <2>3 DEF Legs
<1>3. flying \subseteq Job
  BY <1>1 DEF Legs
<1>4. Cardinality(flying) < Plan[j].maxParallel
  BY DEF SlotFree
<1> HIDE DEF taken, flying
<1>5. /\ IsFiniteSet(flying) /\ Cardinality(taken) <= Cardinality(flying)
      /\ Cardinality(taken) \in Nat /\ Cardinality(flying) \in Nat
  <2>1. IsFiniteSet(flying) /\ IsFiniteSet(taken)
    BY <1>2, <1>3, SchedulerAssumption, FS_Subset
  <2>2. taken \subseteq flying
    BY <1>2
  <2> QED
    BY <2>1, <2>2, FS_Subset, FS_CardinalityType
<1>6. Plan[j].maxParallel \in Nat
  BY <1>1, PlanAssumption
<1> QED
  BY <1>4, <1>5, <1>6 DEF taken

LEMMA SerialTickAdmit ==
  ASSUME OneAtATime, SchedInv, SerialInv, NEW t \in Call, TickAdmit(t)
  PROVE  SerialInv'
<1> DEFINE c == calls[t]
           j == FirstOf(Candidates(c))
           row == c.snap[j]
           grouped == Plan[j].group # ""
           holders == IF grouped THEN GroupHolders(j) ELSE {}
           skipped == ~ShouldRun(c.snap, j, c.rrow.cancel # "")
           held == grouped /\ \/ Plan[j].group \in c.taken
                              \/ holders # {} /\ ~Plan[j].cancelInProgress
           new == IF skipped THEN Finished(row, Result("skipped", "", ""))
                  ELSE IF held THEN [row EXCEPT !.status = "waiting"]
                  ELSE [row EXCEPT !.status = "queued", !.queued = TRUE]
           cleared == [k \in Job |-> Finished(jobs[k], Cancelled("concurrency_group"))]
           f == [k \in holders |-> Update(k, Finished(jobs[k], Cancelled("concurrency_group")))]
           displaced == ForEach(f)
           writes == IF skipped THEN Update(j, new)
                     ELSE IF held THEN IF row.status = "waiting" THEN <<>> ELSE Update(j, new)
                     ELSE displaced \o Update(j, new) \o Offer(j)
           taken == IF grouped /\ ~skipped /\ ~held THEN c.taken \cup {Plan[j].group} ELSE c.taken
           snap == [c.snap EXCEPT ![j] = new]
           on == [c EXCEPT !.at = "admit", !.last = j, !.snap = snap, !.todo = writes,
                           !.taken = taken]
<1>1. /\ CallOK(c) /\ c \in CallState /\ c.snap \in Snaps /\ c.at \in {"gate", "admit"}
      /\ c.todo = <<>> /\ SerialCall(c) /\ TablesInv
  BY CallFacts DEF TickAdmit, Admitting, SerialInv
<1>2. /\ DOMAIN c.snap = JobsOf(c.run) /\ DOMAIN c.snap \subseteq Job
      /\ \A k \in DOMAIN c.snap : Sane(c.snap[k]) /\ Agrees(jobs[k], c.snap[k])
      /\ \A k \in DOMAIN c.snap : c.snap[k] \in Kept(k) /\ c.snap[k] \in SchedRow
  <2>1. DOMAIN c.snap = JobsOf(c.run) /\ Catches(c.todo, c.snap, jobs)
        /\ \A k \in DOMAIN c.snap : Sane(c.snap[k])
    BY <1>1 DEF SerialCall
  <2>2. PICK none : none = c.todo /\ DOMAIN none = {}
    BY <1>1
  <2>3. \A k \in DOMAIN c.snap : Agrees(jobs[k], c.snap[k])
    BY <2>1, <2>2 DEF Catches
  <2> QED
    BY <1>1, <2>1, <2>3, SnapIs
<1>3. j \in Candidates(c)
  <2>1. Candidates(c) \subseteq Nat /\ Candidates(c) # {}
    BY <1>2, SchedulerAssumption DEF Candidates, TickAdmit
  <2> QED
    BY <2>1, FirstOfIn
<1>4. Goes(t, on)
  <2>1. Goes(t, [c EXCEPT !.at = "admit", !.last = j, !.snap[j] = new, !.todo = writes,
                    !.taken = IF grouped /\ ~skipped /\ ~held THEN @ \cup {Plan[j].group} ELSE @])
    BY DEF TickAdmit
  <2> HIDE DEF j, grouped, skipped, held, new, writes
  <2>2. [c EXCEPT !.at = "admit", !.last = j, !.snap[j] = new, !.todo = writes,
            !.taken = IF grouped /\ ~skipped /\ ~held THEN @ \cup {Plan[j].group} ELSE @] = on
    BY <1>1 DEF CallState
  <2> QED
    BY <2>1, <2>2
<1>5. UNCHANGED <<jobs, queue>> /\ plans' \subseteq plans
  BY DEF TickAdmit
<1> HIDE DEF j
<1>6. /\ j \in DOMAIN c.snap /\ j \in Job /\ Pending(row)
      /\ ~skipped => SlotFree(c.snap, j)
  BY <1>2, <1>3 DEF Candidates
<1> HIDE DEF skipped
<1>7. /\ row \in Kept(j) /\ row \in SchedRow /\ Sane(row) /\ Agrees(jobs[j], row)
      /\ ~row.queued /\ ~row.rest.awaiting /\ ~Completed(row)
  BY <1>2, <1>6 DEF Pending
<1>8. ~Open(jobs[j]) /\ j \notin Holding
  BY <1>7, AdmittedOpen DEF Agrees, Holding
<1>9. \A k \in Job : jobs[k] \in SchedRow /\ Sane(jobs[k])
  BY <1>1, RowsOfJob DEF SerialInv, SerialTables
<1>10. /\ holders \in SUBSET Job /\ j \notin holders
       /\ \A k \in holders : Open(jobs[k]) /\ jobs[k] \in Kept(k)
       /\ Peers(j) \cap Holding \subseteq holders
  <2>1. \A k \in GroupHolders(j) : k \in Job /\ k # j /\ Open(jobs[k]) /\ Exists(k)
    BY DEF GroupHolders, Open, Exists
  <2>2. \A k \in Job : k # j /\ Plan[k].group = Plan[j].group /\ Admitted(k) => k \in GroupHolders(j)
    BY DEF GroupHolders, Admitted
  <2> QED
    BY <1>1, <2>1, <2>2, RowsOfJob DEF Holding, Peers
<1> HIDE DEF held, row, holders
<1>11. /\ new \in Kept(j) /\ Sane(new)
       /\ skipped => Completed(new)
       /\ ~skipped /\ held => /\ ~Open(new) /\ ~Completed(new)
                              /\ row.status = "waiting" => Agrees(jobs[j], new)
       /\ ~skipped /\ ~held => Handed(new)
  <2>1. CASE skipped
    <3>1. new = Finished(row, Result("skipped", "", ""))
      BY <2>1
    <3> QED
      BY <1>6, <1>7, <2>1, <3>1, ResultTypes, FinishedKept, SaneFinished DEF Completed
  <2>2. CASE ~skipped /\ held
    <3>1. new = [row EXCEPT !.status = "waiting"]
      BY <2>2
    <3> HIDE DEF new
    <3>2. new \in Kept(j)
      BY <1>6, <1>7, <3>1, RowChanges
    <3>4. /\ Sane(new) /\ ~Open(new) /\ new.status = "waiting"
      BY <1>7, <3>1, SaneRow
    <3>3. row.status = "waiting" => new = row
      BY <1>7, <3>1 DEF SchedRow
    <3> QED
      BY <1>7, <2>2, <3>2, <3>3, <3>4 DEF Completed
  <2>3. CASE ~skipped /\ ~held
    <3>1. new = [row EXCEPT !.status = "queued", !.queued = TRUE]
      BY <2>3
    <3> QED
      BY <1>6, <1>7, <2>3, <3>1, RowChanges, SaneRow
  <2> QED
    BY <2>1, <2>2, <2>3
<1>12. Agrees(new, new)
  BY <1>11, AgreesItself
<1> HIDE DEF new
<1>13. /\ \A k \in holders : cleared[k] \in Kept(k) /\ Completed(cleared[k]) /\ Sane(cleared[k])
       /\ \A k \in holders : f[k] = Update(k, cleared[k])
       /\ \A k \in holders : k \in DOMAIN c.snap => Agrees(cleared[k], c.snap[k])
  <2>1. Cancelled("concurrency_group") \in AnyResult
    BY ResultTypes DEF CancelActors
  <2>2. ASSUME NEW k \in holders
        PROVE  /\ cleared[k] \in Kept(k) /\ Completed(cleared[k]) /\ Sane(cleared[k])
               /\ f[k] = Update(k, cleared[k])
               /\ k \in DOMAIN c.snap => Agrees(cleared[k], c.snap[k])
    <3>1. k \in Job /\ Open(jobs[k]) /\ jobs[k] \in Kept(k) /\ jobs[k] \in SchedRow /\ Sane(jobs[k])
      BY <1>9, <1>10
    <3>2. cleared[k] = Finished(jobs[k], Cancelled("concurrency_group"))
      BY <3>1
    <3>3. f[k] = Update(k, cleared[k])
      BY <3>2
    <3> HIDE DEF cleared, f
    <3>4. cleared[k] \in Kept(k) /\ cleared[k].status = "completed" /\ Sane(cleared[k])
      BY <2>1, <3>1, <3>2, FinishedKept, SaneFinished
    <3>5. k \in DOMAIN c.snap => Agrees(cleared[k], c.snap[k])
      BY <1>2, <3>1, <3>4 DEF Agrees, Open
    <3> QED
      BY <3>3, <3>4, <3>5 DEF Completed
  <2> HIDE DEF cleared, f
  <2> QED
    BY <2>2
<1>14. f \in [holders -> Seq(Write)]
  <2>1. f = [k \in holders |-> f[k]]
    OBVIOUS
  <2> HIDE DEF f, cleared
  <2> QED
    BY <1>10, <1>13, <2>1, RowWrite
<1> HIDE DEF f, cleared
<1>15. displaced \in Seq(Write) /\ UpdatesOf(displaced, holders, cleared)
  BY <1>10, <1>13, <1>14, LoopWrites, UpdatesLoop
<1> HIDE DEF displaced
<1>16. /\ Orderly(writes, Holding) /\ Offered(writes, jobs) /\ Quiet(writes)
       /\ Catches(writes, snap, jobs)
  <2>1. CASE skipped \/ (held /\ row.status # "waiting")
    <3>1. writes = Update(j, new)
      BY <2>1
    <3>2. Update(j, new) \in Seq(Write)
      BY <1>6, <1>11, RowWrite
    <3>3. /\ Orderly(Update(j, new), Holding) /\ Offered(Update(j, new), jobs)
          /\ Quiet(Update(j, new))
      <4> DEFINE g == [k \in {j} |-> new]
      <4>1. new = g[j]
        OBVIOUS
      <4>2. Open(new) => j \in Holding
        BY <1>11, <2>1 DEF Open, Completed
      <4> HIDE DEF g
      <4>3. Plain(Update(j, new), g, Holding, jobs)
        BY <1>8, <1>11, <4>1, <4>2, PlainUpdate
      <4> QED
        BY <3>2, <4>3, PlainOrderly
    <3>4. PICK todo \in Seq(Write) : todo = Update(j, new)
      BY <3>2
    <3>5. DOMAIN todo = {1} /\ todo[1].do = "update" /\ todo[1].job = j /\ todo[1].row = new
      BY <3>4 DEF Update
    <3>6. Catches(todo, snap, jobs)
      BY <1>2, <1>6, <1>12, <3>5, CatchesOne DEF IsRow
    <3> QED
      BY <3>1, <3>3, <3>4, <3>6
  <2>2. CASE ~skipped /\ held /\ row.status = "waiting"
    <3> DEFINE todo == <<>>
    <3>1. todo \in Seq(Write) /\ DOMAIN todo = {}
      OBVIOUS
    <3>2. writes = todo
      BY <2>2
    <3>3. Orderly(todo, Holding) /\ Offered(todo, jobs) /\ Quiet(todo)
      BY NothingLeft, EndingNone
    <3> HIDE DEF todo
    <3>4. Catches(todo, snap, jobs)
      BY <1>2, <1>6, <1>11, <2>2, <3>1, CatchesOne
    <3> QED
      BY <3>2, <3>3, <3>4
  <2>3. CASE ~skipped /\ ~held
    <3> DEFINE todo == displaced \o Update(j, new) \o Offer(j)
    <3>1. writes = todo
      BY <2>3
    <3>2. Admits(todo, displaced, j, new)
      BY <1>6, <1>11, <1>15, AdmitsIs
    <3>3. todo \in Seq(Write)
      <4>1. Update(j, new) \in Seq(Write) /\ Offer(j) \in Seq(Write)
        BY <1>6, <1>11, RowWrite, QueueWrite
      <4> QED
        BY <1>15, <4>1
    <3> HIDE DEF todo
    <3>4. Plan[j].maxParallel > 0 => Cardinality(Holding \cap Siblings(j)) < Plan[j].maxParallel
      BY <1>1, <1>2, <1>6, <2>3, SlotsTaken
    <3>5. Orderly(todo, Holding) /\ Offered(todo, jobs) /\ Quiet(todo)
      BY <1>6, <1>10, <1>11, <1>13, <1>15, <2>3, <3>2, <3>4, AdmittedOrderly
    <3>6. PICK m \in Nat : m = Len(displaced) /\ DOMAIN displaced = 1..m
      BY <1>15
    <3>7. /\ DOMAIN todo = 1..(m + 2)
          /\ \A i \in 1..m : todo[i] = displaced[i]
          /\ todo[m + 1].do = "update" /\ todo[m + 1].job = j /\ todo[m + 1].row = new
          /\ todo[m + 2].do = "offer"
      BY <3>2, <3>6 DEF Admits
    <3>8. ASSUME NEW i \in DOMAIN todo, IsRow(todo[i])
          PROVE  IF todo[i].job = j THEN Agrees(todo[i].row, new)
                 ELSE todo[i].job \in DOMAIN c.snap => Agrees(todo[i].row, c.snap[todo[i].job])
      <4>1. i \in 1..m \/ i = m + 1 \/ i = m + 2
        BY <3>7
      <4>2. CASE i \in 1..m
        <5>1. todo[i].job \in holders /\ todo[i].row = cleared[todo[i].job]
          BY <1>15, <3>6, <3>7, <4>2 DEF UpdatesOf
        <5> QED
          BY <1>10, <1>13, <5>1
      <4>3. CASE i = m + 1
        BY <1>12, <3>7, <4>3
      <4>4. CASE i = m + 2
        BY <3>7, <3>8, <4>4 DEF IsRow
      <4> QED
        BY <4>1, <4>2, <4>3, <4>4
    <3>9. m + 1 \in DOMAIN todo /\ IsRow(todo[m + 1]) /\ todo[m + 1].job = j
      BY <3>7 DEF IsRow
    <3>10. Catches(todo, snap, jobs)
      BY <1>2, <1>6, <3>3, <3>8, <3>9, CatchesOne
    <3> QED
      BY <3>1, <3>5, <3>10
  <2> QED
    BY <2>1, <2>2, <2>3
<1> HIDE DEF writes
<1>17. DOMAIN snap = DOMAIN c.snap /\ \A k \in DOMAIN snap : Sane(snap[k])
  BY <1>2, <1>6, <1>11
<1> HIDE DEF snap, taken
<1>18. /\ on.at = "admit" /\ on.todo = writes /\ on.snap = snap /\ on.run = c.run
  BY <1>1 DEF CallState
<1> HIDE DEF on
<1>19. Registers(writes, There)
  BY <1>16, QuietRegisters
<1>20. SerialCall(on)
  BY <1>2, <1>16, <1>17, <1>18, <1>19 DEF SerialCall
<1> QED
  BY <1>4, <1>5, <1>20, SerialDecides

-----------------------------------------------------------------------------
\* No run was re-run so far, and none is by this step.

SpentOK == spent \in [orders : Nat, losses : Nat, restarts : Nat, reruns : Nat]

\* Each step counts one thing, within its bound, or nothing.
LEMMA SpentKinds ==
  ASSUME [Next]_vars
  PROVE  \/ UNCHANGED spent
         \/ spent.orders < Orders /\ spent' = [spent EXCEPT !.orders = @ + 1]
         \/ spent' = [spent EXCEPT !.losses = @ + 1]
         \/ spent' = [spent EXCEPT !.restarts = @ + 1]
         \/ spent.reruns < Reruns /\ spent' = [spent EXCEPT !.reruns = @ + 1]
<1>1. ASSUME NEW t \in Call, Proceed(t) \/ TickStart(t) PROVE UNCHANGED spent
  BY <1>1 DEF Proceed, TickStart, WriteStep, SupersedeNext, StartJobs, TickLeave, TickRunTimeout,
     TickRun, TickNothing, TickAdmit, TickFinalize, Withdraw, Dispatch, JobCompleted,
     JobSetupCompleted
<1>2. ASSUME NEW t \in Call, NEW r \in Runner, NEW j \in Job,
             Acquire(t, r) \/ SetupDone(t, r, j) \/ \E res \in Results[j] : Complete(t, r, j, res)
      PROVE  UNCHANGED spent
  BY <1>2 DEF Acquire, SetupDone, Complete
<1>3. ASSUME NEW r \in Runner, NEW j \in Job, ReleaseJob(r, j) \/ Beat(r, j)
      PROVE  UNCHANGED spent
  BY <1>3 DEF ReleaseJob, Beat, OneStepCall
<1>4. ASSUME NEW t \in Call, NEW r \in Run,
             StartRun(t, r) \/ Approve(t, r) \/ CancelRun(t, r) \/ Rerun(t, r)
      PROVE  \/ UNCHANGED spent
             \/ spent.orders < Orders /\ spent' = [spent EXCEPT !.orders = @ + 1]
             \/ spent.reruns < Reruns /\ spent' = [spent EXCEPT !.reruns = @ + 1]
  BY <1>4 DEF StartRun, Approve, CancelRun, Rerun, Order
<1>5. ASSUME NEW t \in Call, NEW j \in Job, CancelJob(t, j)
      PROVE  spent.orders < Orders /\ spent' = [spent EXCEPT !.orders = @ + 1]
  BY <1>5 DEF CancelJob, Order
<1>6. ASSUME NEW j \in Job, Lost(j) \/ BackoffOver(j)
      PROVE  UNCHANGED spent \/ spent' = [spent EXCEPT !.losses = @ + 1]
  BY <1>6 DEF Lost, BackoffOver
<1>7. ASSUME NEW t \in Call, NEW r \in Runner, Acquire(t, r) PROVE UNCHANGED spent
  BY <1>7 DEF Acquire
<1>8. Restart => spent' = [spent EXCEPT !.restarts = @ + 1]
  BY DEF Restart
<1>9. UNCHANGED vars => UNCHANGED spent
  BY DEF vars
<1> QED
  BY <1>1, <1>2, <1>3, <1>4, <1>5, <1>6, <1>7, <1>8, <1>9 DEF Next

LEMMA SpentStep ==
  ASSUME SpentOK, [Next]_vars
  PROVE  /\ SpentOK' /\ (spent'.reruns = 0 => spent.reruns = 0)
         /\ (\E t \in Call, r \in Run : Rerun(t, r)) => spent'.reruns # 0
<1>1. CASE UNCHANGED spent
  <2>1. ~\E t \in Call, r \in Run : Rerun(t, r)
    <3> SUFFICES ASSUME NEW t \in Call, NEW r \in Run, Rerun(t, r) PROVE FALSE
      OBVIOUS
    <3>1. spent'.reruns = spent.reruns + 1 /\ spent.reruns \in Nat
      BY DEF Rerun, SpentOK
    <3> QED
      BY <1>1, <3>1
  <2> QED
    BY <1>1, <2>1 DEF SpentOK
<1>2. CASE spent' = [spent EXCEPT !.reruns = @ + 1]
  BY <1>2 DEF SpentOK
<1>3. CASE \/ spent' = [spent EXCEPT !.orders = @ + 1]
           \/ spent' = [spent EXCEPT !.losses = @ + 1]
           \/ spent' = [spent EXCEPT !.restarts = @ + 1]
  <2>1. SpentOK' /\ spent'.reruns = spent.reruns
    BY <1>3 DEF SpentOK
  <2>2. ~\E t \in Call, r \in Run : Rerun(t, r)
    <3> SUFFICES ASSUME NEW t \in Call, NEW r \in Run, Rerun(t, r) PROVE FALSE
      OBVIOUS
    <3>1. spent'.reruns = spent.reruns + 1 /\ spent.reruns \in Nat
      BY DEF Rerun, SpentOK
    <3> QED
      BY <2>1, <3>1
  <2> QED
    BY <2>1, <2>2
<1>4. \/ UNCHANGED spent
      \/ spent' = [spent EXCEPT !.orders = @ + 1]
      \/ spent' = [spent EXCEPT !.losses = @ + 1]
      \/ spent' = [spent EXCEPT !.restarts = @ + 1]
      \/ spent' = [spent EXCEPT !.reruns = @ + 1]
  BY SpentKinds
<1> QED
  BY <1>1, <1>2, <1>3, <1>4

SerialSoFar == SpentOK /\ (spent.reruns = 0 => SerialInv)

LEMMA SerialStep ==
  ASSUME OneAtATime, SchedInv, SerialInv, [Next]_vars, ~\E t \in Call, r \in Run : Rerun(t, r)
  PROVE  SerialInv'
<1>1. ASSUME NEW t \in Call, Proceed(t) PROVE SerialInv'
  BY <1>1, SerialWrite, SerialSupersede, SerialStartJobs, SerialTickLeave, SerialTickRunTimeout,
     SerialTickRun, SerialTickNothing, SerialTickAdmit, SerialTickFinalize, SerialWithdraw,
     SerialDispatch, SerialJobCompleted, SerialSetupCompleted DEF Proceed
<1>2. ASSUME NEW r \in Runner, NEW j \in Job, ReleaseJob(r, j) \/ Beat(r, j) PROVE SerialInv'
  BY <1>2, SerialRelease, SerialFlags
<1>3. ASSUME NEW j \in Job, Lost(j) \/ BackoffOver(j) PROVE SerialInv'
  BY <1>3, SerialFlags
<1>4. ASSUME NEW t \in Call, NEW r \in Runner, NEW j \in Job,
             SetupDone(t, r, j) \/ \E res \in Results[j] : Complete(t, r, j, res)
      PROVE  SerialInv'
  BY <1>4, SerialSetupDone, SerialComplete
<1>5. CASE UNCHANGED vars
  <2>1. UNCHANGED <<jobs, queue>> /\ UNCHANGED plans /\ UNCHANGED calls
    BY <1>5 DEF vars
  <2>2. SerialTables'
    BY <2>1, Settled DEF SerialInv
  <2>3. ASSUME NEW u \in Call PROVE SerialCall(calls[u])'
    <3>1. PICK c : c = calls[u]
      OBVIOUS
    <3>2. SerialCall(c)'
      BY <2>1, <3>1, Settled DEF SerialInv
    <3> QED
      BY <2>1, <3>1, <3>2
  <2> QED
    BY <2>2, <2>3 DEF SerialInv
<1>6. CASE Next
  BY <1>1, <1>2, <1>3, <1>4, <1>6, SerialTickStart, SerialStartRun, SerialApprove, SerialCancelRun,
     SerialAcquire, SerialCancelJob, SerialRestart DEF Next
<1> QED
  BY <1>5, <1>6

LEMMA SerialStart == Init => SerialSoFar
<1> SUFFICES ASSUME Init PROVE SerialSoFar
  OBVIOUS
<1>1. SpentOK
  BY DEF Init, SpentOK
<1>2. \A j \in Job : jobs[j] = AbsentJob /\ queue[j] = AbsentEntry
  BY DEF Init, StoreInit
<1>3. AbsentJob.status = "absent" /\ AbsentJob.runner = NoRunner /\ ~AbsentJob.rest.awaiting
  BY DEF AbsentJob, NoColumns
<1>4. \A j \in Job : Sane(jobs[j]) /\ ~InQueue(j) /\ ~Admitted(j)
  BY <1>2, <1>3 DEF Sane, InQueue, Admitted, AbsentEntry
<1>5. Holding = {}
  BY <1>4 DEF Holding
<1>6. SerialTables
  BY <1>4, <1>5 DEF SerialTables, Exclusive, Parallel, Init
<1>7. \A t \in Call : SerialCall(calls[t])
  BY IdleSerial DEF Init
<1> QED
  BY <1>1, <1>6, <1>7 DEF SerialSoFar, SerialInv

LEMMA SerialAlways == OneAtATime /\ Spec => [](SchedInv /\ SerialSoFar)
<1>1. ASSUME OneAtATime, SchedInv, SerialSoFar, [Next]_vars PROVE SerialSoFar'
  <2>1. SpentOK' /\ (spent'.reruns = 0 => spent.reruns = 0)
        /\ ((\E t \in Call, r \in Run : Rerun(t, r)) => spent'.reruns # 0)
    BY <1>1, SpentStep DEF SerialSoFar
  <2>2. ASSUME spent'.reruns = 0 PROVE SerialInv'
    BY <1>1, <2>1, <2>2, SerialStep DEF SerialSoFar
  <2> QED
    BY <2>1, <2>2 DEF SerialSoFar
<1>2. OneAtATime /\ SchedInv /\ SerialSoFar /\ [Next]_vars => SerialSoFar'
  BY <1>1
<1>3. CASE OneAtATime
  <2>1. SchedInv /\ SerialSoFar /\ [Next]_vars => SerialSoFar'
    BY <1>2, <1>3
  <2> QED
    BY <2>1, SerialStart, SchedulerTyped, PTL DEF Spec
<1>4. CASE ~OneAtATime
  BY <1>4
<1> QED
  BY <1>3, <1>4

\* concurrency.go, "at most one live job per group": while calls are taken one
\* after the other and no run was re-run, no two jobs of a group are ever with the
\* queue or with runners together, whatever is cancelled, lost or restarted.
THEOREM SerialGroupExclusive == OneAtATime /\ Spec => [](spent.reruns = 0 => GroupExclusive)
<1>1. SerialSoFar => (spent.reruns = 0 => GroupExclusive)
  BY DEF SerialSoFar, SerialInv, SerialTables, Exclusive, Holding, Peers, GroupExclusive
<1> QED
  BY <1>1, SerialAlways, PTL

\* admit.go, max-parallel: under the same calls a matrix never has more legs with
\* the queue or with runners than its max-parallel, through retries and requeues.
THEOREM SerialMaxParallel == OneAtATime /\ Spec => [](spent.reruns = 0 => MaxParallelKept)
<1>1. SerialSoFar => (spent.reruns = 0 => MaxParallelKept)
  <2> SUFFICES ASSUME SerialTables, NEW j \in Job, Plan[j].maxParallel > 0
               PROVE  Cardinality({k \in Job : /\ Plan[k].run = Plan[j].run
                                               /\ Plan[k].key = Plan[j].key
                                               /\ Admitted(k)}) <= Plan[j].maxParallel
    BY DEF SerialSoFar, SerialInv, MaxParallelKept
  <2> DEFINE legs == {k \in Job : /\ Plan[k].run = Plan[j].run
                                  /\ Plan[k].key = Plan[j].key
                                  /\ Admitted(k)}
  <2>1. CASE legs = {}
    <3>1. Plan[j].maxParallel \in Nat /\ Cardinality({}) = 0
      BY PlanAssumption, FS_EmptySet
    <3> HIDE DEF legs
    <3>2. Cardinality(legs) <= Plan[j].maxParallel
      BY <2>1, <3>1
    <3> QED
      BY <3>2 DEF legs
  <2>2. CASE \E k \in Job : k \in legs
    <3>1. PICK k \in Job : k \in legs
      BY <2>2
    <3>2. legs = Holding \cap Siblings(k) /\ k \in Holding
      BY <3>1 DEF Holding, Siblings
    <3>3. Plan[k].maxParallel = Plan[j].maxParallel
      BY <3>1, PlanAssumption
    <3> HIDE DEF legs
    <3>4. Cardinality(legs) <= Plan[j].maxParallel
      BY <3>2, <3>3 DEF SerialTables, Parallel
    <3> QED
      BY <3>4 DEF legs
  <2> QED
    BY <2>1, <2>2
<1> QED
  BY <1>1, SerialAlways, PTL

-----------------------------------------------------------------------------
(***************************************************************************)
(* The gate of the needs, when nobody has approved a run.  A job that has  *)
(* ended keeps its conclusion, whatever is written after it, so what a job *)
(* was let in for stays so.                                                *)
(***************************************************************************)

\* What a row that is written over another leaves of a job that has ended.
Keeps(old, new) == Completed(old) => Completed(new) /\ new.rest.conclusion = old.rest.conclusion

\* The jobs that j needs have ended the way its if: asks for.
NeedsMet(j) ==
  /\ \A k \in Job : Plan[k].run = Plan[j].run /\ Plan[k].key \in Plan[j].needs
                      => jobs[k].status = "completed"
  /\ ShouldRun(SnapOf(Plan[j].run), j, FALSE)

\* What a call has left to write changes no job that has ended, in the tables
\* or by an earlier write of its own, and lets in none before its needs.
Lasts(todo, rows) ==
  \A k \in DOMAIN todo : IsRow(todo[k]) =>
    /\ todo[k].do = "update" => Keeps(rows[todo[k].job], todo[k].row)
    /\ \A i \in 1..(k - 1) : IsRow(todo[i]) /\ todo[i].job = todo[k].job
                               => Keeps(todo[i].row, todo[k].row)

Earned(todo) == \A k \in DOMAIN todo, j \in Job : Opens(todo[k], j) => NeedsMet(j)

GateInv ==
  /\ \A j \in Job : Admitted(j) => NeedsMet(j)
  /\ \A t \in Call : Lasts(calls[t].todo, jobs) /\ Earned(calls[t].todo)

LEMMA GateIsMet == GateInv => NeedsGate
  BY DEF GateInv, NeedsGate, NeedsMet

\* ShouldRun reads the conclusions of the legs that are needed and nothing else.
LEMMA SameGate ==
  ASSUME NEW s, NEW u, NEW j, NEW b,
         \A key \in Plan[j].needs :
           /\ Legs(s, key) = Legs(u, key)
           /\ \A l \in Legs(s, key) : s[l].rest.conclusion = u[l].rest.conclusion,
         ShouldRun(s, j, b)
  PROVE  ShouldRun(u, j, b)
<1>1. ASSUME NEW key \in Plan[j].needs PROVE ResultOf(s, key) = ResultOf(u, key)
  <2> DEFINE as == {Counted(s, l) : l \in Legs(s, key)}
             bs == {Counted(u, l) : l \in Legs(u, key)}
  <2>1. Legs(s, key) = Legs(u, key)
    OBVIOUS
  <2>2. \A l \in Legs(s, key) : Counted(s, l) = Counted(u, l)
    BY DEF Counted
  <2>3. as = bs
    BY <2>1, <2>2
  <2> QED
    BY <2>3 DEF ResultOf
<1> DEFINE rs == {ResultOf(s, key) : key \in Plan[j].needs}
           ru == {ResultOf(u, key) : key \in Plan[j].needs}
<1>2. rs = ru
  BY <1>1
<1>3. ShouldRun(s, j, b) = CASE Plan[j].cond = "success()" -> rs \subseteq {"success"} /\ ~b
                             [] Plan[j].cond = "failure()" -> "failure" \in rs
                             [] Plan[j].cond = "always()"  -> TRUE
  BY DEF ShouldRun
<1>4. ShouldRun(u, j, b) = CASE Plan[j].cond = "success()" -> ru \subseteq {"success"} /\ ~b
                             [] Plan[j].cond = "failure()" -> "failure" \in ru
                             [] Plan[j].cond = "always()"  -> TRUE
  BY DEF ShouldRun
<1> HIDE DEF rs, ru
<1> QED
  BY <1>2, <1>3, <1>4

\* A run that was cancelled lets in no job that it would not have let in before.
LEMMA CancelledGate ==
  ASSUME NEW s, NEW j \in Job, NEW b \in BOOLEAN, ShouldRun(s, j, b)
  PROVE  ShouldRun(s, j, FALSE)
<1>1. Plan[j].cond \in {"success()", "failure()", "always()"}
  BY PlanAssumption
<1>2. CASE Plan[j].cond = "success()"
  BY <1>2 DEF ShouldRun
<1>3. CASE Plan[j].cond = "failure()"
  BY <1>3 DEF ShouldRun
<1>4. CASE Plan[j].cond = "always()"
  BY <1>4 DEF ShouldRun
<1> QED
  BY <1>1, <1>2, <1>3, <1>4

\* The legs of a key among the rows of a run, when all have ended.
LEMMA LegsOfRun ==
  ASSUME NEW r, NEW key,
         \A k \in Job : Plan[k].run = r /\ Plan[k].key = key => jobs[k].status = "completed"
  PROVE  /\ Legs(SnapOf(r), key) = {k \in Job : Plan[k].run = r /\ Plan[k].key = key}
         /\ \A k \in Legs(SnapOf(r), key) : SnapOf(r)[k] = jobs[k]
  BY DEF Legs, SnapOf, JobsOf, Exists

LEMMA NeedsKept ==
  ASSUME NEW j \in Job, NeedsMet(j), \A k \in Job : Keeps(jobs[k], jobs'[k])
  PROVE  NeedsMet(j)'
<1> DEFINE r == Plan[j].run
           s == SnapOf(r)
           u == SnapOf(r)'
<1>1. \A k \in Job : Plan[k].run = r /\ Plan[k].key \in Plan[j].needs
        => /\ jobs[k].status = "completed" /\ jobs'[k].status = "completed"
           /\ jobs'[k].rest.conclusion = jobs[k].rest.conclusion
  BY DEF NeedsMet, Keeps, Completed
<1>2. ASSUME NEW key \in Plan[j].needs
      PROVE  /\ Legs(s, key) = Legs(u, key)
             /\ \A l \in Legs(s, key) : s[l].rest.conclusion = u[l].rest.conclusion
  <2>1. /\ Legs(s, key) = {k \in Job : Plan[k].run = r /\ Plan[k].key = key}
        /\ \A k \in Legs(s, key) : s[k] = jobs[k]
    BY <1>1, LegsOfRun
  <2>2. /\ Legs(u, key) = {k \in Job : Plan[k].run = r /\ Plan[k].key = key}
        /\ \A k \in Legs(u, key) : u[k] = jobs'[k]
    BY <1>1 DEF Legs, SnapOf, JobsOf, Exists
  <2> HIDE DEF s, u, r
  <2> QED
    BY <1>1, <2>1, <2>2
<1>3. ShouldRun(s, j, FALSE)
  BY DEF NeedsMet
<1> HIDE DEF s, u
<1>4. ShouldRun(u, j, FALSE)
  BY <1>2, <1>3, SameGate
<1> QED
  BY <1>1, <1>4 DEF NeedsMet, u

LEMMA KeepsItself == \A row : Keeps(row, row)
  BY DEF Keeps

LEMMA LastsNone == \A rows : Lasts(<<>>, rows) /\ Earned(<<>>)
<1> TAKE rows
<1> DEFINE todo == <<>>
<1>1. DOMAIN todo = {}
  OBVIOUS
<1> HIDE DEF todo
<1>2. Lasts(todo, rows) /\ Earned(todo)
  BY <1>1 DEF Lasts, Earned
<1> QED
  BY <1>2 DEF todo

\* A step of the one call, that changes no job that has ended and lets in none
\* but one that has its needs.
LEMMA GateGoes ==
  ASSUME OneAtATime, SchedInv, GateInv, NEW t \in Call, NEW c, Goes(t, c) \/ Returns(t),
         \A k \in Job : Keeps(jobs[k], jobs'[k]),
         \A j \in Job : Admitted(j)' => NeedsMet(j),
         Lasts(c.todo, jobs'), Earned(c.todo)
  PROVE  GateInv'
<1>1. \A j \in Job : Admitted(j)' => NeedsMet(j)'
  BY NeedsKept
<1>2. Idle.todo = <<>>
  BY DEF Idle
<1>3. PICK d : /\ calls' = [calls EXCEPT ![t] = d]
               /\ Lasts(d.todo, jobs') /\ Earned(d.todo)
  <2>1. CASE calls' = [calls EXCEPT ![t] = Idle]
    BY <1>2, <2>1, LastsNone
  <2>2. CASE calls' = [calls EXCEPT ![t] = c]
    BY <2>2
  <2> QED
    BY <2>1, <2>2 DEF Goes, Returns
<1>4. ASSUME NEW u \in Call PROVE calls'[u] = d
  BY <1>3 DEF SchedInv, CallsInv, OneAtATime
<1>5. \A k \in DOMAIN d.todo, j \in Job : Opens(d.todo[k], j) => NeedsMet(j)'
  BY <1>3, NeedsKept DEF Earned
<1>6. \A u \in Call : Lasts(calls[u].todo, jobs)' /\ Earned(calls[u].todo)'
  <2> TAKE u \in Call
  <2>1. calls'[u].todo = d.todo
    BY <1>4
  <2>2. Lasts(calls'[u].todo, jobs')
    BY <1>3, <2>1
  <2>3. Earned(calls[u].todo)'
    BY <1>5, <2>1 DEF Earned
  <2> QED
    BY <2>2, <2>3
<1> QED
  BY <1>1, <1>6 DEF GateInv

\* One that only decides.
LEMMA GateDecides ==
  ASSUME OneAtATime, SchedInv, GateInv, UNCHANGED jobs, NEW t \in Call, NEW c,
         Goes(t, c) \/ Returns(t), Lasts(c.todo, jobs), Earned(c.todo)
  PROVE  GateInv'
<1>1. \A k \in Job : Keeps(jobs[k], jobs'[k])
  BY KeepsItself
<1>2. \A j \in Job : Admitted(j)' => NeedsMet(j)
  BY DEF Admitted, GateInv
<1>3. Lasts(c.todo, jobs')
  OBVIOUS
<1> QED
  BY <1>1, <1>2, <1>3, GateGoes

\* One that leaves the calls alone.
LEMMA GateStays ==
  ASSUME GateInv, calls' = calls \/ \A t \in Call : calls'[t] = Idle,
         \A k \in Job : jobs'[k] = jobs[k] \/ (~Completed(jobs[k]) /\ NeedsMet(k)),
         \A t \in Call : calls[t] = Idle \/ UNCHANGED jobs
  PROVE  GateInv'
<1>1. \A k \in Job : Keeps(jobs[k], jobs'[k])
  BY DEF Keeps
<1>2. \A j \in Job : Admitted(j)' => NeedsMet(j)'
  <2>1. \A j \in Job : Admitted(j)' => NeedsMet(j)
    BY DEF Admitted, GateInv
  <2> QED
    BY <1>1, <2>1, NeedsKept
<1>3. Idle.todo = <<>>
  BY DEF Idle
<1>4. ASSUME NEW u \in Call PROVE Lasts(calls[u].todo, jobs)' /\ Earned(calls[u].todo)'
  <2>1. CASE calls'[u] = Idle
    <3>1. calls'[u].todo = <<>>
      BY <1>3, <2>1
    <3>2. DOMAIN calls'[u].todo = {}
      <4> DEFINE none == <<>>
      <4>1. DOMAIN none = {}
        OBVIOUS
      <4> HIDE DEF none
      <4>2. calls'[u].todo = none
        BY <3>1 DEF none
      <4> QED
        BY <4>1, <4>2
    <3> QED
      BY <3>2 DEF Lasts, Earned
  <2>2. CASE calls' = calls /\ UNCHANGED jobs
    <3>1. calls'[u].todo = calls[u].todo
      BY <2>2
    <3>2. Lasts(calls[u].todo, jobs) /\ Earned(calls[u].todo)
      BY DEF GateInv
    <3>3. Lasts(calls[u].todo, jobs)'
      BY <2>2, <3>2
    <3>4. Earned(calls[u].todo)'
      BY <1>1, <3>1, <3>2, NeedsKept DEF Earned
    <3> QED
      BY <3>3, <3>4
  <2> QED
    BY <2>1, <2>2
<1> QED
  BY <1>2, <1>4 DEF GateInv

-----------------------------------------------------------------------------
\* Writes that change no job that has ended, and let in none before its needs.

\* Such writes of the rows g, over the rows there are.
GateWrites(g, rows) ==
  {w \in Write : /\ IsRow(w) => w.row = g[w.job]
                 /\ w.do = "update" => Keeps(rows[w.job], w.row)
                 /\ \A j \in Job : Opens(w, j) => NeedsMet(j)}

\* A row that may be written, over one that has not ended or keeps it.
Writable(j, old, row) == Keeps(old, row) /\ (Open(row) => NeedsMet(j))

LEMMA WritesGate ==
  ASSUME NEW g, NEW rows, NEW todo \in Seq(GateWrites(g, rows))
  PROVE  Lasts(todo, rows) /\ Earned(todo) /\ todo \in Seq(Write)
<1>1. ASSUME NEW k \in DOMAIN todo
      PROVE  /\ todo[k] \in Write /\ (IsRow(todo[k]) => todo[k].row = g[todo[k].job])
             /\ todo[k].do = "update" => Keeps(rows[todo[k].job], todo[k].row)
             /\ \A j \in Job : Opens(todo[k], j) => NeedsMet(j)
  <2>1. todo[k] \in GateWrites(g, rows)
    OBVIOUS
  <2> QED
    BY <2>1 DEF GateWrites
<1>2. \A k \in DOMAIN todo : \A i \in 1..(k - 1) : i \in DOMAIN todo
  OBVIOUS
<1>3. Lasts(todo, rows)
  BY <1>1, <1>2, KeepsItself DEF Lasts
<1>4. Earned(todo)
  BY <1>1 DEF Earned
<1>5. todo \in Seq(Write)
  <2>1. GateWrites(g, rows) \subseteq Write
    BY DEF GateWrites
  <2> QED
    BY <2>1
<1> QED
  BY <1>3, <1>4, <1>5

LEMMA GateUpdate ==
  ASSUME NEW g, NEW rows, NEW j \in Job, NEW row \in Kept(j), g[j] = row, Writable(j, rows[j], row)
  PROVE  Update(j, row) \in Seq(GateWrites(g, rows))
<1> DEFINE w == [do |-> "update", job |-> j, row |-> row]
<1>1. w \in Write
  BY DEF Write, RowWrites, Kept
<1>2. w.do = "update" /\ w.job = j /\ w.row = row
  OBVIOUS
<1>3. Update(j, row) = <<w>>
  BY DEF Update
<1> HIDE DEF w
<1>4. w \in GateWrites(g, rows)
  BY <1>1, <1>2 DEF GateWrites, Writable, Opens, IsRow
<1> QED
  BY <1>3, <1>4

LEMMA GateCreate ==
  ASSUME NEW g, NEW rows, NEW j \in Job, NEW row \in Kept(j), g[j] = row, ~Open(row)
  PROVE  Create(j, row) \in Seq(GateWrites(g, rows))
<1> DEFINE w == [do |-> "create", job |-> j, row |-> row]
<1>1. w \in Write
  BY DEF Write, RowWrites, Kept
<1>2. w.do = "create" /\ w.job = j /\ w.row = row
  OBVIOUS
<1>3. Create(j, row) = <<w>>
  BY DEF Create
<1> HIDE DEF w
<1>4. w \in GateWrites(g, rows)
  BY <1>1, <1>2 DEF GateWrites, Opens, IsRow
<1> QED
  BY <1>3, <1>4

LEMMA GateOffers ==
  ASSUME NEW g, NEW rows, NEW j \in Job, NeedsMet(j)
  PROVE  /\ Offer(j) \in Seq(GateWrites(g, rows)) /\ Drop(j) \in Seq(GateWrites(g, rows))
         /\ \A row \in SchedRow : OfferRetry(j, row) \in Seq(GateWrites(g, rows))
<1> DEFINE d == [do |-> "drop", job |-> j]
           o == [do |-> "offer", job |-> j, attempt |-> 0, ready |-> TRUE]
<1>1. d \in Write /\ d.do = "drop" /\ o \in Write /\ o.do = "offer" /\ o.job = j
  BY DEF Write, QueueWrites
<1>2. Drop(j) = <<d>> /\ Offer(j) = <<o>>
  BY DEF Drop, Offer
<1> HIDE DEF d, o
<1>3. d \in GateWrites(g, rows) /\ o \in GateWrites(g, rows)
  BY <1>1 DEF GateWrites, Opens, IsRow
<1>4. ASSUME NEW row \in SchedRow PROVE OfferRetry(j, row) \in Seq(GateWrites(g, rows))
  <2> DEFINE e == [do |-> "offer", job |-> j, attempt |-> row.attempt, ready |-> FALSE]
  <2>1. row.attempt \in Nat
    BY DEF SchedRow
  <2>2. e \in Write /\ e.do = "offer" /\ e.job = j
    BY <2>1 DEF Write, QueueWrites
  <2>3. OfferRetry(j, row) = <<e>>
    BY DEF OfferRetry
  <2> HIDE DEF e
  <2>4. e \in GateWrites(g, rows)
    BY <2>2 DEF GateWrites, Opens, IsRow
  <2> QED
    BY <2>3, <2>4
<1> QED
  BY <1>2, <1>3, <1>4

LEMMA GateRuns ==
  ASSUME NEW g, NEW rows, NEW r \in Run
  PROVE  /\ RegisterPlan(r) \in Seq(GateWrites(g, rows)) /\ ForgetPlan(r) \in Seq(GateWrites(g, rows))
         /\ \A row \in SchedRun : UpdateRun(r, row) \in Seq(GateWrites(g, rows))
<1>1. ASSUME NEW do \in {"register", "forget"} PROVE [do |-> do, run |-> r] \in GateWrites(g, rows)
  <2> DEFINE w == [do |-> do, run |-> r]
  <2>1. w \in Write /\ w.do = do
    BY DEF Write, RunWrites
  <2> HIDE DEF w
  <2>2. w \in GateWrites(g, rows)
    BY <2>1 DEF GateWrites, Opens, IsRow
  <2> QED
    BY <2>2 DEF w
<1>2. ASSUME NEW row \in SchedRun
      PROVE  [do |-> "run", run |-> r, row |-> row] \in GateWrites(g, rows)
  <2> DEFINE w == [do |-> "run", run |-> r, row |-> row]
  <2>1. w \in Write /\ w.do = "run"
    BY DEF Write, RunWrites
  <2> HIDE DEF w
  <2>2. w \in GateWrites(g, rows)
    BY <2>1 DEF GateWrites, Opens, IsRow
  <2> QED
    BY <2>2 DEF w
<1> QED
  BY <1>1, <1>2 DEF RegisterPlan, ForgetPlan, UpdateRun

LEMMA GateFinish ==
  ASSUME NEW g, NEW rows, NEW j \in Job, NEW row \in Kept(j), NEW res \in AnyResult,
         NEW allow \in BOOLEAN, g[j] = FinishedRow(j, row, res, allow),
         ~Completed(rows[j]), NeedsMet(j)
  PROVE  FinishWrites(j, row, res, allow) \in Seq(GateWrites(g, rows))
<1> DEFINE end == FinishedRow(j, row, res, allow)
           W == GateWrites(g, rows)
<1>1. end \in Kept(j) /\ end \in SchedRow
  BY FinishedRowKept DEF Kept
<1>2. FinishWrites(j, row, res, allow) =
        IF Completed(end) THEN Update(j, end) ELSE Update(j, end) \o Drop(j) \o OfferRetry(j, end)
  BY DEF FinishWrites
<1>3. g[j] = end
  OBVIOUS
<1> HIDE DEF end
<1>4. Update(j, end) \in Seq(W)
  BY <1>1, <1>3, GateUpdate DEF Writable, Keeps
<1>5. Drop(j) \in Seq(W) /\ OfferRetry(j, end) \in Seq(W)
  BY <1>1, GateOffers
<1> HIDE DEF W
<1>6. Update(j, end) \o Drop(j) \o OfferRetry(j, end) \in Seq(W)
  BY <1>4, <1>5
<1>7. FinishWrites(j, row, res, allow) \in Seq(W)
  BY <1>2, <1>4, <1>6
<1> QED
  BY <1>7 DEF W

\* A second round may write the jobs that the first has not ended.
LEMMA GateThen ==
  ASSUME NEW g, NEW h, NEW rows, NEW s \in Seq(GateWrites(g, rows)), NEW u \in Seq(GateWrites(h, rows)),
         \A k \in DOMAIN u : IsRow(u[k]) => ~Completed(g[u[k].job])
  PROVE  Lasts(s \o u, rows) /\ Earned(s \o u)
<1> DEFINE v == s \o u
<1>1. s \in Seq(Write) /\ u \in Seq(Write) /\ Lasts(s, rows) /\ Earned(s) /\ Lasts(u, rows) /\ Earned(u)
  BY WritesGate
<1>2. ASSUME NEW k \in DOMAIN s PROVE IsRow(s[k]) => s[k].row = g[s[k].job]
  <2>1. s[k] \in GateWrites(g, rows)
    OBVIOUS
  <2> QED
    BY <2>1 DEF GateWrites
<1>3. /\ Len(s) \in Nat /\ DOMAIN s = 1..Len(s) /\ DOMAIN u = 1..Len(u) /\ Len(u) \in Nat
      /\ DOMAIN v = 1..(Len(s) + Len(u))
      /\ \A i \in DOMAIN v : \/ i \in DOMAIN s /\ v[i] = s[i]
                             \/ i > Len(s) /\ i - Len(s) \in DOMAIN u /\ v[i] = u[i - Len(s)]
      /\ \A i \in DOMAIN s : i \in DOMAIN v /\ v[i] = s[i]
      /\ \A i \in DOMAIN u : Len(s) + i \in DOMAIN v /\ v[Len(s) + i] = u[i]
  BY <1>1, ConcatIs
<1>4. PICK m \in Nat : m = Len(s)
  BY <1>3
<1> HIDE DEF v
<1>5. ASSUME NEW k \in DOMAIN v, IsRow(v[k])
      PROVE  /\ v[k].do = "update" => Keeps(rows[v[k].job], v[k].row)
             /\ \A i \in 1..(k - 1) : IsRow(v[i]) /\ v[i].job = v[k].job => Keeps(v[i].row, v[k].row)
  <2>1. CASE k \in DOMAIN s /\ v[k] = s[k]
    <3>1. \A i \in 1..(k - 1) : v[i] = s[i]
      BY <1>3, <2>1
    <3> QED
      BY <1>1, <1>5, <2>1, <3>1 DEF Lasts
  <2>2. CASE k > Len(s) /\ k - Len(s) \in DOMAIN u /\ v[k] = u[k - Len(s)]
    <3>1. PICK n \in DOMAIN u : n = k - m /\ v[k] = u[n]
      BY <1>4, <2>2
    <3>2. k \in Nat /\ n \in Nat /\ k = n + m
      BY <1>3, <1>4, <3>1
    <3>3. ASSUME NEW i \in 1..(k - 1), IsRow(v[i]), v[i].job = v[k].job
          PROVE  Keeps(v[i].row, v[k].row)
      <4>0. i \in DOMAIN v
        BY <1>3, <1>4, <3>2
      <4>1. CASE i \in DOMAIN s /\ v[i] = s[i]
        BY <1>2, <1>5, <3>1, <3>3, <4>1 DEF Keeps
      <4>2. CASE i > Len(s) /\ i - Len(s) \in DOMAIN u /\ v[i] = u[i - Len(s)]
        <5>1. PICK l \in DOMAIN u : l = i - m /\ v[i] = u[l]
          BY <1>4, <4>2
        <5>2. l \in 1..(n - 1)
          BY <1>3, <3>2, <5>1
        <5> QED
          BY <1>1, <1>5, <3>1, <3>3, <5>1, <5>2 DEF Lasts
      <4> QED
        BY <1>3, <4>0, <4>1, <4>2
    <3> QED
      BY <1>1, <1>5, <3>1, <3>3 DEF Lasts
  <2> QED
    BY <1>3, <2>1, <2>2
<1>6. Lasts(v, rows)
  BY <1>5 DEF Lasts
<1>7. Earned(v)
  BY <1>1, <1>3 DEF Earned
<1> QED
  BY <1>6, <1>7 DEF v

\* What stops a run.
LEMMA GateFinalize ==
  ASSUME NEW g, NEW rows, NEW r \in Run, NEW rrow \in SchedRun, NEW snap \in Snaps
  PROVE  FinalizeWrites(r, rrow, snap) \in Seq(GateWrites(g, rows))
<1> DEFINE closed == [rrow EXCEPT !.status = "completed",
                        !.conclusion = Aggregate({snap[j].rest.conclusion : j \in DOMAIN snap})]
           W == GateWrites(g, rows)
<1>1. closed \in SchedRun
  BY ClosedRunType
<1>2. FinalizeWrites(r, rrow, snap) = IF Live(snap) # {} THEN <<>> ELSE UpdateRun(r, closed) \o ForgetPlan(r)
  BY DEF FinalizeWrites
<1> HIDE DEF closed
<1>3. UpdateRun(r, closed) \in Seq(W) /\ ForgetPlan(r) \in Seq(W)
  BY <1>1, GateRuns
<1> HIDE DEF W
<1>4. FinalizeWrites(r, rrow, snap) \in Seq(W)
  BY <1>2, <1>3
<1> QED
  BY <1>4 DEF W

LEMMA GateStop ==
  ASSUME TablesInv, SerialInv, NEW o, NEW r \in Run, NEW rrow \in SchedRun, NEW res \in AnyResult
  PROVE  /\ Lasts(StopRunWrites(r, rrow, SnapOf(o), res), jobs)
         /\ Earned(StopRunWrites(r, rrow, SnapOf(o), res))
<1> DEFINE snap == SnapOf(o)
           g == [k \in Job |-> Finished(jobs[k], res)]
           W == GateWrites(g, jobs)
           f == [j \in Live(snap) |-> Update(j, Finished(snap[j], res))]
<1>1. /\ snap \in Snaps /\ DOMAIN snap \in SUBSET Job /\ Live(snap) \in SUBSET Job
      /\ \A j \in DOMAIN snap : snap[j] = jobs[j] /\ snap[j] \in Kept(j) /\ snap[j] \in SchedRow
  BY SnapOfType, SnapIs DEF Live
<1>2. ASSUME NEW j \in Live(snap) PROVE f[j] \in Seq(W)
  <2>1. /\ j \in Job /\ Finished(jobs[j], res) \in Kept(j) /\ ~Completed(jobs[j])
        /\ ~Open(Finished(jobs[j], res)) /\ snap[j] = jobs[j]
    BY <1>1, FinishedKept, SaneFinished DEF Live, SerialInv, SerialTables
  <2>2. f[j] = Update(j, Finished(jobs[j], res)) /\ g[j] = Finished(jobs[j], res)
    BY <2>1
  <2> HIDE DEF f, g
  <2> QED
    BY <2>1, <2>2, GateUpdate DEF Writable, Keeps
<1>3. f \in [Live(snap) -> Seq(W)]
  BY <1>2
<1>4. PICK row \in SchedRun : row = [rrow EXCEPT !.cancel = res.cancel]
  BY DEF SchedRun, AnyResult
<1>5. StopRunWrites(r, rrow, snap, res) = ForEach(f) \o FinalizeWrites(r, row, Stopped(snap, res))
  BY <1>4 DEF StopRunWrites, StopWrites
<1> HIDE DEF f, g
<1>6. ForEach(f) \in Seq(W)
  <2> HIDE DEF W, snap
  <2> QED
    BY <1>1, <1>3, LoopRounds
<1>7. FinalizeWrites(r, row, Stopped(snap, res)) \in Seq(W)
  BY <1>1, StoppedSnap, GateFinalize
<1> HIDE DEF W
<1>8. StopRunWrites(r, rrow, snap, res) \in Seq(W)
  BY <1>5, <1>6, <1>7
<1> QED
  BY <1>8, WritesGate DEF W

-----------------------------------------------------------------------------
\* What each step keeps of the gate.

LEMMA GateTickLeave ==
  ASSUME OneAtATime, SchedInv, SerialInv, GateInv, NEW t \in Call, NEW r \in Run, TickLeave(t, r)
  PROVE  GateInv'
<1> DEFINE on == TickOn(calls[t], TickTracked(calls[t]) \ {r})
<1>1. UNCHANGED jobs /\ (Goes(t, on) \/ Returns(t))
  BY DEF TickLeave
<1>2. on.todo = <<>>
  BY TickOnFields
<1> HIDE DEF on
<1> QED
  BY <1>1, <1>2, LastsNone, GateDecides

LEMMA GateTickNothing ==
  ASSUME OneAtATime, SchedInv, SerialInv, GateInv, NEW t \in Call, TickNothing(t)
  PROVE  GateInv'
<1>1. UNCHANGED jobs /\ Returns(t) /\ Idle.todo = <<>>
  BY DEF TickNothing, Idle
<1> QED
  BY <1>1, LastsNone, GateDecides

LEMMA GateTickRunTimeout ==
  ASSUME OneAtATime, SchedInv, SerialInv, GateInv, NEW t \in Call, NEW r \in Run, TickRunTimeout(t, r)
  PROVE  GateInv'
<1> DEFINE todo == StopRunWrites(r, runs[r], SnapOf(r), Result("timed_out", "user", "timeout"))
           on == [TickOn(calls[t], TickTracked(calls[t]) \ {r}) EXCEPT !.todo = todo]
<1>1. UNCHANGED jobs /\ Goes(t, on)
  BY DEF TickRunTimeout
<1>2. Lasts(todo, jobs) /\ Earned(todo)
  BY CallFacts, ResultTypes, GateStop
<1> HIDE DEF todo
<1>3. on.todo = todo
  BY TickOnFields
<1> HIDE DEF on
<1> QED
  BY <1>1, <1>2, <1>3, GateDecides

LEMMA GateTickFinalize ==
  ASSUME OneAtATime, SchedInv, SerialInv, GateInv, NEW t \in Call, TickFinalize(t)
  PROVE  GateInv'
<1> DEFINE c == calls[t]
           todo == FinalizeWrites(c.run, c.rrow, c.snap)
           on == [TickOn(c, c.left) EXCEPT !.todo = todo]
<1>1. UNCHANGED jobs /\ Goes(t, on)
  BY DEF TickFinalize
<1>2. CallOK(c) /\ c.run \in Run /\ c.rrow \in SchedRun /\ c.snap \in Snaps
  BY CallFacts DEF TickFinalize, Admitting, CallOK
<1>3. todo \in Seq(GateWrites(jobs, jobs))
  BY <1>2, GateFinalize
<1> HIDE DEF todo
<1>4. on.todo = todo
  BY TickOnFields
<1> HIDE DEF on
<1> QED
  BY <1>1, <1>3, <1>4, WritesGate, GateDecides

LEMMA GateSupersede ==
  ASSUME OneAtATime, SchedInv, SerialInv, GateInv, NEW t \in Call, SupersedeNext(t)
  PROVE  GateInv'
<1> DEFINE c == calls[t]
           o == FirstOf(c.left)
           stop == Cancelled("superseded_by_newer_run")
           todo == IF o \notin plans \/ runs[o].status = "completed" THEN <<>>
                   ELSE StopRunWrites(o, runs[o], SnapOf(o), stop)
           on == [c EXCEPT !.left = c.left \ {o}, !.todo = todo]
<1>1. UNCHANGED jobs /\ Goes(t, on)
  BY DEF SupersedeNext
<1>2. c \in CallState /\ plans \in SUBSET Run
  BY CallFacts
<1>3. Lasts(todo, jobs) /\ Earned(todo)
  <2>1. CASE o \notin plans \/ runs[o].status = "completed"
    BY <2>1, LastsNone
  <2>2. CASE ~(o \notin plans \/ runs[o].status = "completed")
    <3>1. o \in Run /\ runs[o] \in SchedRun /\ stop \in AnyResult
      BY <1>2, <2>2, CallFacts, ResultTypes DEF CancelActors
    <3>2. todo = StopRunWrites(o, runs[o], SnapOf(o), stop)
      BY <2>2
    <3> HIDE DEF todo, stop, o
    <3> QED
      BY <3>1, <3>2, CallFacts, GateStop
  <2> QED
    BY <2>1, <2>2
<1> HIDE DEF todo
<1>4. on.todo = todo
  BY <1>2 DEF CallState
<1> HIDE DEF on
<1> QED
  BY <1>1, <1>3, <1>4, GateDecides

\* A call that has begun, and has nothing to write yet.
LEMMA GateBegins ==
  ASSUME OneAtATime, SchedInv, SerialInv, GateInv, NEW t \in Call
  PROVE  /\ \A r \in Run : StartRun(t, r) => GateInv'
         /\ \A r \in Runner, j \in Job :
              SetupDone(t, r, j) \/ (\E res \in Results[j] : Complete(t, r, j, res)) => GateInv'
<1>1. ASSUME NEW r \in Run, StartRun(t, r) PROVE GateInv'
  <2> DEFINE left == IF RunPlan[r].group # "" /\ RunPlan[r].cancelInProgress
                     THEN {o \in plans \ {r} : RunPlan[o].group = RunPlan[r].group} ELSE {}
             on == [Idle EXCEPT !.op = "start", !.at = "supersede", !.run = r, !.left = left]
  <2>1. UNCHANGED jobs /\ Goes(t, on)
    BY <1>1 DEF StartRun
  <2> HIDE DEF left
  <2>2. on.todo = <<>>
    BY DEF Idle
  <2> HIDE DEF on
  <2> QED
    BY <2>1, <2>2, LastsNone, GateDecides
<1>2. ASSUME NEW r \in Runner, NEW j \in Job, SetupDone(t, r, j) PROVE GateInv'
  <2> DEFINE on == [Idle EXCEPT !.op = "setup", !.at = "setup", !.job = j]
  <2>1. UNCHANGED jobs /\ Goes(t, on)
    BY <1>2 DEF SetupDone
  <2>2. on.todo = <<>>
    BY DEF Idle
  <2> HIDE DEF on
  <2> QED
    BY <2>1, <2>2, LastsNone, GateDecides
<1>3. ASSUME NEW r \in Runner, NEW j \in Job, NEW res, Complete(t, r, j, res) PROVE GateInv'
  <2> DEFINE on == [Idle EXCEPT !.op = "complete", !.at = "completed", !.job = j, !.res = res]
  <2>1. UNCHANGED jobs /\ Goes(t, on)
    BY <1>3 DEF Complete
  <2>2. on.todo = <<>>
    BY DEF Idle
  <2> HIDE DEF on
  <2> QED
    BY <2>1, <2>2, LastsNone, GateDecides
<1> QED
  BY <1>1, <1>2, <1>3

LEMMA GateStartJobs ==
  ASSUME OneAtATime, SchedInv, SerialInv, GateInv, NEW t \in Call, StartJobs(t)
  PROVE  GateInv'
<1> DEFINE c == calls[t]
           r == c.run
           js == JobsOf(r)
           f == [j \in js |-> Create(j, NewRow(j))]
           g == [j \in Job |-> NewRow(j)]
           W == GateWrites(g, jobs)
           row == [NoRun EXCEPT !.status = "in_progress", !.attempt = 1]
           todo == ForEach(f) \o RegisterPlan(r) \o UpdateRun(r, row)
           on == [c EXCEPT !.at = "return", !.todo = todo]
<1>1. UNCHANGED jobs /\ Goes(t, on)
  BY DEF StartJobs
<1>2. c \in CallState /\ r \in Run
  BY CallFacts DEF StartJobs, Deciding, CallOK
<1>3. row \in SchedRun
  BY DEF NoRun, SchedRun
<1>4. js \in SUBSET Job
  BY DEF JobsOf
<1>5. ASSUME NEW j \in js PROVE f[j] \in Seq(W)
  <2>1. f[j] = Create(j, NewRow(j)) /\ g[j] = NewRow(j) /\ j \in Job
    BY <1>4
  <2> HIDE DEF f, g
  <2> QED
    BY <2>1, NewRowKept, SaneNew, GateCreate
<1>6. f \in [js -> Seq(W)]
  BY <1>5
<1> HIDE DEF f, g, row
<1>7. RegisterPlan(r) \in Seq(W) /\ UpdateRun(r, row) \in Seq(W)
  BY <1>2, <1>3, GateRuns
<1>8. ForEach(f) \in Seq(W)
  <2> HIDE DEF W, js
  <2> QED
    BY <1>4, <1>6, LoopRounds
<1> HIDE DEF W
<1>9. todo \in Seq(W)
  BY <1>7, <1>8
<1> HIDE DEF todo
<1>10. on.todo = todo
  BY <1>2 DEF CallState
<1> HIDE DEF on
<1> QED
  BY <1>1, <1>9, <1>10, WritesGate, GateDecides DEF W

\* The write that is next reopens no job.
LEMMA WriteEnds ==
  ASSUME OneAtATime, SchedInv, SerialInv, GateInv, NEW t \in Call, WriteStep(t)
  PROVE  LET w == Head(calls[t].todo) IN
         /\ \A j \in Job : jobs'[j] = IF IsRow(w) /\ w.job = j THEN w.row ELSE jobs[j]
         /\ \A j \in Job : Keeps(jobs[j], jobs'[j])
<1> DEFINE c == calls[t]
           w == Head(c.todo)
<1>1. /\ SerialCall(c) /\ c.todo \in Seq(Write) /\ c.todo # <<>> /\ TablesInv /\ Lasts(c.todo, jobs)
  BY CallFacts DEF SerialInv, WriteStep, GateInv
<1>2. Stores(w)
  BY DEF WriteStep, Stores, IsRow
<1>3. PICK todo \in Seq(Write) : todo = c.todo
  BY <1>1
<1>4. w \in Write /\ w = todo[1] /\ 1 \in DOMAIN todo
  BY <1>1, <1>3, TailIs
<1> HIDE DEF c, w
<1>5. Lasts(todo, jobs) /\ Offered(todo, jobs)
  BY <1>1, <1>3 DEF SerialCall
<1>6. w.do = "offer" => Handed(jobs[w.job])
  <2>1. 1..(1 - 1) = {}
    OBVIOUS
  <2> QED
    BY <1>4, <1>5, <2>1 DEF Offered
<1>7. \A j \in Job : jobs'[j] = IF IsRow(w) /\ w.job = j THEN w.row ELSE jobs[j]
  <2>1. Writing(w, jobs, jobs')
    BY <1>1, <1>2, <1>4, <1>6, WriteWrites
  <2> QED
    BY <2>1 DEF Writing
<1>8. ASSUME NEW j \in Job PROVE Keeps(jobs[j], jobs'[j])
  <2>1. CASE IsRow(w) /\ w.job = j
    <3>1. w.do = "create" => ~Exists(j)
      BY <1>2, <2>1 DEF Stores, CreateJob, IsRow
    <3>2. w.do = "create" => ~Completed(jobs[j])
      BY <3>1 DEF Exists, Completed
    <3>3. w.do = "update" => Keeps(jobs[j], w.row)
      BY <1>4, <1>5, <2>1 DEF Lasts
    <3> QED
      BY <1>7, <2>1, <3>2, <3>3 DEF IsRow, Keeps
  <2>2. CASE ~(IsRow(w) /\ w.job = j)
    BY <1>7, <2>2, KeepsItself
  <2> QED
    BY <2>1, <2>2
<1> QED
  BY <1>7, <1>8 DEF w, c

\* One write less is left.
LEMMA GateWriteStep ==
  ASSUME OneAtATime, SchedInv, SerialInv, GateInv, NEW t \in Call, WriteStep(t)
  PROVE  GateInv'
<1> DEFINE c == calls[t]
           w == Head(c.todo)
           rest == Tail(c.todo)
           on == [c EXCEPT !.todo = rest]
<1>1. /\ c \in CallState /\ SerialCall(c) /\ c.todo \in Seq(Write) /\ c.todo # <<>> /\ TablesInv
      /\ Lasts(c.todo, jobs) /\ Earned(c.todo)
  BY CallFacts DEF SerialInv, WriteStep, GateInv
<1>2. Goes(t, on) \/ Returns(t)
  BY DEF WriteStep
<1>4. on.todo = rest
  BY <1>1 DEF CallState
<1> HIDE DEF on
<1>5. PICK todo \in Seq(Write) : todo = c.todo
  BY <1>1
<1>6. /\ w \in Write /\ w = todo[1] /\ 1 \in DOMAIN todo
      /\ \A i \in DOMAIN rest : i \in Nat \ {0} /\ i + 1 \in DOMAIN todo /\ rest[i] = todo[i + 1]
  BY <1>1, <1>5, TailIs
<1> HIDE DEF c, w, rest
<1>7. Lasts(todo, jobs) /\ Earned(todo)
  BY <1>1, <1>5
<1>9. \A j \in Job : jobs'[j] = IF IsRow(w) /\ w.job = j THEN w.row ELSE jobs[j]
  BY WriteEnds DEF w, c
<1>10. ASSUME NEW j \in Job PROVE Keeps(jobs[j], jobs'[j])
  BY WriteEnds
<1>11. ASSUME NEW j \in Job, Admitted(j)' PROVE NeedsMet(j)
  <2>1. CASE IsRow(w) /\ w.job = j
    <3>1. Open(w.row)
      BY <1>9, <1>11, <2>1 DEF Admitted, Open
    <3>2. Opens(w, j)
      BY <2>1, <3>1 DEF Opens, IsRow
    <3> QED
      BY <1>6, <1>7, <3>2 DEF Earned
  <2>2. CASE ~(IsRow(w) /\ w.job = j)
    BY <1>9, <1>11, <2>2 DEF Admitted, GateInv
  <2> QED
    BY <2>1, <2>2
<1>12. Earned(rest)
  BY <1>6, <1>7 DEF Earned
<1>13. Lasts(rest, jobs')
  <2> SUFFICES ASSUME NEW k \in DOMAIN rest, IsRow(rest[k])
               PROVE  /\ rest[k].do = "update" => Keeps(jobs'[rest[k].job], rest[k].row)
                      /\ \A i \in 1..(k - 1) : IsRow(rest[i]) /\ rest[i].job = rest[k].job
                                                 => Keeps(rest[i].row, rest[k].row)
    BY DEF Lasts
  <2>1. PICK n \in DOMAIN todo : n = k + 1 /\ rest[k] = todo[n] /\ k \in Nat \ {0}
    BY <1>6
  <2>2. todo[n].job \in Job
    BY <2>1 DEF Write, RowWrites, QueueWrites, RunWrites, IsRow
  <2>3. rest[k].do = "update" => Keeps(jobs'[rest[k].job], rest[k].row)
    <3>1. 1 \in 1..(n - 1)
      BY <2>1
    <3> QED
      BY <1>6, <1>7, <1>9, <2>1, <2>2, <3>1 DEF Lasts
  <2>4. ASSUME NEW i \in 1..(k - 1), IsRow(rest[i]), rest[i].job = rest[k].job
        PROVE  Keeps(rest[i].row, rest[k].row)
    <3>1. i \in DOMAIN rest
      <4>1. DOMAIN rest = 1..Len(rest) /\ Len(rest) \in Nat
        BY <1>1, TailIs DEF rest
      <4> QED
        BY <2>1, <4>1
    <3>2. rest[i] = todo[i + 1] /\ i + 1 \in 1..(n - 1)
      BY <1>6, <2>1, <3>1
    <3> QED
      BY <1>7, <2>1, <2>4, <3>2 DEF Lasts
  <2> QED
    BY <2>3, <2>4
<1> QED
  BY <1>2, <1>4, <1>10, <1>11, <1>12, <1>13, GateGoes

\* A write to the row of a job that is with the queue.
LEMMA GateRow ==
  ASSUME SchedInv, GateInv, NEW j \in Job, Admitted(j), NEW row, jobs' = [jobs EXCEPT ![j] = row]
  PROVE  /\ \A k \in Job : jobs'[k] = jobs[k] \/ (~Completed(jobs[k]) /\ NeedsMet(k))
         /\ \A k \in Job : Keeps(jobs[k], jobs'[k])
         /\ \A k \in Job : Admitted(k)' => NeedsMet(k)
<1>1. jobs = [k \in Job |-> jobs[k]]
  BY RowsOfJob DEF SchedInv
<1>2. \A k \in Job : k # j => jobs'[k] = jobs[k]
  BY <1>1
<1>3. ~Completed(jobs[j]) /\ NeedsMet(j)
  BY DEF Admitted, Completed, GateInv
<1>4. \A k \in Job : Admitted(k)' => NeedsMet(k)
  BY <1>2, <1>3 DEF Admitted, GateInv
<1> QED
  BY <1>2, <1>3, <1>4 DEF Keeps

LEMMA GateOne ==
  ASSUME OneAtATime, SchedInv, GateInv, NEW j \in Job, Admitted(j), NEW row,
         jobs' = [jobs EXCEPT ![j] = row], NEW t \in Call, NEW c, c.todo = <<>>,
         Goes(t, c) \/ Returns(t)
  PROVE  GateInv'
<1>1. /\ \A k \in Job : Keeps(jobs[k], jobs'[k])
      /\ \A k \in Job : Admitted(k)' => NeedsMet(k)
  BY GateRow
<1>2. Lasts(c.todo, jobs') /\ Earned(c.todo)
  <2>1. Lasts(<<>>, jobs') /\ Earned(<<>>)
    BY LastsNone
  <2> QED
    BY <2>1
<1> QED
  BY <1>1, <1>2, GateGoes

\* One that changes no row, and returns.
LEMMA GateReturns ==
  ASSUME OneAtATime, SchedInv, GateInv, UNCHANGED jobs, NEW t \in Call, Returns(t)
  PROVE  GateInv'
<1>1. Idle.todo = <<>>
  BY DEF Idle
<1> QED
  BY <1>1, LastsNone, GateDecides

LEMMA GateWithdraw ==
  ASSUME OneAtATime, SchedInv, SerialInv, GateInv, NEW t \in Call, Withdraw(t)
  PROVE  GateInv'
<1> DEFINE j == calls[t].job
<1>1. Returns(t) /\ j \in Job /\ Idle.todo = <<>>
  BY CallFacts DEF Withdraw, Deciding, CallOK, Idle
<1>2. CASE LeasedBy(calls[t].runner, j)
  <2>1. jobs' = [jobs EXCEPT ![j] = BackToQueue(jobs[j])]
    BY <1>2 DEF Withdraw, ReleaseLease
  <2>2. Admitted(j)
    BY <1>1, <1>2 DEF LeasedBy, Leased, InQueue, SerialInv, SerialTables
  <2> HIDE DEF j
  <2> QED
    BY <1>1, <2>1, <2>2, GateOne
<1>3. CASE ~LeasedBy(calls[t].runner, j)
  <2>1. UNCHANGED jobs
    BY <1>3 DEF Withdraw
  <2> QED
    BY <1>1, <2>1, GateReturns
<1> QED
  BY <1>2, <1>3

LEMMA GateDispatch ==
  ASSUME OneAtATime, SchedInv, SerialInv, GateInv, NEW t \in Call, Dispatch(t)
  PROVE  GateInv'
<1> DEFINE c == calls[t]
           j == c.job
           row == [c.row EXCEPT !.status = "in_progress", !.runner = c.runner]
<1>1. Returns(t) /\ j \in Job /\ Admitted(j) /\ Idle.todo = <<>>
  BY CallFacts DEF Dispatch, Deciding, CallOK, SerialInv, SerialCall, Idle
<1>2. CASE Plan[j].run \in plans
  <2>1. jobs' = [jobs EXCEPT ![j] = row]
    BY <1>2 DEF Dispatch, UpdateJob
  <2> HIDE DEF row, j, c
  <2> QED
    BY <1>1, <2>1, GateOne
<1>3. CASE Plan[j].run \notin plans
  <2>1. UNCHANGED jobs
    BY <1>3 DEF Dispatch
  <2> QED
    BY <1>1, <2>1, GateReturns
<1> QED
  BY <1>2, <1>3

LEMMA GateAcquire ==
  ASSUME OneAtATime, SchedInv, SerialInv, GateInv, NEW t \in Call, NEW r \in Runner, Acquire(t, r)
  PROVE  GateInv'
<1>1. PICK j \in Eligible(r) :
        /\ Dequeue(r, j)
        /\ LET row == RunningOn(r, jobs[j]) IN
           Goes(t, [Idle EXCEPT !.op = "acquire", !.job = j, !.runner = r, !.row = row,
                    !.at = IF Completed(row) \/ row.rest.conclusion # "" THEN "withdraw" ELSE "dispatch"])
  BY DEF Acquire
<1>2. PICK row, at : Goes(t, [Idle EXCEPT !.op = "acquire", !.job = j, !.runner = r,
                                          !.row = row, !.at = at])
  BY <1>1
<1>3. j \in Job /\ Admitted(j) /\ jobs' = [jobs EXCEPT ![j] = RunningOn(r, jobs[j])]
  <2>1. j \in Job /\ InQueue(j)
    BY DEF Eligible, InQueue
  <2> QED
    BY <1>1, <2>1 DEF Dequeue, SerialInv, SerialTables
<1>4. PICK c : c = [Idle EXCEPT !.op = "acquire", !.job = j, !.runner = r, !.row = row, !.at = at]
  OBVIOUS
<1>5. c.todo = <<>>
  BY <1>4 DEF Idle
<1> QED
  BY <1>2, <1>3, <1>4, <1>5, GateOne

\* What a runner asks for while no call is under way.
LEMMA GateRelease ==
  ASSUME OneAtATime, SchedInv, SerialInv, GateInv, NEW r \in Runner, NEW j \in Job, ReleaseJob(r, j)
  PROVE  GateInv'
<1>1. /\ jobs' = [jobs EXCEPT ![j] = BackToQueue(jobs[j])] /\ LeasedBy(r, j)
      /\ calls' = calls /\ \E t \in Call : calls[t] = Idle
  BY DEF ReleaseJob, ReleaseLease, OneStepCall
<1>2. Admitted(j)
  BY <1>1 DEF LeasedBy, Leased, InQueue, SerialInv, SerialTables
<1>3. \A t \in Call : calls[t] = Idle
  BY <1>1 DEF OneAtATime
<1>4. \A t \in Call : calls'[t] = Idle
  BY <1>1, <1>3
<1>5. \A k \in Job : jobs'[k] = jobs[k] \/ (~Completed(jobs[k]) /\ NeedsMet(k))
  BY <1>1, <1>2, GateRow
<1> QED
  BY <1>3, <1>4, <1>5, GateStays

\* A step that leaves the jobs table alone, and the calls, or drops them.
LEMMA GateApart ==
  ASSUME GateInv, UNCHANGED jobs, calls' = calls \/ \A t \in Call : calls'[t] = Idle
  PROVE  GateInv'
  BY GateStays

LEMMA GateFlags ==
  ASSUME GateInv, NEW r, NEW j \in Job, Beat(r, j) \/ Lost(j) \/ BackoffOver(j) \/ Restart
  PROVE  GateInv'
<1>1. UNCHANGED jobs /\ (calls' = calls \/ \A t \in Call : calls'[t] = Idle)
  BY DEF Beat, Lost, BackoffOver, OneStepCall, Heartbeat, LeaseRunsOut, BackoffRunsOut, Restart
<1> QED
  BY <1>1, GateApart

\* What a report of a runner's leads to.
LEMMA GateSetupCompleted ==
  ASSUME OneAtATime, SchedInv, SerialInv, GateInv, NEW t \in Call, JobSetupCompleted(t)
  PROVE  GateInv'
<1> DEFINE c == calls[t]
           j == c.job
           row == [jobs[j] EXCEPT !.setup = TRUE]
           todo == Update(j, row)
           on == [c EXCEPT !.at = "return", !.todo = todo]
           g == [k \in Job |-> row]
<1>1. UNCHANGED jobs /\ (Goes(t, on) \/ Returns(t))
  BY DEF JobSetupCompleted
<1>2. c \in CallState /\ j \in Job /\ Exists(j)
  BY CallFacts DEF JobSetupCompleted, Deciding, CallOK, SchedInv, CallsInv
<1>3. jobs[j] \in Kept(j) /\ jobs[j] \in SchedRow
  BY <1>2, CallFacts, RowsOfJob
<1>4. /\ row \in Kept(j) /\ row.status = jobs[j].status /\ row.rest = jobs[j].rest
      /\ row.queued = jobs[j].queued /\ g[j] = row
  BY <1>2, <1>3, RowChanges DEF SchedRow
<1> HIDE DEF row, g
<1>5. Writable(j, jobs[j], row)
  <2>1. Open(row) => Admitted(j)
    BY <1>4 DEF Open, Admitted
  <2> QED
    BY <1>2, <1>4, <2>1 DEF Writable, Keeps, Completed, GateInv
<1> HIDE DEF j
<1>6. todo \in Seq(GateWrites(g, jobs))
  BY <1>2, <1>4, <1>5, GateUpdate
<1> HIDE DEF todo
<1>7. on.todo = todo
  BY <1>2 DEF CallState
<1> HIDE DEF on
<1> QED
  BY <1>1, <1>6, <1>7, WritesGate, GateDecides

LEMMA GateJobCompleted ==
  ASSUME OneAtATime, SchedInv, SerialInv, GateInv, NEW t \in Call, JobCompleted(t)
  PROVE  GateInv'
<1> DEFINE c == calls[t]
           j == c.job
           end == FinishedRow(j, jobs[j], c.res, TRUE)
           todo == FinishWrites(j, jobs[j], c.res, TRUE)
           on == [c EXCEPT !.at = "return", !.todo = todo]
           g == [k \in Job |-> end]
<1>1. UNCHANGED jobs /\ (Goes(t, on) \/ Returns(t))
  BY DEF JobCompleted
<1>2. c \in CallState /\ j \in Job /\ Exists(j) /\ SerialCall(c) /\ c.at = "completed" /\ c.res \in AnyResult
  BY CallFacts DEF JobCompleted, Deciding, CallOK, SchedInv, CallsInv, SerialInv
<1>3. jobs[j] \in Kept(j)
  BY <1>2, CallFacts, RowsOfJob
<1>4. ~Completed(jobs[j]) /\ NeedsMet(j)
  BY <1>2 DEF SerialCall, Admitted, Completed, GateInv
<1>5. g[j] = end
  BY <1>2
<1> HIDE DEF g
<1>6. todo \in Seq(GateWrites(g, jobs))
  <2>1. g[j] = FinishedRow(j, jobs[j], c.res, TRUE)
    BY <1>5
  <2> HIDE DEF c, j, end
  <2> QED
    BY <1>2, <1>3, <1>4, <2>1, GateFinish
<1> HIDE DEF todo, end, j
<1>7. on.todo = todo
  BY <1>2 DEF CallState
<1> HIDE DEF on
<1> QED
  BY <1>1, <1>6, <1>7, WritesGate, GateDecides

LEMMA GateTickStart ==
  ASSUME OneAtATime, SchedInv, SerialInv, GateInv, NEW t \in Call, TickStart(t)
  PROVE  GateInv'
<1> DEFINE js == ExpiredLeases
           Back(j) == BackToQueue(jobs[j])
           Row(j) == NextAttempt(Back(j))
           f == [j \in js |-> Update(j, Row(j)) \o Offer(j)]
           g == [j \in js |-> Row(j)]
<1>1. /\ ReapExpiredLeases
      /\ Goes(t, [Idle EXCEPT !.op = "tick", !.at = "track", !.todo = ForEach(f)])
  BY DEF TickStart
<1>2. jobs' = [j \in Job |-> IF j \in js THEN Back(j) ELSE jobs[j]]
  BY <1>1 DEF ReapExpiredLeases
<1>3. ASSUME NEW j \in js
      PROVE  j \in Job /\ Admitted(j) /\ NeedsMet(j) /\ jobs[j] \in Kept(j)
  <2>1. j \in Job /\ InQueue(j)
    BY DEF ExpiredLeases, Leased, InQueue
  <2>2. Admitted(j)
    BY <2>1 DEF SerialInv, SerialTables
  <2> QED
    BY <2>1, <2>2, RowsOfJob DEF SchedInv, InQueue, GateInv
<1> HIDE DEF js
<1>4. ASSUME NEW j \in js PROVE Back(j).status = "queued" /\ Back(j) \in Kept(j) /\ Row(j) \in Kept(j)
  <2>1. Back(j).status = "queued" /\ Back(j) \in Kept(j)
    BY <1>3, RowChanges
  <2> HIDE DEF Back
  <2> QED
    BY <1>3, <2>1, NextAttemptKept
<1> HIDE DEF Row
<1>5. PICK rows : rows = jobs'
  OBVIOUS
<1>6. \A j \in Job : rows[j] = IF j \in js THEN Back(j) ELSE jobs[j]
  BY <1>2, <1>5
<1> DEFINE W == GateWrites(g, rows)
<1>7. ASSUME NEW j \in js PROVE f[j] \in Seq(W)
  <2>1. f[j] = Update(j, Row(j)) \o Offer(j) /\ g[j] = Row(j)
    OBVIOUS
  <2>2. ~Completed(rows[j])
    BY <1>3, <1>4, <1>6 DEF Completed
  <2> HIDE DEF f, g
  <2>3. Update(j, Row(j)) \in Seq(W)
    BY <1>3, <1>4, <2>1, <2>2, GateUpdate DEF Writable, Keeps
  <2>4. Offer(j) \in Seq(W)
    BY <1>3, GateOffers
  <2> HIDE DEF W
  <2> QED
    BY <2>1, <2>3, <2>4
<1>8. js \in SUBSET Job /\ f \in [js -> Seq(W)]
  BY <1>3, <1>7
<1> HIDE DEF f, g
<1>9. PICK todo \in Seq(W) : todo = ForEach(f)
  <2> HIDE DEF W
  <2> QED
    BY <1>8, LoopRounds
<1>10. Lasts(todo, jobs') /\ Earned(todo)
  BY <1>5, WritesGate
<1>11. PICK c : c = [Idle EXCEPT !.op = "tick", !.at = "track", !.todo = todo]
  OBVIOUS
<1>12. c.todo = todo
  BY <1>11 DEF Idle
<1> HIDE DEF W
<1>13. ASSUME NEW j \in Job
       PROVE  Keeps(jobs[j], jobs'[j]) /\ (Admitted(j)' => NeedsMet(j))
  <2>1. CASE j \in js
    BY <1>3, <2>1 DEF Keeps, Completed, Admitted
  <2>2. CASE j \notin js
    <3>1. jobs'[j] = jobs[j]
      BY <1>2, <2>2
    <3> QED
      BY <3>1, KeepsItself DEF Admitted, GateInv
  <2> QED
    BY <2>1, <2>2
<1> QED
  BY <1>1, <1>9, <1>10, <1>11, <1>12, <1>13, GateGoes

LEMMA GateTickRun ==
  ASSUME OneAtATime, SchedInv, SerialInv, GateInv, NEW t \in Call, NEW r \in Run, TickRun(t, r)
  PROVE  GateInv'
<1> DEFINE snap == SnapOf(r)
           stop == Cancelled("dependency_failed")
<1>1. UNCHANGED jobs
  BY DEF TickRun
<1>2. PICK setupLate \in SUBSET UnderWay(r), late \in SUBSET UnderWay(r) :
        Drives(t, r, setupLate, late)
  BY TickRunDrives
<1>a. /\ setupLate \in SUBSET DOMAIN snap /\ late \in SUBSET DOMAIN snap
      /\ \A j \in setupLate \cup late : snap[j].status = "in_progress"
  BY <1>2 DEF UnderWay
<1> DEFINE over == setupLate \cup late
           ending(j) == IF j \in setupLate THEN Result("infra_failure", "infra", "timeout")
                                           ELSE Result("timed_out", "user", "timeout")
           timed == [j \in DOMAIN snap |->
                       IF j \in setupLate \cup late
                       THEN FinishedRow(j, snap[j], ending(j), j \in setupLate)
                       ELSE snap[j]]
           failed == FailFastLegs(timed)
           left == [j \in DOMAIN snap |-> IF j \in failed THEN Finished(timed[j], stop) ELSE timed[j]]
           e == [j \in setupLate \cup late |->
                   FinishWrites(j, snap[j], ending(j), j \in setupLate)]
           s == [j \in failed |-> Update(j, Finished(timed[j], stop))]
           todo == ForEach(e) \o ForEach(s)
           idle == TickOn(calls[t], TickTracked(calls[t]) \ {r})
           on == [idle EXCEPT !.at = "gate", !.run = r, !.rrow = runs[r], !.snap = left,
                              !.todo = todo]
<1>3. Goes(t, on)
  BY <1>2 DEF Drives
<1>4. on.todo = todo
  BY DEF TickOn, Idle
<1>5. /\ snap \in Snaps /\ DOMAIN snap \in SUBSET Job
      /\ \A j \in DOMAIN snap : snap[j] = jobs[j] /\ snap[j] \in Kept(j)
  BY CallFacts, SnapOfType, SnapIs
<1>6. timed \in Snaps /\ DOMAIN timed = DOMAIN snap
  <2> HIDE DEF snap
  <2> QED
    BY <1>5, <1>a, TimedOut
<1>7. failed \in SUBSET DOMAIN timed /\ \A j \in failed : ~Completed(timed[j])
  <2> HIDE DEF timed
  <2> QED
    BY DEF FailFastLegs, Live
<1>8. \A j \in DOMAIN snap : j \notin over => timed[j] = snap[j]
  OBVIOUS
<1>c. \A j : ending(j) \in AnyResult
  BY ResultTypes
<1>9. ASSUME NEW j \in over
      PROVE  /\ ~Completed(jobs[j]) /\ NeedsMet(j) /\ j \in Job /\ j \in DOMAIN snap
             /\ \E res \in AnyResult, allow \in BOOLEAN :
                  /\ timed[j] = FinishedRow(j, snap[j], res, allow)
                  /\ e[j] = FinishWrites(j, snap[j], res, allow)
  <2>1. ending(j) \in AnyResult /\ (j \in setupLate) \in BOOLEAN
    <3>1. (j \in setupLate) \in BOOLEAN
      OBVIOUS
    <3> QED
      BY <1>c, <3>1
  <2>2. j \in DOMAIN snap /\ j \in Job /\ jobs[j].status = "in_progress"
    BY <1>5, <1>a
  <2>3. /\ timed[j] = FinishedRow(j, snap[j], ending(j), j \in setupLate)
        /\ e[j] = FinishWrites(j, snap[j], ending(j), j \in setupLate)
    BY <2>2
  <2> HIDE DEF timed, e, snap, ending
  <2>4. Admitted(j) /\ ~Completed(jobs[j])
    BY <2>2 DEF Admitted, Completed
  <2> QED
    BY <2>1, <2>2, <2>3, <2>4 DEF GateInv
<1>10. stop \in AnyResult
  BY ResultTypes DEF CancelActors
<1>11. \A j \in failed : left[j] = Finished(timed[j], stop) /\ s[j] = Update(j, left[j])
  BY <1>6, <1>7
<1>b. s = [j \in failed |-> s[j]] /\ e = [j \in over |-> e[j]]
  OBVIOUS
<1> HIDE DEF snap, stop, timed, e, left, failed, s, on
<1>12. ForEach(e) \in Seq(GateWrites(timed, jobs))
  <2> DEFINE W == GateWrites(timed, jobs)
  <2>1. ASSUME NEW j \in over PROVE e[j] \in Seq(W)
    <3>1. PICK res \in AnyResult, allow \in BOOLEAN :
            /\ timed[j] = FinishedRow(j, snap[j], res, allow)
            /\ e[j] = FinishWrites(j, snap[j], res, allow)
      BY <1>9
    <3>2. ~Completed(jobs[j]) /\ NeedsMet(j) /\ j \in Job /\ snap[j] \in Kept(j)
      BY <1>5, <1>9
    <3> QED
      BY <3>1, <3>2, GateFinish
  <2>2. over \in SUBSET Job /\ e \in [over -> Seq(W)]
    BY <1>9, <1>b, <2>1
  <2> HIDE DEF W, over
  <2>3. ForEach(e) \in Seq(W)
    BY <2>2, LoopRounds
  <2> QED
    BY <2>3 DEF W
<1>13. ASSUME NEW j \in failed
       PROVE  /\ j \in Job /\ left[j] \in Kept(j) /\ s[j] = Update(j, left[j])
              /\ s[j] \in Seq(GateWrites(left, jobs)) /\ s[j] \in Seq(Write)
  <2>1. j \in Job /\ timed[j] \in Kept(j) /\ j \in DOMAIN snap /\ ~Completed(timed[j])
    BY <1>5, <1>6, <1>7, SnapIs
  <2>2. ~Completed(jobs[j])
    BY <1>5, <1>8, <1>9, <2>1
  <2>3. left[j] \in Kept(j) /\ left[j].status = "completed"
    BY <1>10, <1>11, <2>1, FinishedKept
  <2>4. Writable(j, jobs[j], left[j])
    BY <2>2, <2>3 DEF Writable, Keeps, Open
  <2>5. s[j] = Update(j, left[j])
    BY <1>11
  <2> QED
    BY <2>1, <2>3, <2>4, <2>5, GateUpdate, RowWrite
<1>14. ForEach(s) \in Seq(GateWrites(left, jobs))
  <2> DEFINE W == GateWrites(left, jobs)
  <2>1. failed \in SUBSET Job /\ s \in [failed -> Seq(W)]
    BY <1>13, <1>b
  <2> HIDE DEF W
  <2>2. ForEach(s) \in Seq(W)
    BY <2>1, LoopRounds
  <2> QED
    BY <2>2 DEF W
<1>15. \A k \in DOMAIN ForEach(s) : IsRow(ForEach(s)[k]) => ~Completed(timed[ForEach(s)[k].job])
  <2>1. failed \in SUBSET Job /\ s \in [failed -> Seq(Write)] /\ \A j \in failed : s[j] = Update(j, left[j])
    BY <1>13, <1>b
  <2>2. UpdatesOf(ForEach(s), failed, left)
    BY <2>1, UpdatesLoop
  <2> QED
    BY <1>7, <2>2 DEF UpdatesOf
<1>16. Lasts(todo, jobs) /\ Earned(todo)
  BY <1>12, <1>14, <1>15, GateThen
<1> HIDE DEF todo
<1> QED
  BY <1>1, <1>3, <1>4, <1>16, GateDecides

\* A job whose needs are ready in a copy that agrees with the rows has them met.
LEMMA GateReady ==
  ASSUME NEW snap, NEW r, NEW j \in Job, NEW b \in BOOLEAN, j \in DOMAIN snap,
         DOMAIN snap = JobsOf(r), \A k \in DOMAIN snap : Agrees(jobs[k], snap[k]),
         NeedsReady(snap, j), ShouldRun(snap, j, b)
  PROVE  NeedsMet(j)
<1>1. Plan[j].run = r
  BY DEF JobsOf
<1>2. ASSUME NEW k \in Job, Plan[k].run = r, Plan[k].key \in Plan[j].needs
      PROVE  /\ jobs[k].status = "completed" /\ k \in DOMAIN snap
             /\ jobs[k].rest.conclusion = snap[k].rest.conclusion
  <2>1. k \in DOMAIN snap
    BY <1>2 DEF JobsOf
  <2>2. Completed(snap[k])
    BY <1>2, <2>1 DEF NeedsReady, Legs
  <2> QED
    BY <2>1, <2>2 DEF Agrees, Completed
<1> DEFINE u == SnapOf(r)
<1>3. ASSUME NEW key \in Plan[j].needs
      PROVE  /\ Legs(snap, key) = Legs(u, key)
             /\ \A l \in Legs(snap, key) : snap[l].rest.conclusion = u[l].rest.conclusion
  <2>1. /\ Legs(u, key) = {k \in Job : Plan[k].run = r /\ Plan[k].key = key}
        /\ \A k \in Legs(u, key) : u[k] = jobs[k]
    BY <1>2, LegsOfRun
  <2>2. Legs(snap, key) = {k \in Job : Plan[k].run = r /\ Plan[k].key = key}
    BY DEF Legs, JobsOf
  <2> HIDE DEF u
  <2> QED
    BY <1>2, <2>1, <2>2
<1> HIDE DEF u
<1>4. ShouldRun(u, j, b)
  BY <1>3, SameGate
<1>5. ShouldRun(u, j, FALSE)
  BY <1>4, CancelledGate
<1> QED
  BY <1>1, <1>2, <1>5 DEF NeedsMet, u

LEMMA GateTickAdmit ==
  ASSUME OneAtATime, SchedInv, SerialInv, GateInv, NEW t \in Call, TickAdmit(t)
  PROVE  GateInv'
<1> DEFINE c == calls[t]
           j == FirstOf(Candidates(c))
           row == c.snap[j]
           grouped == Plan[j].group # ""
           holders == IF grouped THEN GroupHolders(j) ELSE {}
           skipped == ~ShouldRun(c.snap, j, c.rrow.cancel # "")
           held == grouped /\ \/ Plan[j].group \in c.taken
                              \/ holders # {} /\ ~Plan[j].cancelInProgress
           new == IF skipped THEN Finished(row, Result("skipped", "", ""))
                  ELSE IF held THEN [row EXCEPT !.status = "waiting"]
                  ELSE [row EXCEPT !.status = "queued", !.queued = TRUE]
           stop == Cancelled("concurrency_group")
           g == [k \in Job |-> IF k = j THEN new ELSE Finished(jobs[k], stop)]
           W == GateWrites(g, jobs)
           f == [k \in holders |-> Update(k, Finished(jobs[k], stop))]
           writes == IF skipped THEN Update(j, new)
                     ELSE IF held THEN IF row.status = "waiting" THEN <<>> ELSE Update(j, new)
                     ELSE ForEach(f) \o Update(j, new) \o Offer(j)
           taken == IF grouped /\ ~skipped /\ ~held THEN c.taken \cup {Plan[j].group} ELSE c.taken
           snap == [c.snap EXCEPT ![j] = new]
           on == [c EXCEPT !.at = "admit", !.last = j, !.snap = snap, !.todo = writes,
                           !.taken = taken]
<1>1. /\ c \in CallState /\ c.snap \in Snaps /\ c.at \in {"gate", "admit"}
      /\ c.todo = <<>> /\ SerialCall(c) /\ TablesInv
  BY CallFacts DEF TickAdmit, Admitting, SerialInv
<1>2. /\ DOMAIN c.snap = JobsOf(c.run) /\ DOMAIN c.snap \subseteq Job
      /\ \A k \in DOMAIN c.snap : Sane(c.snap[k]) /\ Agrees(jobs[k], c.snap[k])
      /\ \A k \in DOMAIN c.snap : c.snap[k] \in Kept(k) /\ c.snap[k] \in SchedRow
  <2>1. DOMAIN c.snap = JobsOf(c.run) /\ Catches(c.todo, c.snap, jobs)
        /\ \A k \in DOMAIN c.snap : Sane(c.snap[k])
    BY <1>1 DEF SerialCall
  <2>2. PICK none : none = c.todo /\ DOMAIN none = {}
    BY <1>1
  <2>3. \A k \in DOMAIN c.snap : Agrees(jobs[k], c.snap[k])
    BY <2>1, <2>2 DEF Catches
  <2> QED
    BY <1>1, <2>1, <2>3, SnapIs
<1>3. j \in Candidates(c)
  <2>1. Candidates(c) \subseteq Nat /\ Candidates(c) # {}
    BY <1>2, SchedulerAssumption DEF Candidates, TickAdmit
  <2> QED
    BY <2>1, FirstOfIn
<1>4. Goes(t, on)
  <2>1. Goes(t, [c EXCEPT !.at = "admit", !.last = j, !.snap[j] = new, !.todo = writes,
                    !.taken = IF grouped /\ ~skipped /\ ~held THEN @ \cup {Plan[j].group} ELSE @])
    BY DEF TickAdmit
  <2> HIDE DEF j, grouped, skipped, held, new, writes
  <2>2. [c EXCEPT !.at = "admit", !.last = j, !.snap[j] = new, !.todo = writes,
            !.taken = IF grouped /\ ~skipped /\ ~held THEN @ \cup {Plan[j].group} ELSE @] = on
    BY <1>1 DEF CallState
  <2> QED
    BY <2>1, <2>2
<1>5. UNCHANGED jobs
  BY DEF TickAdmit
<1> HIDE DEF j
<1>6. /\ j \in DOMAIN c.snap /\ j \in Job /\ Pending(row) /\ NeedsReady(c.snap, j)
  BY <1>2, <1>3 DEF Candidates
<1>7. ~skipped => NeedsMet(j)
  <2>1. ASSUME ~skipped PROVE NeedsMet(j)
    <3>1. PICK b \in BOOLEAN : ShouldRun(c.snap, j, b)
      BY <2>1
    <3> QED
      BY <1>2, <1>6, <3>1, GateReady
  <2> QED
    BY <2>1
<1> HIDE DEF skipped
<1>8. /\ row \in Kept(j) /\ row \in SchedRow /\ Sane(row) /\ Agrees(jobs[j], row)
      /\ ~row.queued /\ ~row.rest.awaiting /\ ~Completed(row)
  BY <1>2, <1>6 DEF Pending
<1>9. ~Completed(jobs[j])
  BY <1>8 DEF Agrees, Completed
<1>10. /\ holders \in SUBSET Job /\ j \notin holders
       /\ \A k \in holders : ~Completed(jobs[k]) /\ jobs[k] \in Kept(k)
  <2>1. \A k \in GroupHolders(j) : k \in Job /\ k # j /\ ~Completed(jobs[k]) /\ Exists(k)
    BY DEF GroupHolders, Completed, Exists
  <2> QED
    BY <1>1, <2>1, RowsOfJob
<1> HIDE DEF held, row, holders
<1>11. /\ new \in Kept(j) /\ (skipped \/ held => ~Open(new))
       /\ g[j] = new
       /\ \A k \in holders : g[k] = Finished(jobs[k], stop) /\ f[k] = Update(k, Finished(jobs[k], stop))
  <2>1. CASE skipped
    <3>1. new = Finished(row, Result("skipped", "", ""))
      BY <2>1
    <3> HIDE DEF new
    <3>2. new \in Kept(j) /\ ~Open(new)
      BY <1>6, <1>8, <3>1, ResultTypes, FinishedKept, SaneFinished
    <3> QED
      BY <1>6, <1>10, <3>2
  <2>2. CASE ~skipped /\ held
    <3>1. new = [row EXCEPT !.status = "waiting"]
      BY <2>2
    <3> HIDE DEF new
    <3>2. new \in Kept(j) /\ ~Open(new)
      BY <1>6, <1>8, <3>1, RowChanges, SaneRow
    <3> QED
      BY <1>6, <1>10, <3>2
  <2>3. CASE ~skipped /\ ~held
    <3>1. new = [row EXCEPT !.status = "queued", !.queued = TRUE]
      BY <2>3
    <3> HIDE DEF new
    <3>2. new \in Kept(j)
      BY <1>6, <1>8, <3>1, RowChanges
    <3> QED
      BY <1>6, <1>10, <2>3, <3>2
  <2> QED
    BY <2>1, <2>2, <2>3
<1>a. f = [k \in holders |-> f[k]] /\ stop \in AnyResult
  BY ResultTypes DEF CancelActors
<1> HIDE DEF new, g, f, stop
<1>12. Update(j, new) \in Seq(W)
  <2>1. Writable(j, jobs[j], new)
    BY <1>7, <1>9, <1>11 DEF Writable, Keeps
  <2> QED
    BY <1>6, <1>11, <2>1, GateUpdate
<1>13. ASSUME NEW k \in holders PROVE f[k] \in Seq(W)
  <2>1. /\ Finished(jobs[k], stop) \in Kept(k) /\ Finished(jobs[k], stop).status = "completed"
        /\ k \in Job /\ ~Completed(jobs[k])
    BY <1>10, <1>a, FinishedKept
  <2>2. Writable(k, jobs[k], Finished(jobs[k], stop))
    BY <2>1 DEF Writable, Keeps, Open
  <2> QED
    BY <1>11, <2>1, <2>2, GateUpdate
<1>14. ForEach(f) \in Seq(W)
  <2>1. holders \in SUBSET Job /\ f \in [holders -> Seq(W)]
    BY <1>10, <1>13, <1>a
  <2> HIDE DEF W
  <2> QED
    BY <2>1, LoopRounds
<1>15. ~skipped => Offer(j) \in Seq(W)
  BY <1>6, <1>7, GateOffers
<1> HIDE DEF W
<1>16. writes \in Seq(W)
  <2>1. CASE skipped \/ (held /\ row.status # "waiting")
    BY <1>12, <2>1
  <2>2. CASE ~skipped /\ held /\ row.status = "waiting"
    BY <2>2
  <2>3. CASE ~skipped /\ ~held
    <3>1. writes = ForEach(f) \o Update(j, new) \o Offer(j)
      BY <2>3
    <3> HIDE DEF writes
    <3> QED
      BY <1>12, <1>14, <1>15, <2>3, <3>1
  <2> QED
    BY <2>1, <2>2, <2>3
<1> HIDE DEF writes, snap, taken
<1>17. on.todo = writes
  BY <1>1 DEF CallState
<1> HIDE DEF on
<1> QED
  BY <1>4, <1>5, <1>16, <1>17, WritesGate, GateDecides DEF W

-----------------------------------------------------------------------------
\* An operator approved or cancelled something.

LEMMA GateCancelRun ==
  ASSUME OneAtATime, SchedInv, SerialInv, GateInv, NEW t \in Call, NEW r \in Run, CancelRun(t, r)
  PROVE  GateInv'
<1> DEFINE todo == StopRunWrites(r, runs[r], SnapOf(r), Cancelled("user"))
           on == [Idle EXCEPT !.op = "cancel", !.at = "return", !.todo = todo]
<1>1. UNCHANGED jobs /\ Goes(t, on)
  BY DEF CancelRun, Order, Writes
<1>2. Lasts(todo, jobs) /\ Earned(todo)
  <2>1. Cancelled("user") \in AnyResult
    BY ResultTypes DEF CancelActors
  <2> QED
    BY <2>1, CallFacts, GateStop
<1> HIDE DEF todo
<1>3. on.todo = todo
  BY WritingFields
<1> HIDE DEF on
<1> QED
  BY <1>1, <1>2, <1>3, GateDecides

LEMMA GateCancelJob ==
  ASSUME OneAtATime, SchedInv, SerialInv, GateInv, NEW t \in Call, NEW j \in Job, CancelJob(t, j)
  PROVE  GateInv'
<1> DEFINE row == Finished(jobs[j], Cancelled("user"))
           todo == Update(j, row)
           on == [Idle EXCEPT !.op = "cancelJob", !.at = "return", !.todo = todo]
           g == [k \in Job |-> row]
<1>1. UNCHANGED jobs /\ Goes(t, on) /\ ~Completed(jobs[j])
  BY DEF CancelJob, Order, Writes
<1>2. Lasts(todo, jobs) /\ Earned(todo)
  <2>1. Cancelled("user") \in AnyResult
    BY ResultTypes DEF CancelActors
  <2>2. jobs[j] \in Kept(j) /\ jobs[j] \in SchedRow /\ Sane(jobs[j])
    BY CallFacts, RowsOfJob DEF CancelJob, SerialInv, SerialTables
  <2>3. row \in Kept(j) /\ ~Open(row)
    BY <2>1, <2>2, FinishedKept, SaneFinished
  <2>4. g[j] = row
    OBVIOUS
  <2> HIDE DEF row, g
  <2>5. todo \in Seq(GateWrites(g, jobs))
    BY <1>1, <2>3, <2>4, GateUpdate DEF Writable, Keeps
  <2> QED
    BY <2>5, WritesGate
<1> HIDE DEF todo
<1>3. on.todo = todo
  BY WritingFields
<1> HIDE DEF on
<1> QED
  BY <1>1, <1>2, <1>3, GateDecides

-----------------------------------------------------------------------------
\* An approval is of a run of a fork, for only its jobs are held for one.
NoForks == \A r \in Run : ~RunPlan[r].fork
Unapproved == NoForks \/ spent.orders = 0
Approves == \E t \in Call, r \in Run : Approve(t, r)
ReRuns == \E t \in Call, r \in Run : Rerun(t, r)

LEMMA OnlyForksHeld ==
  ASSUME SchedInv, NEW t, NEW r \in Run, Approve(t, r)
  PROVE  ~NoForks
<1>1. PICK j \in DOMAIN SnapOf(r) : jobs[j].rest.awaiting
  BY DEF Approve
<1>2. j \in Job /\ Plan[j].run = r /\ jobs[j] \in Kept(j)
  BY <1>1, RowsOfJob DEF SnapOf, JobsOf, SchedInv
<1>3. RunPlan[r].fork
  BY <1>1, <1>2 DEF Kept
<1> QED
  BY <1>3 DEF NoForks

LEMMA UnapprovedStep ==
  ASSUME SchedInv, SpentOK, [Next]_vars, Unapproved'
  PROVE  Unapproved /\ ~Approves
<1>1. CASE NoForks
  BY <1>1, OnlyForksHeld DEF Unapproved, Approves
<1>2. CASE spent'.orders = 0
  <2>1. ASSUME Approves PROVE FALSE
    <3>1. spent' = [spent EXCEPT !.orders = @ + 1]
      BY <2>1 DEF Approves, Approve, Order
    <3> QED
      BY <1>2, <3>1 DEF SpentOK
  <2>2. \/ UNCHANGED spent
        \/ spent' = [spent EXCEPT !.orders = @ + 1]
        \/ spent' = [spent EXCEPT !.losses = @ + 1]
        \/ spent' = [spent EXCEPT !.restarts = @ + 1]
        \/ spent' = [spent EXCEPT !.reruns = @ + 1]
    BY SpentKinds
  <2>3. spent.orders = 0
    BY <1>2, <2>2 DEF SpentOK
  <2> QED
    BY <2>1, <2>3 DEF Unapproved
<1> QED
  BY <1>1, <1>2 DEF Unapproved, NoForks

LEMMA GateStep ==
  ASSUME OneAtATime, SchedInv, SerialInv, GateInv, [Next]_vars, ~Approves, ~ReRuns
  PROVE  GateInv'
<1>1. ASSUME NEW t \in Call, Proceed(t) PROVE GateInv'
  BY <1>1, GateWriteStep, GateSupersede, GateStartJobs, GateTickLeave, GateTickRunTimeout,
     GateTickRun, GateTickNothing, GateTickAdmit, GateTickFinalize, GateWithdraw,
     GateDispatch, GateJobCompleted, GateSetupCompleted DEF Proceed
<1>2. ASSUME NEW r \in Runner, NEW j \in Job, ReleaseJob(r, j) \/ Beat(r, j) PROVE GateInv'
  BY <1>2, GateRelease, GateFlags
<1>3. ASSUME NEW j \in Job, Lost(j) \/ BackoffOver(j) PROVE GateInv'
  BY <1>3, GateFlags
<1>4. ASSUME NEW t \in Call, NEW r \in Runner, NEW j \in Job,
             SetupDone(t, r, j) \/ \E res \in Results[j] : Complete(t, r, j, res)
      PROVE  GateInv'
  BY <1>4, GateBegins
<1>5. CASE UNCHANGED vars
  BY <1>5, GateApart DEF vars
<1>6. Restart => GateInv'
  <2>1. Restart => UNCHANGED jobs /\ \A u \in Call : calls'[u] = Idle
    BY DEF Restart
  <2> QED
    BY <2>1, GateApart
<1>7. ASSUME NEW t \in Call, NEW r \in Run, StartRun(t, r) \/ CancelRun(t, r) PROVE GateInv'
  BY <1>7, GateBegins, GateCancelRun
<1>8. ~\E t \in Call, r \in Run : Approve(t, r) \/ Rerun(t, r)
  BY DEF Approves, ReRuns
<1>9. CASE Next
  BY <1>1, <1>2, <1>3, <1>4, <1>6, <1>7, <1>8, <1>9, GateTickStart, GateAcquire, GateCancelJob DEF Next
<1> QED
  BY <1>5, <1>9

LEMMA GateStart == Init => GateInv
<1> SUFFICES ASSUME Init PROVE GateInv
  OBVIOUS
<1>1. \A j \in Job : jobs[j] = AbsentJob
  BY DEF Init, StoreInit
<1>2. \A j \in Job : ~Admitted(j)
  BY <1>1 DEF Admitted, AbsentJob
<1>3. \A t \in Call : calls[t].todo = <<>>
  BY DEF Init, Idle
<1>4. \A t \in Call : Lasts(calls[t].todo, jobs) /\ Earned(calls[t].todo)
  BY <1>3, LastsNone
<1> QED
  BY <1>2, <1>4 DEF GateInv

Plainly == spent.reruns = 0 /\ Unapproved
GateSoFar == Plainly => GateInv

LEMMA GateKept ==
  ASSUME OneAtATime, SchedInv, SerialSoFar, GateSoFar, [Next]_vars
  PROVE  /\ GateSoFar'
         /\ Plainly' => Plainly /\ SerialInv /\ GateInv /\ ~Approves /\ ~ReRuns
<1> SUFFICES ASSUME Plainly'
             PROVE  GateInv' /\ Plainly /\ SerialInv /\ GateInv /\ ~Approves /\ ~ReRuns
  BY DEF GateSoFar
<1>1. spent.reruns = 0 /\ ~ReRuns
  BY SpentStep DEF SerialSoFar, Plainly, ReRuns
<1>2. Unapproved /\ ~Approves
  <2>1. Unapproved'
    BY DEF Plainly
  <2> QED
    BY <2>1, UnapprovedStep DEF SerialSoFar
<1>3. SerialInv /\ GateInv
  BY <1>1, <1>2 DEF SerialSoFar, GateSoFar, Plainly
<1> QED
  BY <1>1, <1>2, <1>3, GateStep DEF Plainly

LEMMA GateAlways == OneAtATime /\ Spec => [](SchedInv /\ SerialSoFar /\ GateSoFar)
<1>1. OneAtATime /\ SchedInv /\ SerialSoFar /\ GateSoFar /\ [Next]_vars => GateSoFar'
  BY GateKept
<1>2. Init => GateSoFar
  BY GateStart DEF GateSoFar
<1>3. CASE OneAtATime
  <2>1. SchedInv /\ SerialSoFar /\ GateSoFar /\ [Next]_vars => GateSoFar'
    BY <1>1, <1>3
  <2> QED
    BY <1>2, <1>3, <2>1, SerialAlways, PTL DEF Spec
<1>4. CASE ~OneAtATime
  BY <1>4
<1> QED
  BY <1>3, <1>4

\* readiness.go, computeNeeds and shouldRun: while calls are taken one after the
\* other and no run has been approved or re-run, a job is offered to the runners
\* only after all that it needs has ended, and in the way its if: asks for, and
\* that stays so for as long as it is with the queue or with a runner, whatever
\* is cancelled, times out, is lost, retried, displaced or restarted.
THEOREM SerialNeedsGate ==
  OneAtATime /\ Spec => [](spent.reruns = 0 /\ (NoForks \/ spent.orders = 0) => NeedsGate)
<1>1. GateSoFar => (spent.reruns = 0 /\ (NoForks \/ spent.orders = 0) => NeedsGate)
  BY GateIsMet DEF GateSoFar, Plainly, Unapproved
<1> QED
  BY <1>1, GateAlways, PTL

\* The steps that write a row at once write one of a job with an entry, or one
\* that a runner was just given.
LEMMA EndedKeeps ==
  ASSUME OneAtATime, SchedInv, SerialInv, GateInv, [Next]_vars
  PROVE  \A j \in Job : Keeps(jobs[j], jobs'[j])
<1>1. ASSUME UNCHANGED jobs PROVE \A j \in Job : Keeps(jobs[j], jobs'[j])
  BY <1>1, KeepsItself
<1>2. ASSUME NEW j \in Job, Admitted(j), NEW row, jobs' = [jobs EXCEPT ![j] = row]
      PROVE  \A k \in Job : Keeps(jobs[k], jobs'[k])
  BY <1>2, GateRow
<1>3. ASSUME NEW j \in Job, InQueue(j) PROVE Admitted(j)
  BY <1>3 DEF SerialInv, SerialTables
<1>4. ASSUME NEW t \in Call, WriteStep(t) PROVE \A j \in Job : Keeps(jobs[j], jobs'[j])
  BY <1>4, WriteEnds
<1>5. ASSUME NEW t \in Call, TickStart(t) PROVE \A j \in Job : Keeps(jobs[j], jobs'[j])
  <2>1. jobs' = [j \in Job |-> IF j \in ExpiredLeases THEN BackToQueue(jobs[j]) ELSE jobs[j]]
    BY <1>5 DEF TickStart, ReapExpiredLeases
  <2>2. \A j \in ExpiredLeases : j \in Job /\ Admitted(j)
    BY <1>3 DEF ExpiredLeases, Leased, InQueue
  <2>3. \A j \in ExpiredLeases : ~Completed(jobs[j])
    BY <2>2 DEF Admitted, Completed
  <2> QED
    BY <2>1, <2>3, KeepsItself DEF Keeps
<1>6. ASSUME NEW t \in Call, NEW r \in Runner, Acquire(t, r)
      PROVE  \A j \in Job : Keeps(jobs[j], jobs'[j])
  <2>1. PICK j \in Eligible(r) : Dequeue(r, j)
    BY <1>6 DEF Acquire
  <2>2. j \in Job /\ InQueue(j)
    BY DEF Eligible, InQueue
  <2>3. jobs' = [jobs EXCEPT ![j] = RunningOn(r, jobs[j])]
    BY <2>1 DEF Dequeue
  <2> QED
    BY <1>2, <1>3, <2>2, <2>3
<1>7. ASSUME NEW t \in Call, Withdraw(t) PROVE \A j \in Job : Keeps(jobs[j], jobs'[j])
  <2> DEFINE j == calls[t].job
  <2>1. j \in Job
    BY <1>7, CallFacts DEF Withdraw, Deciding, CallOK
  <2>2. CASE LeasedBy(calls[t].runner, j)
    <3>1. jobs' = [jobs EXCEPT ![j] = BackToQueue(jobs[j])]
      BY <1>7, <2>2 DEF Withdraw, ReleaseLease
    <3>2. InQueue(j)
      BY <2>2 DEF LeasedBy, Leased, InQueue
    <3> HIDE DEF j
    <3> QED
      BY <1>2, <1>3, <2>1, <3>1, <3>2
  <2>3. CASE ~LeasedBy(calls[t].runner, j)
    BY <1>1, <1>7, <2>3 DEF Withdraw
  <2> QED
    BY <2>2, <2>3
<1>8. ASSUME NEW t \in Call, Dispatch(t) PROVE \A j \in Job : Keeps(jobs[j], jobs'[j])
  <2> DEFINE c == calls[t]
             j == c.job
             row == [c.row EXCEPT !.status = "in_progress", !.runner = c.runner]
  <2>1. j \in Job /\ Admitted(j)
    BY <1>8, CallFacts DEF Dispatch, Deciding, CallOK, SerialInv, SerialCall
  <2>2. UNCHANGED jobs \/ jobs' = [jobs EXCEPT ![j] = row]
    BY <1>8 DEF Dispatch, UpdateJob
  <2> HIDE DEF j, row
  <2> QED
    BY <1>1, <1>2, <2>1, <2>2
<1>9. ASSUME NEW r \in Runner, NEW j \in Job, ReleaseJob(r, j)
      PROVE  \A k \in Job : Keeps(jobs[k], jobs'[k])
  <2>1. jobs' = [jobs EXCEPT ![j] = BackToQueue(jobs[j])] /\ LeasedBy(r, j)
    BY <1>9 DEF ReleaseJob, ReleaseLease
  <2>2. InQueue(j)
    BY <2>1 DEF LeasedBy, Leased, InQueue
  <2> QED
    BY <1>2, <1>3, <2>1, <2>2
<1>10. ASSUME NEW t \in Call, Proceed(t), ~WriteStep(t), ~Withdraw(t), ~Dispatch(t)
       PROVE  UNCHANGED jobs
  BY <1>10 DEF Proceed, SupersedeNext, StartJobs, TickLeave, TickRunTimeout, TickRun, TickNothing,
       TickAdmit, TickFinalize, JobCompleted, JobSetupCompleted
<1>11. ASSUME NEW t \in Call, NEW r \in Run,
              StartRun(t, r) \/ Approve(t, r) \/ CancelRun(t, r) \/ Rerun(t, r)
       PROVE  UNCHANGED jobs
  BY <1>11 DEF StartRun, Approve, CancelRun, Rerun, Order
<1>12. ASSUME NEW t \in Call, NEW r \in Runner, NEW j \in Job,
              SetupDone(t, r, j) \/ (\E res \in Results[j] : Complete(t, r, j, res)) \/ CancelJob(t, j)
       PROVE  UNCHANGED jobs
  BY <1>12 DEF SetupDone, Complete, CancelJob, Order
<1>13. ASSUME NEW r \in Runner, NEW j \in Job, Beat(r, j) PROVE UNCHANGED jobs
  BY <1>13 DEF Beat, Heartbeat
<1>14. ASSUME NEW j \in Job, Lost(j) \/ BackoffOver(j) PROVE UNCHANGED jobs
  BY <1>14 DEF Lost, BackoffOver, LeaseRunsOut, BackoffRunsOut
<1>15. ASSUME NEW t \in Call, NEW j \in Job, CancelJob(t, j) PROVE UNCHANGED jobs
  BY <1>15 DEF CancelJob, Order
<1>16. CASE UNCHANGED vars \/ Restart
  BY <1>1, <1>16 DEF vars, Restart
<1>17. CASE Next
  BY <1>1, <1>4, <1>5, <1>6, <1>7, <1>8, <1>9, <1>10, <1>11, <1>12, <1>13, <1>14, <1>15, <1>16, <1>17
     DEF Next
<1> QED
  BY <1>16, <1>17

\* What is left of EndedJobStaysEnded when nothing is approved.
OnlyNewAttemptsOpen ==
  [][\A j \in Job : Completed(jobs[j]) /\ ~Completed(jobs'[j])
                      => jobs'[j].attempt > jobs[j].attempt]_vars

\* assignment.go, Acquire: while calls are taken one after the other and nothing
\* may be re-run or approved, no write from an older copy brings back a job that
\* has ended, whichever jobs and runs are cancelled, displaced, timed out or lost
\* and wherever the control plane restarts.
THEOREM SerialEndedStay ==
  OneAtATime /\ Reruns = 0 /\ (NoForks \/ Orders = 0) /\ Spec
    => EndedJobStaysEnded /\ OnlyNewAttemptsOpen
<1> DEFINE Still == Reruns = 0 /\ (NoForks \/ Orders = 0)
           Says == \A j \in Job : Completed(jobs[j]) /\ ~Completed(jobs'[j])
                     => \/ jobs'[j].attempt > jobs[j].attempt
                        \/ /\ \E t \in Call : calls[t].op = "approve"
                           /\ jobs'[j].rest.conclusion = jobs[j].rest.conclusion
           Ends == \A j \in Job : Completed(jobs[j]) /\ ~Completed(jobs'[j])
                                    => jobs'[j].attempt > jobs[j].attempt
<1>1. ASSUME Still, SpentOK, Plainly, [Next]_vars PROVE Plainly'
  <2>1. spent.reruns = 0 /\ spent.orders \in Nat
    BY <1>1 DEF SpentOK, Plainly
  <2>2. \/ UNCHANGED spent
        \/ spent.orders < Orders /\ spent' = [spent EXCEPT !.orders = @ + 1]
        \/ spent' = [spent EXCEPT !.losses = @ + 1]
        \/ spent' = [spent EXCEPT !.restarts = @ + 1]
        \/ spent.reruns < Reruns /\ spent' = [spent EXCEPT !.reruns = @ + 1]
    BY <1>1, SpentKinds
  <2>3. spent'.reruns = 0
    BY <1>1, <2>1, <2>2 DEF SpentOK
  <2>4. NoForks \/ spent'.orders = 0
    BY <1>1, <2>1, <2>2 DEF SpentOK, Plainly, Unapproved
  <2>5. Unapproved'
    BY <2>4 DEF Unapproved, NoForks
  <2> QED
    BY <2>3, <2>5 DEF Plainly
<1>2. ASSUME OneAtATime, SchedInv, SerialSoFar, GateSoFar, Plainly, [Next]_vars PROVE [Ends]_vars
  <2>1. SerialInv /\ GateInv
    BY <1>2 DEF SerialSoFar, GateSoFar, Plainly
  <2> QED
    BY <1>2, <2>1, EndedKeeps DEF Keeps
<1>3. Init => Plainly
  BY DEF Init, Plainly, Unapproved
<1>4. SerialSoFar => SpentOK
  BY DEF SerialSoFar
<1>5. CASE OneAtATime /\ Still
  <2>1. SpentOK /\ Plainly /\ [Next]_vars => Plainly'
    BY <1>1, <1>5
  <2>2. SchedInv /\ SerialSoFar /\ GateSoFar /\ Plainly /\ [Next]_vars => [Ends]_vars
    BY <1>2, <1>5
  <2>3. Ends => Says
    OBVIOUS
  <2> HIDE DEF Ends, Says
  <2>4. Spec => [][Ends]_vars /\ [][Says]_vars
    BY <1>3, <1>4, <1>5, <2>1, <2>2, <2>3, GateAlways, PTL DEF Spec
  <2> QED
    BY <2>4 DEF Ends, Says, EndedJobStaysEnded, OnlyNewAttemptsOpen
<1>6. CASE ~(OneAtATime /\ Still)
  BY <1>6
<1> QED
  BY <1>5, <1>6

-----------------------------------------------------------------------------
(***************************************************************************)
(* The runs of a group and the end of a run, under the same conditions.  A *)
(* run is closed from a copy of its jobs, and let in or held by the runs   *)
(* that are driven and not over; the rows of jobs and runs are written one *)
(* by one afterwards.  So what is inductive speaks again of the writes     *)
(* that are left.                                                          *)
(***************************************************************************)

Present(r)  == runs[r].status # "absent"
Newest(r)   == \A o \in Run : r < o => ~Present(o)
Starting(r) == runs[r].status = "queued" /\ Newest(r)

\* The runs that are driven, not over, and older in the group of r; and one that
\* cancels them has none.
Older(r) ==
  {o \in plans : /\ o < r /\ RunPlan[o].group # "" /\ RunPlan[o].group = RunPlan[r].group
                 /\ runs[o].status # "completed"}
Clear(r) == RunPlan[r].cancelInProgress => Older(r) = {}

\* A run whose jobs may be let in.
Passing(r) == Present(r) /\ ~RunBlocked(r)

\* The jobs of a run that are there, and what a closed run concludes from them.
Filed(r) == {j \in JobsOf(r) : Exists(j)}
SettledRun(r) ==
  /\ \A j \in Filed(r) : Completed(jobs[j])
  /\ runs[r].conclusion = Aggregate({jobs[j].rest.conclusion : j \in Filed(r)})

\* What precedes a write among those that are left.
Behind(todo, k, dos) == \A i \in 1..(k - 1) : todo[i].do \in dos

Closing(w)  == w.do = "run" /\ w.row.status = "completed"
Starts(w)   == w.do = "run" /\ w.row.status # "completed"

\* By the turn of the k-th write the job j has ended with the conclusion c.
EndsBy(todo, k, j, c) ==
  \/ Completed(jobs[j]) /\ jobs[j].rest.conclusion = c
  \/ \E i \in 1..(k - 1) : /\ IsRow(todo[i]) /\ todo[i].job = j
                           /\ Completed(todo[i].row) /\ todo[i].row.rest.conclusion = c

\* The k-th write closes a run with what its jobs will have concluded by then.
Settles(todo, k) ==
  /\ Behind(todo, k, {"update"})
  /\ \E s : /\ todo[k].row.conclusion = Aggregate({s[j] : j \in Filed(todo[k].run)})
            /\ \A j \in Filed(todo[k].run) : EndsBy(todo, k, j, s[j])

\* What a call may have left to write.
Proper(todo) ==
  \A k \in DOMAIN todo :
    /\ todo[k].do = "create" => Starting(Plan[todo[k].job].run) /\ Behind(todo, k, {"create"})
    /\ todo[k].do = "register" => /\ Starting(todo[k].run) /\ Clear(todo[k].run)
                                  /\ Behind(todo, k, {"create"})
    /\ Starts(todo[k]) => /\ Starting(todo[k].run) /\ todo[k].row.status # "absent"
                          /\ Behind(todo, k, {"create", "register"})
    /\ Closing(todo[k]) => Present(todo[k].run) /\ Settles(todo, k)
    /\ \A j \in Job : Opens(todo[k], j) => Passing(Plan[j].run)

\* A run that starts has ended, or is about to, the older runs it cancels but
\* for those it has left.
Superseding(c) ==
  /\ Starting(c.run) /\ c.run \notin c.left
  /\ \A k \in DOMAIN c.todo : /\ c.todo[k].do \notin {"create", "register"}
                              /\ c.todo[k].do = "run" => c.todo[k].run # c.run
  /\ RunPlan[c.run].cancelInProgress =>
       \A o \in Older(c.run) : o \in c.left \/ \E k \in DOMAIN c.todo : Closing(c.todo[k]) /\ c.todo[k].run = o

RunCall(c) ==
  /\ Proper(c.todo)
  /\ c.at = "supersede" => Superseding(c)
  /\ c.at \in {"gate", "admit"} => Present(c.run)
  /\ c.at = "admit" => Passing(c.run)

RunTables ==
  /\ \A o, r \in Run : o < r /\ Present(r) => Present(o)
  /\ \A r \in plans : Present(r) /\ Clear(r)
  /\ \A j \in Job : Admitted(j) => Passing(Plan[j].run)
  /\ \A r \in Run : runs[r].status = "completed" => SettledRun(r)

RunInv == RunTables /\ \A t \in Call : RunCall(calls[t])

\* What ClosedRunSettled says of the jobs when none was approved.
ClosedRunsAreIdle ==
  AllIdle => \A r \in Run : runs[r].status = "completed" => Live(SnapOf(r)) = {}

LEMMA RunsAreSettled ==
  RunsInv /\ RunInv => ClosedRunsAreIdle /\ ClosedRunSettled /\ RunGroupKept
<1> SUFFICES ASSUME RunsInv, RunInv
             PROVE  ClosedRunsAreIdle /\ ClosedRunSettled /\ RunGroupKept
  OBVIOUS
<1>1. ASSUME NEW r \in Run, runs[r].status = "completed"
      PROVE  /\ Live(SnapOf(r)) = {}
             /\ runs[r].conclusion = Aggregate({jobs[j].rest.conclusion : j \in DOMAIN SnapOf(r)})
  <2>1. SettledRun(r)
    BY <1>1 DEF RunInv, RunTables
  <2>2. DOMAIN SnapOf(r) = Filed(r) /\ \A j \in Filed(r) : SnapOf(r)[j] = jobs[j]
    BY DEF SnapOf, Filed
  <2> DEFINE s == SnapOf(r)
             f == Filed(r)
  <2>a. DOMAIN s = f /\ \A j \in f : s[j] = jobs[j] /\ Completed(jobs[j])
    BY <2>1, <2>2 DEF SettledRun
  <2> HIDE DEF s, f
  <2>3. Live(s) = {}
    BY <2>a DEF Live
  <2>4. {jobs[j].rest.conclusion : j \in DOMAIN s} = {jobs[j].rest.conclusion : j \in f}
    BY <2>a
  <2>5. runs[r].conclusion = Aggregate({jobs[j].rest.conclusion : j \in f})
    BY <2>1 DEF SettledRun, f
  <2>6. runs[r].conclusion = Aggregate({jobs[j].rest.conclusion : j \in DOMAIN s})
    BY <2>4, <2>5
  <2> QED
    BY <2>3, <2>6 DEF s
<1>2. ASSUME NEW o \in plans, NEW r \in plans, o < r, RunPlan[o].group # "",
             RunPlan[o].group = RunPlan[r].group, runs[o].status # "completed"
      PROVE  ~RunPlan[r].cancelInProgress /\ \A j \in JobsOf(r) : ~Admitted(j)
  <2>1. o \in Older(r)
    BY <1>2 DEF Older
  <2>2. ~RunPlan[r].cancelInProgress
    BY <2>1 DEF RunInv, RunTables, Clear
  <2>3. o # r
    <3>1. o \in Nat /\ r \in Nat
      BY SchedulerAssumption DEF RunsInv
    <3>2. ~(o < o)
      BY <3>1
    <3> QED
      BY <1>2, <3>2
  <2>4. RunBlocked(r)
    BY <1>2, <2>2, <2>3 DEF RunBlocked
  <2>5. \A j \in JobsOf(r) : j \in Job /\ Plan[j].run = r
    BY DEF JobsOf
  <2> QED
    BY <2>2, <2>4, <2>5 DEF RunInv, RunTables, Passing
<1> QED
  BY <1>1, <1>2 DEF ClosedRunsAreIdle, ClosedRunSettled, RunGroupKept

-----------------------------------------------------------------------------
\* What a step may make of the runs and the plans.
Onward ==
  /\ \A r \in Run : Present(r) => Present(r)'
  /\ \A r \in Run : runs[r].status = "completed" => runs'[r].status = "completed"
  /\ \A r \in plans' \ plans : r \in Run /\ Newest(r) /\ Clear(r) /\ Present(r)

LEMMA OnwardSame == UNCHANGED runs /\ plans' \subseteq plans => Onward
  BY DEF Onward, Present

LEMMA PassingKept ==
  ASSUME RunsInv, Onward, NEW r \in Run, Passing(r)
  PROVE  Passing(r)'
<1>1. Present(r)'
  BY DEF Onward, Passing
<1>2. ASSUME RunBlocked(r)' PROVE FALSE
  <2>1. PICK o \in plans' \ {r} : /\ RunPlan[o].group = RunPlan[r].group
                                  /\ runs'[o].status # "completed" /\ o < r
    BY <1>2 DEF RunBlocked
  <2>2. RunPlan[r].group # "" /\ ~RunPlan[r].cancelInProgress
    BY <1>2 DEF RunBlocked
  <2>3. o \in plans
    BY <2>1 DEF Onward, Newest, Passing
  <2>4. runs[o].status # "completed"
    BY <2>1, <2>3 DEF Onward, RunsInv
  <2> QED
    BY <2>1, <2>2, <2>3, <2>4 DEF RunBlocked, Passing
<1> QED
  BY <1>1, <1>2 DEF Passing

\* A plan that is registered anew is of the newest run there is.
LEMMA ClearKept ==
  ASSUME RunsInv, RunTables, Onward
  PROVE  \A r \in plans' : Present(r)' /\ Clear(r)'
<1> SUFFICES ASSUME NEW r \in plans' PROVE Present(r)' /\ Clear(r)'
  OBVIOUS
<1>1. r \in Run /\ Present(r) /\ Clear(r)
  BY DEF Onward, RunsInv, RunTables
<1>2. Older(r)' \subseteq Older(r)
  <2> SUFFICES ASSUME NEW o \in Older(r)' PROVE o \in Older(r)
    OBVIOUS
  <2>1. /\ o \in plans' /\ o < r /\ RunPlan[o].group # "" /\ RunPlan[o].group = RunPlan[r].group
        /\ runs'[o].status # "completed"
    BY DEF Older
  <2>2. o \in plans
    BY <1>1, <2>1 DEF Onward, Newest
  <2>3. runs[o].status # "completed"
    BY <2>1, <2>2 DEF Onward, RunsInv
  <2> QED
    BY <2>1, <2>2, <2>3 DEF Older
<1>3. Clear(r)'
  BY <1>1, <1>2 DEF Clear
<1> QED
  BY <1>1, <1>3 DEF Onward

\* A run that is over stays settled: its jobs keep their ends, and it gets no new
\* ones.
LEMMA SettledKept ==
  ASSUME NEW r \in Run, SettledRun(r), runs'[r] = runs[r], \A j \in Job : Keeps(jobs[j], jobs'[j]),
         \A j \in JobsOf(r) : Exists(j)' => Exists(j)
  PROVE  SettledRun(r)'
<1>1. \A j \in Filed(r) : /\ j \in Job /\ Completed(jobs[j]) /\ Completed(jobs'[j])
                          /\ jobs'[j].rest.conclusion = jobs[j].rest.conclusion
  BY DEF SettledRun, Keeps, Filed, JobsOf
<1>2. \A j \in Filed(r) : Exists(j)'
  BY <1>1 DEF Exists, Completed
<1>3. Filed(r)' = Filed(r)
  BY <1>2 DEF Filed, JobsOf
<1> DEFINE as == {jobs[j].rest.conclusion : j \in Filed(r)}
           bs == {jobs'[j].rest.conclusion : j \in Filed(r)}
<1>4. as = bs
  BY <1>1
<1>5. runs'[r].conclusion = Aggregate(as)
  BY DEF SettledRun
<1>6. runs'[r].conclusion = Aggregate(bs)
  <2> HIDE DEF as, bs
  <2> QED
    BY <1>4, <1>5
<1>7. runs'[r].conclusion = Aggregate({jobs'[j].rest.conclusion : j \in Filed(r)'})
  BY <1>3, <1>6
<1> QED
  BY <1>1, <1>3, <1>7 DEF SettledRun

LEMMA ProperNone == Proper(<<>>) /\ Proper(<<>>)'
<1> DEFINE todo == <<>>
<1>1. DOMAIN todo = {}
  OBVIOUS
<1> HIDE DEF todo
<1>2. Proper(todo) /\ Proper(todo)'
  BY <1>1 DEF Proper
<1> QED
  BY <1>2 DEF todo

LEMMA BareRun ==
  ASSUME NEW c, c.todo = <<>>, c.at \notin {"supersede", "gate", "admit"}
  PROVE  RunCall(c) /\ RunCall(c)'
<1>1. Proper(c.todo) /\ Proper(c.todo)'
  BY ProperNone
<1> QED
  BY <1>1 DEF RunCall

LEMMA IdleRun == RunCall(Idle) /\ RunCall(Idle)'
<1>1. Idle.todo = <<>> /\ Idle.at = ""
  BY DEF Idle
<1> QED
  BY <1>1, BareRun

\* A call that goes on, or returns, beside no other, and closes no run.
LEMMA RunMoves ==
  ASSUME OneAtATime, SchedInv, RunInv, Onward,
         \A o, r \in Run : o < r /\ Present(r)' => Present(o)',
         \A r \in Run : runs'[r].status = "completed" => runs'[r] = runs[r],
         \A j \in Job : Keeps(jobs[j], jobs'[j]) /\ (Exists(j)' => Exists(j)),
         \A j \in Job : Admitted(j)' => Admitted(j),
         NEW t \in Call, NEW c, RunCall(c)', Goes(t, c) \/ Returns(t)
  PROVE  RunInv'
<1>1. \A r \in plans' : Present(r)' /\ Clear(r)'
  BY ClearKept DEF SchedInv, RunInv
<1>2. \A j \in Job : Admitted(j)' => Passing(Plan[j].run)'
  <2>1. \A j \in Job : Admitted(j)' => Passing(Plan[j].run) /\ Plan[j].run \in Run
    BY PlanAssumption DEF RunInv, RunTables
  <2> QED
    BY <2>1, PassingKept DEF SchedInv
<1>3. \A r \in Run : runs'[r].status = "completed" => SettledRun(r)'
  <2> SUFFICES ASSUME NEW r \in Run, runs'[r].status = "completed" PROVE SettledRun(r)'
    OBVIOUS
  <2>1. SettledRun(r) /\ runs'[r] = runs[r]
    BY DEF RunInv, RunTables
  <2>2. \A j \in JobsOf(r) : Exists(j)' => Exists(j)
    BY DEF JobsOf
  <2> QED
    BY <2>1, <2>2, SettledKept
<1>4. RunTables'
  BY <1>1, <1>2, <1>3 DEF RunTables
<1>5. PICK d : calls' = [calls EXCEPT ![t] = d] /\ RunCall(d)'
  BY IdleRun DEF Goes, Returns
<1>6. ASSUME NEW u \in Call PROVE calls'[u] = d
  BY <1>5 DEF SchedInv, CallsInv, OneAtATime
<1> QED
  BY <1>4, <1>5, <1>6 DEF RunInv, RunCall

LEMMA RunGoes ==
  ASSUME OneAtATime, SchedInv, RunInv, UNCHANGED runs, plans' \subseteq plans,
         \A j \in Job : Keeps(jobs[j], jobs'[j]) /\ (Exists(j)' => Exists(j)),
         \A j \in Job : Admitted(j)' => Admitted(j),
         NEW t \in Call, NEW c, RunCall(c)', Goes(t, c) \/ Returns(t)
  PROVE  RunInv'
<1>1. Onward
  BY OnwardSame
<1>2. \A o, r \in Run : o < r /\ Present(r)' => Present(o)'
  BY DEF RunInv, RunTables, Present
<1> QED
  BY <1>1, <1>2, RunMoves

\* One that only decides.
LEMMA RunSame ==
  ASSUME UNCHANGED <<jobs, runs, plans>>, NEW c, RunCall(c)
  PROVE  RunCall(c)'
<1>1. \A r : /\ Present(r)' <=> Present(r)
             /\ Starting(r)' <=> Starting(r)
             /\ Filed(r)' = Filed(r)
             /\ Older(r)' = Older(r)
             /\ RunBlocked(r)' <=> RunBlocked(r)
  BY DEF Present, Starting, Newest, Filed, Exists, Older, RunBlocked
<1>2. \A r : (Clear(r)' <=> Clear(r)) /\ (Passing(r)' <=> Passing(r))
  BY <1>1 DEF Clear, Passing
<1>3. \A todo, k, j, e : EndsBy(todo, k, j, e)' <=> EndsBy(todo, k, j, e)
  BY DEF EndsBy
<1>4. \A todo, k : Settles(todo, k)' <=> Settles(todo, k)
  BY <1>1, <1>3 DEF Settles
<1>5. Proper(c.todo)'
  BY <1>1, <1>2, <1>4 DEF RunCall, Proper
<1>6. c.at = "supersede" => Superseding(c)'
  BY <1>1 DEF RunCall, Superseding
<1> QED
  BY <1>1, <1>2, <1>5, <1>6 DEF RunCall

LEMMA RunDecides ==
  ASSUME OneAtATime, SchedInv, RunInv, UNCHANGED <<jobs, runs, plans>>,
         NEW t \in Call, NEW c, RunCall(c), Goes(t, c) \/ Returns(t)
  PROVE  RunInv'
<1>1. RunCall(c)'
  BY RunSame
<1>2. /\ \A j \in Job : Keeps(jobs[j], jobs'[j]) /\ (Exists(j)' => Exists(j))
      /\ \A j \in Job : Admitted(j)' => Admitted(j)
  BY KeepsItself DEF Exists, Admitted
<1> QED
  BY <1>1, <1>2, RunGoes

-----------------------------------------------------------------------------
\* The write that is next.

\* What it does to the runs, the plans and the jobs.
RunsWritten(w) ==
  /\ runs' = IF w.do = "run" THEN [runs EXCEPT ![w.run] = w.row] ELSE runs
  /\ plans' \subseteq plans \cup (IF w.do = "register" THEN {w.run} ELSE {})

LEMMA StartingIs ==
  ASSUME RunsInv, NEW r \in Run, Starting(r)
  PROVE  Present(r) /\ runs[r].status # "completed"
  BY DEF Starting, Present

LEMMA FirstWrite ==
  ASSUME NEW todo \in Seq(Write), 1 \in DOMAIN todo, Proper(todo), NEW w \in Write, w = todo[1]
  PROVE  /\ w.do = "create" => w.job \in Job /\ Starting(Plan[w.job].run)
         /\ w.do = "register" => w.run \in Run /\ Starting(w.run) /\ Clear(w.run)
         /\ Starts(w) => w.run \in Run /\ Starting(w.run) /\ w.row.status # "absent"
         /\ Closing(w) => w.run \in Run /\ Present(w.run) /\ Settles(todo, 1)
         /\ \A j \in Job : Opens(w, j) => Passing(Plan[j].run)
<1>1. /\ w.do = "create" => w.job \in Job
      /\ w.do \in {"run", "register"} => w.run \in Run
  BY DEF Write, RowWrites, QueueWrites, RunWrites
<1> QED
  BY <1>1 DEF Proper, Starts, Closing

LEMMA WriteOnward ==
  ASSUME RunsInv, RunTables, NEW todo \in Seq(Write), 1 \in DOMAIN todo, Proper(todo),
         NEW w \in Write, w = todo[1], RunsWritten(w)
  PROVE  /\ Onward
         /\ \A r \in Run : Present(r)' <=> Present(r)
         /\ \A r \in Run : runs'[r] = runs[r] \/ (w.do = "run" /\ w.run = r /\ runs'[r] = w.row)
<1>1. \A r \in Run : runs'[r] = runs[r] \/ (w.do = "run" /\ w.run = r /\ runs'[r] = w.row)
  BY DEF RunsWritten, RunsInv
<1>2. ASSUME NEW r \in Run, w.do = "run", w.run = r, runs'[r] = w.row
      PROVE  Present(r) /\ Present(r)' /\ (runs[r].status = "completed" => runs'[r].status = "completed")
  <2>1. CASE Closing(w)
    BY <1>2, <2>1, FirstWrite DEF Closing, Present
  <2>2. CASE Starts(w)
    <3>1. Starting(r) /\ w.row.status # "absent"
      BY <1>2, <2>2, FirstWrite
    <3> QED
      BY <1>2, <3>1, StartingIs DEF Present
  <2> QED
    BY <1>2, <2>1, <2>2 DEF Closing, Starts
<1>3. \A r \in Run : Present(r)' <=> Present(r)
  BY <1>1, <1>2 DEF Present
<1>4. \A r \in Run : runs[r].status = "completed" => runs'[r].status = "completed"
  BY <1>1, <1>2
<1>5. \A r \in plans' \ plans : r \in Run /\ Newest(r) /\ Clear(r) /\ Present(r)
  <2> SUFFICES ASSUME NEW r \in plans' \ plans PROVE r \in Run /\ Newest(r) /\ Clear(r) /\ Present(r)
    OBVIOUS
  <2>1. w.do = "register" /\ w.run = r
    BY DEF RunsWritten
  <2>2. r \in Run /\ Starting(r) /\ Clear(r)
    BY <2>1, FirstWrite
  <2> QED
    BY <2>2, StartingIs DEF Starting
<1> QED
  BY <1>1, <1>3, <1>4, <1>5 DEF Onward

\* What the jobs of a run and their ends come to.
LEMMA EndsByTail ==
  ASSUME NEW todo \in Seq(Write), NEW rest \in Seq(Write), NEW w \in Write, 1 \in DOMAIN todo,
         w = todo[1], \A i \in DOMAIN todo : i = 1 \/ (i - 1 \in DOMAIN rest /\ rest[i - 1] = todo[i]),
         NEW j \in Job, Keeps(jobs[j], jobs'[j]), jobs'[j] = IF IsRow(w) /\ w.job = j THEN w.row ELSE jobs[j],
         NEW k \in Nat \ {0}, k + 1 \in DOMAIN todo, NEW e, EndsBy(todo, k + 1, j, e)
  PROVE  EndsBy(rest, k, j, e)'
<1>a. (k + 1) - 1 = k
  OBVIOUS
<1>1. CASE Completed(jobs[j]) /\ jobs[j].rest.conclusion = e
  BY <1>1 DEF Keeps, EndsBy
<1>2. CASE \E i \in 1..k : /\ IsRow(todo[i]) /\ todo[i].job = j
                           /\ Completed(todo[i].row) /\ todo[i].row.rest.conclusion = e
  <2>1. PICK i \in 1..k : /\ IsRow(todo[i]) /\ todo[i].job = j
                          /\ Completed(todo[i].row) /\ todo[i].row.rest.conclusion = e
    BY <1>2
  <2>2. CASE i = 1
    BY <2>1, <2>2 DEF EndsBy
  <2>3. CASE i # 1
    <3>1. i \in DOMAIN todo /\ i - 1 \in 1..(k - 1)
      <4>1. DOMAIN todo = 1..Len(todo) /\ Len(todo) \in Nat
        OBVIOUS
      <4> QED
        BY <2>3, <4>1
    <3>2. rest[i - 1] = todo[i]
      BY <2>3, <3>1
    <3> QED
      BY <2>1, <3>1, <3>2 DEF EndsBy
  <2> QED
    BY <2>2, <2>3
<1> QED
  BY <1>1, <1>2, <1>a DEF EndsBy

LEMMA ProperTail ==
  ASSUME RunsInv, RunTables, NEW todo \in Seq(Write), todo # <<>>, Proper(todo),
         NEW w \in Write, w = todo[1], RunsWritten(w), NEW rest, rest = Tail(todo),
         \A j \in Job : /\ Keeps(jobs[j], jobs'[j])
                        /\ jobs'[j] = IF IsRow(w) /\ w.job = j THEN w.row ELSE jobs[j],
         \A j \in Job : w.do = "update" => (Exists(j)' <=> Exists(j))
  PROVE  Proper(rest)'
<1>1. /\ 1 \in DOMAIN todo /\ rest \in Seq(Write)
      /\ \A i \in DOMAIN rest : i \in Nat \ {0} /\ i + 1 \in DOMAIN todo /\ rest[i] = todo[i + 1]
      /\ \A i \in DOMAIN todo : i = 1 \/ (i - 1 \in DOMAIN rest /\ rest[i - 1] = todo[i])
  BY TailIs
<1>2. /\ Onward
      /\ \A r \in Run : Present(r)' <=> Present(r)
  BY <1>1, WriteOnward
<1>3. ASSUME NEW k \in DOMAIN rest, NEW dos, Behind(todo, k + 1, dos)
      PROVE  w.do \in dos /\ Behind(rest, k, dos)'
  <2>1. k \in Nat \ {0} /\ (k + 1) - 1 = k /\ 1 \in 1..k
    BY <1>1
  <2>2. \A i \in 1..(k - 1) : i \in DOMAIN rest /\ i + 1 \in 1..k
    <3>1. DOMAIN rest = 1..Len(rest) /\ Len(rest) \in Nat
      BY <1>1
    <3> QED
      BY <2>1, <3>1
  <2>3. \A i \in 1..k : todo[i].do \in dos
    BY <1>3, <2>1 DEF Behind
  <2>4. \A i \in 1..(k - 1) : rest[i].do \in dos
    BY <1>1, <2>2, <2>3
  <2>5. w.do \in dos
    BY <2>1, <2>3
  <2> QED
    BY <2>4, <2>5 DEF Behind
<1>4. ASSUME w.do \in {"create", "update"}
      PROVE  /\ runs' = runs /\ plans' \subseteq plans
  BY <1>4 DEF RunsWritten
<1>5. ASSUME w.do \in {"create", "register"} PROVE runs' = runs
  BY <1>5 DEF RunsWritten
<1>6. ASSUME runs' = runs, NEW r PROVE Starting(r)' <=> Starting(r)
  BY <1>6 DEF Starting, Newest, Present
<1>7. ASSUME w.do = "create", NEW r, Clear(r) PROVE Clear(r)'
  <2>1. Older(r)' \subseteq Older(r)
    BY <1>4, <1>7 DEF Older
  <2> QED
    BY <1>7, <2>1 DEF Clear
<1> SUFFICES ASSUME NEW k \in DOMAIN rest
             PROVE  (/\ rest[k].do = "create" => Starting(Plan[rest[k].job].run) /\ Behind(rest, k, {"create"})
                     /\ rest[k].do = "register" => /\ Starting(rest[k].run) /\ Clear(rest[k].run)
                                                   /\ Behind(rest, k, {"create"})
                     /\ Starts(rest[k]) => /\ Starting(rest[k].run) /\ rest[k].row.status # "absent"
                                           /\ Behind(rest, k, {"create", "register"})
                     /\ Closing(rest[k]) => Present(rest[k].run) /\ Settles(rest, k)
                     /\ \A j \in Job : Opens(rest[k], j) => Passing(Plan[j].run))'
  BY DEF Proper
<1>8. k + 1 \in DOMAIN todo /\ rest[k] = todo[k + 1] /\ k \in Nat \ {0} /\ rest[k] \in Write
  BY <1>1
<1>9. rest[k].do = "create" => (Starting(Plan[rest[k].job].run) /\ Behind(rest, k, {"create"}))'
  BY <1>3, <1>4, <1>6, <1>8 DEF Proper
<1>10. rest[k].do = "register" =>
         (Starting(rest[k].run) /\ Clear(rest[k].run) /\ Behind(rest, k, {"create"}))'
  BY <1>3, <1>4, <1>6, <1>7, <1>8 DEF Proper
<1>11. Starts(rest[k]) => /\ Starting(rest[k].run)' /\ rest[k].row.status # "absent"
                          /\ Behind(rest, k, {"create", "register"})'
  BY <1>3, <1>5, <1>6, <1>8 DEF Proper
<1>12. ASSUME Closing(rest[k]) PROVE Present(rest[k].run)' /\ Settles(rest, k)'
  <2>1. rest[k].run \in Run
    BY <1>8, <1>12 DEF Closing, Write, RowWrites, QueueWrites, RunWrites
  <2>2. Present(rest[k].run) /\ Settles(todo, k + 1)
    BY <1>8, <1>12 DEF Proper
  <2>3. w.do = "update" /\ Behind(rest, k, {"update"})'
    BY <1>3, <2>2 DEF Settles
  <2>4. Filed(rest[k].run)' = Filed(rest[k].run)
    BY <2>3 DEF Filed, JobsOf
  <2>5. PICK s : /\ rest[k].row.conclusion = Aggregate({s[j] : j \in Filed(rest[k].run)})
                 /\ \A j \in Filed(rest[k].run) : EndsBy(todo, k + 1, j, s[j])
    BY <1>8, <2>2 DEF Settles
  <2>6. \A j \in Filed(rest[k].run) : EndsBy(rest, k, j, s[j])'
    <3> SUFFICES ASSUME NEW j \in Filed(rest[k].run) PROVE EndsBy(rest, k, j, s[j])'
      OBVIOUS
    <3>1. j \in Job
      BY DEF Filed, JobsOf
    <3> QED
      BY <1>1, <1>8, <2>5, <3>1, EndsByTail
  <2>7. Settles(rest, k)'
    BY <2>3, <2>4, <2>5, <2>6 DEF Settles
  <2> QED
    BY <1>2, <2>1, <2>2, <2>7
<1>13. ASSUME NEW j \in Job, Opens(rest[k], j) PROVE Passing(Plan[j].run)'
  <2>1. Passing(Plan[j].run) /\ Plan[j].run \in Run
    BY <1>8, <1>13, PlanAssumption DEF Proper
  <2> QED
    BY <1>2, <2>1, PassingKept
<1> QED
  BY <1>9, <1>10, <1>11, <1>12, <1>13

LEMMA SupersedingTail ==
  ASSUME RunsInv, NEW c, NEW todo \in Seq(Write), todo # <<>>, c.todo = todo, c.run \in Run,
         Superseding(c), NEW w \in Write, w = todo[1], RunsWritten(w), Onward,
         \A r \in Run : Present(r)' <=> Present(r),
         \A r \in Run : runs'[r] = runs[r] \/ (w.do = "run" /\ w.run = r /\ runs'[r] = w.row),
         NEW d, d.todo = Tail(todo), d.run = c.run, d.left = c.left
  PROVE  Superseding(d)'
<1> DEFINE rest == Tail(todo)
<1>1. /\ 1 \in DOMAIN todo /\ rest \in Seq(Write)
      /\ \A i \in DOMAIN rest : i \in Nat \ {0} /\ i + 1 \in DOMAIN todo /\ rest[i] = todo[i + 1]
      /\ \A i \in DOMAIN todo : i = 1 \/ (i - 1 \in DOMAIN rest /\ rest[i - 1] = todo[i])
  BY TailIs
<1> HIDE DEF rest
<1>2. w.do \notin {"create", "register"} /\ (w.do = "run" => w.run # c.run)
  BY <1>1 DEF Superseding
<1>3. Starting(d.run)'
  BY <1>2 DEF Superseding, Starting, Newest
<1>4. \A k \in DOMAIN rest : /\ rest[k].do \notin {"create", "register"}
                             /\ rest[k].do = "run" => rest[k].run # d.run
  BY <1>1 DEF Superseding
<1>5. ASSUME NEW o \in Older(d.run)'
      PROVE  o \in Older(c.run) /\ o \in Run /\ runs'[o].status # "completed"
  <2>1. /\ o \in plans' /\ o < d.run /\ RunPlan[o].group # "" /\ RunPlan[o].group = RunPlan[d.run].group
        /\ runs'[o].status # "completed"
    BY <1>5 DEF Older
  <2>2. o \in plans /\ o \in Run
    BY <1>2, <2>1 DEF RunsWritten, RunsInv
  <2>3. runs[o].status # "completed"
    BY <2>1, <2>2 DEF Onward
  <2> QED
    BY <2>1, <2>2, <2>3 DEF Older
<1>6. ASSUME RunPlan[d.run].cancelInProgress, NEW o \in Older(d.run)', o \notin d.left
      PROVE  \E k \in DOMAIN rest : Closing(rest[k]) /\ rest[k].run = o
  <2>1. PICK k \in DOMAIN todo : Closing(todo[k]) /\ todo[k].run = o
    BY <1>5, <1>6 DEF Superseding
  <2>2. k # 1
    <3> SUFFICES ASSUME k = 1 PROVE FALSE
      OBVIOUS
    <3>1. w.do = "run" /\ w.run = o /\ w.row.status = "completed"
      BY <2>1 DEF Closing
    <3>2. runs' = [runs EXCEPT ![o] = w.row]
      BY <3>1 DEF RunsWritten
    <3>3. runs'[o] = w.row
      BY <1>5, <3>2 DEF RunsInv
    <3> QED
      BY <1>5, <3>1, <3>3
  <2> QED
    BY <1>1, <2>1, <2>2
<1> QED
  BY <1>3, <1>4, <1>6 DEF Superseding, rest

LEMMA RunWriteStep ==
  ASSUME OneAtATime, SchedInv, SerialInv, GateInv, RunInv, NEW t \in Call, WriteStep(t)
  PROVE  RunInv'
<1> DEFINE c == calls[t]
           w == Head(c.todo)
<1>1. /\ c \in CallState /\ CallOK(c) /\ c.todo \in Seq(Write) /\ c.todo # <<>> /\ RunCall(c)
  BY CallFacts DEF WriteStep, RunInv
<1>2. w \in Write /\ w = c.todo[1] /\ 1 \in DOMAIN c.todo
  BY <1>1, TailIs
<1>a. PICK on : on = [c EXCEPT !.todo = Tail(c.todo)]
  OBVIOUS
<1>3. /\ Goes(t, on) \/ Returns(t)
      /\ RunsWritten(w)
      /\ w.do = "update" => UpdateJob(w.job, w.row)
  BY <1>a DEF WriteStep, RunsWritten
<1>4. on.todo = Tail(c.todo) /\ on.at = c.at /\ on.run = c.run /\ on.left = c.left
  BY <1>1, <1>a DEF CallState
<1>5. \A j \in Job : /\ Keeps(jobs[j], jobs'[j])
                     /\ jobs'[j] = IF IsRow(w) /\ w.job = j THEN w.row ELSE jobs[j]
  <2>1. \A j \in Job : jobs'[j] = IF IsRow(w) /\ w.job = j THEN w.row ELSE jobs[j]
    BY WriteEnds
  <2>2. \A j \in Job : Keeps(jobs[j], jobs'[j])
    BY WriteEnds
  <2> QED
    BY <2>1, <2>2
<1>6. RunsInv /\ RunTables /\ Proper(c.todo)
  BY <1>1 DEF SchedInv, RunInv, RunCall
<1> HIDE DEF w
<1>7. /\ Onward
      /\ \A r \in Run : Present(r)' <=> Present(r)
      /\ \A r \in Run : runs'[r] = runs[r] \/ (w.do = "run" /\ w.run = r /\ runs'[r] = w.row)
  BY <1>1, <1>2, <1>3, <1>6, WriteOnward
<1>8. /\ w.do = "create" => w.job \in Job /\ Starting(Plan[w.job].run)
      /\ Closing(w) => w.run \in Run /\ Present(w.run) /\ Settles(c.todo, 1)
      /\ Starts(w) => w.row.status # "completed"
      /\ \A j \in Job : Opens(w, j) => Passing(Plan[j].run)
  BY <1>1, <1>2, <1>6, FirstWrite DEF Starts
<1>9. \A j \in Job : Exists(j)' => Exists(j) \/ (w.do = "create" /\ w.job = j)
  <2> SUFFICES ASSUME NEW j \in Job, Exists(j)', ~Exists(j) PROVE w.do = "create" /\ w.job = j
    OBVIOUS
  <2>1. IsRow(w) /\ w.job = j
    BY <1>5 DEF Exists
  <2>2. w.do # "update"
    BY <1>3, <2>1 DEF UpdateJob
  <2> QED
    BY <2>1, <2>2 DEF IsRow
<1>10. \A j \in Job : w.do = "update" => (Exists(j)' <=> Exists(j))
  <2> SUFFICES ASSUME NEW j \in Job, w.do = "update", Exists(j) PROVE Exists(j)'
    BY <1>9
  <2>1. w.row.status # "absent"
    BY <1>2 DEF Write, RowWrites, QueueWrites, RunWrites, Kept
  <2> QED
    BY <1>5, <2>1 DEF Exists
<1> HIDE DEF c
<1>11. \A j \in Job : Admitted(j)' => Passing(Plan[j].run)'
  <2> SUFFICES ASSUME NEW j \in Job, Admitted(j)' PROVE Passing(Plan[j].run)'
    OBVIOUS
  <2>1. CASE IsRow(w) /\ w.job = j
    <3>1. Open(w.row)
      BY <1>5, <2>1 DEF Admitted, Open
    <3>2. Opens(w, j)
      BY <2>1, <3>1 DEF Opens, IsRow
    <3> QED
      BY <1>6, <1>7, <1>8, <3>2, PassingKept, PlanAssumption
  <2>2. CASE ~(IsRow(w) /\ w.job = j)
    <3>1. Admitted(j)
      BY <1>5, <2>2 DEF Admitted
    <3>2. Passing(Plan[j].run) /\ Plan[j].run \in Run
      BY <1>6, <3>1, PlanAssumption DEF RunTables
    <3> QED
      BY <1>6, <1>7, <3>2, PassingKept
  <2> QED
    BY <2>1, <2>2
<1>12. ASSUME NEW r \in Run, runs'[r].status = "completed" PROVE SettledRun(r)'
  <2>1. CASE runs'[r] = runs[r]
    <3>1. SettledRun(r)
      BY <1>6, <1>12, <2>1 DEF RunTables
    <3>2. \A j \in JobsOf(r) : Exists(j)' => Exists(j)
      BY <1>8, <1>9, <1>12, <2>1 DEF JobsOf, Starting
    <3> QED
      BY <1>5, <2>1, <3>1, <3>2, SettledKept
  <2>2. CASE w.do = "run" /\ w.run = r /\ runs'[r] = w.row
    <3>1. Settles(c.todo, 1)
      BY <1>8, <1>12, <2>2 DEF Closing
    <3>2. PICK s : /\ w.row.conclusion = Aggregate({s[j] : j \in Filed(r)})
                   /\ \A j \in Filed(r) : EndsBy(c.todo, 1, j, s[j])
      BY <1>2, <2>2, <3>1 DEF Settles
    <3>3. 1..(1 - 1) = {}
      OBVIOUS
    <3>4. \A j \in Filed(r) : Completed(jobs[j]) /\ jobs[j].rest.conclusion = s[j]
      BY <3>2, <3>3 DEF EndsBy
    <3>5. \A j \in Job : jobs'[j] = jobs[j]
      BY <1>5, <2>2 DEF IsRow
    <3>6. Filed(r)' = Filed(r) /\ \A j \in Filed(r) : j \in Job
      BY <3>5 DEF Filed, JobsOf, Exists
    <3> DEFINE as == {s[j] : j \in Filed(r)}
               bs == {jobs'[j].rest.conclusion : j \in Filed(r)'}
    <3>7. as = bs
      BY <3>4, <3>5, <3>6
    <3>8. runs'[r].conclusion = Aggregate(as)
      BY <2>2, <3>2
    <3> HIDE DEF as
    <3>9. runs'[r].conclusion = Aggregate(bs)
      BY <3>7, <3>8
    <3>10. \A j \in Filed(r)' : Completed(jobs'[j])
      BY <3>4, <3>5, <3>6
    <3> QED
      BY <3>9, <3>10 DEF SettledRun
  <2> QED
    BY <1>7, <2>1, <2>2
<1>13. \A o, r \in Run : o < r /\ Present(r)' => Present(o)'
  BY <1>6, <1>7 DEF RunTables
<1>14. \A r \in plans' : Present(r)' /\ Clear(r)'
  BY <1>6, <1>7, ClearKept
<1>15. RunTables'
  BY <1>11, <1>12, <1>13, <1>14 DEF RunTables
<1>16. RunCall(on)'
  <2>1. PICK todo \in Seq(Write) : todo = c.todo /\ todo # <<>> /\ w = todo[1]
    BY <1>1, <1>2
  <2>2. PICK rest : rest = Tail(todo) /\ on.todo = rest
    BY <1>4, <2>1
  <2>3. Proper(rest)'
    BY <1>2, <1>3, <1>5, <1>6, <1>10, <2>1, <2>2, ProperTail
  <2>4. ASSUME on.at = "supersede" PROVE Superseding(on)'
    <3>1. c.run \in Run /\ Superseding(c)
      BY <1>1, <1>4, <2>4 DEF CallOK, RunCall
    <3> QED
      BY <1>2, <1>3, <1>4, <1>6, <1>7, <2>1, <2>2, <3>1, SupersedingTail
  <2>5. ASSUME on.at \in {"gate", "admit"} PROVE Present(on.run)'
    <3>1. c.run \in Run /\ Present(c.run)
      BY <1>1, <1>4, <2>5 DEF CallOK, RunCall
    <3> QED
      BY <1>4, <1>7, <3>1
  <2>6. ASSUME on.at = "admit" PROVE Passing(on.run)'
    <3>1. c.run \in Run /\ Passing(c.run)
      BY <1>1, <1>4, <2>6 DEF CallOK, RunCall
    <3> QED
      BY <1>4, <1>6, <1>7, <3>1, PassingKept
  <2>7. Proper(on.todo)'
    BY <2>2, <2>3
  <2> QED
    BY <2>4, <2>5, <2>6, <2>7 DEF RunCall
<1>17. PICK d : calls' = [calls EXCEPT ![t] = d] /\ RunCall(d)'
  BY <1>3, <1>16, IdleRun DEF Goes, Returns
<1>18. ASSUME NEW u \in Call PROVE calls'[u] = d
  BY <1>17 DEF SchedInv, CallsInv, OneAtATime
<1> QED
  BY <1>15, <1>17, <1>18 DEF RunInv, RunCall

-----------------------------------------------------------------------------
\* Writes that let in jobs of runs that may, and are none of runs.

Lawful ==
  {w \in Write : w.do \in {"update", "offer", "drop"} /\ \A j \in Job : Opens(w, j) => Passing(Plan[j].run)}

LEMMA LawfulWrites ==
  ASSUME NEW todo \in Seq(Lawful)
  PROVE  /\ todo \in Seq(Write)
         /\ \A k \in DOMAIN todo : todo[k] \in Write /\ todo[k].do \in {"update", "offer", "drop"}
         /\ \A k \in DOMAIN todo, j \in Job : Opens(todo[k], j) => Passing(Plan[j].run)
<1>1. ASSUME NEW k \in DOMAIN todo PROVE todo[k] \in Lawful
  OBVIOUS
<1>2. Lawful \subseteq Write
  BY DEF Lawful
<1>3. todo \in Seq(Write)
  BY <1>2
<1> QED
  BY <1>1, <1>3 DEF Lawful

LEMMA LawfulProper ==
  ASSUME NEW todo \in Seq(Lawful)
  PROVE  /\ Proper(todo)
         /\ RunsInv /\ Onward => Proper(todo)'
<1>1. \A k \in DOMAIN todo : /\ todo[k].do \notin {"create", "register"}
                             /\ ~Starts(todo[k]) /\ ~Closing(todo[k])
  BY LawfulWrites DEF Starts, Closing
<1>2. \A k \in DOMAIN todo, j \in Job : Opens(todo[k], j) => Passing(Plan[j].run)
  BY LawfulWrites
<1>3. Proper(todo)
  BY <1>1, <1>2 DEF Proper
<1>4. ASSUME RunsInv, Onward PROVE Proper(todo)'
  <2>1. \A k \in DOMAIN todo, j \in Job : Opens(todo[k], j) => Passing(Plan[j].run)'
    BY <1>2, <1>4, PassingKept, PlanAssumption
  <2> QED
    BY <1>1, <2>1 DEF Proper
<1> QED
  BY <1>3, <1>4

LEMMA LawfulUpdate ==
  ASSUME NEW j \in Job, NEW row \in Kept(j), Open(row) => Passing(Plan[j].run)
  PROVE  Update(j, row) \in Seq(Lawful)
<1> DEFINE w == [do |-> "update", job |-> j, row |-> row]
<1>1. w \in Write /\ w.do = "update" /\ w.job = j /\ w.row = row
  BY DEF Write, RowWrites, Kept
<1>2. Update(j, row) = <<w>>
  BY DEF Update
<1> HIDE DEF w
<1>3. w \in Lawful
  BY <1>1 DEF Lawful, Opens, IsRow
<1> QED
  BY <1>2, <1>3

LEMMA LawfulOffers ==
  ASSUME NEW j \in Job, Passing(Plan[j].run)
  PROVE  /\ Offer(j) \in Seq(Lawful) /\ Drop(j) \in Seq(Lawful)
         /\ \A row \in SchedRow : OfferRetry(j, row) \in Seq(Lawful)
<1> DEFINE d == [do |-> "drop", job |-> j]
           o == [do |-> "offer", job |-> j, attempt |-> 0, ready |-> TRUE]
<1>1. d \in Write /\ d.do = "drop" /\ o \in Write /\ o.do = "offer" /\ o.job = j
  BY DEF Write, QueueWrites
<1>2. Drop(j) = <<d>> /\ Offer(j) = <<o>>
  BY DEF Drop, Offer
<1> HIDE DEF d, o
<1>3. d \in Lawful /\ o \in Lawful
  BY <1>1 DEF Lawful, Opens, IsRow
<1>4. ASSUME NEW row \in SchedRow PROVE OfferRetry(j, row) \in Seq(Lawful)
  <2> DEFINE e == [do |-> "offer", job |-> j, attempt |-> row.attempt, ready |-> FALSE]
  <2>1. row.attempt \in Nat
    BY DEF SchedRow
  <2>2. e \in Write /\ e.do = "offer" /\ e.job = j
    BY <2>1 DEF Write, QueueWrites
  <2>3. OfferRetry(j, row) = <<e>>
    BY DEF OfferRetry
  <2> HIDE DEF e
  <2>4. e \in Lawful
    BY <2>2 DEF Lawful, Opens, IsRow
  <2> QED
    BY <2>3, <2>4
<1> QED
  BY <1>2, <1>3, <1>4

LEMMA LawfulFinish ==
  ASSUME NEW j \in Job, NEW row \in Kept(j), NEW res \in AnyResult, NEW allow \in BOOLEAN,
         Passing(Plan[j].run)
  PROVE  FinishWrites(j, row, res, allow) \in Seq(Lawful)
<1> DEFINE end == FinishedRow(j, row, res, allow)
<1>1. end \in Kept(j) /\ end \in SchedRow
  BY FinishedRowKept DEF Kept
<1>2. FinishWrites(j, row, res, allow) =
        IF Completed(end) THEN Update(j, end) ELSE Update(j, end) \o Drop(j) \o OfferRetry(j, end)
  BY DEF FinishWrites
<1> HIDE DEF end
<1>3. Update(j, end) \in Seq(Lawful) /\ Drop(j) \in Seq(Lawful) /\ OfferRetry(j, end) \in Seq(Lawful)
  BY <1>1, LawfulUpdate, LawfulOffers
<1>4. Update(j, end) \o Drop(j) \o OfferRetry(j, end) \in Seq(Lawful)
  BY <1>3
<1> QED
  BY <1>2, <1>3, <1>4

\* A call that has decided on such writes.
LEMMA RunPlain ==
  ASSUME OneAtATime, SchedInv, RunInv, UNCHANGED <<jobs, runs, plans>>,
         NEW t \in Call, NEW c, c.todo \in Seq(Lawful), c.at # "supersede",
         c.at \in {"gate", "admit"} => Present(c.run), c.at = "admit" => Passing(c.run),
         Goes(t, c) \/ Returns(t)
  PROVE  RunInv'
<1>1. RunCall(c)
  BY LawfulProper DEF RunCall
<1> QED
  BY <1>1, RunDecides

\* One that has nothing to write.
LEMMA RunBare ==
  ASSUME OneAtATime, SchedInv, RunInv, UNCHANGED <<jobs, runs>>, plans' \subseteq plans,
         NEW t \in Call, NEW c, c.todo = <<>>, c.at \notin {"supersede", "gate", "admit"},
         Goes(t, c) \/ Returns(t)
  PROVE  RunInv'
<1>1. RunCall(c)'
  BY BareRun
<1>2. /\ \A j \in Job : Keeps(jobs[j], jobs'[j]) /\ (Exists(j)' => Exists(j))
      /\ \A j \in Job : Admitted(j)' => Admitted(j)
  BY KeepsItself DEF Exists, Admitted
<1> QED
  BY <1>1, <1>2, RunGoes

-----------------------------------------------------------------------------
\* What closes a run.

\* Two writes more.
Ends(v, s, p, q) ==
  /\ DOMAIN v = 1..(Len(s) + 2) /\ DOMAIN s = 1..Len(s) /\ Len(s) \in Nat
  /\ \A i \in DOMAIN s : v[i] = s[i]
  /\ v[Len(s) + 1] = p /\ v[Len(s) + 2] = q

LEMMA EndsIs ==
  ASSUME NEW s \in Seq(Write), NEW p \in Write, NEW q \in Write
  PROVE  Ends(s \o (<<p>> \o <<q>>), s, p, q)
<1> DEFINE u == <<p>> \o <<q>>
           v == s \o u
<1>1. u \in Seq(Write) /\ Len(u) = 2 /\ DOMAIN u = {1, 2} /\ u[1] = p /\ u[2] = q
  OBVIOUS
<1> HIDE DEF u
<1>2. /\ Len(s) \in Nat /\ DOMAIN s = 1..Len(s) /\ DOMAIN v = 1..(Len(s) + Len(u))
      /\ \A i \in DOMAIN s : v[i] = s[i]
      /\ \A i \in DOMAIN u : v[Len(s) + i] = u[i]
  BY <1>1, ConcatIs
<1> HIDE DEF v
<1>3. Ends(v, s, p, q)
  BY <1>1, <1>2 DEF Ends
<1> QED
  BY <1>3 DEF v, u

\* The writes that close the run r, and what else they write.
Shuts(todo, r) ==
  /\ \A k \in DOMAIN todo : /\ todo[k].do \in {"update", "run", "forget"}
                            /\ todo[k].do = "run" => todo[k].run = r
  /\ \E k \in DOMAIN todo : Closing(todo[k]) /\ todo[k].run = r

LEMMA ShutsProper ==
  ASSUME NEW s \in Seq(Write), NEW r \in Run, Present(r), NEW row \in SchedRun,
         row.status = "completed", NEW e, row.conclusion = Aggregate({e[j] : j \in Filed(r)}),
         \A n \in DOMAIN s : s[n].do = "update" /\ ~Open(s[n].row),
         \A j \in Filed(r) : \/ Completed(jobs[j]) /\ jobs[j].rest.conclusion = e[j]
                             \/ \E n \in DOMAIN s : /\ s[n].job = j /\ Completed(s[n].row)
                                                    /\ s[n].row.rest.conclusion = e[j]
  PROVE  /\ Proper(s \o (UpdateRun(r, row) \o ForgetPlan(r)))
         /\ Shuts(s \o (UpdateRun(r, row) \o ForgetPlan(r)), r)
<1> DEFINE p == [do |-> "run", run |-> r, row |-> row]
           q == [do |-> "forget", run |-> r]
           v == s \o (UpdateRun(r, row) \o ForgetPlan(r))
<1>1. /\ p \in Write /\ p.do = "run" /\ p.run = r /\ p.row = row
      /\ q \in Write /\ q.do = "forget"
  BY DEF Write, RunWrites
<1>2. v = s \o (<<p>> \o <<q>>)
  BY DEF UpdateRun, ForgetPlan
<1> HIDE DEF p, q, v
<1>3. Ends(v, s, p, q)
  BY <1>1, <1>2, EndsIs
<1>4. PICK m \in Nat : m = Len(s)
  BY <1>3 DEF Ends
<1>5. /\ DOMAIN v = 1..(m + 2) /\ DOMAIN s = 1..m
      /\ \A i \in 1..m : v[i] = s[i]
      /\ v[m + 1] = p /\ v[m + 2] = q
  BY <1>3, <1>4 DEF Ends
<1>6. \A i \in DOMAIN v : i \in 1..m \/ i = m + 1 \/ i = m + 2
  BY <1>5
<1>7. \A i \in 1..m : v[i].do = "update" /\ ~Open(v[i].row)
  BY <1>5
<1>8. ASSUME NEW k \in DOMAIN v
      PROVE  /\ v[k].do \in {"update", "run", "forget"} /\ (v[k].do = "run" => k = m + 1)
             /\ \A j \in Job : ~Opens(v[k], j)
  BY <1>1, <1>5, <1>6, <1>7 DEF Opens, IsRow
<1>9. (m + 1) - 1 = m /\ m + 1 \in DOMAIN v
  BY <1>5
<1>10. Settles(v, m + 1)
  <2>1. Behind(v, m + 1, {"update"})
    BY <1>7, <1>9 DEF Behind
  <2>2. ASSUME NEW j \in Filed(r) PROVE EndsBy(v, m + 1, j, e[j])
    <3>1. CASE Completed(jobs[j]) /\ jobs[j].rest.conclusion = e[j]
      BY <3>1 DEF EndsBy
    <3>2. CASE \E n \in DOMAIN s : /\ s[n].job = j /\ Completed(s[n].row)
                                   /\ s[n].row.rest.conclusion = e[j]
      <4>1. PICK n \in 1..m : /\ s[n].job = j /\ Completed(s[n].row)
                              /\ s[n].row.rest.conclusion = e[j]
        BY <1>5, <3>2
      <4>2. v[n] = s[n] /\ IsRow(v[n])
        BY <1>5, <1>7 DEF IsRow
      <4> QED
        BY <1>9, <4>1, <4>2 DEF EndsBy
    <3> QED
      BY <3>1, <3>2
  <2>3. v[m + 1].row.conclusion = Aggregate({e[j] : j \in Filed(v[m + 1].run)})
    BY <1>1, <1>5
  <2>4. \A j \in Filed(v[m + 1].run) : EndsBy(v, m + 1, j, e[j])
    BY <1>1, <1>5, <2>2
  <2> QED
    BY <2>1, <2>3, <2>4 DEF Settles
<1>11. Closing(v[m + 1]) /\ v[m + 1].run = r
  BY <1>1, <1>5 DEF Closing
<1>12. Proper(v)
  BY <1>8, <1>10, <1>11 DEF Proper, Starts, Closing
<1>13. Shuts(v, r)
  BY <1>8, <1>9, <1>11 DEF Shuts
<1> QED
  BY <1>12, <1>13 DEF v

\* A run is stopped.
LEMMA StopShuts ==
  ASSUME TablesInv, SerialInv, NEW r \in Run, Present(r), NEW rrow \in SchedRun, NEW res \in AnyResult
  PROVE  /\ Proper(StopRunWrites(r, rrow, SnapOf(r), res))
         /\ Shuts(StopRunWrites(r, rrow, SnapOf(r), res), r)
<1> DEFINE snap == SnapOf(r)
           end == Stopped(snap, res)
           live == Live(snap)
           g == [j \in Job |-> Finished(jobs[j], res)]
           f == [j \in live |-> Update(j, Finished(snap[j], res))]
           e == [j \in DOMAIN end |-> end[j].rest.conclusion]
<1>1. /\ snap \in Snaps /\ DOMAIN snap \in SUBSET Job /\ DOMAIN snap = Filed(r)
      /\ live \in SUBSET Job /\ live \in SUBSET Filed(r)
      /\ \A j \in DOMAIN snap : /\ snap[j] = jobs[j] /\ jobs[j] \in Kept(j) /\ jobs[j] \in SchedRow
                                /\ Sane(jobs[j]) /\ (j \notin live => Completed(jobs[j]))
  <2>1. DOMAIN snap = Filed(r)
    BY DEF SnapOf, Filed
  <2>2. \A j \in DOMAIN snap : Sane(jobs[j])
    BY SnapOfType DEF SerialInv, SerialTables
  <2> QED
    BY <2>1, <2>2, SnapOfType, SnapIs DEF Live
<1>2. ASSUME NEW j \in live
      PROVE  /\ f[j] = Update(j, g[j]) /\ f[j] \in Seq(Write)
             /\ g[j] = Finished(jobs[j], res) /\ Completed(g[j]) /\ ~Open(g[j])
  <2>1. /\ Finished(jobs[j], res) \in Kept(j) /\ Completed(Finished(jobs[j], res))
        /\ ~Open(Finished(jobs[j], res)) /\ j \in Job
    BY <1>1, FinishedKept, SaneFinished DEF Completed
  <2>2. f[j] = Update(j, Finished(jobs[j], res)) /\ g[j] = Finished(jobs[j], res)
    BY <1>1
  <2> HIDE DEF f, g
  <2> QED
    BY <2>1, <2>2, RowWrite
<1>3. f \in [live -> Seq(Write)]
  BY <1>2
<1>4. DOMAIN end = Filed(r) /\ \A j \in Filed(r) : end[j] = IF j \in live THEN g[j] ELSE jobs[j]
  BY <1>1 DEF Stopped
<1>5. end \in Snaps
  BY <1>1, StoppedSnap
<1>6. PICK row \in SchedRun : row = [rrow EXCEPT !.cancel = res.cancel]
  BY DEF SchedRun, AnyResult
<1>7. StopRunWrites(r, rrow, snap, res) = ForEach(f) \o FinalizeWrites(r, row, end)
  BY <1>6 DEF StopRunWrites, StopWrites
<1> HIDE DEF f, g, end, live, snap
<1>8. UpdatesOf(ForEach(f), live, g) /\ ForEach(f) \in Seq(Write)
  BY <1>1, <1>2, <1>3, UpdatesLoop, LoopRounds
<1>9. Live(end) = {}
  BY <1>1, <1>2, <1>4 DEF Live
<1> DEFINE cs == {end[j].rest.conclusion : j \in DOMAIN end}
           closed == [row EXCEPT !.status = "completed", !.conclusion = Aggregate(cs)]
<1>10. closed \in SchedRun
  BY <1>5, ClosedRunType
<1>11. FinalizeWrites(r, row, end) = UpdateRun(r, closed) \o ForgetPlan(r)
  BY <1>9 DEF FinalizeWrites
<1>12. cs = {e[j] : j \in Filed(r)}
  BY <1>4
<1>13. \A j \in Filed(r) : e[j] = end[j].rest.conclusion
  BY <1>4
<1> HIDE DEF cs, e
<1>14. closed.status = "completed" /\ closed.conclusion = Aggregate({e[j] : j \in Filed(r)})
  BY <1>12 DEF SchedRun
<1> HIDE DEF closed
<1>15. \A n \in DOMAIN ForEach(f) : ForEach(f)[n].do = "update" /\ ~Open(ForEach(f)[n].row)
  BY <1>2, <1>8 DEF UpdatesOf
<1>16. ASSUME NEW j \in Filed(r)
       PROVE  \/ Completed(jobs[j]) /\ jobs[j].rest.conclusion = e[j]
              \/ \E n \in DOMAIN ForEach(f) : /\ ForEach(f)[n].job = j /\ Completed(ForEach(f)[n].row)
                                              /\ ForEach(f)[n].row.rest.conclusion = e[j]
  <2>1. CASE j \notin live
    BY <1>1, <1>4, <1>13, <2>1
  <2>2. CASE j \in live
    <3>1. PICK n \in DOMAIN ForEach(f) : ForEach(f)[n].job = j /\ ForEach(f)[n].row = g[j]
      BY <1>8, <2>2 DEF UpdatesOf
    <3> QED
      BY <1>2, <1>4, <1>13, <2>2, <3>1
  <2> QED
    BY <2>1, <2>2
<1> DEFINE todo == ForEach(f) \o (UpdateRun(r, closed) \o ForgetPlan(r))
<1>17. PICK s \in Seq(Write) : s = ForEach(f)
  BY <1>8
<1>18. Proper(todo) /\ Shuts(todo, r)
  BY <1>10, <1>14, <1>15, <1>16, <1>17, ShutsProper
<1> QED
  BY <1>7, <1>11, <1>18 DEF snap

\* A run is closed from a copy that agrees with the rows.
LEMMA FinalizeProper ==
  ASSUME NEW r \in Run, Present(r), NEW rrow \in SchedRun, NEW snap \in Snaps,
         DOMAIN snap = JobsOf(r), \A j \in DOMAIN snap : Agrees(jobs[j], snap[j])
  PROVE  Proper(FinalizeWrites(r, rrow, snap))
<1>1. CASE Live(snap) # {}
  <2>1. FinalizeWrites(r, rrow, snap) = <<>>
    BY <1>1 DEF FinalizeWrites
  <2> QED
    BY <2>1, ProperNone
<1>2. CASE Live(snap) = {}
  <2> DEFINE cs == {snap[j].rest.conclusion : j \in DOMAIN snap}
             closed == [rrow EXCEPT !.status = "completed", !.conclusion = Aggregate(cs)]
             e == [j \in DOMAIN snap |-> snap[j].rest.conclusion]
  <2>1. closed \in SchedRun
    BY ClosedRunType
  <2>2. FinalizeWrites(r, rrow, snap) = UpdateRun(r, closed) \o ForgetPlan(r)
    BY <1>2 DEF FinalizeWrites
  <2>3. \A j \in DOMAIN snap : /\ Completed(jobs[j]) /\ jobs[j].rest.conclusion = snap[j].rest.conclusion
    BY <1>2 DEF Live, Agrees, Completed
  <2>4. Filed(r) = DOMAIN snap
    BY <2>3 DEF Filed, Exists, Completed
  <2>5. cs = {e[j] : j \in Filed(r)}
    BY <2>4
  <2>6. \A j \in Filed(r) : Completed(jobs[j]) /\ jobs[j].rest.conclusion = e[j]
    BY <2>3, <2>4
  <2> HIDE DEF cs, e
  <2>7. closed.status = "completed" /\ closed.conclusion = Aggregate({e[j] : j \in Filed(r)})
    BY <2>5 DEF SchedRun
  <2> HIDE DEF closed
  <2> DEFINE u == UpdateRun(r, closed) \o ForgetPlan(r)
  <2>8. PICK s \in Seq(Write) : s = <<>> /\ DOMAIN s = {}
    <3> DEFINE s == <<>>
    <3>1. s \in Seq(Write) /\ DOMAIN s = {}
      OBVIOUS
    <3> HIDE DEF s
    <3>2. \E z \in Seq(Write) : z = s /\ DOMAIN z = {}
      BY <3>1
    <3> QED
      BY <3>2 DEF s
  <2>9. Proper(s \o u)
    BY <2>1, <2>6, <2>7, <2>8, ShutsProper
  <2>10. s \o u = u
    <3>1. u \in Seq(Write)
      BY <2>1, RunWrite
    <3> HIDE DEF u
    <3> QED
      BY <2>8, <3>1
  <2> QED
    BY <2>2, <2>9, <2>10
<1> QED
  BY <1>1, <1>2
-----------------------------------------------------------------------------
\* What each step keeps of the runs.

\* A call that has decided what to write, and is done with a run.
LEMMA RunShort ==
  ASSUME OneAtATime, SchedInv, RunInv, UNCHANGED <<jobs, runs, plans>>, NEW t \in Call, NEW c,
         c.at \notin {"supersede", "gate", "admit"}, Proper(c.todo), Goes(t, c) \/ Returns(t)
  PROVE  RunInv'
<1>1. RunCall(c)
  BY DEF RunCall
<1> QED
  BY <1>1, RunDecides

LEMMA RunTickRunTimeout ==
  ASSUME OneAtATime, SchedInv, SerialInv, RunInv, NEW t \in Call, NEW r \in Run, TickRunTimeout(t, r)
  PROVE  RunInv'
<1> DEFINE todo == StopRunWrites(r, runs[r], SnapOf(r), Result("timed_out", "user", "timeout"))
           on == [TickOn(calls[t], TickTracked(calls[t]) \ {r}) EXCEPT !.todo = todo]
<1>1. UNCHANGED <<jobs, runs, plans>> /\ Goes(t, on) /\ r \in plans
  BY DEF TickRunTimeout
<1>2. Present(r)
  BY <1>1 DEF RunInv, RunTables
<1>3. Proper(todo)
  BY <1>2, CallFacts, ResultTypes, StopShuts
<1> HIDE DEF todo
<1>4. on.at \in {"return", "runs"} /\ on.todo = todo
  BY TickOnFields
<1> HIDE DEF on
<1> QED
  BY <1>1, <1>3, <1>4, RunShort

LEMMA RunCancelRun ==
  ASSUME OneAtATime, SchedInv, SerialInv, RunInv, NEW t \in Call, NEW r \in Run, CancelRun(t, r)
  PROVE  RunInv'
<1> DEFINE todo == StopRunWrites(r, runs[r], SnapOf(r), Cancelled("user"))
           on == [Idle EXCEPT !.op = "cancel", !.at = "return", !.todo = todo]
<1>1. UNCHANGED <<jobs, runs, plans>> /\ Goes(t, on) /\ Present(r)
  BY DEF CancelRun, Order, Writes, Present
<1>2. Proper(todo)
  <2>1. Cancelled("user") \in AnyResult
    BY ResultTypes DEF CancelActors
  <2> QED
    BY <1>1, <2>1, CallFacts, StopShuts
<1> HIDE DEF todo
<1>3. on.at = "return" /\ on.todo = todo
  BY WritingFields
<1> HIDE DEF on
<1> QED
  BY <1>1, <1>2, <1>3, RunShort

LEMMA RunTickFinalize ==
  ASSUME OneAtATime, SchedInv, SerialInv, RunInv, NEW t \in Call, TickFinalize(t)
  PROVE  RunInv'
<1> DEFINE c == calls[t]
           todo == FinalizeWrites(c.run, c.rrow, c.snap)
           on == [TickOn(c, c.left) EXCEPT !.todo = todo]
<1>1. UNCHANGED <<jobs, runs, plans>> /\ Goes(t, on)
  BY DEF TickFinalize
<1>2. /\ c.at \in {"gate", "admit"} /\ c.todo = <<>> /\ SerialCall(c) /\ RunCall(c)
      /\ CallOK(c) /\ c.run \in Run /\ c.rrow \in SchedRun /\ c.snap \in Snaps
  BY CallFacts DEF TickFinalize, Admitting, CallOK, SerialInv, RunInv
<1>3. DOMAIN c.snap = JobsOf(c.run) /\ \A j \in DOMAIN c.snap : Agrees(jobs[j], c.snap[j])
  <2>1. DOMAIN c.snap = JobsOf(c.run) /\ Catches(c.todo, c.snap, jobs)
    BY <1>2 DEF SerialCall
  <2>2. PICK none : none = c.todo /\ DOMAIN none = {}
    BY <1>2
  <2> QED
    BY <2>1, <2>2 DEF Catches
<1>4. Present(c.run)
  BY <1>2 DEF RunCall
<1> HIDE DEF c
<1>5. Proper(todo)
  BY <1>2, <1>3, <1>4, FinalizeProper
<1> HIDE DEF todo
<1>6. on.at \in {"return", "runs"} /\ on.todo = todo
  BY TickOnFields
<1> HIDE DEF on
<1> QED
  BY <1>1, <1>5, <1>6, RunShort

LEMMA RunSupersede ==
  ASSUME OneAtATime, SchedInv, SerialInv, RunInv, NEW t \in Call, SupersedeNext(t)
  PROVE  RunInv'
<1> DEFINE c == calls[t]
           o == FirstOf(c.left)
           stop == Cancelled("superseded_by_newer_run")
           over == o \notin plans \/ runs[o].status = "completed"
           todo == IF over THEN <<>> ELSE StopRunWrites(o, runs[o], SnapOf(o), stop)
           on == [c EXCEPT !.left = c.left \ {o}, !.todo = todo]
<1>1. UNCHANGED <<jobs, runs, plans>> /\ Goes(t, on)
  BY DEF SupersedeNext
<1>2. /\ c \in CallState /\ c.at = "supersede" /\ c.todo = <<>> /\ RunCall(c) /\ plans \in SUBSET Run
      /\ c.left \in SUBSET Run /\ c.left # {}
  BY CallFacts DEF SupersedeNext, Deciding, RunInv
<1>3. o \in c.left
  <2>1. c.left \subseteq Nat
    BY <1>2, SchedulerAssumption
  <2> QED
    BY <1>2, <2>1, FirstOfIn
<1>4. stop \in AnyResult
  BY ResultTypes DEF CancelActors
<1>5. Superseding(c)
  BY <1>2 DEF RunCall
<1> HIDE DEF stop, o
<1>6. ~over => Proper(todo) /\ Shuts(todo, o)
  <2> SUFFICES ASSUME ~over PROVE Proper(todo) /\ Shuts(todo, o)
    OBVIOUS
  <2>1. o \in Run /\ runs[o] \in SchedRun /\ Present(o)
    BY <1>2, CallFacts DEF RunInv, RunTables
  <2>2. todo = StopRunWrites(o, runs[o], SnapOf(o), stop)
    OBVIOUS
  <2> HIDE DEF todo, over
  <2> QED
    BY <1>4, <2>1, <2>2, CallFacts, StopShuts
<1>7. over => Proper(todo) /\ DOMAIN todo = {}
  <2>1. over => todo = <<>>
    OBVIOUS
  <2>2. PICK none : none = <<>> /\ DOMAIN none = {} /\ Proper(none)
    <3> DEFINE none == <<>>
    <3>1. DOMAIN none = {} /\ Proper(none)
      BY ProperNone
    <3> HIDE DEF none
    <3>2. \E z : z = none /\ DOMAIN z = {} /\ Proper(z)
      BY <3>1
    <3> QED
      BY <3>2 DEF none
  <2> QED
    BY <2>1, <2>2
<1>8. ~over => o \in plans /\ runs[o].status # "completed"
  OBVIOUS
<1>9. over => o \notin Older(c.run)
  BY DEF Older
<1> HIDE DEF todo, over
<1>10. on.at = "supersede" /\ on.todo = todo /\ on.left = c.left \ {o} /\ on.run = c.run
  BY <1>2 DEF CallState
<1> HIDE DEF on
<1>11. Superseding(on)
  <2>1. Starting(on.run) /\ on.run \notin on.left
    BY <1>5, <1>10 DEF Superseding
  <2>2. ASSUME NEW k \in DOMAIN on.todo
        PROVE  /\ on.todo[k].do \notin {"create", "register"}
               /\ on.todo[k].do = "run" => on.todo[k].run # on.run
    <3>1. ~over
      BY <1>7, <1>10, <2>2
    <3>2. /\ todo[k].do \in {"update", "run", "forget"}
          /\ todo[k].do = "run" => todo[k].run = o
      BY <1>6, <1>10, <2>2, <3>1 DEF Shuts
    <3>3. o # c.run
      BY <1>3, <1>5 DEF Superseding
    <3> QED
      BY <1>10, <3>2, <3>3
  <2>3. ASSUME RunPlan[on.run].cancelInProgress, NEW p \in Older(on.run), p \notin on.left
        PROVE  \E k \in DOMAIN on.todo : Closing(on.todo[k]) /\ on.todo[k].run = p
    <3>1. PICK none : none = c.todo /\ DOMAIN none = {}
      BY <1>2
    <3>2. p \in c.left
      BY <1>5, <1>10, <2>3, <3>1 DEF Superseding
    <3>3. p = o
      BY <1>10, <2>3, <3>2
    <3>4. ~over
      BY <1>9, <1>10, <2>3, <3>3
    <3> QED
      BY <1>6, <1>10, <3>3, <3>4 DEF Shuts
  <2> QED
    BY <2>1, <2>2, <2>3 DEF Superseding
<1>12. RunCall(on)
  BY <1>6, <1>7, <1>10, <1>11 DEF RunCall
<1> QED
  BY <1>1, <1>12, RunDecides

LEMMA RunStartRun ==
  ASSUME OneAtATime, SchedInv, RunInv, NEW t \in Call, NEW r \in Run, StartRun(t, r)
  PROVE  RunInv'
<1> DEFINE row == [NoRun EXCEPT !.status = "queued", !.attempt = 1]
           left == IF RunPlan[r].group # "" /\ RunPlan[r].cancelInProgress
                   THEN {o \in plans \ {r} : RunPlan[o].group = RunPlan[r].group} ELSE {}
<1>a. PICK on : on = [Idle EXCEPT !.op = "start", !.at = "supersede", !.run = r, !.left = left]
  OBVIOUS
<1>1. /\ UNCHANGED <<jobs, plans>> /\ Goes(t, on) /\ runs[r].status = "absent"
      /\ \A o \in Run : o < r => Present(o)
      /\ runs' = [runs EXCEPT ![r] = row]
  BY <1>a DEF StartRun, Present
<1>2. row.status = "queued"
  BY DEF NoRun
<1>3. r \notin left
  OBVIOUS
<1>4. ASSUME RunPlan[r].cancelInProgress, NEW o \in Older(r) PROVE o \in left
  <2>1. /\ o \in plans /\ o < r /\ RunPlan[r].group # "" /\ RunPlan[o].group = RunPlan[r].group
    BY <1>4 DEF Older
  <2>2. o # r
    <3>1. o \in Nat /\ r \in Nat
      BY <2>1, SchedulerAssumption DEF SchedInv, RunsInv
    <3>2. ~(o < o)
      BY <3>1
    <3> QED
      BY <2>1, <3>2
  <2> QED
    BY <1>4, <2>1, <2>2
<1> HIDE DEF left, row
<1>5. on.at = "supersede" /\ on.todo = <<>> /\ on.run = r /\ on.left = left
  BY <1>a DEF Idle
<1>6. /\ runs'[r] = row /\ \A o \in Run \ {r} : runs'[o] = runs[o]
  BY <1>1 DEF SchedInv, RunsInv
<1>7. ~Present(r)
  BY <1>1 DEF Present
<1>8. ASSUME NEW o \in Run, r < o PROVE ~Present(o)
  BY <1>7, <1>8 DEF RunInv, RunTables
<1>9. \A o \in Run : r < o => o # r
  <2>1. r \in Nat /\ ~(r < r)
    BY SchedulerAssumption
  <2> QED
    BY <2>1
<1>10. Onward
  BY <1>1, <1>2, <1>6 DEF Onward, Present
<1>11. Starting(r)'
  <2>1. \A o \in Run : r < o => ~Present(o)'
    BY <1>6, <1>8, <1>9 DEF Present
  <2> QED
    BY <1>2, <1>6, <2>1 DEF Starting, Newest
<1>12. \A o, p \in Run : o < p /\ Present(p)' => Present(o)'
  <2> SUFFICES ASSUME NEW o \in Run, NEW p \in Run, o < p, Present(p)' PROVE Present(o)'
    OBVIOUS
  <2>1. CASE p = r
    BY <1>1, <1>10, <2>1 DEF Onward
  <2>2. CASE p # r
    <3>1. Present(p)
      BY <1>6, <2>2 DEF Present
    <3> QED
      BY <1>10, <3>1 DEF Onward, RunInv, RunTables
  <2> QED
    BY <2>1, <2>2
<1>13. \A o \in Run : runs'[o].status = "completed" => runs'[o] = runs[o]
  BY <1>2, <1>6
<1>14. Superseding(on)'
  <2>1. Older(r)' \subseteq Older(r)
    <3> SUFFICES ASSUME NEW o \in Older(r)' PROVE o \in Older(r)
      OBVIOUS
    <3>1. /\ o \in plans /\ o < r /\ RunPlan[o].group # "" /\ RunPlan[o].group = RunPlan[r].group
          /\ runs'[o].status # "completed" /\ o \in Run
      BY <1>1 DEF Older, SchedInv, RunsInv
    <3>2. runs[o].status # "completed"
      BY <1>10, <3>1 DEF Onward
    <3> QED
      BY <3>1, <3>2 DEF Older
  <2>2. PICK none : none = on.todo /\ DOMAIN none = {}
    BY <1>5
  <2> QED
    BY <1>3, <1>4, <1>5, <1>11, <2>1, <2>2 DEF Superseding
<1>15. RunCall(on)'
  BY <1>5, <1>14, ProperNone DEF RunCall
<1>16. /\ \A j \in Job : Keeps(jobs[j], jobs'[j]) /\ (Exists(j)' => Exists(j))
       /\ \A j \in Job : Admitted(j)' => Admitted(j)
  BY <1>1, KeepsItself DEF Exists, Admitted
<1> QED
  BY <1>1, <1>10, <1>12, <1>13, <1>15, <1>16, RunMoves

\* A run that starts creates its jobs, registers its plan, and is under way.
LEMMA StartsProper ==
  ASSUME RunsInv, NEW r \in Run, Starting(r), Clear(r), NEW row \in SchedRun, row.status = "in_progress",
         NEW s \in Seq(Write),
         \A n \in DOMAIN s : /\ s[n].do = "create" /\ Plan[s[n].job].run = r /\ ~Open(s[n].row)
  PROVE  Proper(s \o RegisterPlan(r) \o UpdateRun(r, row))
<1> DEFINE p == [do |-> "register", run |-> r]
           q == [do |-> "run", run |-> r, row |-> row]
           v == s \o RegisterPlan(r) \o UpdateRun(r, row)
<1>1. /\ p \in Write /\ p.do = "register" /\ p.run = r
      /\ q \in Write /\ q.do = "run" /\ q.run = r /\ q.row = row
  BY DEF Write, RunWrites
<1>2. v = s \o <<p>> \o <<q>>
  BY DEF UpdateRun, RegisterPlan
<1> HIDE DEF p, q
<1>3. v = s \o (<<p>> \o <<q>>)
  <2>1. <<p>> \in Seq(Write) /\ <<q>> \in Seq(Write)
    BY <1>1
  <2> HIDE DEF v
  <2>2. (s \o <<p>>) \o <<q>> = s \o (<<p>> \o <<q>>)
    BY <2>1, ConcatAssociative
  <2> QED
    BY <1>2, <2>2
<1> HIDE DEF v
<1>4. Ends(v, s, p, q)
  BY <1>1, <1>3, EndsIs
<1>5. PICK m \in Nat : m = Len(s)
  BY <1>4 DEF Ends
<1>6. /\ DOMAIN v = 1..(m + 2) /\ DOMAIN s = 1..m
      /\ \A i \in 1..m : v[i] = s[i]
      /\ v[m + 1] = p /\ v[m + 2] = q
  BY <1>4, <1>5 DEF Ends
<1>7. \A i \in 1..m : v[i].do = "create" /\ Plan[v[i].job].run = r /\ ~Open(v[i].row)
  BY <1>6
<1>8. Behind(v, m + 1, {"create"}) /\ Behind(v, m + 2, {"create", "register"})
  <2>1. (m + 1) - 1 = m /\ (m + 2) - 1 = m + 1 /\ 1..(m + 1) = (1..m) \cup {m + 1}
    OBVIOUS
  <2> QED
    BY <1>1, <1>6, <1>7, <2>1 DEF Behind
<1>9. ASSUME NEW k \in 1..m PROVE Behind(v, k, {"create"})
  <2>1. 1..(k - 1) \subseteq 1..m
    OBVIOUS
  <2> QED
    BY <1>7, <2>1 DEF Behind
<1>10. \A k \in DOMAIN v : k \in 1..m \/ k = m + 1 \/ k = m + 2
  BY <1>6
<1>11. ASSUME NEW k \in DOMAIN v
       PROVE  /\ v[k].do = "create" => k \in 1..m
              /\ v[k].do = "register" => k = m + 1
              /\ Starts(v[k]) => k = m + 2
              /\ ~Closing(v[k])
              /\ \A j \in Job : ~Opens(v[k], j)
  <2>1. CASE k \in 1..m
    BY <1>7, <2>1 DEF Starts, Closing, Opens, IsRow
  <2>2. CASE k = m + 1
    BY <1>1, <1>6, <2>2 DEF Starts, Closing, Opens
  <2>3. CASE k = m + 2
    BY <1>1, <1>6, <2>3 DEF Starts, Closing, Opens
  <2> QED
    BY <1>10, <2>1, <2>2, <2>3
<1>12. \A k \in DOMAIN v :
         v[k].do = "create" => Starting(Plan[v[k].job].run) /\ Behind(v, k, {"create"})
  BY <1>7, <1>9, <1>11
<1>13. \A k \in DOMAIN v :
         v[k].do = "register" => Starting(v[k].run) /\ Clear(v[k].run) /\ Behind(v, k, {"create"})
  BY <1>1, <1>6, <1>8, <1>11
<1>14. \A k \in DOMAIN v :
         Starts(v[k]) => /\ Starting(v[k].run) /\ v[k].row.status # "absent"
                         /\ Behind(v, k, {"create", "register"})
  BY <1>1, <1>6, <1>8, <1>11
<1>15. Proper(v)
  BY <1>11, <1>12, <1>13, <1>14 DEF Proper
<1> QED
  BY <1>15 DEF v

LEMMA RunStartJobs ==
  ASSUME OneAtATime, SchedInv, RunInv, NEW t \in Call, StartJobs(t)
  PROVE  RunInv'
<1> DEFINE c == calls[t]
           r == c.run
           js == JobsOf(r)
           f == [j \in js |-> Create(j, NewRow(j))]
           W == {w \in Write : w.do = "create" /\ Plan[w.job].run = r /\ ~Open(w.row)}
           row == [NoRun EXCEPT !.status = "in_progress", !.attempt = 1]
           todo == ForEach(f) \o RegisterPlan(r) \o UpdateRun(r, row)
           on == [c EXCEPT !.at = "return", !.todo = todo]
<1>1. UNCHANGED <<jobs, runs, plans>> /\ Goes(t, on)
  BY DEF StartJobs
<1>2. /\ c \in CallState /\ r \in Run /\ c.at = "supersede" /\ c.todo = <<>> /\ c.left = {}
      /\ RunCall(c)
  BY CallFacts DEF StartJobs, Deciding, CallOK, RunInv
<1>3. row \in SchedRun /\ row.status = "in_progress"
  BY DEF NoRun, SchedRun
<1>4. Starting(r) /\ Clear(r)
  <2>1. Superseding(c)
    BY <1>2 DEF RunCall
  <2>2. PICK none : none = c.todo /\ DOMAIN none = {}
    BY <1>2
  <2>3. RunPlan[r].cancelInProgress => \A o \in Older(r) : FALSE
    BY <1>2, <2>1, <2>2 DEF Superseding
  <2>4. RunPlan[r].cancelInProgress => Older(r) = {}
    BY <2>3
  <2> QED
    BY <2>1, <2>4 DEF Superseding, Clear
<1>5. js \in SUBSET Job /\ \A j \in js : Plan[j].run = r
  BY DEF JobsOf
<1>6. ASSUME NEW j \in js PROVE f[j] \in Seq(W)
  <2> DEFINE w == [do |-> "create", job |-> j, row |-> NewRow(j)]
  <2>1. /\ w \in Write /\ w.do = "create" /\ w.job = j /\ w.row = NewRow(j)
    BY <1>5, NewRowKept DEF Write, RowWrites, Kept
  <2>2. f[j] = <<w>>
    BY DEF Create
  <2> HIDE DEF w, f, js
  <2>3. ~Open(NewRow(j)) /\ Plan[j].run = r
    BY <1>5, SaneNew
  <2>4. w \in W
    BY <2>1, <2>3
  <2> HIDE DEF W
  <2> QED
    BY <2>2, <2>4
<1>7. f \in [js -> Seq(W)]
  BY <1>6
<1> HIDE DEF f, row, js
<1>8. ForEach(f) \in Seq(W)
  <2> HIDE DEF W
  <2> QED
    BY <1>5, <1>7, LoopRounds
<1>9. PICK s \in Seq(Write) : /\ s = ForEach(f)
                              /\ \A n \in DOMAIN s : /\ s[n].do = "create" /\ Plan[s[n].job].run = r
                                                     /\ ~Open(s[n].row)
  <2>1. PICK s \in Seq(W) : s = ForEach(f)
    BY <1>8
  <2>2. \A n \in DOMAIN s : s[n] \in W
    OBVIOUS
  <2>3. s \in Seq(Write)
    <3>1. W \subseteq Write
      OBVIOUS
    <3> HIDE DEF W
    <3> QED
      BY <3>1
  <2> QED
    BY <2>1, <2>2, <2>3
<1> HIDE DEF W, r
<1>10. Proper(todo)
  BY <1>2, <1>3, <1>4, <1>9, StartsProper DEF SchedInv
<1> HIDE DEF todo
<1>11. on.todo = todo /\ on.at = "return"
  BY <1>2 DEF CallState
<1> HIDE DEF on
<1> QED
  BY <1>1, <1>10, <1>11, RunShort

LEMMA RunTickLeave ==
  ASSUME OneAtATime, SchedInv, RunInv, NEW t \in Call, NEW r \in Run, TickLeave(t, r)
  PROVE  RunInv'
<1> DEFINE on == TickOn(calls[t], TickTracked(calls[t]) \ {r})
<1>1. UNCHANGED <<jobs, runs>> /\ plans' \subseteq plans /\ (Goes(t, on) \/ Returns(t))
  BY DEF TickLeave
<1>2. on.at \in {"return", "runs"} /\ on.todo = <<>>
  BY TickOnFields
<1> HIDE DEF on
<1> QED
  BY <1>1, <1>2, RunBare

LEMMA RunReturns ==
  ASSUME OneAtATime, SchedInv, RunInv, UNCHANGED <<jobs, runs, plans>>, NEW t \in Call, Returns(t)
  PROVE  RunInv'
  BY IdleRun, RunDecides

LEMMA RunTickStart ==
  ASSUME OneAtATime, SchedInv, SerialInv, RunInv, NEW t \in Call, TickStart(t)
  PROVE  RunInv'
<1> DEFINE js == ExpiredLeases
           Back(j) == BackToQueue(jobs[j])
           Row(j) == NextAttempt(Back(j))
           f == [j \in js |-> Update(j, Row(j)) \o Offer(j)]
<1>1. /\ ReapExpiredLeases /\ UNCHANGED <<runs, plans>>
      /\ Goes(t, [Idle EXCEPT !.op = "tick", !.at = "track", !.todo = ForEach(f)])
  BY DEF TickStart
<1>2. jobs' = [j \in Job |-> IF j \in js THEN Back(j) ELSE jobs[j]]
  BY <1>1 DEF ReapExpiredLeases
<1>3. ASSUME NEW j \in js
      PROVE  j \in Job /\ Admitted(j) /\ Passing(Plan[j].run) /\ jobs[j] \in Kept(j)
  <2>1. j \in Job /\ InQueue(j)
    BY DEF ExpiredLeases, Leased, InQueue
  <2>2. Admitted(j)
    BY <2>1 DEF SerialInv, SerialTables
  <2> QED
    BY <2>1, <2>2, RowsOfJob DEF SchedInv, InQueue, RunInv, RunTables
<1> HIDE DEF js
<1>4. ASSUME NEW j \in js PROVE Back(j).status = "queued" /\ Row(j) \in Kept(j)
  <2>1. Back(j).status = "queued" /\ Back(j) \in Kept(j)
    BY <1>3, RowChanges
  <2> HIDE DEF Back
  <2> QED
    BY <1>3, <2>1, NextAttemptKept
<1> HIDE DEF Row
<1>5. ASSUME NEW j \in js PROVE f[j] \in Seq(Lawful)
  <2>1. f[j] = Update(j, Row(j)) \o Offer(j)
    OBVIOUS
  <2> HIDE DEF f
  <2>2. Update(j, Row(j)) \in Seq(Lawful) /\ Offer(j) \in Seq(Lawful)
    BY <1>3, <1>4, LawfulUpdate, LawfulOffers
  <2> QED
    BY <2>1, <2>2
<1>6. js \in SUBSET Job /\ f \in [js -> Seq(Lawful)]
  BY <1>3, <1>5
<1> HIDE DEF f
<1>7. PICK todo \in Seq(Lawful) : todo = ForEach(f)
  BY <1>6, LoopRounds
<1>8. Proper(todo)'
  BY <1>1, OnwardSame, LawfulProper DEF SchedInv
<1>9. PICK c : c = [Idle EXCEPT !.op = "tick", !.at = "track", !.todo = todo]
  OBVIOUS
<1>10. c.todo = todo /\ c.at = "track"
  BY <1>9 DEF Idle
<1>11. RunCall(c)'
  BY <1>8, <1>10 DEF RunCall
<1>12. ASSUME NEW j \in Job
       PROVE  /\ Keeps(jobs[j], jobs'[j]) /\ (Exists(j)' => Exists(j))
              /\ Admitted(j)' => Admitted(j)
  <2>1. CASE j \in js
    BY <1>3, <2>1 DEF Keeps, Completed, Admitted, Exists
  <2>2. CASE j \notin js
    <3>1. jobs'[j] = jobs[j]
      BY <1>2, <2>2
    <3> QED
      BY <3>1, KeepsItself DEF Admitted, Exists
  <2> QED
    BY <2>1, <2>2
<1> QED
  BY <1>1, <1>7, <1>9, <1>11, <1>12, RunGoes

LEMMA RunTickRun ==
  ASSUME OneAtATime, SchedInv, SerialInv, RunInv, NEW t \in Call, NEW r \in Run, TickRun(t, r)
  PROVE  RunInv'
<1> DEFINE snap == SnapOf(r)
           stop == Cancelled("dependency_failed")
<1>1. UNCHANGED <<jobs, runs, plans>> /\ r \in plans
  BY DEF TickRun
<1>2. PICK setupLate \in SUBSET UnderWay(r), late \in SUBSET UnderWay(r) :
        Drives(t, r, setupLate, late)
  BY TickRunDrives
<1>a. /\ setupLate \in SUBSET DOMAIN snap /\ late \in SUBSET DOMAIN snap
      /\ \A j \in setupLate \cup late : snap[j].status = "in_progress"
  BY <1>2 DEF UnderWay
<1> DEFINE over == setupLate \cup late
           ending(j) == IF j \in setupLate THEN Result("infra_failure", "infra", "timeout")
                                           ELSE Result("timed_out", "user", "timeout")
           timed == [j \in DOMAIN snap |->
                       IF j \in setupLate \cup late
                       THEN FinishedRow(j, snap[j], ending(j), j \in setupLate)
                       ELSE snap[j]]
           failed == FailFastLegs(timed)
           left == [j \in DOMAIN snap |-> IF j \in failed THEN Finished(timed[j], stop) ELSE timed[j]]
           e == [j \in setupLate \cup late |->
                   FinishWrites(j, snap[j], ending(j), j \in setupLate)]
           s == [j \in failed |-> Update(j, Finished(timed[j], stop))]
           todo == ForEach(e) \o ForEach(s)
           idle == TickOn(calls[t], TickTracked(calls[t]) \ {r})
           on == [idle EXCEPT !.at = "gate", !.run = r, !.rrow = runs[r], !.snap = left,
                              !.todo = todo]
<1>3. Goes(t, on)
  BY <1>2 DEF Drives
<1>4. on.todo = todo /\ on.at = "gate" /\ on.run = r
  BY DEF TickOn, Idle
<1>5. /\ snap \in Snaps /\ DOMAIN snap \in SUBSET Job
      /\ \A j \in DOMAIN snap : snap[j] = jobs[j] /\ snap[j] \in Kept(j)
  BY CallFacts, SnapOfType, SnapIs
<1>6. timed \in Snaps /\ DOMAIN timed = DOMAIN snap
  <2> HIDE DEF snap
  <2> QED
    BY <1>5, <1>a, TimedOut
<1>7. failed \in SUBSET DOMAIN timed
  <2> HIDE DEF timed
  <2> QED
    BY DEF FailFastLegs, Live
<1>c. \A j : ending(j) \in AnyResult
  BY ResultTypes
<1>9. ASSUME NEW j \in over
      PROVE  j \in Job /\ e[j] \in Seq(Lawful)
  <2>1. ending(j) \in AnyResult /\ (j \in setupLate) \in BOOLEAN
    <3>1. (j \in setupLate) \in BOOLEAN
      OBVIOUS
    <3> QED
      BY <1>c, <3>1
  <2>2. j \in DOMAIN snap /\ j \in Job /\ jobs[j].status = "in_progress"
    BY <1>5, <1>a
  <2>3. e[j] = FinishWrites(j, snap[j], ending(j), j \in setupLate)
    OBVIOUS
  <2>4. snap[j] \in Kept(j)
    BY <1>5, <2>2
  <2> HIDE DEF e, snap, ending
  <2>5. Passing(Plan[j].run)
    BY <2>2 DEF Admitted, RunInv, RunTables
  <2> QED
    BY <2>1, <2>2, <2>3, <2>4, <2>5, LawfulFinish
<1>10. stop \in AnyResult
  BY ResultTypes DEF CancelActors
<1>11. \A j \in failed : s[j] = Update(j, Finished(timed[j], stop))
  OBVIOUS
<1>b. s = [j \in failed |-> s[j]] /\ e = [j \in over |-> e[j]]
  OBVIOUS
<1> HIDE DEF snap, stop, timed, e, left, failed, s, on, ending
<1>12. ForEach(e) \in Seq(Lawful)
  <2>1. over \in SUBSET Job /\ e \in [over -> Seq(Lawful)]
    BY <1>9, <1>b
  <2> HIDE DEF over
  <2> QED
    BY <2>1, LoopRounds
<1>13. ASSUME NEW j \in failed PROVE j \in Job /\ s[j] \in Seq(Lawful)
  <2>1. j \in Job /\ timed[j] \in Kept(j)
    BY <1>5, <1>6, <1>7, SnapIs
  <2>2. Finished(timed[j], stop) \in Kept(j) /\ Finished(timed[j], stop).status = "completed"
    BY <1>10, <2>1, FinishedKept
  <2>3. ~Open(Finished(timed[j], stop))
    BY <2>2 DEF Open
  <2> QED
    BY <1>11, <2>1, <2>2, <2>3, LawfulUpdate
<1>14. ForEach(s) \in Seq(Lawful)
  <2>1. failed \in SUBSET Job /\ s \in [failed -> Seq(Lawful)]
    BY <1>13, <1>b
  <2> QED
    BY <2>1, LoopRounds
<1>15. todo \in Seq(Lawful)
  BY <1>12, <1>14
<1>16. Present(r)
  BY <1>1 DEF RunInv, RunTables
<1> HIDE DEF todo
<1> QED
  BY <1>1, <1>3, <1>4, <1>15, <1>16, RunPlain

LEMMA RunTickAdmit ==
  ASSUME OneAtATime, SchedInv, SerialInv, RunInv, NEW t \in Call, TickAdmit(t)
  PROVE  RunInv'
<1> DEFINE c == calls[t]
           j == FirstOf(Candidates(c))
           row == c.snap[j]
           grouped == Plan[j].group # ""
           holders == IF grouped THEN GroupHolders(j) ELSE {}
           skipped == ~ShouldRun(c.snap, j, c.rrow.cancel # "")
           held == grouped /\ \/ Plan[j].group \in c.taken
                              \/ holders # {} /\ ~Plan[j].cancelInProgress
           new == IF skipped THEN Finished(row, Result("skipped", "", ""))
                  ELSE IF held THEN [row EXCEPT !.status = "waiting"]
                  ELSE [row EXCEPT !.status = "queued", !.queued = TRUE]
           stop == Cancelled("concurrency_group")
           f == [k \in holders |-> Update(k, Finished(jobs[k], stop))]
           writes == IF skipped THEN Update(j, new)
                     ELSE IF held THEN IF row.status = "waiting" THEN <<>> ELSE Update(j, new)
                     ELSE ForEach(f) \o Update(j, new) \o Offer(j)
           taken == IF grouped /\ ~skipped /\ ~held THEN c.taken \cup {Plan[j].group} ELSE c.taken
           snap == [c.snap EXCEPT ![j] = new]
           on == [c EXCEPT !.at = "admit", !.last = j, !.snap = snap, !.todo = writes,
                           !.taken = taken]
<1>1. /\ c \in CallState /\ c.snap \in Snaps /\ c.at \in {"gate", "admit"}
      /\ SerialCall(c) /\ RunCall(c) /\ TablesInv /\ ~Gated(c) /\ Candidates(c) # {}
  BY CallFacts DEF TickAdmit, Admitting, SerialInv, RunInv
<1>2. /\ DOMAIN c.snap = JobsOf(c.run) /\ DOMAIN c.snap \subseteq Job
      /\ \A k \in DOMAIN c.snap : c.snap[k] \in Kept(k) /\ c.snap[k] \in SchedRow
  BY <1>1, SnapIs DEF SerialCall
<1>3. j \in Candidates(c)
  <2>1. Candidates(c) \subseteq Nat
    BY <1>2, SchedulerAssumption DEF Candidates
  <2> QED
    BY <1>1, <2>1, FirstOfIn
<1>4. Goes(t, on)
  <2>1. Goes(t, [c EXCEPT !.at = "admit", !.last = j, !.snap[j] = new, !.todo = writes,
                    !.taken = IF grouped /\ ~skipped /\ ~held THEN @ \cup {Plan[j].group} ELSE @])
    BY DEF TickAdmit
  <2> HIDE DEF j, grouped, skipped, held, new, writes
  <2>2. [c EXCEPT !.at = "admit", !.last = j, !.snap[j] = new, !.todo = writes,
            !.taken = IF grouped /\ ~skipped /\ ~held THEN @ \cup {Plan[j].group} ELSE @] = on
    BY <1>1 DEF CallState
  <2> QED
    BY <2>1, <2>2
<1>5. UNCHANGED <<jobs, runs, plans>>
  BY DEF TickAdmit
<1> HIDE DEF j
<1>6. j \in DOMAIN c.snap /\ j \in Job /\ row \in Kept(j)
  BY <1>2, <1>3 DEF Candidates
<1>7. Passing(c.run) /\ Plan[j].run = c.run
  BY <1>1, <1>2, <1>6 DEF RunCall, Gated, Passing, JobsOf
<1> HIDE DEF skipped
<1>10. /\ holders \in SUBSET Job
       /\ \A k \in holders : jobs[k] \in Kept(k)
  <2>1. \A k \in GroupHolders(j) : k \in Job /\ Exists(k)
    BY DEF GroupHolders, Exists
  <2> QED
    BY <1>1, <2>1, RowsOfJob
<1> HIDE DEF held, row, holders
<1>11. new \in Kept(j)
  <2>1. CASE skipped
    <3>1. new = Finished(row, Result("skipped", "", ""))
      BY <2>1
    <3> HIDE DEF new
    <3> QED
      BY <1>6, <3>1, ResultTypes, FinishedKept
  <2>2. CASE ~skipped /\ held
    <3>1. new = [row EXCEPT !.status = "waiting"]
      BY <2>2
    <3> HIDE DEF new
    <3> QED
      BY <1>6, <3>1, RowChanges
  <2>3. CASE ~skipped /\ ~held
    <3>1. new = [row EXCEPT !.status = "queued", !.queued = TRUE]
      BY <2>3
    <3> HIDE DEF new
    <3> QED
      BY <1>6, <3>1, RowChanges
  <2> QED
    BY <2>1, <2>2, <2>3
<1>12. \A k \in holders : f[k] = Update(k, Finished(jobs[k], stop))
  OBVIOUS
<1>a. f = [k \in holders |-> f[k]] /\ stop \in AnyResult
  BY ResultTypes DEF CancelActors
<1> HIDE DEF new, f, stop, c
<1>13. Update(j, new) \in Seq(Lawful) /\ Offer(j) \in Seq(Lawful)
  BY <1>6, <1>7, <1>11, LawfulUpdate, LawfulOffers
<1>14. ASSUME NEW k \in holders PROVE f[k] \in Seq(Lawful)
  <2>1. /\ Finished(jobs[k], stop) \in Kept(k) /\ Finished(jobs[k], stop).status = "completed"
        /\ k \in Job
    BY <1>10, <1>a, FinishedKept
  <2>2. ~Open(Finished(jobs[k], stop))
    BY <2>1 DEF Open
  <2> QED
    BY <1>12, <2>1, <2>2, LawfulUpdate
<1>15. ForEach(f) \in Seq(Lawful)
  <2>1. f \in [holders -> Seq(Lawful)]
    BY <1>14, <1>a
  <2> QED
    BY <1>10, <2>1, LoopRounds
<1>16. writes \in Seq(Lawful)
  <2>1. CASE skipped \/ (held /\ row.status # "waiting")
    BY <1>13, <2>1
  <2>2. CASE ~skipped /\ held /\ row.status = "waiting"
    BY <2>2
  <2>3. CASE ~skipped /\ ~held
    <3>1. writes = ForEach(f) \o Update(j, new) \o Offer(j)
      BY <2>3
    <3> HIDE DEF writes
    <3> QED
      BY <1>13, <1>15, <3>1
  <2> QED
    BY <2>1, <2>2, <2>3
<1> HIDE DEF writes, snap, taken
<1>17. on.todo = writes /\ on.at = "admit" /\ on.run = c.run
  BY <1>1 DEF CallState
<1>18. Present(c.run)
  BY <1>7 DEF Passing
<1> HIDE DEF on
<1> QED
  BY <1>4, <1>5, <1>7, <1>16, <1>17, <1>18, RunPlain

\* What the runners ask for.

LEMMA RunOne ==
  ASSUME OneAtATime, SchedInv, GateInv, RunInv, UNCHANGED <<runs, plans>>, NEW j \in Job, Admitted(j),
         NEW row, jobs' = [jobs EXCEPT ![j] = row], NEW t \in Call, NEW c, c.todo = <<>>,
         c.at \notin {"supersede", "gate", "admit"}, Goes(t, c) \/ Returns(t)
  PROVE  RunInv'
<1>1. \A k \in Job : Keeps(jobs[k], jobs'[k])
  BY GateRow
<1>2. jobs = [k \in Job |-> jobs[k]]
  BY RowsOfJob DEF SchedInv
<1>3. \A k \in Job : k # j => jobs'[k] = jobs[k]
  BY <1>2
<1>4. Exists(j)
  BY DEF Admitted, Exists
<1>5. \A k \in Job : (Exists(k)' => Exists(k)) /\ (Admitted(k)' => Admitted(k))
  BY <1>3, <1>4 DEF Admitted, Exists
<1>6. RunCall(c)'
  BY BareRun
<1> QED
  BY <1>1, <1>5, <1>6, RunGoes

LEMMA RunWithdraw ==
  ASSUME OneAtATime, SchedInv, SerialInv, GateInv, RunInv, NEW t \in Call, Withdraw(t)
  PROVE  RunInv'
<1> DEFINE j == calls[t].job
<1>1. Returns(t) /\ j \in Job /\ Idle.todo = <<>> /\ Idle.at = "" /\ UNCHANGED <<runs, plans>>
  BY CallFacts DEF Withdraw, Deciding, CallOK, Idle
<1>2. CASE LeasedBy(calls[t].runner, j)
  <2>1. jobs' = [jobs EXCEPT ![j] = BackToQueue(jobs[j])]
    BY <1>2 DEF Withdraw, ReleaseLease
  <2>2. Admitted(j)
    BY <1>1, <1>2 DEF LeasedBy, Leased, InQueue, SerialInv, SerialTables
  <2> HIDE DEF j
  <2> QED
    BY <1>1, <2>1, <2>2, RunOne
<1>3. CASE ~LeasedBy(calls[t].runner, j)
  <2>1. UNCHANGED jobs
    BY <1>3 DEF Withdraw
  <2> QED
    BY <1>1, <2>1, RunReturns
<1> QED
  BY <1>2, <1>3

LEMMA RunDispatch ==
  ASSUME OneAtATime, SchedInv, SerialInv, GateInv, RunInv, NEW t \in Call, Dispatch(t)
  PROVE  RunInv'
<1> DEFINE c == calls[t]
           j == c.job
           row == [c.row EXCEPT !.status = "in_progress", !.runner = c.runner]
<1>1. /\ Returns(t) /\ j \in Job /\ Admitted(j) /\ Idle.todo = <<>> /\ Idle.at = ""
      /\ UNCHANGED <<runs, plans>>
  BY CallFacts DEF Dispatch, Deciding, CallOK, SerialInv, SerialCall, Idle
<1>2. CASE Plan[j].run \in plans
  <2>1. jobs' = [jobs EXCEPT ![j] = row]
    BY <1>2 DEF Dispatch, UpdateJob
  <2> HIDE DEF row, j, c
  <2> QED
    BY <1>1, <2>1, RunOne
<1>3. CASE Plan[j].run \notin plans
  <2>1. UNCHANGED jobs
    BY <1>3 DEF Dispatch
  <2> QED
    BY <1>1, <2>1, RunReturns
<1> QED
  BY <1>2, <1>3

LEMMA RunAcquire ==
  ASSUME OneAtATime, SchedInv, SerialInv, GateInv, RunInv, NEW t \in Call, NEW r \in Runner, Acquire(t, r)
  PROVE  RunInv'
<1>1. PICK j \in Eligible(r) :
        /\ Dequeue(r, j)
        /\ LET row == RunningOn(r, jobs[j]) IN
           Goes(t, [Idle EXCEPT !.op = "acquire", !.job = j, !.runner = r, !.row = row,
                    !.at = IF Completed(row) \/ row.rest.conclusion # "" THEN "withdraw" ELSE "dispatch"])
  BY DEF Acquire
<1>2. PICK row, at : /\ at \in {"withdraw", "dispatch"}
                     /\ Goes(t, [Idle EXCEPT !.op = "acquire", !.job = j, !.runner = r,
                                             !.row = row, !.at = at])
  <2> DEFINE at == IF Completed(RunningOn(r, jobs[j])) \/ RunningOn(r, jobs[j]).rest.conclusion # ""
                   THEN "withdraw" ELSE "dispatch"
  <2>1. at \in {"withdraw", "dispatch"}
    OBVIOUS
  <2>2. Goes(t, [Idle EXCEPT !.op = "acquire", !.job = j, !.runner = r, !.row = RunningOn(r, jobs[j]),
                             !.at = at])
    BY <1>1
  <2> HIDE DEF at
  <2> QED
    BY <2>1, <2>2
<1>3. j \in Job /\ Admitted(j) /\ jobs' = [jobs EXCEPT ![j] = RunningOn(r, jobs[j])]
  <2>1. j \in Job /\ InQueue(j)
    BY DEF Eligible, InQueue
  <2> QED
    BY <1>1, <2>1 DEF Dequeue, SerialInv, SerialTables
<1>4. PICK c : c = [Idle EXCEPT !.op = "acquire", !.job = j, !.runner = r, !.row = row, !.at = at]
  OBVIOUS
<1>5. c.todo = <<>> /\ c.at = at /\ UNCHANGED <<runs, plans>>
  BY <1>4 DEF Idle, Acquire
<1> QED
  BY <1>2, <1>3, <1>4, <1>5, RunOne

LEMMA RunRelease ==
  ASSUME OneAtATime, SchedInv, SerialInv, GateInv, RunInv, NEW r \in Runner, NEW j \in Job, ReleaseJob(r, j)
  PROVE  RunInv'
<1>1. /\ jobs' = [jobs EXCEPT ![j] = BackToQueue(jobs[j])] /\ LeasedBy(r, j)
      /\ UNCHANGED <<calls, runs, plans>>
  BY DEF ReleaseJob, ReleaseLease, OneStepCall
<1>2. Admitted(j)
  BY <1>1 DEF LeasedBy, Leased, InQueue, SerialInv, SerialTables
<1>3. PICK t \in Call : calls[t] = Idle
  BY DEF ReleaseJob, OneStepCall
<1>4. Returns(t)
  BY <1>1, <1>3 DEF Returns, SchedInv, CallsInv
<1>5. Idle.todo = <<>> /\ Idle.at = ""
  BY DEF Idle
<1> QED
  BY <1>1, <1>2, <1>4, <1>5, RunOne

LEMMA RunSetupCompleted ==
  ASSUME OneAtATime, SchedInv, SerialInv, GateInv, RunInv, NEW t \in Call, JobSetupCompleted(t)
  PROVE  RunInv'
<1> DEFINE c == calls[t]
           j == c.job
           row == [jobs[j] EXCEPT !.setup = TRUE]
           todo == Update(j, row)
           on == [c EXCEPT !.at = "return", !.todo = todo]
<1>1. UNCHANGED <<jobs, runs, plans>> /\ (Goes(t, on) \/ Returns(t))
  BY DEF JobSetupCompleted
<1>2. c \in CallState /\ j \in Job /\ Exists(j)
  BY CallFacts DEF JobSetupCompleted, Deciding, CallOK, SchedInv, CallsInv
<1>3. jobs[j] \in Kept(j) /\ jobs[j] \in SchedRow
  BY <1>2, CallFacts, RowsOfJob
<1>4. /\ row \in Kept(j) /\ row.status = jobs[j].status /\ row.rest = jobs[j].rest
      /\ row.queued = jobs[j].queued
  BY <1>2, <1>3, RowChanges DEF SchedRow
<1> HIDE DEF row
<1>5. Open(row) => Passing(Plan[j].run)
  BY <1>2, <1>4 DEF Open, Admitted, RunInv, RunTables
<1> HIDE DEF j
<1>6. todo \in Seq(Lawful)
  BY <1>2, <1>4, <1>5, LawfulUpdate
<1> HIDE DEF todo
<1>7. on.todo = todo /\ on.at = "return"
  BY <1>2 DEF CallState
<1> HIDE DEF on
<1> QED
  BY <1>1, <1>6, <1>7, RunPlain

LEMMA RunJobCompleted ==
  ASSUME OneAtATime, SchedInv, SerialInv, GateInv, RunInv, NEW t \in Call, JobCompleted(t)
  PROVE  RunInv'
<1> DEFINE c == calls[t]
           j == c.job
           todo == FinishWrites(j, jobs[j], c.res, TRUE)
           on == [c EXCEPT !.at = "return", !.todo = todo]
<1>1. UNCHANGED <<jobs, runs, plans>> /\ (Goes(t, on) \/ Returns(t))
  BY DEF JobCompleted
<1>2. c \in CallState /\ j \in Job /\ Exists(j) /\ SerialCall(c) /\ c.at = "completed" /\ c.res \in AnyResult
  BY CallFacts DEF JobCompleted, Deciding, CallOK, SchedInv, CallsInv, SerialInv
<1>3. jobs[j] \in Kept(j)
  BY <1>2, CallFacts, RowsOfJob
<1>4. Passing(Plan[j].run)
  BY <1>2 DEF SerialCall, RunInv, RunTables
<1>5. todo \in Seq(Lawful)
  <2> HIDE DEF c, j
  <2> QED
    BY <1>2, <1>3, <1>4, LawfulFinish
<1> HIDE DEF todo
<1>6. on.todo = todo /\ on.at = "return"
  BY <1>2 DEF CallState
<1> HIDE DEF on
<1> QED
  BY <1>1, <1>5, <1>6, RunPlain

LEMMA RunCancelJob ==
  ASSUME OneAtATime, SchedInv, SerialInv, GateInv, RunInv, NEW t \in Call, NEW j \in Job, CancelJob(t, j)
  PROVE  RunInv'
<1> DEFINE row == Finished(jobs[j], Cancelled("user"))
           todo == Update(j, row)
           on == [Idle EXCEPT !.op = "cancelJob", !.at = "return", !.todo = todo]
<1>1. UNCHANGED <<jobs, runs, plans>> /\ Goes(t, on)
  BY DEF CancelJob, Order, Writes
<1>2. todo \in Seq(Lawful)
  <2>1. Cancelled("user") \in AnyResult
    BY ResultTypes DEF CancelActors
  <2>2. jobs[j] \in Kept(j) /\ jobs[j] \in SchedRow /\ Sane(jobs[j])
    BY CallFacts, RowsOfJob DEF CancelJob, SerialInv, SerialTables
  <2>3. row \in Kept(j) /\ ~Open(row)
    BY <2>1, <2>2, FinishedKept, SaneFinished
  <2> HIDE DEF row
  <2> QED
    BY <2>3, LawfulUpdate
<1> HIDE DEF todo
<1>3. on.todo = todo /\ on.at = "return"
  BY WritingFields
<1> HIDE DEF on
<1> QED
  BY <1>1, <1>2, <1>3, RunPlain

LEMMA RunBegins ==
  ASSUME OneAtATime, SchedInv, RunInv, NEW t \in Call, NEW r \in Runner, NEW j \in Job,
         SetupDone(t, r, j) \/ \E res \in Results[j] : Complete(t, r, j, res)
  PROVE  RunInv'
<1>1. UNCHANGED <<jobs, runs, plans>>
  BY DEF SetupDone, Complete
<1>2. PICK c : c.todo = <<>> /\ c.at \in {"setup", "completed"} /\ Goes(t, c)
  <2>1. CASE SetupDone(t, r, j)
    <3>1. PICK on : on = [Idle EXCEPT !.op = "setup", !.at = "setup", !.job = j]
      OBVIOUS
    <3>2. on.todo = <<>> /\ on.at = "setup"
      BY <3>1 DEF Idle
    <3> QED
      BY <2>1, <3>1, <3>2 DEF SetupDone
  <2>2. ASSUME NEW res, Complete(t, r, j, res)
        PROVE  \E c : c.todo = <<>> /\ c.at \in {"setup", "completed"} /\ Goes(t, c)
    <3>1. PICK on : on = [Idle EXCEPT !.op = "complete", !.at = "completed", !.job = j, !.res = res]
      OBVIOUS
    <3>2. on.todo = <<>> /\ on.at = "completed"
      BY <3>1 DEF Idle
    <3> QED
      BY <2>2, <3>1, <3>2 DEF Complete
  <2> QED
    BY <2>1, <2>2
<1> QED
  BY <1>1, <1>2, RunBare

\* Whatever leaves the jobs and the runs alone, and the calls too or ends them all.
LEMMA RunApart ==
  ASSUME SchedInv, RunInv, UNCHANGED <<jobs, runs>>, plans' \subseteq plans,
         (UNCHANGED <<calls, plans>>) \/ (\A u \in Call : calls'[u] = Idle)
  PROVE  RunInv'
<1>1. Onward
  BY OnwardSame
<1>2. \A o, r \in Run : o < r /\ Present(r)' => Present(o)'
  BY DEF RunInv, RunTables, Present
<1>3. \A r \in plans' : Present(r)' /\ Clear(r)'
  BY <1>1, ClearKept DEF SchedInv, RunInv
<1>4. \A j \in Job : Admitted(j)' => Passing(Plan[j].run)'
  <2>1. \A j \in Job : Admitted(j)' => Passing(Plan[j].run) /\ Plan[j].run \in Run
    BY PlanAssumption DEF RunInv, RunTables, Admitted
  <2> QED
    BY <1>1, <2>1, PassingKept DEF SchedInv
<1>5. \A r \in Run : runs'[r].status = "completed" => SettledRun(r)'
  <2> SUFFICES ASSUME NEW r \in Run, runs'[r].status = "completed" PROVE SettledRun(r)'
    OBVIOUS
  <2>1. SettledRun(r) /\ runs'[r] = runs[r]
    BY DEF RunInv, RunTables
  <2>2. \A j \in Job : Keeps(jobs[j], jobs'[j]) /\ (Exists(j)' => Exists(j))
    BY KeepsItself DEF Exists
  <2>3. \A j \in JobsOf(r) : Exists(j)' => Exists(j)
    BY DEF Exists
  <2> QED
    BY <2>1, <2>2, <2>3, SettledKept
<1>6. RunTables'
  BY <1>2, <1>3, <1>4, <1>5 DEF RunTables
<1>7. CASE UNCHANGED <<calls, plans>>
  <2>1. \A t \in Call : RunCall(calls[t])'
    <3> SUFFICES ASSUME NEW t \in Call PROVE RunCall(calls[t])'
      OBVIOUS
    <3>1. PICK c : c = calls[t] /\ c = calls'[t]
      BY <1>7
    <3>2. RunCall(c)
      BY <3>1 DEF RunInv
    <3>3. RunCall(c)'
      BY <1>7, <3>2, RunSame
    <3> QED
      BY <3>1, <3>3
  <2> QED
    BY <1>6, <2>1 DEF RunInv
<1>8. CASE \A u \in Call : calls'[u] = Idle
  BY <1>6, <1>8, IdleRun DEF RunInv
<1> QED
  BY <1>7, <1>8

LEMMA RunFlags ==
  ASSUME SchedInv, RunInv,
         \/ \E r \in Runner, j \in Job : Beat(r, j)
         \/ \E j \in Job : Lost(j) \/ BackoffOver(j)
  PROVE  RunInv'
<1>1. UNCHANGED <<jobs, runs, plans, calls>>
  BY DEF Beat, Heartbeat, OneStepCall, Lost, BackoffOver, LeaseRunsOut, BackoffRunsOut
<1> QED
  BY <1>1, RunApart

-----------------------------------------------------------------------------
LEMMA RunTickNothing ==
  ASSUME OneAtATime, SchedInv, RunInv, NEW t \in Call, TickNothing(t)
  PROVE  RunInv'
  BY RunReturns DEF TickNothing

LEMMA RunStep ==
  ASSUME OneAtATime, SchedInv, SerialInv, GateInv, RunInv, [Next]_vars, ~Approves, ~ReRuns
  PROVE  RunInv'
<1>1. ASSUME NEW t \in Call, Proceed(t) PROVE RunInv'
  BY <1>1, RunWriteStep, RunSupersede, RunStartJobs, RunTickLeave, RunTickRunTimeout,
     RunTickRun, RunTickNothing, RunTickAdmit, RunTickFinalize, RunWithdraw,
     RunDispatch, RunJobCompleted, RunSetupCompleted DEF Proceed
<1>2. ASSUME NEW r \in Runner, NEW j \in Job, ReleaseJob(r, j) \/ Beat(r, j) PROVE RunInv'
  BY <1>2, RunRelease, RunFlags
<1>3. ASSUME NEW j \in Job, Lost(j) \/ BackoffOver(j) PROVE RunInv'
  BY <1>3, RunFlags
<1>4. ASSUME NEW t \in Call, NEW r \in Runner, NEW j \in Job,
             SetupDone(t, r, j) \/ \E res \in Results[j] : Complete(t, r, j, res)
      PROVE  RunInv'
  BY <1>4, RunBegins
<1>5. CASE UNCHANGED vars
  BY <1>5, RunApart DEF vars
<1>6. Restart => RunInv'
  <2>1. Restart => UNCHANGED <<jobs, runs>> /\ plans' = {} /\ \A u \in Call : calls'[u] = Idle
    BY DEF Restart
  <2> QED
    BY <2>1, RunApart
<1>7. ASSUME NEW t \in Call, NEW r \in Run, StartRun(t, r) \/ CancelRun(t, r) PROVE RunInv'
  BY <1>7, RunStartRun, RunCancelRun
<1>8. ~\E t \in Call, r \in Run : Approve(t, r) \/ Rerun(t, r)
  BY DEF Approves, ReRuns
<1>9. CASE Next
  BY <1>1, <1>2, <1>3, <1>4, <1>6, <1>7, <1>8, <1>9, RunTickStart, RunAcquire, RunCancelJob DEF Next
<1> QED
  BY <1>5, <1>9

LEMMA RunStart == Init => RunInv
<1> SUFFICES ASSUME Init PROVE RunInv
  OBVIOUS
<1>1. NoRun.status = "absent"
  BY DEF NoRun
<1>2. \A r \in Run : runs[r] = NoRun
  BY DEF Init
<1>3. \A r \in Run : ~Present(r) /\ runs[r].status # "completed"
  BY <1>1, <1>2 DEF Present
<1>4. \A j \in Job : ~Admitted(j)
  BY DEF Init, StoreInit, Admitted, AbsentJob
<1>5. \A t \in Call : RunCall(calls[t])
  BY IdleRun DEF Init
<1>6. plans = {}
  BY DEF Init
<1> QED
  BY <1>3, <1>4, <1>5, <1>6 DEF RunInv, RunTables

RunSoFar == Plainly => RunInv

LEMMA RunAlways == OneAtATime /\ Spec => [](SchedInv /\ RunSoFar)
<1>1. OneAtATime /\ SchedInv /\ SerialSoFar /\ GateSoFar /\ RunSoFar /\ [Next]_vars => RunSoFar'
  BY GateKept, RunStep DEF RunSoFar
<1>2. Init => RunSoFar
  BY RunStart DEF RunSoFar
<1>3. CASE OneAtATime
  <2>1. SchedInv /\ SerialSoFar /\ GateSoFar /\ RunSoFar /\ [Next]_vars => RunSoFar'
    BY <1>1, <1>3
  <2> QED
    BY <1>2, <1>3, <2>1, GateAlways, PTL DEF Spec
<1>4. CASE ~OneAtATime
  BY <1>4
<1> QED
  BY <1>3, <1>4

\* What is plain: no run was re-run, and none of a fork's was approved.
LEMMA PlainRuns ==
  SchedInv /\ RunSoFar =>
    (spent.reruns = 0 /\ (NoForks \/ spent.orders = 0)
       => ClosedRunsAreIdle /\ ClosedRunSettled /\ RunGroupKept)
  BY RunsAreSettled DEF SchedInv, RunSoFar, Plainly, Unapproved

\* scheduler.go, finalizeIfComplete: while calls are taken one after the other and
\* no run has been approved or re-run, a run that is closed has no live job and
\* has concluded what its jobs add up to, and stays so: whether its last job
\* ended, it ran out of its budget, a person cancelled it or a newer run
\* superseded it.
THEOREM SerialClosedSettled ==
  OneAtATime /\ Spec =>
    [](spent.reruns = 0 /\ (NoForks \/ spent.orders = 0) => ClosedRunsAreIdle /\ ClosedRunSettled)
<1>1. SchedInv /\ RunSoFar =>
        (spent.reruns = 0 /\ (NoForks \/ spent.orders = 0)
           => ClosedRunsAreIdle /\ ClosedRunSettled)
  BY PlainRuns
<1> QED
  BY <1>1, RunAlways, PTL

\* concurrency.go, runGroupBlocked and supersedeOlderRuns: under the same calls,
\* of two runs of one group that are driven, the newer has been let nothing while
\* the older is not over, and a newer one that cancels has ended the older; so
\* too when the older closes, is cancelled or times out between the newer one's
\* turns, and after a restart has forgotten which runs are driven.
THEOREM SerialGroupOfRuns ==
  OneAtATime /\ Spec => [](spent.reruns = 0 /\ (NoForks \/ spent.orders = 0) => RunGroupKept)
<1>1. SchedInv /\ RunSoFar =>
        (spent.reruns = 0 /\ (NoForks \/ spent.orders = 0) => RunGroupKept)
  BY PlainRuns
<1> QED
  BY <1>1, RunAlways, PTL
=============================================================================
