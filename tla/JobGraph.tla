------------------------------ MODULE JobGraph ------------------------------
(***************************************************************************)
(* The order a plan puts its jobs in, internal/plan/dag.go: the jobs whose *)
(* needs are all placed wait in a list that is kept in declaration order,  *)
(* and the first of them is placed next.  Jobs are numbered as declared.   *)
(***************************************************************************)
EXTENDS Integers, FiniteSets, SequencesExt

CONSTANT JobCount \* the number of jobs of the workflow

ASSUME JobGraphAssumption == JobCount \in Nat

VARIABLES
  needs,   \* the needs of every job, as the workflow declares them
  missing, \* indeg: the needs not placed yet
  ready,   \* the jobs that may be placed
  placed   \* the order so far

graphVars == <<needs, missing, ready, placed>>

Declared == 1 .. JobCount

\* A job that needs itself is refused before the sort begins.
JobGraphInit ==
  /\ needs \in {n \in [Declared -> SUBSET Declared] : \A j \in Declared : j \notin n[j]}
  /\ missing = [j \in Declared |-> Cardinality(needs[j])]
  /\ ready = SelectSeq([j \in Declared |-> j], LAMBDA j : needs[j] = {})
  /\ placed = <<>>

\* A slip to guard against: what becomes ready waits behind what was.
RequeueAtEnd(waiting, released) == waiting \o released

\* The stable sort by declaration, after every placement.
Requeue(waiting, released) == SetToSortSeq(ToSet(waiting \o released), <)

PlaceJob ==
  /\ ready # <<>>
  /\ LET k == Head(ready) IN
       /\ placed' = Append(placed, k)
       /\ missing' = [j \in Declared |-> missing[j] - (IF k \in needs[j] THEN 1 ELSE 0)]
       /\ ready' = Requeue(Tail(ready),
                           SelectSeq([j \in Declared |-> j],
                                     LAMBDA j : k \in needs[j] /\ missing[j] = 1))
  /\ UNCHANGED needs

JobGraphNext == PlaceJob

-----------------------------------------------------------------------------
Left == Declared \ ToSet(placed)

Follows(order) ==
  \A i \in DOMAIN order : needs[order[i]] \subseteq {order[h] : h \in 1 .. i - 1}

DeclaredBefore(s, t) ==
  \E i \in DOMAIN s : s[i] < t[i] /\ \A h \in 1 .. i - 1 : s[h] = t[h]

\* dag.go: "every job follows everything it needs; ties break on declaration
\* order".  A finished sort has placed every job, in the first of all orders
\* that respect the needs; or it stopped at a cycle, every job left waiting for
\* another one left, and none of those placed waits for them.
OrderIsCanonical ==
  /\ Follows(placed)
  /\ ready = <<>> =>
       \/ Left = {} /\ \A order \in SetToSeqs(Declared) : Follows(order) => ~DeclaredBefore(order, placed)
       \/ Left # {} /\ \A j \in Left : needs[j] \cap Left # {}
=============================================================================
