-------------------------- MODULE ConclusionProofs --------------------------
(***************************************************************************)
(* The loops of Aggregate and needsResult compute, for a slice of any      *)
(* length and order, the reduction of its set of conclusions.              *)
(***************************************************************************)
EXTENDS ConclusionScan, TLAPS

\* What each local variable has collected from the conclusions read so far.
ScanInv ==
  /\ TypeOK
  /\ seen = {} <=> masked = {}
  /\ agg.worst = NoWorst <=> seen \cap FailureConclusions = {}
  /\ agg.worst # NoWorst =>
       agg.worst \in seen /\ \A d \in seen : Rank(d) <= Rank(agg.worst)
  /\ agg.skipped <=> "skipped" \in seen
  /\ agg.success <=> "success" \in seen
  /\ agg.cancelled <=> "cancelled" \in seen
  /\ agg.neutral <=> seen \cap {"neutral", "stale"} # {}
  /\ need.failed <=> masked \cap FailureConclusions # {}
  /\ ~need.failed =>
       /\ need.cancelled <=> "cancelled" \in masked
       /\ need.skipped <=> "skipped" \in masked
       /\ need.success <=> masked \ {"cancelled", "skipped"} # {}

\* Severity: a failure outranks everything that is not one, and no two
\* failures share a rank.
LEMMA Ranks ==
  /\ \A c \in Conclusions : Rank(c) \in 0..5
  /\ \A c \in Conclusions : IsFailure(c) <=> Rank(c) > 0
  /\ \A c, d \in FailureConclusions : Rank(c) = Rank(d) => c = d
  /\ FailureConclusions \subseteq Conclusions
  /\ NoWorst \notin Conclusions
<1>1. \A c \in Conclusions : Rank(c) \in 0..5
  BY DEF Rank
<1>2. \A c \in Conclusions : IsFailure(c) <=> Rank(c) > 0
  BY DEF Rank, IsFailure, Conclusions, FailureConclusions
<1>3. \A c, d \in FailureConclusions : Rank(c) = Rank(d) => c = d
  BY DEF Rank, FailureConclusions
<1>4. FailureConclusions \subseteq Conclusions /\ NoWorst \notin Conclusions
  BY DEF Conclusions, FailureConclusions, NoWorst
<1> QED
  BY <1>1, <1>2, <1>3, <1>4

\* continue-on-error only turns a conclusion into another conclusion.
LEMMA MaskedConclusion ==
  ASSUME NEW c \in Conclusions, NEW b \in BOOLEAN
  PROVE  Mask(c, b) \in Conclusions
  BY DEF Mask, Conclusions

\* A failure of the set that no member outranks is the one Worst chooses.
LEMMA WorstUnique ==
  ASSUME NEW cs \in SUBSET Conclusions, NEW w \in cs, IsFailure(w),
         \A d \in cs : Rank(d) <= Rank(w)
  PROVE  Worst(cs) = w
<1>1. Worst(cs) \in cs /\ \A d \in cs : Rank(d) <= Rank(Worst(cs))
  BY DEF Worst
<1>2. Rank(w) \in 0..5 /\ Rank(Worst(cs)) \in 0..5 /\ Rank(w) > 0
  BY <1>1, Ranks
<1>3. Rank(w) = Rank(Worst(cs))
  BY <1>1, <1>2
<1>4. w \in FailureConclusions /\ Worst(cs) \in FailureConclusions
  BY <1>1, <1>2, <1>3, Ranks DEF IsFailure
<1> QED
  BY <1>3, <1>4, Ranks

\* Reading one more conclusion keeps what the locals mean.
LEMMA ScanStep == ScanInv /\ [Next]_vars => ScanInv'
<1> SUFFICES ASSUME ScanInv, [Next]_vars PROVE ScanInv'
  OBVIOUS
<1>1. ASSUME NEW c \in Conclusions, NEW b \in BOOLEAN, Read(c, b) PROVE ScanInv'
  <2> DEFINE m == Mask(c, b)
  <2>a. m \in Conclusions
    BY MaskedConclusion
  <2>b. /\ seen' = seen \cup {c} /\ masked' = masked \cup {m}
        /\ agg' = AggStep(agg, c) /\ need' = NeedStep(need, m)
    BY <1>1 DEF Read
  <2> HIDE DEF m
  <2>c. /\ seen \subseteq Conclusions /\ masked \subseteq Conclusions
        /\ agg \in AggLocals /\ need \in NeedLocals
    BY DEF ScanInv, TypeOK
  <2>d. agg.worst \in FailureConclusions \cup {NoWorst}
    BY <2>c DEF AggLocals
  <2>1. TypeOK'
    <3>1. agg' \in AggLocals
      BY <2>b, <2>c, <2>d DEF AggStep, AggLocals, IsFailure
    <3>2. need' \in NeedLocals
      BY <2>b, <2>c DEF NeedStep, NeedLocals, IsFailure
    <3> QED
      BY <2>a, <2>b, <2>c, <3>1, <3>2 DEF TypeOK
  <2>2. seen' = {} <=> masked' = {}
    BY <2>b
  <2>3. /\ agg'.worst = NoWorst <=> seen' \cap FailureConclusions = {}
        /\ agg'.worst # NoWorst =>
             agg'.worst \in seen' /\ \A d \in seen' : Rank(d) <= Rank(agg'.worst)
    <3>0. /\ agg.worst = NoWorst <=> seen \cap FailureConclusions = {}
          /\ agg.worst # NoWorst =>
               agg.worst \in seen /\ \A d \in seen : Rank(d) <= Rank(agg.worst)
      BY DEF ScanInv
    <3>1. CASE IsFailure(c) /\ (agg.worst = NoWorst \/ Rank(c) > Rank(agg.worst))
      <4>1. agg'.worst = c
        BY <2>b, <3>1 DEF AggStep
      <4>2. \A d \in seen : Rank(d) <= Rank(c)
        <5>1. CASE agg.worst = NoWorst
          <6>1. \A d \in seen : Rank(d) = 0
            BY <2>c, <3>0, <5>1, Ranks DEF IsFailure
          <6> QED
            BY <6>1, Ranks
        <5>2. CASE agg.worst # NoWorst /\ Rank(c) > Rank(agg.worst)
          BY <2>c, <2>d, <3>0, <5>2, Ranks
        <5> QED
          BY <3>1, <5>1, <5>2
      <4>3. Rank(c) <= Rank(c)
        BY Ranks
      <4> QED
        BY <2>b, <3>1, <4>1, <4>2, <4>3, Ranks DEF IsFailure
    <3>2. CASE ~IsFailure(c)
      <4>1. agg'.worst = agg.worst
        BY <2>b, <3>2 DEF AggStep
      <4>2. Rank(c) = 0 /\ c \notin FailureConclusions
        BY <3>2, Ranks DEF IsFailure
      <4>3. agg.worst # NoWorst => Rank(agg.worst) \in 0..5
        BY <2>d, Ranks
      <4> QED
        BY <2>b, <3>0, <4>1, <4>2, <4>3
    <3>3. CASE IsFailure(c) /\ agg.worst # NoWorst /\ ~(Rank(c) > Rank(agg.worst))
      <4>1. agg'.worst = agg.worst
        BY <2>b, <3>3 DEF AggStep
      <4>2. Rank(c) <= Rank(agg.worst)
        BY <2>d, <3>3, Ranks
      <4> QED
        BY <2>b, <3>0, <3>3, <4>1, <4>2
    <3> QED
      BY <3>1, <3>2, <3>3
  <2>4. /\ agg'.skipped <=> "skipped" \in seen'
        /\ agg'.success <=> "success" \in seen'
        /\ agg'.cancelled <=> "cancelled" \in seen'
        /\ agg'.neutral <=> seen' \cap {"neutral", "stale"} # {}
    BY <2>b, <2>c DEF ScanInv, AggStep, AggLocals
  <2>5. need'.failed <=> masked' \cap FailureConclusions # {}
    BY <2>b, <2>c DEF ScanInv, NeedStep, NeedLocals, IsFailure
  <2>6. ~need'.failed => ~need.failed /\ ~IsFailure(m)
    BY <2>b DEF NeedStep
  <2>7. ~need'.failed =>
          /\ need'.cancelled <=> "cancelled" \in masked'
          /\ need'.skipped <=> "skipped" \in masked'
          /\ need'.success <=> masked' \ {"cancelled", "skipped"} # {}
    BY <2>b, <2>c, <2>6 DEF ScanInv, NeedStep, NeedLocals
  <2> QED
    BY <2>1, <2>2, <2>3, <2>4, <2>5, <2>7 DEF ScanInv
<1>2. CASE UNCHANGED vars
  BY <1>2 DEF vars, ScanInv, TypeOK
<1> QED
  BY <1>1, <1>2 DEF Next

\* The locals mean what they collected, for slices of every length.
THEOREM ScanInvariant == Spec => []ScanInv
<1>1. Init => ScanInv
  BY DEF Init, ScanInv, TypeOK, AggLocals, NeedLocals, NoWorst
<1> QED
  BY <1>1, ScanStep, PTL DEF Spec

\* Aggregate's loop returns the reduction of the set of conclusions it read.
THEOREM AggregateCorrect == Spec => []AggregateAgrees
<1>1. ScanInv => AggregateAgrees
  <2> SUFFICES ASSUME ScanInv PROVE AggResult(agg, seen # {}) = Aggregate(seen)
    BY DEF AggregateAgrees, Reported
  <2>1. CASE seen \cap FailureConclusions # {}
    <3>1. agg.worst # NoWorst /\ agg.worst \in seen /\ seen # {}
      BY <2>1 DEF ScanInv
    <3>2. IsFailure(agg.worst)
      BY <3>1 DEF ScanInv, TypeOK, AggLocals, IsFailure
    <3>3. Worst(seen) = agg.worst
      BY <3>1, <3>2, WorstUnique DEF ScanInv, TypeOK
    <3>4. AggResult(agg, seen # {}) = agg.worst
      BY <3>1 DEF AggResult
    <3> QED
      BY <2>1, <3>3, <3>4 DEF Aggregate
  <2>2. CASE seen \cap FailureConclusions = {}
    <3>1. agg.worst = NoWorst
      BY <2>2 DEF ScanInv
    <3>2. seen \subseteq {"success", "cancelled", "neutral", "stale", "skipped"}
      BY <2>2 DEF ScanInv, TypeOK, Conclusions, FailureConclusions
    <3>3. /\ agg.skipped <=> "skipped" \in seen
          /\ agg.success <=> "success" \in seen
          /\ agg.cancelled <=> "cancelled" \in seen
          /\ agg.neutral <=> "neutral" \in seen \/ "stale" \in seen
      BY DEF ScanInv
    <3>4. CASE seen = {}
      BY <2>2, <3>4 DEF AggResult, Aggregate
    <3>5. CASE seen # {} /\ "cancelled" \in seen
      BY <2>2, <3>1, <3>3, <3>5 DEF AggResult, Aggregate
    <3>6. CASE "cancelled" \notin seen /\ ("neutral" \in seen \/ "stale" \in seen)
      BY <2>2, <3>1, <3>3, <3>6 DEF AggResult, Aggregate
    <3>7. CASE seen = {"skipped"}
      BY <2>2, <3>1, <3>3, <3>7 DEF AggResult, Aggregate
    <3>8. CASE seen = {"success"}
      BY <2>2, <3>1, <3>3, <3>8 DEF AggResult, Aggregate
    <3>9. CASE seen = {"skipped", "success"}
      BY <2>2, <3>1, <3>3, <3>9 DEF AggResult, Aggregate
    <3> QED
      BY <3>2, <3>4, <3>5, <3>6, <3>7, <3>8, <3>9
  <2> QED
    BY <2>1, <2>2
<1> QED
  BY <1>1, ScanInvariant, PTL

\* needsResult's loop, which stops reading at a failure, returns the reduction
\* of the whole set.
THEOREM NeedsResultCorrect == Spec => []NeedsResultAgrees
<1>1. ScanInv => NeedsResultAgrees
  <2> SUFFICES ASSUME ScanInv PROVE NeedAnswer(need, masked # {}) = NeedsResult(masked)
    BY DEF NeedsResultAgrees, Gate
  <2>1. CASE need.failed
    BY <2>1 DEF ScanInv, NeedAnswer, NeedsResult
  <2>2. CASE ~need.failed
    <3>1. /\ masked \cap FailureConclusions = {}
          /\ need.cancelled <=> "cancelled" \in masked
          /\ need.skipped <=> "skipped" \in masked
          /\ need.success <=> masked \ {"cancelled", "skipped"} # {}
      BY <2>2 DEF ScanInv
    <3>2. CASE masked = {}
      BY <2>2, <3>1, <3>2 DEF NeedAnswer, NeedsResult
    <3>3. CASE "cancelled" \in masked
      BY <2>2, <3>1, <3>3 DEF NeedAnswer, NeedsResult
    <3>4. CASE masked = {"skipped"}
      BY <2>2, <3>1, <3>4 DEF NeedAnswer, NeedsResult
    <3>5. CASE "cancelled" \notin masked /\ ~(masked \subseteq {"skipped"})
      <4>1. need.success /\ ~need.cancelled /\ masked # {}
        BY <3>1, <3>5
      <4> QED
        BY <2>2, <3>1, <3>5, <4>1 DEF NeedAnswer, NeedsResult
    <3> QED
      BY <3>2, <3>3, <3>4, <3>5
  <2> QED
    BY <2>1, <2>2
<1> QED
  BY <1>1, ScanInvariant, PTL

=============================================================================
