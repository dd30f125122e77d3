------------------------------- MODULE Matrix -------------------------------
(***************************************************************************)
(* The legs of a strategy matrix, internal/plan/matrix.go: the product of  *)
(* the dimensions, the combinations excluded, the includes merged into     *)
(* them or appended, and the identity of every leg.  The workflow is       *)
(* edited entry by entry, because a leg's identity is what check runs and  *)
(* branch protection are matched on from one version to the next.          *)
(***************************************************************************)
EXTENDS Integers, FiniteSets, SequencesExt

CONSTANTS
  MatrixKeys,  \* the keys of dimensions and entries, in the order declared
  MatrixValue, \* the values of a key, in the order declared
  MatrixDims,  \* the sets of keys that may be dimensions
  MaxExcludes, \* bound on exclude entries
  MaxIncludes  \* bound on include entries

ASSUME MatrixAssumption ==
  /\ \A D \in MatrixDims : D \subseteq ToSet(MatrixKeys)
  /\ MaxExcludes \in Nat /\ MaxIncludes \in Nat

VARIABLE matrix \* its dimensions, exclude entries and include entries

NoValues == [k \in {} |-> MatrixValue[1]]
ListedEntries(K) == UNION {[S -> ToSet(MatrixValue)] : S \in (SUBSET K) \ {{}}}

MatrixInit ==
  \E D \in MatrixDims : matrix = [dims |-> D, exclude |-> <<>>, include |-> <<>>]

\* dimensionOrder, and presentKeys
DimensionOrder(m) == SelectSeq(MatrixKeys, LAMBDA k : k \in m.dims)
PresentKeys(entry) == SelectSeq(MatrixKeys, LAMBDA k : k \in DOMAIN entry)

With(entry, k, v) == [x \in DOMAIN entry \cup {k} |-> IF x = k THEN v ELSE entry[x]]
Merge(entry, inc) ==
  [x \in DOMAIN entry \cup DOMAIN inc |-> IF x \in DOMAIN inc THEN inc[x] ELSE entry[x]]

\* The first dimension is outermost, so the last one varies fastest.
Product(m) ==
  IF m.dims = {} THEN <<>> ELSE
  FoldLeft(LAMBDA combos, k :
             FlattenSeq([i \in DOMAIN combos |->
               [j \in DOMAIN MatrixValue |-> With(combos[i], k, MatrixValue[j])]]),
           <<NoValues>>, DimensionOrder(m))

\* An exclude matches partially: every pair it names.
MatchesAll(combo, entry) ==
  \A k \in DOMAIN entry : k \in DOMAIN combo /\ combo[k] = entry[k]

Base(m) ==
  FoldLeft(LAMBDA combos, ex : SelectSeq(combos, LAMBDA c : ~MatchesAll(c, ex)),
           Product(m), m.exclude)

\* An include conflicts with a combination over the dimensions only.
Fits(m, combo, inc) == \A k \in DOMAIN inc \cap m.dims : combo[k] = inc[k]

\* A slip to guard against: an include that was appended is a candidate itself.
IncludeIntoAppended(m, base, sofar, inc) ==
  LET all == sofar.combos \o sofar.appended
      fits == {i \in DOMAIN all : \A k \in DOMAIN inc \cap m.dims \cap DOMAIN all[i] : all[i][k] = inc[k]}
      merged == [i \in DOMAIN all |-> IF i \in fits THEN Merge(all[i], inc) ELSE all[i]]
  IN [combos |-> SubSeq(merged, 1, Len(sofar.combos)),
      appended |-> SubSeq(merged, Len(sofar.combos) + 1, Len(all))
                     \o (IF fits = {} THEN <<inc>> ELSE <<>>)]

\* It is merged into every combination it fits, or becomes a leg of its own.
IncludeEntry(m, base, sofar, inc) ==
  LET fits == {i \in DOMAIN base : Fits(m, base[i], inc)}
  IN IF fits = {}
     THEN [sofar EXCEPT !.appended = Append(@, inc)]
     ELSE [sofar EXCEPT !.combos = [i \in DOMAIN @ |->
             IF i \in fits THEN Merge(@[i], inc) ELSE @[i]]]

\* A combination is named by the dimensions, an appended entry by all its keys.
LegIdentity(values, names) == [i \in DOMAIN names |-> <<names[i], values[names[i]]>>]

Leg(values, names) == [values |-> values, key |-> LegIdentity(values, names)]

ExpandMatrix(m) ==
  LET base == Base(m)
      done == FoldLeft(LAMBDA sofar, inc : IncludeEntry(m, base, sofar, inc),
                       [combos |-> base, appended |-> <<>>], m.include)
  IN [i \in DOMAIN done.combos |-> Leg(done.combos[i], DimensionOrder(m))]
       \o [i \in DOMAIN done.appended |-> Leg(done.appended[i], PresentKeys(done.appended[i]))]

\* Empty entries and excludes of undeclared keys are refused; so is a matrix
\* that leaves nothing to run.
EditedMatrix(m) == Len(ExpandMatrix(m)) > 0 /\ matrix' = m

AddExclude ==
  /\ Len(matrix.exclude) < MaxExcludes
  /\ \E ex \in ListedEntries(matrix.dims) : EditedMatrix([matrix EXCEPT !.exclude = Append(@, ex)])

AddInclude ==
  /\ Len(matrix.include) < MaxIncludes
  /\ \E inc \in ListedEntries(ToSet(MatrixKeys)) : EditedMatrix([matrix EXCEPT !.include = Append(@, inc)])

MatrixNext ==
  \/ AddExclude
  \/ AddInclude

-----------------------------------------------------------------------------
\* What the excludes removed does not come back under its dimensions' values
\* unless an include that fits nothing left names it, and a leg of the product
\* carries the value of the last include that fits it, for every key.
IncludesDecide ==
  LET legs == ExpandMatrix(matrix)
      base == Base(matrix)
      last(k, combo) ==
        {i \in DOMAIN matrix.include :
           /\ k \in DOMAIN matrix.include[i] /\ Fits(matrix, combo, matrix.include[i])
           /\ \A h \in DOMAIN matrix.include :
                h > i /\ k \in DOMAIN matrix.include[h] => ~Fits(matrix, combo, matrix.include[h])}
  IN /\ Len(legs) = Len(base) + Cardinality({i \in DOMAIN matrix.include :
           \A c \in DOMAIN base : ~Fits(matrix, base[c], matrix.include[i])})
     /\ \A c \in DOMAIN base :
          LET values == legs[c].values IN
          /\ \A ex \in ToSet(matrix.exclude) : ~MatchesAll(values, ex)
          /\ \A k \in DOMAIN values :
               \/ \E i \in last(k, base[c]) : values[k] = matrix.include[i][k]
               \/ k \in DOMAIN base[c] /\ values[k] = base[c][k] /\ last(k, base[c]) = {}
          /\ \A k \in ToSet(MatrixKeys) : last(k, base[c]) # {} => k \in DOMAIN values
=============================================================================
