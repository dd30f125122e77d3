------------------------------ MODULE Conditions ------------------------------
(* Expressions of a workflow: the values and their comparison
   (internal/workflow/expr/value.go), evaluation of the parsed tree (eval.go,
   funcs.go), and the walk that finds out whether a condition names a status
   function (status.go), from which the scheduler decides whether to put
   success() before it.

   A tree is a sequence of nodes whose operands come before them; the parser,
   which is not modelled, builds it from the leaves up, one node a step.

   A value is [t, v, elems]. Numbers stand for themselves; a string is a number
   in DOMAIN Fold: Fold gives its place in the order that ignores case and
   Parsed the set of the number it is read as, empty for NaN. The elements of a
   container are its values by key, in order; its v is its identity. *)
EXTENDS Integers, Sequences, FiniteSets

CONSTANTS
    Leaf,      \* the literal values and the values of the contexts
    Fold,      \* by string, its place when case is ignored
    Parsed,    \* by string, the set of the number it reads as
    MaxNodes   \* how many nodes a tree may have

ASSUME ConditionAssumption == DOMAIN Fold = DOMAIN Parsed

VARIABLES tree

conditionVars == <<tree>>

Scalar(t, v) == [t |-> t, v |-> v, elems |-> <<>>]
Null == Scalar("null", 0)
Bool(b) == Scalar("bool", IF b THEN 1 ELSE 0)
IsContainer(x) == x.t \in {"array", "object", "filtered"}

-----------------------------------------------------------------------------
(* The values. *)

Truthy(x) ==
    CASE x.t = "null" -> FALSE
      [] x.t \in {"bool", "num"} -> x.v # 0
      [] x.t = "str" -> x.v # 0
      [] OTHER -> TRUE

(* toNumber: the set of the number, empty for NaN. *)
ToNumber(x) ==
    CASE x.t \in {"null", "bool", "num"} -> {x.v}
      [] x.t = "str" -> Parsed[x.v]
      [] OTHER -> {}

(* looseEqual. Two distinct empty filtered arrays share an address. *)
LooseEqual(a, b) ==
    \/ a.t = "str" /\ b.t = "str" /\ Fold[a.v] = Fold[b.v]
    \/ IsContainer(a) /\ IsContainer(b) /\ a = b
    \/ /\ ~IsContainer(a) /\ ~IsContainer(b) /\ ~(a.t = "str" /\ b.t = "str")
       /\ ToNumber(a) # {} /\ ToNumber(a) = ToNumber(b)

(* compareValues: the set of -1, 0 or 1, empty when not comparable. *)
CompareValues(a, b) ==
    IF a.t = "str" /\ b.t = "str"
    THEN {IF Fold[a.v] < Fold[b.v] THEN -1 ELSE IF Fold[a.v] > Fold[b.v] THEN 1 ELSE 0}
    ELSE {IF x < y THEN -1 ELSE IF x > y THEN 1 ELSE 0 : x \in ToNumber(a), y \in ToNumber(b)}

-----------------------------------------------------------------------------
(* Evaluation. An error is a value of its own, "error". *)

Error == Scalar("error", 0)
Failed(x) == x.t = "error"

(* contains: membership of an array by ==, and of a string the substring test,
   which on the abstract strings is being empty or the same but for case. *)
FnContains(x, item) ==
    IF x.t \in {"array", "filtered"} THEN \E i \in DOMAIN x.elems : LooseEqual(x.elems[i].val, item)
    ELSE x.t = "str" /\ item.t = "str" /\ (item.v = 0 \/ Fold[x.v] = Fold[item.v])

(* objectIndex and arrayIndex, of a container that is not filtered. *)
Found(x, key) ==
    IF x.t = "object"
    THEN {x.elems[i].val : i \in {j \in DOMAIN x.elems : key.t = "str" /\ Fold[x.elems[j].key] = Fold[key.v]}}
    ELSE {x.elems[i].val : i \in {j \in DOMAIN x.elems : (j - 1) \in ToNumber(key)}}

(* indexFiltered: the index is applied to every element, and what has none is
   left out; the result is new. *)
OfEach(x, key, at) ==
    LET hits == {i \in DOMAIN x.elems : IsContainer(x.elems[i].val) /\ Found(x.elems[i].val, key) \ {Null} # {}}
        nth(k) == CHOOSE i \in hits : Cardinality({j \in hits : j < i}) = k - 1
    IN [t |-> "filtered", v |-> IF hits = {} THEN 0 ELSE -at,
        elems |-> [k \in 1..Cardinality(hits) |->
                     [key |-> 0, val |-> CHOOSE y \in Found(x.elems[nth(k)].val, key) : TRUE]]]

(* indexValue: property access and index; a wildcard makes a filtered array of
   a container and an empty one of anything else. It is never an error. *)
IndexValue(x, key, wildcard, at) ==
    IF wildcard THEN [t |-> "filtered", elems |-> x.elems, v |-> IF x.elems = <<>> THEN 0 ELSE -at]
    ELSE IF x.t = "filtered" THEN OfEach(x, key, at)
    ELSE IF IsContainer(x) /\ Found(x, key) # {} THEN CHOOSE y \in Found(x, key) : TRUE
    ELSE Null

StatusFunctions == {"success", "failure", "cancelled", "always"}

(* What the status functions answer; they are independent of each other. *)
Status == [success : BOOLEAN, failure : BOOLEAN, cancelled : BOOLEAN]

(* eval and evalBinary: the value of every node. && and || give an operand and
   do not look at the right one when the left decides. *)
Eval(nodes, st) ==
    LET value[i \in DOMAIN nodes] ==
          LET n == nodes[i]
              l == value[n.l]
              r == value[n.r]
              compared(ok) == Bool(\E c \in CompareValues(l, r) : c \in ok)
          IN CASE n.op = "leaf" -> n.leaf
               [] n.op = "always" -> Bool(TRUE)
               [] n.op \in {"success", "failure", "cancelled"} -> Bool(st[n.op])
               [] Failed(l) -> Error
               [] n.op = "!" -> Bool(~Truthy(l))
               [] n.op = "*" -> IndexValue(l, Null, TRUE, i)
               [] n.op = "&&" -> IF Truthy(l) THEN r ELSE l
               [] n.op = "||" -> IF Truthy(l) THEN l ELSE r
               [] Failed(r) -> Error
               [] n.op = "[]" -> IndexValue(l, r, FALSE, i)
               [] n.op = "contains" -> Bool(FnContains(l, r))
               [] n.op = "==" -> Bool(LooseEqual(l, r))
               [] n.op = "!=" -> Bool(~LooseEqual(l, r))
               [] n.op = "<" -> compared({-1})
               [] n.op = "<=" -> compared({-1, 0})
               [] n.op = ">" -> compared({1})
               [] n.op = ">=" -> compared({0, 1})
    IN value[Len(nodes)]

Unary == {"!", "*"}
Binary == {"&&", "||", "==", "!=", "<", "<=", ">", ">=", "[]", "contains"}

(* The operands the walk goes into. *)
WalkedOperands(n) ==
    CASE n.op \in Unary -> {n.l}
      [] n.op \in Binary -> {n.l, n.r}
      [] OTHER -> {}

(* A slip to guard against: the walk does not go into what is in brackets. *)
OperandsLeftOfBracket(n) ==
    CASE n.op \in Unary \union {"[]"} -> {n.l}
      [] n.op \in Binary -> {n.l, n.r}
      [] OTHER -> {}

Walked(n) == WalkedOperands(n)

(* walkForStatusCall from the root. *)
ReferencesStatusFunction(nodes) ==
    LET walk[i \in DOMAIN nodes] ==
          nodes[i].op \in StatusFunctions \/ \E k \in Walked(nodes[i]) : walk[k]
    IN walk[Len(nodes)]

-----------------------------------------------------------------------------
(* The tree grows by a leaf, a call of a status function, or an operator over
   nodes that are there. An unknown name is the leaf Error. *)
Node(op, leaf, l, r) == [op |-> op, leaf |-> leaf, l |-> l, r |-> r]

ConditionInit == tree \in {<<Node("leaf", x, 1, 1)>> : x \in Leaf}
                          \union {<<Node(f, Null, 1, 1)>> : f \in StatusFunctions}

AddNode ==
    /\ Len(tree) < MaxNodes
    /\ \E n \in {Node("leaf", x, 1, 1) : x \in Leaf \union {Error}}
                \union {Node(f, Null, 1, 1) : f \in StatusFunctions}
                \union {Node(op, Null, l, l) : op \in Unary, l \in DOMAIN tree}
                \union {Node(op, Null, l, r) : op \in Binary, l \in DOMAIN tree, r \in DOMAIN tree} :
          tree' = Append(tree, n)

ConditionNext == AddNode

-----------------------------------------------------------------------------
(* With its contexts given, what a condition comes to depends on the status
   functions' answers only if the walk finds one of them named: so putting
   success() before exactly the others (as shouldRun of readiness.go does) never
   asks twice and never forgets. The contexts are constants here; a condition
   that reads needs.*.result depends on the jobs before it and still gets its
   success(). *)
StatusOnlyIfNamed ==
    ReferencesStatusFunction(tree)
    \/ \A st1, st2 \in Status : Eval(tree, st1) = Eval(tree, st2)
=============================================================================
