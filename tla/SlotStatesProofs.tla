------------------------- MODULE SlotStatesProofs -------------------------
(***************************************************************************)
(* Theorems about slot values in order: commits, coalescing, rollback and  *)
(* retries, for any operation lists that slot resolution may return.       *)
(*                                                                         *)
(* The model folds operators over sequences: what each fold does follows, *)
(* step by step, from the lemmas on folds in ListProofs.                   *)
(***************************************************************************)
EXTENDS SlotStates, ListProofs, SequenceTheorems

----------------------------------------------------------------------------
(* Lists without repetitions, and the cells of slots.                      *)

Lists == {l \in Seq(Values) : IsInjective(l)}

Cells == [one : BOOLEAN, items : Lists]

States == [Slots -> Cells]

\* Lists are functions on an initial segment of the numbers.
LEMMA ListDomain ==
    ASSUME NEW l \in Lists
    PROVE  /\ Len(l) \in Nat /\ DOMAIN l = 1..Len(l)
           /\ l \in [1..Len(l) -> Values]
           /\ \A i, j \in 1..Len(l) : l[i] = l[j] => i = j
BY DEF Lists, IsInjective

\* The empty list, and lists of one value.
LEMMA ShortLists ==
    /\ <<>> \in Lists /\ ToSet(<<>>) = {}
    /\ \A v \in Values : <<v>> \in Lists /\ ToSet(<<v>>) = {v} /\ <<v>>[1] = v
<1>1. <<>> \in Lists /\ ToSet(<<>>) = {}
  BY DEF Lists, IsInjective, ToSet
<1>2. ASSUME NEW v \in Values
      PROVE  <<v>> \in Lists /\ ToSet(<<v>>) = {v} /\ <<v>>[1] = v
  BY DEF Lists, IsInjective, ToSet
<1> QED
  BY <1>1, <1>2

\* A list with one value more.
LEMMA Appended ==
    ASSUME NEW l \in Lists, NEW v \in Values, v \notin ToSet(l)
    PROVE  /\ Append(l, v) \in Lists
           /\ ToSet(Append(l, v)) = ToSet(l) \cup {v}
           /\ Append(l, v) # <<>>
<1> DEFINE n == Len(l)
           m == Append(l, v)
<1>1. n \in Nat /\ DOMAIN l = 1..n /\ l \in Seq(Values)
  BY DEF Lists
<1>2. m \in Seq(Values) /\ DOMAIN m = 1..(n+1) /\ m[n+1] = v /\ \A i \in 1..n : m[i] = l[i]
  BY <1>1
<1> HIDE DEF m, n
<1>3. \A i \in 1..(n+1) : i \in 1..n \/ i = n+1
  BY <1>1
<1>4. \A i \in 1..n : m[i] # v /\ i \in 1..(n+1)
  BY <1>1, <1>2 DEF ToSet
<1>5. \A i, j \in 1..n : l[i] = l[j] => i = j
  BY <1>1 DEF Lists, IsInjective
<1>6. IsInjective(m)
  BY <1>2, <1>3, <1>4, <1>5 DEF IsInjective
<1>7. ToSet(m) = ToSet(l) \cup {v}
  BY <1>1, <1>2, <1>3, <1>4 DEF ToSet
<1>8. m # <<>>
  <2>1. n + 1 \in DOMAIN m
    BY <1>1, <1>2
  <2> QED
    BY <2>1
<1> QED
  BY <1>2, <1>6, <1>7, <1>8 DEF Lists, m

\* Appending a value that is not listed adds this value, once.
LEMMA AppendUniqueIsGood ==
    ASSUME NEW c \in Cells, NEW v \in Values
    PROVE  /\ AppendUnique(c, v) \in Cells
           /\ ToSet(AppendUnique(c, v).items) = ToSet(c.items) \cup {v}
<1>1. c.items \in Lists
  BY DEF Cells
<1>2. Contains(c.items, v) <=> v \in ToSet(c.items)
  BY <1>1, ListDomain DEF Contains, ToSet
<1> DEFINE l == IF v \in ToSet(c.items) THEN c.items ELSE Append(c.items, v)
<1>3. l \in Lists /\ ToSet(l) = ToSet(c.items) \cup {v}
  BY <1>1, Appended
<1>4. AppendUnique(c, v) = [one |-> FALSE, items |-> l]
  BY <1>2 DEF AppendUnique, ListOf
<1> HIDE DEF l
<1> QED
  BY <1>3, <1>4 DEF Cells

\* Filtering a list, step by step.
Rest(rest, w, v) == IF w = v THEN rest ELSE Append(rest, w)

\* A filter step gives a list.
LEMMA RestIsList ==
    ASSUME NEW v, NEW w \in Values, NEW l \in Seq(Values)
    PROVE  Rest(l, w, v) \in Seq(Values)
BY DEF Rest

Filter(l, v, f) == [S \in SUBSET DOMAIN l |->
                       IF S = {} THEN <<>> ELSE Rest(f[S \ {Max(S)}], l[Max(S)], v)]

\* Without is a fold: its recursion, written out.
LEMMA WithoutUnfolds ==
    ASSUME NEW c, NEW v
    PROVE  Without(c, v) =
             ListOf((CHOOSE f : f = Filter(c.items, v, f))[DOMAIN c.items])
BY DEF Without, FoldLeft, MapThenFoldSet, Filter, Rest

RestsOf(h, l, v, n) ==
    /\ h \in [0..n -> Seq(Values)] /\ h[0] = <<>>
    /\ \A k \in 1..n : h[k] = Rest(h[k-1], l[k], v)

\* The lists that filtering leads through.
LEMMA WithoutSteps ==
    ASSUME NEW n \in Nat, NEW c, NEW v, c.items \in [1..n -> Values]
    PROVE  \E h : RestsOf(h, c.items, v, n) /\ Without(c, v) = ListOf(h[n])
<1> DEFINE l == c.items
           X == Seq(Values)
           G == [i \in 1..n |-> [x \in X |-> Rest(x, l[i], v)]]
           it == CHOOSE f : f = Filter(l, v, f)
           none == <<>>
<1>1. DOMAIN l = 1..n /\ \A i \in 1..n : l[i] \in Values
  OBVIOUS
<1>2. none \in X
  OBVIOUS
<1>3. G \in [1..n -> [X -> X]]
  BY <1>1, RestIsList
<1>4. \A i \in 1..n : \A x \in X : G[i][x] = Rest(x, l[i], v)
  OBVIOUS
<1> HIDE DEF G, X, l, none
<1>5. \E f : f = Filter(l, v, f)
  <2>1. PICK f : Folds(f, X, none, n, G)
    BY <1>2, <1>3, FoldExists
  <2>2. ASSUME NEW S \in SUBSET (1..n), S # {}
        PROVE  f[S] = Rest(f[S \ {Max(S)}], l[Max(S)], v)
    <3>1. Max(S) \in 1..n
      BY <2>2, LastIndex
    <3>2. f[S \ {Max(S)}] \in X
      BY <2>1 DEF Folds
    <3> QED
      BY <2>1, <2>2, <3>1, <3>2, <1>4 DEF Folds
  <2>3. f = Filter(l, v, f)
    BY <1>1, <2>1, <2>2 DEF Filter, Folds, none
  <2> QED
    BY <2>3
<1>6. it = Filter(l, v, it)
  BY <1>5
<1> HIDE DEF it
<1>7. it[{}] = none
  BY <1>6 DEF Filter, none
<1>8. ASSUME NEW k \in 1..n, it[1..(k-1)] \in X PROVE it[1..k] = G[k][it[1..(k-1)]]
  <2>1. Max(1..k) = k /\ (1..k) \ {Max(1..k)} = 1..(k-1)
    BY LastOfPrefix
  <2>2. 1..k \in SUBSET (1..n) /\ 1..k # {}
    BY FirstIndices
  <2>3. it[1..k] = Rest(it[1..(k-1)], l[k], v)
    BY <1>1, <1>6, <2>1, <2>2 DEF Filter
  <2> QED
    BY <1>4, <1>8, <2>3
<1>9. PICK h : Runs(h, X, none, n, G) /\ h[n] = it[1..n]
  <2>1. \A k \in 1..n : it[1..(k-1)] \in X => it[1..k] = G[k][it[1..(k-1)]]
    BY <1>8
  <2>2. Folding(it, X, none, n, G)
    BY <1>2, <1>3, <1>7, <2>1 DEF Folding
  <2> QED
    BY <2>2, FoldSteps
<1>10. Without(c, v) = ListOf(h[n])
  BY <1>1, <1>9, WithoutUnfolds DEF it, l
<1>11. \A k \in 1..n : k - 1 \in 0..n
  OBVIOUS
<1>12. \A k \in 1..n : h[k] = Rest(h[k-1], l[k], v)
  BY <1>4, <1>9, <1>11 DEF Runs
<1>13. RestsOf(h, l, v, n)
  BY <1>9, <1>12 DEF X, none, Runs, RestsOf
<1> QED
  BY <1>10, <1>13 DEF l

\* The first k values of a list.
Prefix(l, k) == [i \in 1..k |-> l[i]]

\* A prefix is a list.
LEMMA PrefixIsList ==
    ASSUME NEW l \in Seq(Values), NEW k \in 0..Len(l)
    PROVE  Prefix(l, k) \in Seq(Values) /\ Len(Prefix(l, k)) = k
BY DEF Prefix

\* Prefixes grow by one value at a time, up to the whole list.
LEMMA PrefixSteps ==
    ASSUME NEW l \in Seq(Values), NEW k \in 0..Len(l)
    PROVE  /\ k > 0 => Prefix(l, k) = Append(Prefix(l, k-1), l[k])
           /\ k = 0 => Prefix(l, k) = <<>>
           /\ k = Len(l) => Prefix(l, k) = l
<1>1. ASSUME k > 0 PROVE Prefix(l, k) = Append(Prefix(l, k-1), l[k])
  <2> DEFINE p == Prefix(l, k-1)
             q == Append(p, l[k])
  <2>1. k - 1 \in 0..Len(l) /\ l[k] \in Values
    BY <1>1
  <2>2. p \in Seq(Values) /\ Len(p) = k - 1
    BY <2>1, PrefixIsList
  <2>3. \A i \in 1..(k-1) : p[i] = l[i]
    BY DEF Prefix
  <2> HIDE DEF p
  <2>4. q \in Seq(Values) /\ Len(q) = k /\ \A i \in 1..(k-1) : q[i] = l[i]
    BY <1>1, <2>1, <2>2, <2>3, AppendProperties
  <2>5. q[k] = l[k]
    BY <2>1, <2>2, AppendProperties
  <2> HIDE DEF q
  <2>6. \A i \in 1..k : Prefix(l, k)[i] = q[i]
    <3>1. \A i \in 1..k : i \in 1..(k-1) \/ i = k
      BY <1>1
    <3>2. \A i \in 1..k : Prefix(l, k)[i] = l[i]
      BY DEF Prefix
    <3> QED
      BY <2>4, <2>5, <3>1, <3>2
  <2>7. Prefix(l, k) = q
    BY <2>4, <2>6, PrefixIsList, SeqEqual
  <2> QED
    BY <2>7 DEF q, p
<1>2. ASSUME k = 0 PROVE Prefix(l, k) = <<>>
  BY <1>2, PrefixIsList, EmptySeq
<1>3. ASSUME k = Len(l) PROVE Prefix(l, k) = l
  <2>1. \A i \in 1..k : Prefix(l, k)[i] = l[i]
    BY DEF Prefix
  <2> QED
    BY <1>3, <2>1, PrefixIsList, SeqEqual
<1> QED
  BY <1>1, <1>2, <1>3

\* A list makes a cell.
LEMMA ListOfIsCell ==
    ASSUME NEW l \in Lists
    PROVE  ListOf(l) \in Cells /\ ListOf(l).items = l /\ ListOf(l).one = FALSE
BY DEF ListOf, Cells

\* Removing a value from a list removes this value, and nothing if it is not
\* listed.
LEMMA WithoutIsGood ==
    ASSUME NEW c \in Cells, NEW v \in Values
    PROVE  /\ Without(c, v) \in Cells /\ Without(c, v).one = FALSE
           /\ ToSet(Without(c, v).items) = ToSet(c.items) \ {v}
           /\ v \notin ToSet(c.items) => Without(c, v) = ListOf(c.items)
<1> DEFINE l == c.items
           n == Len(l)
           pre(k) == Prefix(l, k)
           seen(k) == {l[i] : i \in 1..k}
<1>1. l \in Lists /\ n \in Nat /\ l \in [1..n -> Values] /\ ToSet(l) = seen(n)
      /\ \A i, j \in 1..n : l[i] = l[j] => i = j
  BY ListDomain DEF Cells, ToSet
<1> HIDE DEF n
<1>2a. PICK h : RestsOf(h, c.items, v, n) /\ Without(c, v) = ListOf(h[n])
  BY <1>1, WithoutSteps
<1>2. /\ h \in [0..n -> Seq(Values)]
      /\ h[0] = <<>> /\ Without(c, v) = ListOf(h[n])
      /\ \A k \in 1..n : h[k] = Rest(h[k-1], l[k], v)
  BY <1>2a DEF RestsOf
<1>3. /\ pre(0) = <<>> /\ pre(n) = l
      /\ \A k \in 1..n : pre(k) = Append(pre(k-1), l[k])
  <2>1. 0 \in 0..n /\ n \in 0..n /\ \A k \in 1..n : k \in 0..n /\ k > 0
    BY <1>1
  <2> QED
    BY <1>1, <2>1, PrefixSteps DEF n, Lists
<1> HIDE DEF pre, l
<1> DEFINE good(x, k) ==
             /\ x \in Lists
             /\ ToSet(x) = seen(k) \ {v}
             /\ v \notin seen(k) => x = pre(k)
           T == {k \in Nat : k <= n => good(h[k], k)}
<1>4. 0 \in T
  BY <1>2, <1>3, ShortLists
<1>5. ASSUME NEW k \in Nat, k \in T PROVE k + 1 \in T
  <2> SUFFICES ASSUME k + 1 <= n PROVE good(h[k+1], k+1)
    BY <1>1
  <2>1. k + 1 \in 1..n /\ (k + 1) - 1 = k /\ l[k+1] \in Values
    BY <1>1
  <2>2. h[k+1] = Rest(h[k], l[k+1], v) /\ pre(k+1) = Append(pre(k), l[k+1])
    BY <1>2, <1>3, <2>1
  <2>3. good(h[k], k)
    BY <1>1, <1>5
  <2>4. seen(k+1) = seen(k) \cup {l[k+1]} /\ l[k+1] \notin seen(k)
    <3>1. 1..(k+1) = (1..k) \cup {k+1} /\ \A i \in 1..k : i # k+1 /\ i \in 1..n
      BY <1>1
    <3> QED
      BY <1>1, <2>1, <3>1
  <2> DEFINE x == h[k]
             w == l[k+1]
             p == pre(k)
             q == pre(k+1)
             S == seen(k)
             R == seen(k+1)
  <2>5. CASE l[k+1] = v
    <3> HIDE DEF seen
    <3> QED
      BY <2>2, <2>3, <2>4, <2>5 DEF Rest
  <2>6. CASE l[k+1] # v
    <3>1. w \notin ToSet(x) /\ x \in Lists
      BY <2>3, <2>4
    <3>2. /\ Append(x, w) \in Lists
          /\ ToSet(Append(x, w)) = ToSet(x) \cup {w}
      BY <2>1, <3>1, Appended
    <3>3. h[k+1] = Append(x, w)
      BY <2>2, <2>6 DEF Rest
    <3>4. v \notin R => h[k+1] = q
      <4> HIDE DEF seen
      <4> QED
        BY <2>2, <2>3, <2>4, <3>3
    <3>5. ToSet(Append(x, w)) = R \ {v}
      <4> HIDE DEF seen
      <4> QED
        BY <2>3, <2>4, <2>6, <3>2
    <3> QED
      BY <3>2, <3>3, <3>4, <3>5
  <2> QED
    BY <2>5, <2>6
<1> HIDE DEF T
<1>6. n \in T
  BY <1>1, <1>4, <1>5, Induct
<1> HIDE DEF seen
<1>7. good(h[n], n)
  BY <1>1, <1>6 DEF T
<1>8. Without(c, v) \in Cells /\ Without(c, v).one = FALSE /\ Without(c, v).items = h[n]
  BY <1>2, <1>7, ListOfIsCell
<1> QED
  BY <1>1, <1>2, <1>3, <1>7, <1>8 DEF l

----------------------------------------------------------------------------
(* Applying operations.                                                    *)

\* The operations that coalescing and rolling back come to: a slot may also
\* be replaced by a whole list.
Steps ==
    {Operation(k, s, One(v)) : k \in {"add", "remove"}, s \in Slots, v \in Values}
    \cup {Operation("replace", s, c) : s \in Slots, c \in Cells}
    \cup {Operation("clear", s, Absent) : s \in Slots}

\* The absent cell, and cells of a single value.
LEMMA SmallCells ==
    /\ Absent \in Cells /\ Absent.items = <<>>
    /\ \A v \in Values : One(v) \in Cells /\ One(v).items = <<v>> /\ One(v).items[1] = v
<1>1. Absent \in Cells /\ Absent.items = <<>>
  BY ShortLists DEF Cells, Absent
<1>2. ASSUME NEW v \in Values
      PROVE  One(v) \in Cells /\ One(v).items = <<v>> /\ One(v).items[1] = v
  <2>1. One(v).items = <<v>>
    BY DEF One
  <2>2. One(v) \in Cells
    BY ShortLists DEF Cells, One
  <2> QED
    BY <2>1, <2>2, ShortLists
<1> QED
  BY <1>1, <1>2

\* What an operation that is applied consists of.
LEMMA StepParts ==
    ASSUME NEW op \in Steps
    PROVE  /\ op.slot \in Slots
           /\ op.kind \in {"replace", "add", "remove", "clear"}
           /\ op.kind \in {"add", "remove"} =>
                 op.value.items[1] \in Values /\ op.value = One(op.value.items[1])
           /\ op.kind = "replace" => op.value \in Cells
           /\ op.kind = "clear" => op.value = Absent
<1>1. CASE \E k \in {"add", "remove"}, s \in Slots, v \in Values : op = Operation(k, s, One(v))
  <2>1. PICK k \in {"add", "remove"}, s \in Slots, v \in Values : op = Operation(k, s, One(v))
    BY <1>1
  <2>2. op.kind = k /\ op.slot = s /\ op.value = One(v)
    BY <2>1 DEF Operation
  <2> QED
    BY <2>2, SmallCells
<1>2. CASE \E s \in Slots, c \in Cells : op = Operation("replace", s, c)
  BY <1>2 DEF Operation
<1>3. CASE \E s \in Slots : op = Operation("clear", s, Absent)
  BY <1>3 DEF Operation
<1> QED
  BY <1>1, <1>2, <1>3 DEF Steps

\* Resolved operations can be applied, and name one value unless they clear.
LEMMA OperationIsStep ==
    ASSUME NEW op \in Operations
    PROVE  op \in Steps /\ (op.kind # "clear" => op.value.items[1] \in Values
                                                 /\ op.value = One(op.value.items[1]))
<1>1. CASE \E k \in {"replace", "add", "remove"}, s \in Slots, v \in Values :
              op = Operation(k, s, One(v))
  <2>1. PICK k \in {"replace", "add", "remove"}, s \in Slots, v \in Values :
              op = Operation(k, s, One(v))
    BY <1>1
  <2>2. op.value = One(v)
    BY <2>1 DEF Operation
  <2>3. op \in Steps
    BY <2>1, SmallCells DEF Steps
  <2> QED
    BY <2>2, <2>3, SmallCells
<1>2. CASE \E s \in Slots : op = Operation("clear", s, Absent)
  BY <1>2 DEF Operation, Steps
<1> QED
  BY <1>1, <1>2 DEF Operations

\* What an operation makes of the cell of its slot ...
CellAfter(c, op) ==
    CASE op.kind = "replace" -> op.value
      [] op.kind = "add"     -> AppendUnique(c, op.value.items[1])
      [] op.kind = "remove"  -> Without(c, op.value.items[1])
      [] op.kind = "clear"   -> Absent

\* ... and of its values.
SetAfter(S, op) ==
    CASE op.kind = "replace" -> ToSet(op.value.items)
      [] op.kind = "add"     -> S \cup {op.value.items[1]}
      [] op.kind = "remove"  -> S \ {op.value.items[1]}
      [] op.kind = "clear"   -> {}

\* The cell after an operation is a cell, with the values the operation leaves.
LEMMA CellAfterIsGood ==
    ASSUME NEW c \in Cells, NEW op \in Steps
    PROVE  /\ CellAfter(c, op) \in Cells
           /\ ToSet(CellAfter(c, op).items) = SetAfter(ToSet(c.items), op)
<1> DEFINE v == op.value.items[1]
<1>1. CASE op.kind = "replace"
  BY <1>1, StepParts DEF CellAfter, SetAfter
<1>2. CASE op.kind = "add"
  <2>1. v \in Values /\ CellAfter(c, op) = AppendUnique(c, v)
        /\ SetAfter(ToSet(c.items), op) = ToSet(c.items) \cup {v}
    BY <1>2, StepParts DEF CellAfter, SetAfter
  <2> QED
    BY <2>1, AppendUniqueIsGood
<1>3. CASE op.kind = "remove"
  <2>1. v \in Values /\ CellAfter(c, op) = Without(c, v)
        /\ SetAfter(ToSet(c.items), op) = ToSet(c.items) \ {v}
    BY <1>3, StepParts DEF CellAfter, SetAfter
  <2> QED
    BY <2>1, WithoutIsGood
<1>4. CASE op.kind = "clear"
  BY <1>4, SmallCells, ShortLists DEF CellAfter, SetAfter
<1> QED
  BY <1>1, <1>2, <1>3, <1>4, StepParts

\* An operation changes the cell of its slot.
LEMMA AppliedCells ==
    ASSUME NEW st \in States, NEW op \in Steps
    PROVE  /\ Apply(st, op) \in States
           /\ \A s \in Slots :
                 Apply(st, op)[s] = IF s = op.slot THEN CellAfter(st[s], op) ELSE st[s]
<1>1. Apply(st, op) = [st EXCEPT ![op.slot] = CellAfter(st[op.slot], op)]
  BY DEF Apply, CellAfter
<1>2. st[op.slot] \in Cells /\ op.slot \in Slots
  BY StepParts DEF States
<1>3. CellAfter(st[op.slot], op) \in Cells
  BY <1>2, CellAfterIsGood
<1> QED
  BY <1>1, <1>2, <1>3 DEF States

\* The states an operation list leads through.
StatesOf(h, st, ops, n) ==
    /\ h \in [0..n -> States] /\ h[0] = st
    /\ \A k \in 1..n : h[k] = Apply(h[k-1], ops[k])

Applying(st, ops, f) == [S \in SUBSET DOMAIN ops |->
                            IF S = {} THEN st ELSE Apply(f[S \ {Max(S)}], ops[Max(S)])]

\* ApplyAll is a fold: its recursion, written out.
LEMMA ApplyAllUnfolds ==
    ASSUME NEW st, NEW ops
    PROVE  ApplyAll(st, ops) = (CHOOSE f : f = Applying(st, ops, f))[DOMAIN ops]
BY DEF ApplyAll, FoldLeft, MapThenFoldSet, Applying

\* The states that applying a list of operations leads through.
LEMMA ApplySteps ==
    ASSUME NEW n \in Nat, NEW st \in States, NEW ops \in [1..n -> Steps]
    PROVE  \E h : StatesOf(h, st, ops, n) /\ ApplyAll(st, ops) = h[n]
<1> DEFINE G == [i \in 1..n |-> [x \in States |-> Apply(x, ops[i])]]
           it == CHOOSE f : f = Applying(st, ops, f)
<1>1. DOMAIN ops = 1..n /\ \A i \in 1..n : ops[i] \in Steps
  OBVIOUS
<1>2. G \in [1..n -> [States -> States]]
  BY <1>1, AppliedCells
<1>3. \A i \in 1..n : \A x \in States : G[i][x] = Apply(x, ops[i])
  OBVIOUS
<1> HIDE DEF G
<1>4. \E f : f = Applying(st, ops, f)
  <2>1. PICK f : Folds(f, States, st, n, G)
    BY <1>2, FoldExists
  <2>2. ASSUME NEW S \in SUBSET (1..n), S # {}
        PROVE  f[S] = Apply(f[S \ {Max(S)}], ops[Max(S)])
    <3>1. Max(S) \in 1..n
      BY <2>2, LastIndex
    <3>2. f[S \ {Max(S)}] \in States
      BY <2>1 DEF Folds
    <3> QED
      BY <2>1, <2>2, <3>1, <3>2, <1>3 DEF Folds
  <2>3. f = Applying(st, ops, f)
    BY <1>1, <2>1, <2>2 DEF Applying, Folds
  <2> QED
    BY <2>3
<1>5. it = Applying(st, ops, it)
  BY <1>4
<1> HIDE DEF it
<1>6. it[{}] = st
  BY <1>5 DEF Applying
<1>7. ASSUME NEW k \in 1..n, it[1..(k-1)] \in States PROVE it[1..k] = G[k][it[1..(k-1)]]
  <2>1. Max(1..k) = k /\ (1..k) \ {Max(1..k)} = 1..(k-1)
    BY LastOfPrefix
  <2>2. 1..k \in SUBSET (1..n) /\ 1..k # {}
    BY FirstIndices
  <2>3. it[1..k] = Apply(it[1..(k-1)], ops[k])
    BY <1>1, <1>5, <2>1, <2>2 DEF Applying
  <2> QED
    BY <1>3, <1>7, <2>3
<1>8. PICK h : Runs(h, States, st, n, G) /\ h[n] = it[1..n]
  <2>1. Folding(it, States, st, n, G)
    BY <1>2, <1>6, <1>7 DEF Folding
  <2> QED
    BY <2>1, FoldSteps
<1>9. ApplyAll(st, ops) = h[n]
  BY <1>1, <1>8, ApplyAllUnfolds DEF it
<1>10. \A k \in 1..n : k - 1 \in 0..n
  OBVIOUS
<1>11. \A k \in 1..n : h[k] = Apply(h[k-1], ops[k])
  BY <1>3, <1>8, <1>10 DEF Runs
<1>12. StatesOf(h, st, ops, n)
  BY <1>8, <1>11 DEF Runs, StatesOf
<1> QED
  BY <1>9, <1>12

\* SlotState.apply_all gives a state.
LEMMA ApplyAllIsState ==
    ASSUME NEW n \in Nat, NEW st \in States, NEW ops \in [1..n -> Steps]
    PROVE  ApplyAll(st, ops) \in States
<1>1. PICK h : StatesOf(h, st, ops, n) /\ ApplyAll(st, ops) = h[n]
  BY ApplySteps
<1>2. n \in 0..n
  OBVIOUS
<1> QED
  BY <1>1, <1>2 DEF StatesOf

OnlyBy(ops, n, s, o) == \A i \in 1..n : ops[i].slot = s => ops[i] = o

Reached(ops, n, s) == \E i \in 1..n : ops[i].slot = s

\* A slot no operation is about keeps its cell; one that a single operation is
\* about, be it repeated, has the values this operation makes of it, and the
\* value itself where the operation replaces or clears.
LEMMA OneOperationPerSlot ==
    ASSUME NEW n \in Nat, NEW st \in States, NEW ops \in [1..n -> Steps], NEW s \in Slots,
           NEW o, OnlyBy(ops, n, s, o)
    PROVE  /\ ~Reached(ops, n, s) => ApplyAll(st, ops)[s] = st[s]
           /\ Reached(ops, n, s) =>
                 /\ ToSet(ApplyAll(st, ops)[s].items) = SetAfter(ToSet(st[s].items), o)
                 /\ o.kind \in {"replace", "clear"} => ApplyAll(st, ops)[s] = CellAfter(st[s], o)
<1>1. PICK h : StatesOf(h, st, ops, n) /\ ApplyAll(st, ops) = h[n]
  BY ApplySteps
<1> DEFINE was(k) == \E i \in 1..k : ops[i].slot = s
           good(x, k) ==
             /\ ~was(k) => x = st[s]
             /\ was(k) => /\ ToSet(x.items) = SetAfter(ToSet(st[s].items), o)
                          /\ o.kind \in {"replace", "clear"} => x = CellAfter(st[s], o)
           T == {k \in Nat : k <= n => good(h[k][s], k)}
<1>2. 0 \in T
  <2>1. ~was(0) /\ h[0] = st
    BY <1>1 DEF StatesOf
  <2> HIDE DEF was
  <2> QED
    BY <2>1
<1>3. ASSUME NEW k \in Nat, k \in T PROVE k + 1 \in T
  <2> SUFFICES ASSUME k + 1 <= n PROVE good(h[k+1][s], k+1)
    OBVIOUS
  <2>1. k + 1 \in 1..n /\ (k + 1) - 1 = k /\ k \in 0..n
    OBVIOUS
  <2>2. h[k] \in States /\ h[k+1] = Apply(h[k], ops[k+1]) /\ ops[k+1] \in Steps
    BY <1>1, <2>1 DEF StatesOf
  <2>3. h[k+1][s] = IF s = ops[k+1].slot THEN CellAfter(h[k][s], ops[k+1]) ELSE h[k][s]
    BY <2>2, AppliedCells
  <2>4. good(h[k][s], k)
    BY <1>3, <2>1
  <2>5. was(k+1) <=> was(k) \/ ops[k+1].slot = s
    <3>1. 1..(k+1) = (1..k) \cup {k+1}
      OBVIOUS
    <3> QED
      BY <3>1
  <2>6. h[k][s] \in Cells
    BY <2>2 DEF States
  <2>7. CASE ops[k+1].slot # s
    <3> HIDE DEF was
    <3> QED
      BY <2>3, <2>4, <2>5, <2>7
  <2>8. CASE ops[k+1].slot = s
    <3> DEFINE x == h[k][s]
               y == h[k+1][s]
               X == ToSet(x.items)
               B == ToSet(st[s].items)
    <3>1. o = ops[k+1] /\ o \in Steps /\ y = CellAfter(x, o) /\ was(k+1)
      BY <2>1, <2>2, <2>3, <2>5, <2>8 DEF OnlyBy
    <3>2. ToSet(y.items) = SetAfter(X, o)
      BY <2>6, <3>1, CellAfterIsGood
    <3>3. X = B \/ X = SetAfter(B, o)
      <4> HIDE DEF was
      <4> QED
        BY <2>4
    <3> HIDE DEF X, B, x, y, was
    <3>4. SetAfter(X, o) = SetAfter(B, o)
      BY <3>1, <3>3, StepParts DEF SetAfter
    <3>5. o.kind \in {"replace", "clear"} => y = CellAfter(st[s], o)
      BY <3>1 DEF CellAfter
    <3>6. was(k+1) /\ ToSet(y.items) = SetAfter(B, o)
      BY <3>1, <3>2, <3>4
    <3> QED
      BY <3>5, <3>6 DEF y, B
  <2> QED
    BY <2>7, <2>8
<1>4. \A k \in Nat : k \in T => k + 1 \in T
  <2> HIDE DEF T
  <2> QED
    BY <1>3
<1> HIDE DEF T
<1>5. n \in T
  BY <1>2, <1>4, Induct
<1> HIDE DEF was
<1>6. good(h[n][s], n)
  BY <1>5 DEF T
<1>7. was(n) <=> Reached(ops, n, s)
  BY DEF was, Reached
<1> QED
  BY <1>1, <1>6, <1>7

----------------------------------------------------------------------------
(* Coalescing.                                                             *)

Collect(c, op, s) == IF op.slot = s THEN AppendUnique(c, op.value.items[1]) ELSE c

Collecting(s, ops, f) == [S \in SUBSET DOMAIN ops |->
                             IF S = {} THEN Absent ELSE Collect(f[S \ {Max(S)}], ops[Max(S)], s)]

\* Collected is a fold: its recursion, written out.
LEMMA CollectedUnfolds ==
    ASSUME NEW s, NEW ops
    PROVE  Collected(s, ops) = (CHOOSE f : f = Collecting(s, ops, f))[DOMAIN ops]
BY DEF Collected, FoldLeft, MapThenFoldSet, Collecting, Collect

\* The cells a slot's replaces are collected in.
CellsOf(h, s, ops, n) ==
    /\ h \in [0..n -> Cells] /\ h[0] = Absent
    /\ \A k \in 1..n : h[k] = Collect(h[k-1], ops[k], s)

\* A step of collecting gives a cell.
LEMMA CollectIsCell ==
    ASSUME NEW s, NEW c \in Cells, NEW op \in Operations, op.slot = s => op.kind = "replace"
    PROVE  Collect(c, op, s) \in Cells
<1>1. CASE op.slot # s
  BY <1>1 DEF Collect
<1>2. CASE op.slot = s
  <2>1. op.value.items[1] \in Values
    BY <1>2, OperationIsStep
  <2> QED
    BY <1>2, <2>1, AppendUniqueIsGood DEF Collect
<1> QED
  BY <1>1, <1>2

\* The cells that collecting leads through.
LEMMA CollectedSteps ==
    ASSUME NEW n \in Nat, NEW s, NEW ops \in [1..n -> Operations],
           \A i \in 1..n : ops[i].slot = s => ops[i].kind = "replace"
    PROVE  \E h : CellsOf(h, s, ops, n) /\ Collected(s, ops) = h[n]
<1> DEFINE G == [i \in 1..n |-> [x \in Cells |-> Collect(x, ops[i], s)]]
           it == CHOOSE f : f = Collecting(s, ops, f)
           none == Absent
<1>1. DOMAIN ops = 1..n /\ \A i \in 1..n : ops[i] \in Operations
  OBVIOUS
<1>2. G \in [1..n -> [Cells -> Cells]]
  BY <1>1, CollectIsCell
<1>3. \A i \in 1..n : \A x \in Cells : G[i][x] = Collect(x, ops[i], s)
  OBVIOUS
<1>4. none \in Cells
  BY SmallCells
<1> HIDE DEF G, none
<1>5. \E f : f = Collecting(s, ops, f)
  <2>1. PICK f : Folds(f, Cells, none, n, G)
    BY <1>2, <1>4, FoldExists
  <2>2. ASSUME NEW S \in SUBSET (1..n), S # {}
        PROVE  f[S] = Collect(f[S \ {Max(S)}], ops[Max(S)], s)
    <3>1. Max(S) \in 1..n
      BY <2>2, LastIndex
    <3>2. f[S \ {Max(S)}] \in Cells
      BY <2>1 DEF Folds
    <3> QED
      BY <2>1, <2>2, <3>1, <3>2, <1>3 DEF Folds
  <2>3. f = Collecting(s, ops, f)
    BY <1>1, <2>1, <2>2 DEF Collecting, Folds, none
  <2> QED
    BY <2>3
<1>6. it = Collecting(s, ops, it)
  BY <1>5
<1> HIDE DEF it
<1>7. it[{}] = none
  BY <1>6 DEF Collecting, none
<1>8. ASSUME NEW k \in 1..n, it[1..(k-1)] \in Cells PROVE it[1..k] = G[k][it[1..(k-1)]]
  <2>1. Max(1..k) = k /\ (1..k) \ {Max(1..k)} = 1..(k-1)
    BY LastOfPrefix
  <2>2. 1..k \in SUBSET (1..n) /\ 1..k # {}
    BY FirstIndices
  <2>3. it[1..k] = Collect(it[1..(k-1)], ops[k], s)
    BY <1>1, <1>6, <2>1, <2>2 DEF Collecting
  <2> QED
    BY <1>3, <1>8, <2>3
<1>9. PICK h : Runs(h, Cells, none, n, G) /\ h[n] = it[1..n]
  <2> DEFINE X == Cells
  <2>1. /\ none \in X /\ G \in [1..n -> [X -> X]]
        /\ \A k \in 1..n : it[1..(k-1)] \in X => it[1..k] = G[k][it[1..(k-1)]]
    BY <1>2, <1>4, <1>8
  <2> HIDE DEF X
  <2>2. \E h : Runs(h, X, none, n, G) /\ h[n] = it[1..n]
    <3>1. Folding(it, X, none, n, G)
      BY <1>7, <2>1 DEF Folding
    <3> QED
      BY <3>1, FoldSteps
  <2> QED
    BY <2>2 DEF X
<1>10. Collected(s, ops) = h[n]
  <2>1. Collected(s, ops) = it[DOMAIN ops]
    BY CollectedUnfolds DEF it
  <2> QED
    BY <1>1, <1>9, <2>1
<1>11. \A k \in 1..n : k - 1 \in 0..n
  OBVIOUS
<1>12. \A k \in 1..n : h[k] = Collect(h[k-1], ops[k], s)
  BY <1>3, <1>9, <1>11 DEF Runs
<1>13. CellsOf(h, s, ops, n)
  BY <1>9, <1>12 DEF Runs, CellsOf, none
<1> QED
  BY <1>10, <1>13

\* The values the first k operations name for slot s.
NamedFor(s, ops, k) == {ops[i].value.items[1] : i \in {j \in 1..k : ops[j].slot = s}}

\* What is collected for a slot is each value named for it, once.
LEMMA CollectedIsGood ==
    ASSUME NEW n \in Nat, NEW s, NEW ops \in [1..n -> Operations],
           \A i \in 1..n : ops[i].slot = s => ops[i].kind = "replace"
    PROVE  /\ Collected(s, ops) \in Cells
           /\ ToSet(Collected(s, ops).items) = NamedFor(s, ops, n)
<1>1. PICK h : CellsOf(h, s, ops, n) /\ Collected(s, ops) = h[n]
  BY CollectedSteps
<1> DEFINE T == {k \in Nat : k <= n => ToSet(h[k].items) = NamedFor(s, ops, k)}
<1>2. 0 \in T
  <2>1. NamedFor(s, ops, 0) = {}
    BY DEF NamedFor
  <2>2. h[0].items = <<>>
    BY <1>1, SmallCells DEF CellsOf
  <2> QED
    BY <2>1, <2>2, ShortLists
<1>3. ASSUME NEW k \in Nat, k \in T PROVE k + 1 \in T
  <2> SUFFICES ASSUME k + 1 <= n PROVE ToSet(h[k+1].items) = NamedFor(s, ops, k+1)
    OBVIOUS
  <2>1. k + 1 \in 1..n /\ (k + 1) - 1 = k /\ k \in 0..n
    OBVIOUS
  <2>2. h[k] \in Cells /\ h[k+1] = Collect(h[k], ops[k+1], s) /\ ops[k+1] \in Operations
    BY <1>1, <2>1 DEF CellsOf
  <2>3. ToSet(h[k].items) = NamedFor(s, ops, k)
    BY <1>3, <2>1
  <2>4. 1..(k+1) = (1..k) \cup {k+1}
    OBVIOUS
  <2>5. CASE ops[k+1].slot # s
    <3>1. NamedFor(s, ops, k+1) = NamedFor(s, ops, k)
      BY <2>4, <2>5 DEF NamedFor
    <3> QED
      BY <2>2, <2>3, <2>5, <3>1 DEF Collect
  <2>6. CASE ops[k+1].slot = s
    <3> DEFINE v == ops[k+1].value.items[1]
    <3>1. NamedFor(s, ops, k+1) = NamedFor(s, ops, k) \cup {v}
      BY <2>4, <2>6 DEF NamedFor
    <3>2. v \in Values /\ h[k+1] = AppendUnique(h[k], v)
      BY <2>1, <2>2, <2>6, OperationIsStep DEF Collect
    <3> HIDE DEF v
    <3> QED
      BY <2>2, <2>3, <3>1, <3>2, AppendUniqueIsGood
  <2> QED
    BY <2>5, <2>6
<1>4. \A k \in Nat : k \in T => k + 1 \in T
  <2> HIDE DEF T
  <2> QED
    BY <1>3
<1> HIDE DEF T
<1>5. n \in T
  BY <1>2, <1>4, Induct
<1>6. n \in 0..n
  OBVIOUS
<1> QED
  BY <1>1, <1>5, <1>6 DEF T, CellsOf

\* The slots whose replaces are coalesced.
Merges(s, ops) == s \in MultiSlots /\ OnlyReplaces(s, ops)

MergedReplace(s, ops) == Operation("replace", s, Collected(s, ops))

Emit(out, op, ops) ==
    IF ~Merges(op.slot, ops) THEN Append(out, op)
    ELSE IF OnSlot(op.slot, out) # {} THEN out
    ELSE Append(out, MergedReplace(op.slot, ops))

Coalescing(ops, f) == [S \in SUBSET DOMAIN ops |->
                          IF S = {} THEN <<>> ELSE Emit(f[S \ {Max(S)}], ops[Max(S)], ops)]

\* Coalesce is a fold: its recursion, written out.
LEMMA CoalesceUnfolds ==
    ASSUME NEW ops
    PROVE  Coalesce(ops) = (CHOOSE f : f = Coalescing(ops, f))[DOMAIN ops]
BY DEF Coalesce, FoldLeft, MapThenFoldSet, Coalescing, Emit, Merges, MergedReplace

StepLists == Seq(Steps)

\* An operation appended to a list.
LEMMA AppendedStep ==
    ASSUME NEW out \in StepLists, NEW op \in Steps
    PROVE  /\ Append(out, op) \in StepLists
           /\ \A s : OnSlot(s, Append(out, op)) =
                       OnSlot(s, out) \cup (IF op.slot = s THEN {op} ELSE {})
<1> DEFINE n == Len(out)
           m == Append(out, op)
<1>1. n \in Nat /\ DOMAIN out = 1..n /\ out \in Seq(Steps)
  BY DEF StepLists
<1>2. /\ m \in Seq(Steps) /\ DOMAIN m = 1..(n+1) /\ m[n+1] = op
      /\ \A i \in 1..n : m[i] = out[i]
  BY <1>1
<1> HIDE DEF m, n
<1>3. 1..(n+1) = (1..n) \cup {n+1}
  BY <1>1
<1>4. ToSet(m) = ToSet(out) \cup {op}
  BY <1>1, <1>2, <1>3 DEF ToSet
<1>5. \A s : OnSlot(s, m) = OnSlot(s, out) \cup (IF op.slot = s THEN {op} ELSE {})
  BY <1>4 DEF OnSlot
<1> QED
  BY <1>2, <1>5 DEF StepLists, m

\* Operations of a list, by their index.
LEMMA OnSlotByIndex ==
    ASSUME NEW n, NEW ops, DOMAIN ops = 1..n, NEW s
    PROVE  OnSlot(s, ops) = {ops[i] : i \in {j \in 1..n : ops[j].slot = s}}
BY DEF OnSlot, ToSet

\* The replace that coalescing emits names the values collected.
LEMMA MergedReplaceIsStep ==
    ASSUME NEW n \in Nat, NEW ops \in [1..n -> Operations], NEW s \in Slots, Merges(s, ops)
    PROVE  /\ MergedReplace(s, ops) \in Steps
           /\ MergedReplace(s, ops).slot = s /\ MergedReplace(s, ops).kind = "replace"
           /\ ToSet(MergedReplace(s, ops).value.items) = NamedFor(s, ops, n)
<1>1. \A i \in 1..n : ops[i].slot = s => ops[i].kind = "replace"
  BY OnSlotByIndex DEF Merges, OnlyReplaces
<1>2. Collected(s, ops) \in Cells /\ ToSet(Collected(s, ops).items) = NamedFor(s, ops, n)
  BY <1>1, CollectedIsGood
<1>3. /\ MergedReplace(s, ops).value = Collected(s, ops)
      /\ MergedReplace(s, ops).slot = s /\ MergedReplace(s, ops).kind = "replace"
  BY DEF MergedReplace, Operation
<1>4. MergedReplace(s, ops) \in Steps
  BY <1>2 DEF MergedReplace, Steps
<1> QED
  BY <1>2, <1>3, <1>4

\* What is emitted for operation op after `out'.
Emitted(new, out, op, ops) ==
    /\ new \in StepLists
    /\ \A s \in Slots :
          OnSlot(s, new) = IF op.slot # s THEN OnSlot(s, out)
                           ELSE IF ~Merges(s, ops) THEN OnSlot(s, out) \cup {op}
                           ELSE IF OnSlot(s, out) # {} THEN OnSlot(s, out)
                           ELSE {MergedReplace(s, ops)}

\* What a step of coalescing emits, by slot.
LEMMA EmitIsGood ==
    ASSUME NEW n \in Nat, NEW ops \in [1..n -> Operations], NEW i \in 1..n,
           NEW out \in StepLists
    PROVE  Emitted(Emit(out, ops[i], ops), out, ops[i], ops)
<1> DEFINE op == ops[i]
           u == op.slot
           r == MergedReplace(u, ops)
<1>1. op \in Operations /\ op \in Steps /\ u \in Slots
  BY OperationIsStep, StepParts
<1>2. Merges(u, ops) => r \in Steps /\ r.slot = u
  BY <1>1, MergedReplaceIsStep
<1> HIDE DEF op, r
<1>3. CASE ~Merges(u, ops)
  <2>1. Emit(out, op, ops) = Append(out, op)
    BY <1>3 DEF Emit
  <2>2. /\ Append(out, op) \in StepLists
        /\ \A s \in Slots : OnSlot(s, Append(out, op)) =
                               OnSlot(s, out) \cup (IF u = s THEN {op} ELSE {})
    BY <1>1, AppendedStep
  <2>3. ASSUME NEW s \in Slots, u # s
        PROVE  OnSlot(s, Append(out, op)) = OnSlot(s, out)
    BY <2>2, <2>3
  <2>4. OnSlot(u, Append(out, op)) = OnSlot(u, out) \cup {op}
    BY <1>1, <2>2
  <2> HIDE DEF u
  <2> QED
    BY <1>3, <2>1, <2>2, <2>3, <2>4 DEF op, u, Emitted
<1>4. CASE Merges(u, ops) /\ OnSlot(u, out) # {}
  <2>1. Emit(out, op, ops) = out
    BY <1>4 DEF Emit
  <2> QED
    BY <1>4, <2>1 DEF op, Emitted
<1>5. CASE Merges(u, ops) /\ OnSlot(u, out) = {}
  <2>1. Emit(out, op, ops) = Append(out, r)
    BY <1>5 DEF Emit, r
  <2>2. /\ Append(out, r) \in StepLists
        /\ \A s \in Slots : OnSlot(s, Append(out, r)) =
                               OnSlot(s, out) \cup (IF u = s THEN {r} ELSE {})
    BY <1>2, <1>5, AppendedStep
  <2>3. ASSUME NEW s \in Slots, u # s
        PROVE  OnSlot(s, Append(out, r)) = OnSlot(s, out)
    BY <2>2, <2>3
  <2>4. OnSlot(u, Append(out, r)) = {r}
    BY <1>1, <1>5, <2>2
  <2> HIDE DEF u
  <2> QED
    BY <1>5, <2>1, <2>2, <2>3, <2>4 DEF op, r, u, Emitted
<1> QED
  BY <1>3, <1>4, <1>5

\* The lists emitted after each operation.
EmittedBy(h, ops, n) ==
    /\ h \in [0..n -> StepLists] /\ h[0] = <<>>
    /\ \A k \in 1..n : h[k] = Emit(h[k-1], ops[k], ops)

\* The operation lists that coalescing leads through.
LEMMA CoalesceSteps ==
    ASSUME NEW n \in Nat, NEW ops \in [1..n -> Operations]
    PROVE  \E h : EmittedBy(h, ops, n) /\ Coalesce(ops) = h[n]
<1> DEFINE X == StepLists
           G == [i \in 1..n |-> [x \in X |-> Emit(x, ops[i], ops)]]
           it == CHOOSE f : f = Coalescing(ops, f)
           none == <<>>
<1>1. DOMAIN ops = 1..n
  OBVIOUS
<1>2. G \in [1..n -> [X -> X]]
  BY <1>1, EmitIsGood DEF Emitted
<1>3. \A i \in 1..n : \A x \in X : G[i][x] = Emit(x, ops[i], ops)
  OBVIOUS
<1>4. none \in X
  BY DEF StepLists
<1> HIDE DEF G, none, X
<1>5. \E f : f = Coalescing(ops, f)
  <2>1. PICK f : Folds(f, X, none, n, G)
    BY <1>2, <1>4, FoldExists
  <2>2. ASSUME NEW S \in SUBSET (1..n), S # {}
        PROVE  f[S] = Emit(f[S \ {Max(S)}], ops[Max(S)], ops)
    <3>1. Max(S) \in 1..n
      BY <2>2, LastIndex
    <3>2. f[S \ {Max(S)}] \in X
      BY <2>1 DEF Folds
    <3> QED
      BY <2>1, <2>2, <3>1, <3>2, <1>3 DEF Folds
  <2>3. f = Coalescing(ops, f)
    BY <1>1, <2>1, <2>2 DEF Coalescing, Folds, none
  <2> QED
    BY <2>3
<1>6. it = Coalescing(ops, it)
  BY <1>5
<1> HIDE DEF it
<1>7. it[{}] = none
  BY <1>6 DEF Coalescing, none
<1>8. ASSUME NEW k \in 1..n, it[1..(k-1)] \in X PROVE it[1..k] = G[k][it[1..(k-1)]]
  <2>1. Max(1..k) = k /\ (1..k) \ {Max(1..k)} = 1..(k-1)
    BY LastOfPrefix
  <2>2. 1..k \in SUBSET (1..n) /\ 1..k # {}
    BY FirstIndices
  <2>3. it[1..k] = Emit(it[1..(k-1)], ops[k], ops)
    BY <1>1, <1>6, <2>1, <2>2 DEF Coalescing
  <2> QED
    BY <1>3, <1>8, <2>3
<1>9. PICK h : Runs(h, X, none, n, G) /\ h[n] = it[1..n]
  <2>1. \A k \in 1..n : it[1..(k-1)] \in X => it[1..k] = G[k][it[1..(k-1)]]
    BY <1>8
  <2>2. Folding(it, X, none, n, G)
    BY <1>2, <1>4, <1>7, <2>1 DEF Folding
  <2> QED
    BY <2>2, FoldSteps
<1>10. Coalesce(ops) = h[n]
  <2>1. Coalesce(ops) = it[DOMAIN ops]
    BY CoalesceUnfolds DEF it
  <2> QED
    BY <1>1, <1>9, <2>1
<1>11. \A k \in 1..n : k - 1 \in 0..n
  OBVIOUS
<1>12. \A k \in 1..n : h[k] = Emit(h[k-1], ops[k], ops)
  BY <1>3, <1>9, <1>11 DEF Runs
<1>13. EmittedBy(h, ops, n)
  BY <1>9, <1>12 DEF Runs, EmittedBy, none, X
<1> QED
  BY <1>10, <1>13

\* Coalescing leaves the operations of a slot alone or makes them one replace.
LEMMA CoalescedOnSlot ==
    ASSUME NEW n \in Nat, NEW ops \in [1..n -> Operations]
    PROVE  /\ Coalesce(ops) \in StepLists
           /\ \A s \in Slots :
                 OnSlot(s, Coalesce(ops)) =
                    IF Merges(s, ops) THEN {MergedReplace(s, ops)} ELSE OnSlot(s, ops)
<1>1. PICK h : EmittedBy(h, ops, n) /\ Coalesce(ops) = h[n]
  BY CoalesceSteps
<1> DEFINE on(s, k) == {ops[i] : i \in {j \in 1..k : ops[j].slot = s}}
           expected(s, k) == IF ~Merges(s, ops) THEN on(s, k)
                             ELSE IF on(s, k) = {} THEN {} ELSE {MergedReplace(s, ops)}
           good(out, k) == out \in StepLists /\ \A s \in Slots : OnSlot(s, out) = expected(s, k)
           T == {k \in Nat : k <= n => good(h[k], k)}
<1>2. 0 \in T
  <2>1. h[0] = <<>> /\ h[0] \in StepLists
    BY <1>1 DEF EmittedBy, StepLists
  <2>2. \A s \in Slots : on(s, 0) = {} /\ OnSlot(s, <<>>) = {}
    BY DEF OnSlot, ToSet
  <2> HIDE DEF on
  <2> QED
    BY <2>1, <2>2
<1>3. ASSUME NEW k \in Nat, k \in T PROVE k + 1 \in T
  <2> HIDE DEF good
  <2> SUFFICES ASSUME k + 1 <= n PROVE good(h[k+1], k+1)
    OBVIOUS
  <2>1. k + 1 \in 1..n /\ (k + 1) - 1 = k /\ k \in 0..n
    OBVIOUS
  <2> DEFINE op == ops[k+1]
             x == h[k]
             y == h[k+1]
  <2>2. x \in StepLists /\ y = Emit(x, op, ops)
    BY <1>1, <2>1 DEF EmittedBy
  <2>3. good(x, k)
    BY <1>3, <2>1
  <2>4. \A s \in Slots : on(s, k+1) = on(s, k) \cup (IF op.slot = s THEN {op} ELSE {})
    <3>1. 1..(k+1) = (1..k) \cup {k+1}
      OBVIOUS
    <3>2. ASSUME NEW s \in Slots, op.slot = s PROVE on(s, k+1) = on(s, k) \cup {op}
      BY <3>1, <3>2
    <3>3. ASSUME NEW s \in Slots, op.slot # s PROVE on(s, k+1) = on(s, k)
      BY <3>1, <3>3
    <3> HIDE DEF on, op
    <3> QED
      BY <3>2, <3>3
  <2>5. Emitted(y, x, op, ops)
    BY <2>1, <2>2, EmitIsGood
  <2> HIDE DEF on, op, x, y
  <2> USE DEF Emitted, good
  <2>6. ASSUME NEW s \in Slots PROVE OnSlot(s, y) = expected(s, k+1)
    <3>1. CASE op.slot # s
      BY <2>3, <2>4, <2>5, <3>1
    <3>2. CASE op.slot = s /\ ~Merges(s, ops)
      BY <2>3, <2>4, <2>5, <3>2
    <3>3. CASE op.slot = s /\ Merges(s, ops)
      <4>1. on(s, k+1) # {}
        BY <2>4, <3>3
      <4>2. OnSlot(s, y) = {MergedReplace(s, ops)}
        BY <2>3, <2>5, <3>3
      <4> QED
        BY <3>3, <4>1, <4>2
    <3> QED
      BY <3>1, <3>2, <3>3
  <2>7. good(y, k+1)
    BY <2>5, <2>6
  <2> QED
    BY <2>7 DEF y
<1>4. \A k \in Nat : k \in T => k + 1 \in T
  <2> HIDE DEF T
  <2> QED
    BY <1>3
<1> HIDE DEF T, good
<1>5. n \in T
  BY <1>2, <1>4, Induct
<1>6. good(h[n], n)
  BY <1>5 DEF T
<1>7. \A s : on(s, n) = OnSlot(s, ops)
  BY OnSlotByIndex
<1>8. \A s : Merges(s, ops) => OnSlot(s, ops) # {}
  BY DEF Merges, OnlyReplaces
<1> HIDE DEF on
<1> QED
  BY <1>1, <1>6, <1>7, <1>8 DEF good

----------------------------------------------------------------------------
(* Rolling back.                                                           *)

\* SetToSeq lists a finite set, each element at some index.
LEMMA ListedSet ==
    ASSUME NEW S, IsFiniteSet(S)
    PROVE  \E n \in Nat : /\ SetToSeq(S) \in [1..n -> S]
                          /\ \A x \in S : \E i \in 1..n : SetToSeq(S)[i] = x
<1> DEFINE n == Cardinality(S)
           ok(f) == f \in [1..n -> S] /\ IsInjective(f)
           l == SetToSeq(S)
<1>1. n \in Nat /\ ExistsBijection(1..n, S)
  BY FS_CardinalityType
<1>2. PICK f : f \in Bijection(1..n, S)
  BY <1>1 DEF ExistsBijection
<1>3. ok(f)
  BY <1>2 DEF Bijection, Injection
<1>4. l = CHOOSE g \in [1..n -> S] : IsInjective(g)
  BY DEF SetToSeq
<1> HIDE DEF n, l
<1>5. l \in [1..n -> S] /\ IsInjective(l)
  BY <1>3, <1>4
<1>6. l \in Injection(1..n, S)
  BY <1>5 DEF Injection
<1>7. IsFiniteSet(1..n) /\ Cardinality(1..n) = n
  BY <1>1, FS_Interval
<1>8. l \in Surjection(1..n, S)
  BY <1>6, <1>7, FS_Injection DEF n
<1>9. \A x \in S : \E i \in 1..n : l[i] = x
  BY <1>8 DEF Surjection
<1> QED
  BY <1>1, <1>5, <1>9 DEF l

\* There are at most four slots.
LEMMA SlotsFinite == IsFiniteSet(Slots)
<1>1. Slots \subseteq {"sensors", "test_segments", "indicator_names", "data_types"}
  BY ObservationAssumption DEF Slots, MultiSlots
<1>2. IsFiniteSet({"sensors"})
  BY FS_Singleton
<1>3. IsFiniteSet({"sensors"} \cup {"test_segments"})
  BY <1>2, FS_AddElement
<1>4. IsFiniteSet({"sensors"} \cup {"test_segments"} \cup {"indicator_names"})
  BY <1>3, FS_AddElement
<1>5. IsFiniteSet({"sensors"} \cup {"test_segments"} \cup {"indicator_names"}
                      \cup {"data_types"})
  BY <1>4, FS_AddElement
<1>6. {"sensors", "test_segments", "indicator_names", "data_types"}
        = {"sensors"} \cup {"test_segments"} \cup {"indicator_names"} \cup {"data_types"}
  OBVIOUS
<1> QED
  BY <1>1, <1>5, <1>6, FS_Subset

\* The operation that brings slot s back to cell c.
BackTo(s, c) ==
    IF c = Absent THEN Operation("clear", s, Absent) ELSE Operation("replace", s, c)

\* Bringing a slot back makes its cell what it was.
LEMMA BackToIsStep ==
    ASSUME NEW s \in Slots, NEW c \in Cells, NEW x
    PROVE  /\ BackTo(s, c) \in Steps /\ BackTo(s, c).slot = s
           /\ BackTo(s, c).kind \in {"replace", "clear"}
           /\ CellAfter(x, BackTo(s, c)) = c
<1>1. CASE c = Absent
  BY <1>1 DEF BackTo, Steps, Operation, CellAfter
<1>2. CASE c # Absent
  BY <1>2 DEF BackTo, Steps, Operation, CellAfter
<1> QED
  BY <1>1, <1>2

\* A rollback has one operation per changed slot, back to what it was.
LEMMA RollbackParts ==
    ASSUME NEW a \in States, NEW b \in States
    PROVE  \E n \in Nat :
             LET ops == RollbackOperations(Diff(a, b))
             IN  /\ ops \in [1..n -> Steps]
                 /\ \A i \in 1..n : \E s \in Slots : ops[i] = BackTo(s, a[s])
                 /\ \A s \in Slots : a[s] # b[s] => \E i \in 1..n : ops[i] = BackTo(s, a[s])
                 /\ \A i \in 1..n : a[ops[i].slot] # b[ops[i].slot]
<1> DEFINE D == {s \in Slots : a[s] # b[s]}
           R == {BackTo(s, a[s]) : s \in D}
           ops == RollbackOperations(Diff(a, b))
<1>1. ops = SetToSeq(R)
  <2>1. Diff(a, b) = {[slot |-> s, from |-> a[s], to |-> b[s]] : s \in D}
    BY DEF Diff
  <2> DEFINE back(c) == IF c.from = Absent THEN Operation("clear", c.slot, Absent)
                        ELSE Operation("replace", c.slot, c.from)
  <2>2. ops = SetToSeq({back(c) : c \in Diff(a, b)})
    BY DEF RollbackOperations
  <2>3. \A s \in D : back([slot |-> s, from |-> a[s], to |-> b[s]]) = BackTo(s, a[s])
    BY DEF BackTo
  <2>4. {back(c) : c \in Diff(a, b)} = R
    <3> HIDE DEF back
    <3> DEFINE change(s) == [slot |-> s, from |-> a[s], to |-> b[s]]
               to(s) == BackTo(s, a[s])
    <3>1. Diff(a, b) = {change(s) : s \in D}
      BY <2>1
    <3>2. \A s \in D : back(change(s)) = to(s)
      BY <2>3
    <3>3. R = {to(s) : s \in D}
      OBVIOUS
    <3> HIDE DEF change, to, D, R
    <3> QED
      BY <3>1, <3>2, <3>3
  <2> QED
    BY <2>2, <2>4
<1>2. IsFiniteSet(D)
  BY SlotsFinite, FS_Subset
<1>3. IsFiniteSet(R)
  <2> DEFINE to == [s \in D |-> BackTo(s, a[s])]
  <2>1. to \in [D -> R] /\ \A r \in R : \E s \in D : to[s] = r
    OBVIOUS
  <2> HIDE DEF D, R, to
  <2>2. to \in Surjection(D, R)
    BY <2>1 DEF Surjection
  <2> QED
    BY <1>2, <2>2, FS_Surjection
<1>4. \A s \in Slots : a[s] \in Cells
  BY DEF States
<1>5. \A s \in D : BackTo(s, a[s]) \in Steps /\ BackTo(s, a[s]).slot = s
  BY <1>4, BackToIsStep
<1>6. /\ R \subseteq Steps
      /\ \A r \in R : a[r.slot] # b[r.slot] /\ \E s \in Slots : r = BackTo(s, a[s])
  BY <1>5
<1>7. \A s \in Slots : a[s] # b[s] => BackTo(s, a[s]) \in R
  OBVIOUS
<1> HIDE DEF R, ops
<1>8. PICK n \in Nat : /\ ops \in [1..n -> R]
                       /\ \A x \in R : \E i \in 1..n : ops[i] = x
  BY <1>1, <1>3, ListedSet
<1>9. /\ ops \in [1..n -> Steps]
      /\ \A i \in 1..n : \E s \in Slots : ops[i] = BackTo(s, a[s])
      /\ \A i \in 1..n : a[ops[i].slot] # b[ops[i].slot]
  BY <1>6, <1>8
<1>10. \A s \in Slots : a[s] # b[s] => \E i \in 1..n : ops[i] = BackTo(s, a[s])
  BY <1>7, <1>8
<1> QED
  BY <1>9, <1>10 DEF ops

\* Rolling back from b the diff of a and b gives a.
LEMMA RollbackUndoes ==
    ASSUME NEW a \in States, NEW b \in States
    PROVE  ApplyAll(b, RollbackOperations(Diff(a, b))) = a
<1> DEFINE ops == RollbackOperations(Diff(a, b))
<1>1. PICK n \in Nat :
         /\ ops \in [1..n -> Steps]
         /\ \A i \in 1..n : \E s \in Slots : ops[i] = BackTo(s, a[s])
         /\ \A s \in Slots : a[s] # b[s] => \E i \in 1..n : ops[i] = BackTo(s, a[s])
         /\ \A i \in 1..n : a[ops[i].slot] # b[ops[i].slot]
  BY RollbackParts
<1>2. \A s \in Slots : a[s] \in Cells /\ b[s] \in Cells
  BY DEF States
<1> HIDE DEF ops
<1>3. ApplyAll(b, ops) \in States
  BY <1>1, ApplyAllIsState
<1>4. ASSUME NEW s \in Slots PROVE ApplyAll(b, ops)[s] = a[s]
  <2> DEFINE o == BackTo(s, a[s])
  <2>1. ASSUME NEW i \in 1..n, ops[i].slot = s PROVE ops[i] = o
    <3>1. PICK u \in Slots : ops[i] = BackTo(u, a[u])
      BY <1>1
    <3>2. BackTo(u, a[u]).slot = u
      BY <1>2, BackToIsStep
    <3> QED
      BY <2>1, <3>1, <3>2
  <2>2. o.slot = s /\ o.kind \in {"replace", "clear"} /\ CellAfter(b[s], o) = a[s]
    BY <1>2, BackToIsStep
  <2> HIDE DEF o
  <2>0. ops \in [1..n -> Steps] /\ OnlyBy(ops, n, s, o)
    BY <1>1, <2>1 DEF OnlyBy
  <2>3. CASE a[s] = b[s]
    <3>1. ~Reached(ops, n, s)
      BY <1>1, <2>3 DEF Reached
    <3> QED
      BY <2>0, <2>3, <3>1, OneOperationPerSlot
  <2>4. CASE a[s] # b[s]
    <3>1. Reached(ops, n, s)
      BY <1>1, <2>2, <2>4 DEF o, Reached
    <3> QED
      BY <2>0, <2>2, <3>1, OneOperationPerSlot
  <2> QED
    BY <2>3, <2>4
<1> QED
  BY <1>3, <1>4 DEF ops, States

----------------------------------------------------------------------------
(* The states the program can be in.                                       *)

\* Operation lists as functions on an initial segment of the numbers.
LEMMA ListedOperations ==
    /\ \A ops \in Seq(Operations) : \E n \in Nat : ops \in [1..n -> Operations]
    /\ \A ops \in StepLists : \E n \in Nat : ops \in [1..n -> Steps]
<1>1. \A S : \A ops \in Seq(S) : Len(ops) \in Nat /\ ops \in [1..Len(ops) -> S]
  OBVIOUS
<1> QED
  BY <1>1 DEF StepLists

\* Rollback operations are a list that can be applied.
LEMMA RollbackIsList ==
    ASSUME NEW a \in States, NEW b \in States
    PROVE  \E n \in Nat : RollbackOperations(Diff(a, b)) \in [1..n -> Steps]
<1> DEFINE ops == RollbackOperations(Diff(a, b))
<1> HIDE DEF ops
<1>1. \E n \in Nat : ops \in [1..n -> Steps]
  BY RollbackParts DEF ops
<1> QED
  BY <1>1 DEF ops

\* The last diff tells the last state from the one before it; every cell lists
\* its values once.
SlotsInv ==
    /\ state \in States
    /\ before \in States
    /\ diff = Diff(before, state)

\* The empty state.
LEMMA AbsentIsState == [s \in Slots |-> Absent] \in States
<1>1. Absent \in Cells
  BY SmallCells
<1> HIDE DEF Absent
<1> QED
  BY <1>1 DEF States

\* A session starts empty and without a diff.
LEMMA InitSlotsInv == Init => SlotsInv
<1> SUFFICES ASSUME Init PROVE SlotsInv
  OBVIOUS
<1>1. state \in States /\ before = state /\ diff = {}
  BY AbsentIsState DEF Init
<1>2. Diff(before, state) = {}
  BY <1>1 DEF Diff
<1> QED
  BY <1>1, <1>2 DEF SlotsInv

\* A commit keeps the diff true to the states.
LEMMA BecomeKeepsInv ==
    ASSUME SlotsInv, NEW new \in States, NEW ops, Become(new, ops)
    PROVE  SlotsInv'
<1>1. state' = new /\ before' = state /\ diff' = Diff(state, new)
  BY DEF Become
<1>2. Diff(before, state)' = Diff(state, new)
  BY <1>1 DEF Diff
<1> QED
  BY <1>1, <1>2 DEF SlotsInv

\* Committing a batch gives a state.
LEMMA CommittedIsState ==
    ASSUME NEW st \in States, NEW ops \in OperationLists
    PROVE  ApplyAll(st, Coalesce(ops)) \in States
<1>1. PICK n \in Nat : ops \in [1..n -> Operations]
  BY OperationsAssumption, ListedOperations
<1> DEFINE c == Coalesce(ops)
<1>2. c \in StepLists
  BY <1>1, CoalescedOnSlot
<1> HIDE DEF c
<1>3. PICK m \in Nat : c \in [1..m -> Steps]
  BY <1>2, ListedOperations
<1>4. ApplyAll(st, c) \in States
  BY <1>3, ApplyAllIsState
<1> QED
  BY <1>4 DEF c

\* Every step keeps the invariant.
LEMMA NextSlotsInv == SlotsInv /\ [Next]_vars => SlotsInv'
<1> SUFFICES ASSUME SlotsInv, [Next]_vars PROVE SlotsInv'
  OBVIOUS
<1>1. ASSUME NEW ops \in OperationLists, CommitBatch(ops) PROVE SlotsInv'
  <2>1. ApplyAll(state, Coalesce(ops)) \in States
    BY CommittedIsState DEF SlotsInv
  <2> QED
    BY <1>1, <2>1, BecomeKeepsInv DEF CommitBatch
<1>2. CASE ClearAll
  BY <1>2, AbsentIsState, BecomeKeepsInv DEF ClearAll
<1>3. CASE RollBack
  <2>1. ApplyAll(state, RollbackOperations(diff)) = before
    BY RollbackUndoes DEF SlotsInv
  <2>2. before \in States
    BY DEF SlotsInv
  <2> QED
    BY <1>3, <2>1, <2>2, BecomeKeepsInv DEF RollBack
<1>4. CASE UNCHANGED vars
  BY <1>4 DEF vars, SlotsInv, Diff
<1> QED
  BY <1>1, <1>2, <1>3, <1>4 DEF Next

\* The invariant of the slot states.
LEMMA SlotsInvariant == Spec => []SlotsInv
BY InitSlotsInv, NextSlotsInv, PTL DEF Spec

\* Rolling the last commit back brings the state before it back, exactly,
\* whatever operations slot resolution returns: SlotStateDiff.
\* rollback_operations undoes SlotState.apply_all.
THEOREM RollbackCorrect == Spec => []RollbackRestores
<1>1. SlotsInv => RollbackRestores
  BY RollbackUndoes DEF SlotsInv, RollbackRestores
<1> QED
  BY <1>1, SlotsInvariant, PTL

\* No slot ever lists a value twice, for every sequence of commits, clears and
\* rollbacks: SlotState.apply with the coalescing of replaces.
THEOREM UniqueLists == Spec => []ListsAreUnique
<1>1. SlotsInv => ListsAreUnique
  <2> SUFFICES ASSUME SlotsInv, NEW s \in Slots PROVE IsInjective(state[s].items)
    BY DEF ListsAreUnique
  <2>1. state[s] \in Cells
    BY DEF SlotsInv, States
  <2> QED
    BY <2>1 DEF Cells, Lists
<1> QED
  BY <1>1, SlotsInvariant, PTL

----------------------------------------------------------------------------
(* Commits as sets.                                                        *)

\* What a list of operations makes of a slot with at most one of them.
LEMMA SlotAfter ==
    ASSUME NEW st \in States, NEW c \in StepLists, NEW s \in Slots
    PROVE  /\ OnSlot(s, c) = {} => ApplyAll(st, c)[s] = st[s]
           /\ \A o : OnSlot(s, c) = {o} =>
                 ToSet(ApplyAll(st, c)[s].items) = SetAfter(ToSet(st[s].items), o)
<1>1. PICK n \in Nat : c \in [1..n -> Steps]
  BY ListedOperations
<1>2. OnSlot(s, c) = {c[i] : i \in {j \in 1..n : c[j].slot = s}}
  BY <1>1, OnSlotByIndex
<1>3. ASSUME OnSlot(s, c) = {} PROVE ApplyAll(st, c)[s] = st[s]
  <2>1. ~Reached(c, n, s)
    BY <1>2, <1>3 DEF Reached
  <2>2. OnlyBy(c, n, s, Absent)
    BY <2>1 DEF OnlyBy, Reached
  <2> QED
    BY <1>1, <2>1, <2>2, OneOperationPerSlot
<1>4. ASSUME NEW o, OnSlot(s, c) = {o}
      PROVE  ToSet(ApplyAll(st, c)[s].items) = SetAfter(ToSet(st[s].items), o)
  <2>1. Reached(c, n, s)
    BY <1>2, <1>4 DEF Reached
  <2>2. OnlyBy(c, n, s, o)
    BY <1>2, <1>4 DEF OnlyBy
  <2> QED
    BY <1>1, <2>1, <2>2, OneOperationPerSlot
<1> QED
  BY <1>3, <1>4

\* The operations of a slot, when there is at most one.
LEMMA NoneOrOne ==
    ASSUME NEW n \in Nat, NEW ops \in [1..n -> Operations], NEW s,
           Cardinality(OnSlot(s, ops)) <= 1
    PROVE  OnSlot(s, ops) = {} \/ \E o : OnSlot(s, ops) = {o}
<1> DEFINE S == OnSlot(s, ops)
<1>1. ops \in Surjection(1..n, ToSet(ops))
  BY DEF Surjection, ToSet
<1>2. IsFiniteSet(ToSet(ops))
  BY <1>1, FS_Interval, FS_Surjection
<1>3. S \subseteq ToSet(ops)
  BY DEF OnSlot
<1>4. IsFiniteSet(S)
  BY <1>2, <1>3, FS_Subset
<1> HIDE DEF S
<1>5. Cardinality(S) \in Nat
  BY <1>4, FS_CardinalityType
<1>6. Cardinality(S) = 0 \/ Cardinality(S) = 1
  BY <1>5 DEF S
<1>7. S = {} \/ \E o : S = {o}
  BY <1>4, <1>6, FS_EmptySet, FS_Singleton
<1> QED
  BY <1>7 DEF S

\* What a batch of sets says of slot s.
EffectOn(s, ops) == BatchOf(ops).on[s]

\* The effect of a batch on a slot, in the cases there are.
LEMMA SetsEffects ==
    ASSUME NEW ops, NEW s \in Slots
    PROVE  /\ OnSlot(s, ops) = {} => EffectOn(s, ops).act = "none"
           /\ \A o : OnSlot(s, ops) = {o} => /\ EffectOn(s, ops).act = o.kind
                                             /\ EffectOn(s, ops).vals = ToSet(o.value.items)
           /\ OnlyReplaces(s, ops) => EffectOn(s, ops).act = "replace"
           /\ EffectOn(s, ops).vals = UNION {ToSet(o.value.items) : o \in OnSlot(s, ops)}
<1> DEFINE os == OnSlot(s, ops)
<1>1. /\ EffectOn(s, ops).act = IF os = {} THEN "none" ELSE (CHOOSE op \in os : TRUE).kind
      /\ EffectOn(s, ops).vals = UNION {ToSet(op.value.items) : op \in os}
  BY DEF EffectOn, BatchOf
<1> HIDE DEF os
<1>2. os # {} => (CHOOSE op \in os : TRUE) \in os
  OBVIOUS
<1>3. os = {} => EffectOn(s, ops).act = "none"
  BY <1>1
<1>4. \A o : os = {o} => /\ EffectOn(s, ops).act = o.kind
                         /\ EffectOn(s, ops).vals = ToSet(o.value.items)
  BY <1>1, <1>2
<1>5. os # {} /\ (\A op \in os : op.kind = "replace") => EffectOn(s, ops).act = "replace"
  BY <1>1, <1>2
<1> QED
  BY <1>1, <1>3, <1>4, <1>5 DEF os, OnlyReplaces

\* The values that replaces name for a slot, as one set.
LEMMA ReplacedValues ==
    ASSUME NEW n \in Nat, NEW ops \in [1..n -> Operations], NEW s, OnlyReplaces(s, ops)
    PROVE  UNION {ToSet(o.value.items) : o \in OnSlot(s, ops)} = NamedFor(s, ops, n)
<1>1. OnSlot(s, ops) = {ops[i] : i \in {j \in 1..n : ops[j].slot = s}}
  BY OnSlotByIndex
<1>2. ASSUME NEW o \in OnSlot(s, ops)
      PROVE  ToSet(o.value.items) = {o.value.items[1]}
  <2>1. o \in Operations /\ o.kind = "replace"
    BY <1>1, <1>2 DEF OnlyReplaces
  <2>2. o.value.items[1] \in Values /\ o.value = One(o.value.items[1])
    BY <2>1, OperationIsStep
  <2> DEFINE v == o.value.items[1]
  <2>3. o.value.items = <<v>> /\ v \in Values
    BY <2>2, SmallCells
  <2> HIDE DEF v
  <2>4. ToSet(<<v>>) = {v}
    BY <2>3, ShortLists
  <2> QED
    BY <2>3, <2>4 DEF v
<1>3. UNION {ToSet(o.value.items) : o \in OnSlot(s, ops)}
        = {o.value.items[1] : o \in OnSlot(s, ops)}
  <2> DEFINE os == OnSlot(s, ops)
             all(o) == ToSet(o.value.items)
             first(o) == o.value.items[1]
  <2>1. \A o \in os : all(o) = {first(o)}
    BY <1>2
  <2> HIDE DEF os, all, first
  <2>2. UNION {all(o) : o \in os} = {first(o) : o \in os}
    BY <2>1
  <2> QED
    BY <2>2 DEF os, all, first
<1>4. {o.value.items[1] : o \in OnSlot(s, ops)} = NamedFor(s, ops, n)
  BY <1>1 DEF NamedFor
<1> QED
  BY <1>3, <1>4

\* The set-valued effect of an operation.
LEMMA SetAfterCommit ==
    ASSUME NEW op \in Operations, NEW S
    PROVE  SetAfter(S, op) =
             CASE op.kind = "replace" -> ToSet(op.value.items)
               [] op.kind = "add"     -> S \cup ToSet(op.value.items)
               [] op.kind = "remove"  -> S \ ToSet(op.value.items)
               [] op.kind = "clear"   -> {}
               [] OTHER               -> S
<1>1. op \in Steps
  BY OperationIsStep
<1>2. ASSUME op.kind # "clear" PROVE ToSet(op.value.items) = {op.value.items[1]}
  <2> DEFINE v == op.value.items[1]
  <2>1. v \in Values /\ op.value = One(v)
    BY <1>2, OperationIsStep
  <2>2. op.value.items = <<v>>
    BY <2>1, SmallCells
  <2> HIDE DEF v
  <2>3. ToSet(<<v>>) = {v}
    BY <2>1, ShortLists
  <2> QED
    BY <2>2, <2>3 DEF v
<1>3. op.kind \in {"replace", "add", "remove", "clear"}
  BY <1>1, StepParts
<1> QED
  BY <1>2, <1>3 DEF SetAfter

\* Committing value by value is committing sets.
LEMMA CommittedSets ==
    ASSUME NEW st \in States, NEW ops \in OperationLists, OneEffect(ops)
    PROVE  SetsOf(ApplyAll(st, Coalesce(ops))) = Commit(SetsOf(st), BatchOf(ops))
<1>1. PICK n \in Nat : ops \in [1..n -> Operations]
  BY OperationsAssumption, ListedOperations
<1> DEFINE c == Coalesce(ops)
           new == ApplyAll(st, c)
<1>2. c \in StepLists
  BY <1>1, CoalescedOnSlot
<1>3. \A s \in Slots : OnSlot(s, c) = IF Merges(s, ops) THEN {MergedReplace(s, ops)}
                                      ELSE OnSlot(s, ops)
  BY <1>1, CoalescedOnSlot
<1> HIDE DEF c, new
<1>4. ASSUME NEW s \in Slots
      PROVE  ToSet(new[s].items) = Commit(SetsOf(st), BatchOf(ops))[s]
  <2> DEFINE e == EffectOn(s, ops)
             S == ToSet(st[s].items)
             committed == CASE e.act = "replace" -> e.vals
                            [] e.act = "add"     -> S \cup e.vals
                            [] e.act = "remove"  -> S \ e.vals
                            [] e.act = "clear"   -> {}
                            [] OTHER             -> S
  <2>1. Commit(SetsOf(st), BatchOf(ops))[s] = committed
    BY DEF Commit, SetsOf, BatchOf, EffectOn
  <2>2. OnSlot(s, c) = {} => new[s] = st[s]
    BY <1>2, SlotAfter DEF new
  <2>3. \A o : OnSlot(s, c) = {o} => ToSet(new[s].items) = SetAfter(S, o)
    BY <1>2, SlotAfter DEF new
  <2> HIDE DEF S
  <2>4. CASE Merges(s, ops)
    <3> DEFINE r == MergedReplace(s, ops)
    <3>1. r.kind = "replace" /\ ToSet(r.value.items) = NamedFor(s, ops, n)
      BY <1>1, <2>4, MergedReplaceIsStep
    <3>2. OnlyReplaces(s, ops)
      BY <2>4 DEF Merges
    <3>3. e.act = "replace" /\ e.vals = NamedFor(s, ops, n)
      BY <1>1, <3>2, SetsEffects, ReplacedValues
    <3>4. SetAfter(S, r) = NamedFor(s, ops, n)
      BY <3>1 DEF SetAfter
    <3> HIDE DEF r, e
    <3>5. ToSet(new[s].items) = SetAfter(S, r)
      BY <1>3, <2>3, <2>4 DEF r
    <3> QED
      BY <2>1, <3>3, <3>4, <3>5
  <2>5. CASE ~Merges(s, ops) /\ OnSlot(s, ops) = {}
    <3>1. e.act = "none"
      BY <2>5, SetsEffects
    <3>2. new[s] = st[s]
      BY <1>3, <2>2, <2>5
    <3> HIDE DEF e
    <3> QED
      BY <2>1, <3>1, <3>2 DEF S
  <2>6. CASE ~Merges(s, ops) /\ \E o : OnSlot(s, ops) = {o}
    <3>1. PICK o : OnSlot(s, ops) = {o}
      BY <2>6
    <3>2. o \in Operations
      BY <1>1, <3>1, OnSlotByIndex
    <3>3. e.act = o.kind /\ e.vals = ToSet(o.value.items)
      BY <3>1, SetsEffects
    <3>4. ToSet(new[s].items) = SetAfter(S, o)
      BY <1>3, <2>3, <2>6, <3>1
    <3> HIDE DEF e
    <3> QED
      BY <2>1, <3>2, <3>3, <3>4, SetAfterCommit
  <2>7. OnSlot(s, ops) = {} \/ (\E o : OnSlot(s, ops) = {o}) \/ Merges(s, ops)
    BY <1>1, NoneOrOne DEF OneEffect, Merges, OnlyReplaces
  <2> QED
    BY <2>1, <2>4, <2>5, <2>6, <2>7
<1>5. SetsOf(new) = [s \in Slots |-> ToSet(new[s].items)]
  BY DEF SetsOf
<1> DEFINE C == Commit(SetsOf(st), BatchOf(ops))
<1>6. C = [s \in Slots |-> C[s]]
  BY DEF Commit, BatchOf
<1> HIDE DEF C
<1>7. \A s \in Slots : ToSet(new[s].items) = C[s]
  BY <1>4 DEF C
<1> QED
  BY <1>5, <1>6, <1>7 DEF C, new, c

\* Committing a batch in order, value by value, is the set-valued commit of
\* module SlotPipeline, for every batch with one effect per slot: what modules
\* SlotPipeline and SynapseTurns abstract from is not needed there.
THEOREM CommitsAreSets == Spec => CommitsAsSets
<1> DEFINE Right == batch' # <<>> /\ OneEffect(batch') =>
                       SetsOf(state') = Commit(SetsOf(state), BatchOf(batch'))
<1>1. SlotsInv /\ [Next]_vars => [Right]_vars
  <2> SUFFICES ASSUME SlotsInv, Next, batch' # <<>>, OneEffect(batch')
               PROVE  SetsOf(state') = Commit(SetsOf(state), BatchOf(batch'))
    OBVIOUS
  <2>1. PICK ops \in OperationLists : CommitBatch(ops)
    BY DEF Next, ClearAll, RollBack, Become
  <2>2. state' = ApplyAll(state, Coalesce(ops)) /\ batch' = ops
    BY <2>1 DEF CommitBatch, Become
  <2>3. state \in States
    BY DEF SlotsInv
  <2> QED
    BY <2>2, <2>3, CommittedSets
<1> HIDE DEF Right
<1>2. Spec => [][Right]_vars
  BY <1>1, SlotsInvariant, PTL DEF Spec
<1> QED
  BY <1>2 DEF Right, CommitsAsSets

----------------------------------------------------------------------------
(* Committing a batch again.  Its operations on a slot keep a list that the *)
(* first commit has left, as long as they put back nothing they removed.    *)

\* List l begins with list p.
Starts(l, p) == Len(p) <= Len(l) /\ \A i \in 1..Len(p) : l[i] = p[i]

\* The same of a list made of the first k values of another.
StartsBy(l, p, k) ==
    /\ k <= Len(p) => Len(l) = k
    /\ k > Len(p) => Len(l) >= Len(p)
    /\ \A i \in 1..Len(p) : i <= k => l[i] = p[i]

\* A filter step keeps the values of p in front.
LEMMA RestKeepsStart ==
    ASSUME NEW k \in Nat, NEW p \in Seq(Values), NEW x \in Seq(Values), NEW v,
           NEW w \in Values, StartsBy(x, p, k), k + 1 <= Len(p) => w = p[k+1] /\ w # v
    PROVE  StartsBy(Rest(x, w, v), p, k + 1)
<1> DEFINE y == Append(x, w)
<1>1. Len(p) \in Nat /\ Len(x) \in Nat
  OBVIOUS
<1>2. Len(y) = Len(x) + 1 /\ y[Len(x) + 1] = w /\ \A i \in 1..Len(x) : y[i] = x[i]
  OBVIOUS
<1> HIDE DEF y
<1>3. Rest(x, w, v) = IF w = v THEN x ELSE y
  BY DEF Rest, y
<1>4. CASE k + 1 <= Len(p)
  <2>1. Rest(x, w, v) = y /\ Len(x) = k
    BY <1>1, <1>3, <1>4 DEF StartsBy
  <2>2. \A i \in 1..Len(p) : i <= k + 1 => i = k + 1 \/ (i \in 1..k /\ i <= k)
    BY <1>1
  <2>3. \A i \in 1..Len(p) : i <= k + 1 => y[i] = p[i]
    BY <1>2, <1>4, <2>1, <2>2 DEF StartsBy
  <2> QED
    BY <1>1, <1>2, <1>4, <2>1, <2>3 DEF StartsBy
<1>5. CASE k + 1 > Len(p)
  <2>1. Len(x) >= Len(p) /\ \A i \in 1..Len(p) : i <= k /\ i \in 1..Len(x)
    BY <1>1, <1>5 DEF StartsBy
  <2>2. \A i \in 1..Len(p) : x[i] = p[i] /\ y[i] = p[i]
    BY <1>2, <2>1 DEF StartsBy
  <2>3. Len(Rest(x, w, v)) >= Len(p) /\ \A i \in 1..Len(p) : Rest(x, w, v)[i] = p[i]
    BY <1>1, <1>2, <1>3, <2>1, <2>2
  <2> QED
    BY <1>1, <1>5, <2>3 DEF StartsBy
<1> QED
  BY <1>1, <1>4, <1>5

\* Removing a value that is not in p keeps p in front.
LEMMA WithoutKeepsStart ==
    ASSUME NEW c \in Cells, NEW p \in Lists, Starts(c.items, p), NEW v, v \notin ToSet(p)
    PROVE  Starts(Without(c, v).items, p)
<1> DEFINE l == c.items
           n == Len(l)
           m == Len(p)
           good(x, k) == x \in Seq(Values) /\ StartsBy(x, p, k)
<1>1. l \in Lists /\ n \in Nat /\ l \in [1..n -> Values] /\ p \in Seq(Values) /\ m \in Nat
  BY ListDomain DEF Cells, Lists
<1>2. m <= n /\ \A i \in 1..m : l[i] = p[i] /\ p[i] # v
  BY DEF Starts, ToSet
<1> HIDE DEF n
<1>3. PICK h : RestsOf(h, l, v, n) /\ Without(c, v) = ListOf(h[n])
  BY <1>1, WithoutSteps
<1>4. h[0] = <<>> /\ (\A k \in 0..n : h[k] \in Seq(Values))
      /\ \A k \in 1..n : h[k] = Rest(h[k-1], l[k], v)
  BY <1>3 DEF RestsOf
<1> HIDE DEF l, m
<1> DEFINE T == {k \in Nat : k <= n => good(h[k], k)}
<1>5. 0 \in T
  <2>1. StartsBy(<<>>, p, 0) /\ <<>> \in Seq(Values)
    BY <1>1 DEF StartsBy
  <2> HIDE DEF good
  <2>2. good(<<>>, 0)
    BY <2>1 DEF good
  <2> QED
    BY <1>4, <2>2
<1>6. ASSUME NEW k \in Nat, k \in T PROVE k + 1 \in T
  <2> HIDE DEF good
  <2> SUFFICES ASSUME k + 1 <= n PROVE good(h[k+1], k+1)
    OBVIOUS
  <2>1. k + 1 \in 1..n /\ (k + 1) - 1 = k /\ l[k+1] \in Values
    BY <1>1
  <2> DEFINE x == h[k]
             w == l[k+1]
  <2>2. h[k+1] = Rest(x, w, v)
    BY <1>4, <2>1
  <2>3. good(x, k)
    BY <1>1, <1>6, <2>1
  <2>4. k + 1 <= m => w = p[k+1] /\ w # v
    BY <1>1, <1>2
  <2>5. w \in Values
    BY <2>1
  <2> HIDE DEF x, w
  <2>6. StartsBy(Rest(x, w, v), p, k + 1)
    BY <1>1, <2>3, <2>4, <2>5, RestKeepsStart DEF good, m
  <2>7. Rest(x, w, v) \in Seq(Values)
    BY <2>3, <2>5, RestIsList DEF good
  <2>8. good(Rest(x, w, v), k + 1)
    BY <2>6, <2>7 DEF good
  <2> QED
    BY <2>2, <2>8
<1>7. \A k \in Nat : k \in T => k + 1 \in T
  <2> HIDE DEF T
  <2> QED
    BY <1>6
<1> HIDE DEF T, good
<1>8. n \in T
  BY <1>1, <1>5, <1>7, Induct
<1> DEFINE y == h[n]
<1>9. good(y, n)
  BY <1>1, <1>8 DEF T
<1>10. Without(c, v).items = y
  BY <1>3 DEF ListOf
<1> HIDE DEF y
<1>11. Starts(y, p)
  BY <1>1, <1>2, <1>9 DEF good, StartsBy, Starts, m
<1> QED
  BY <1>10, <1>11

\* Appending keeps p in front.
LEMMA AppendUniqueKeepsStart ==
    ASSUME NEW c \in Cells, NEW p \in Lists, Starts(c.items, p), NEW v \in Values
    PROVE  Starts(AppendUnique(c, v).items, p)
<1> DEFINE l == c.items
           y == Append(l, v)
<1>1. l \in Seq(Values) /\ Len(l) \in Nat /\ p \in Seq(Values) /\ Len(p) \in Nat
  BY DEF Cells, Lists
<1>2. Len(y) = Len(l) + 1 /\ \A i \in 1..Len(l) : y[i] = l[i]
  BY <1>1
<1>3. AppendUnique(c, v).items = l \/ AppendUnique(c, v).items = y
  BY DEF AppendUnique, ListOf
<1> HIDE DEF y, l
<1>4. Starts(l, p)
  BY DEF l
<1>5. Starts(y, p)
  BY <1>1, <1>2, <1>4 DEF Starts
<1> QED
  BY <1>3, <1>4, <1>5

\* A list that begins with a list of the same values is this list.
LEMMA StartsSame ==
    ASSUME NEW l \in Lists, NEW p \in Lists, Starts(l, p), ToSet(l) = ToSet(p)
    PROVE  l = p
<1>1. /\ l \in Seq(Values) /\ p \in Seq(Values) /\ Len(l) \in Nat /\ Len(p) \in Nat
      /\ DOMAIN l = 1..Len(l) /\ DOMAIN p = 1..Len(p)
      /\ \A i, j \in 1..Len(l) : l[i] = l[j] => i = j
  BY ListDomain DEF Lists
<1>2. ASSUME Len(p) < Len(l) PROVE FALSE
  <2> DEFINE k == Len(p) + 1
  <2>1. k \in 1..Len(l)
    BY <1>1, <1>2
  <2>2. l[k] \in ToSet(p)
    BY <1>1, <2>1 DEF ToSet
  <2>3. PICK i \in 1..Len(p) : p[i] = l[k]
    BY <1>1, <2>2 DEF ToSet
  <2>4. l[i] = l[k] /\ i \in 1..Len(l) /\ i # k
    BY <1>1, <1>2, <2>3 DEF Starts
  <2> QED
    BY <1>1, <2>1, <2>4
<1>3. Len(l) = Len(p)
  <2>1. Len(p) <= Len(l) /\ ~(Len(p) < Len(l))
    BY <1>2 DEF Starts
  <2>2. \A i, j \in Nat : i <= j /\ ~(i < j) => j = i
    OBVIOUS
  <2> QED
    BY <1>1, <2>1, <2>2
<1> QED
  BY <1>1, <1>3, SeqEqual DEF Starts

\* A list that puts nothing back, and an operation that puts nothing back
\* after it.
LEMMA AppendedPutsNothingBack ==
    ASSUME NEW out \in StepLists, NEW op \in Steps, PutsNothingBack(out),
           \A x \in ToSet(out) : x.kind = "remove" /\ op.kind = "add"
                                    => x.slot # op.slot \/ x.value # op.value
    PROVE  PutsNothingBack(Append(out, op)) /\ ToSet(Append(out, op)) = ToSet(out) \cup {op}
<1> DEFINE n == Len(out)
           m == Append(out, op)
<1>1. n \in Nat /\ DOMAIN out = 1..n /\ out \in Seq(Steps)
  BY DEF StepLists
<1>2. /\ DOMAIN m = 1..(n+1) /\ m[n+1] = op /\ \A i \in 1..n : m[i] = out[i]
  BY <1>1
<1> HIDE DEF m, n
<1>3. 1..(n+1) = (1..n) \cup {n+1}
  BY <1>1
<1>4. ToSet(m) = ToSet(out) \cup {op}
  BY <1>1, <1>2, <1>3 DEF ToSet
<1>5. ASSUME NEW i \in 1..(n+1), NEW j \in 1..(n+1), i < j, m[i].kind = "remove",
             m[j].kind = "add"
      PROVE  m[i].slot # m[j].slot \/ m[i].value # m[j].value
  <2>1. i \in 1..n
    BY <1>1, <1>5
  <2>2. CASE j \in 1..n
    BY <1>1, <1>2, <1>5, <2>1, <2>2 DEF PutsNothingBack
  <2>3. CASE j = n + 1
    <3>1. m[i] \in ToSet(out)
      BY <1>1, <1>2, <2>1 DEF ToSet
    <3> QED
      BY <1>2, <1>5, <2>3, <3>1
  <2> QED
    BY <1>1, <1>5, <2>2, <2>3
<1>6. PutsNothingBack(m)
  BY <1>2, <1>5 DEF PutsNothingBack
<1> QED
  BY <1>4, <1>6 DEF m

\* Coalescing keeps the order of the operations it leaves alone.
LEMMA CoalescedPutsNothingBack ==
    ASSUME NEW n \in Nat, NEW ops \in [1..n -> Operations], PutsNothingBack(ops)
    PROVE  PutsNothingBack(Coalesce(ops))
<1>1. PICK h : EmittedBy(h, ops, n) /\ Coalesce(ops) = h[n]
  BY CoalesceSteps
<1> DEFINE first(k) == {ops[j] : j \in 1..k}
           good(out, k) == /\ PutsNothingBack(out)
                           /\ \A x \in ToSet(out) : x.kind = "replace" \/ x \in first(k)
           T == {k \in Nat : k <= n => good(h[k], k)}
<1>2. 0 \in T
  <2>1. h[0] = <<>>
    BY <1>1 DEF EmittedBy
  <2>2. PutsNothingBack(<<>>)
    BY DEF PutsNothingBack
  <2>3. ToSet(<<>>) = {}
    BY ShortLists
  <2> HIDE DEF first
  <2> QED
    BY <2>1, <2>2, <2>3
<1>3. ASSUME NEW k \in Nat, k \in T PROVE k + 1 \in T
  <2> HIDE DEF good
  <2> SUFFICES ASSUME k + 1 <= n PROVE good(h[k+1], k+1)
    OBVIOUS
  <2>1. k + 1 \in 1..n /\ (k + 1) - 1 = k /\ k \in 0..n
    OBVIOUS
  <2> DEFINE op == ops[k+1]
             x == h[k]
             y == h[k+1]
  <2>2. x \in StepLists /\ y = Emit(x, op, ops)
    BY <1>1, <2>1 DEF EmittedBy
  <2>3. good(x, k)
    BY <1>3, <2>1
  <2>4. first(k) \subseteq first(k+1) /\ op \in first(k+1)
    BY <2>1
  <2>5. op \in Operations
    BY <2>1
  <2>6. op \in Steps /\ op.slot \in Slots
    BY <2>5, OperationIsStep, StepParts
  <2>7. \A u \in first(k) : u.kind = "remove" /\ op.kind = "add"
                               => u.slot # op.slot \/ u.value # op.value
    <3>1. ASSUME NEW j \in 1..k
          PROVE  ops[j].kind = "remove" /\ op.kind = "add"
                    => ops[j].slot # op.slot \/ ops[j].value # op.value
      <4>1. j \in DOMAIN ops /\ k + 1 \in DOMAIN ops /\ j < k + 1
        BY <2>1
      <4> QED
        BY <4>1 DEF PutsNothingBack
    <3> QED
      BY <3>1
  <2> SUFFICES good(y, k+1)
    OBVIOUS
  <2> HIDE DEF op, x, y
  <2>8. ASSUME NEW r \in Steps, y = Append(x, r), r.kind = "replace" \/ r = op
        PROVE  good(y, k+1)
    <3>1. \A u \in ToSet(x) : u.kind = "remove" /\ r.kind = "add"
                                 => u.slot # r.slot \/ u.value # r.value
      BY <2>3, <2>7, <2>8 DEF good
    <3>2. PutsNothingBack(y) /\ ToSet(y) = ToSet(x) \cup {r}
      BY <2>2, <2>3, <2>8, <3>1, AppendedPutsNothingBack DEF good
    <3> HIDE DEF first
    <3> QED
      BY <2>3, <2>4, <2>8, <3>2 DEF good
  <2>9. CASE y = x
    <3> HIDE DEF first
    <3> QED
      BY <2>3, <2>4, <2>9 DEF good
  <2>10. CASE Merges(op.slot, ops)
    <3>1. MergedReplace(op.slot, ops) \in Steps /\ MergedReplace(op.slot, ops).kind = "replace"
      BY <2>6, <2>10, MergedReplaceIsStep
    <3>2. y = x \/ y = Append(x, MergedReplace(op.slot, ops))
      BY <2>2, <2>10 DEF Emit
    <3> HIDE DEF good
    <3> QED
      BY <2>8, <2>9, <3>1, <3>2
  <2>11. CASE ~Merges(op.slot, ops)
    <3>1. y = Append(x, op)
      BY <2>2, <2>11 DEF Emit
    <3> HIDE DEF good
    <3> QED
      BY <2>6, <2>8, <3>1
  <2> QED
    BY <2>10, <2>11
<1>4. \A k \in Nat : k \in T => k + 1 \in T
  <2> HIDE DEF T
  <2> QED
    BY <1>3
<1> HIDE DEF T, good
<1>5. n \in T
  BY <1>2, <1>4, Induct
<1>6. good(h[n], n)
  BY <1>5 DEF T
<1> QED
  BY <1>1, <1>6 DEF good

----------------------------------------------------------------------------
(* The same operations from two states: run h from b, run g from t.        *)

\* On each slot, operations take some values away and put others there.
TakenAndPut(P, Q, X, Y) ==
    \E E, B : P = (X \ E) \cup B /\ Q = (Y \ E) \cup B

\* An operation takes away and puts the same, wherever it is applied.
LEMMA TakesAndPuts ==
    ASSUME NEW P, NEW Q, NEW X, NEW Y, TakenAndPut(P, Q, X, Y), NEW op \in Steps
    PROVE  TakenAndPut(SetAfter(P, op), SetAfter(Q, op), X, Y)
<1> PICK D, A : P = (X \ D) \cup A /\ Q = (Y \ D) \cup A
  BY DEF TakenAndPut
<1> SUFFICES \E E, B : /\ SetAfter((X \ D) \cup A, op) = (X \ E) \cup B
                       /\ SetAfter((Y \ D) \cup A, op) = (Y \ E) \cup B
  BY DEF TakenAndPut
<1>1. CASE op.kind = "replace"
  <2> DEFINE B == ToSet(op.value.items)
             E == X \cup Y
  <2>1. SetAfter((X \ D) \cup A, op) = B /\ SetAfter((Y \ D) \cup A, op) = B
    BY <1>1 DEF SetAfter
  <2>2. (X \ E) \cup B = B /\ (Y \ E) \cup B = B
    OBVIOUS
  <2> HIDE DEF B, E
  <2> QED
    BY <2>1, <2>2
<1>2. CASE op.kind = "clear"
  <2> DEFINE B == {}
             E == X \cup Y
  <2>1. SetAfter((X \ D) \cup A, op) = B /\ SetAfter((Y \ D) \cup A, op) = B
    BY <1>2 DEF SetAfter
  <2>2. (X \ E) \cup B = B /\ (Y \ E) \cup B = B
    OBVIOUS
  <2> HIDE DEF B, E
  <2> QED
    BY <2>1, <2>2
<1>3. CASE op.kind = "add"
  <2> DEFINE v == op.value.items[1]
             B == A \cup {v}
  <2>1. /\ SetAfter((X \ D) \cup A, op) = (X \ D) \cup B
        /\ SetAfter((Y \ D) \cup A, op) = (Y \ D) \cup B
    BY <1>3 DEF SetAfter
  <2> HIDE DEF B
  <2> QED
    BY <2>1
<1>4. CASE op.kind = "remove"
  <2> DEFINE v == op.value.items[1]
             B == A \ {v}
             E == D \cup {v}
  <2>1. /\ SetAfter((X \ D) \cup A, op) = (X \ E) \cup B
        /\ SetAfter((Y \ D) \cup A, op) = (Y \ E) \cup B
    <3>1. /\ SetAfter((X \ D) \cup A, op) = ((X \ D) \cup A) \ {v}
          /\ SetAfter((Y \ D) \cup A, op) = ((Y \ D) \cup A) \ {v}
      BY <1>4 DEF SetAfter
    <3> HIDE DEF v
    <3> QED
      BY <3>1
  <2> HIDE DEF B, E
  <2> QED
    BY <2>1
<1> QED
  BY <1>1, <1>2, <1>3, <1>4, StepParts

\* One step of a run, seen from a slot.
Stepped(h, c, k, s) ==
    /\ h[k][s] \in Cells /\ h[k+1][s] \in Cells
    /\ h[k+1][s] = IF c[k+1].slot = s THEN CellAfter(h[k][s], c[k+1]) ELSE h[k][s]

\* Each step of a run is one.
LEMMA RunStep ==
    ASSUME NEW n \in Nat, NEW c \in [1..n -> Steps], NEW st, NEW h, StatesOf(h, st, c, n),
           NEW k \in Nat, k + 1 <= n, NEW s \in Slots
    PROVE  Stepped(h, c, k, s)
<1>1. k + 1 \in 1..n /\ (k + 1) - 1 = k /\ k \in 0..n /\ k + 1 \in 0..n
  OBVIOUS
<1>2. h[k] \in States /\ h[k+1] \in States /\ h[k+1] = Apply(h[k], c[k+1])
      /\ c[k+1] \in Steps
  BY <1>1 DEF StatesOf
<1>3. h[k][s] \in Cells /\ h[k+1][s] \in Cells
  BY <1>2 DEF States
<1> QED
  BY <1>2, <1>3, AppliedCells DEF Stepped

\* Operations applied again leave each slot with the same values.
LEMMA SameValuesAgain ==
    ASSUME NEW b \in States, NEW c \in StepLists, NEW s \in Slots
    PROVE  ToSet(ApplyAll(ApplyAll(b, c), c)[s].items) = ToSet(ApplyAll(b, c)[s].items)
<1>1. PICK n \in Nat : c \in [1..n -> Steps]
  BY ListedOperations
<1> DEFINE t == ApplyAll(b, c)
           u == ApplyAll(t, c)
<1>2. t \in States
  BY <1>1, ApplyAllIsState
<1>3. PICK h : StatesOf(h, b, c, n) /\ t = h[n]
  BY <1>1, ApplySteps
<1> HIDE DEF t
<1>4. PICK g : StatesOf(g, t, c, n) /\ u = g[n]
  BY <1>1, <1>2, ApplySteps
<1> HIDE DEF u
<1> DEFINE X == ToSet(b[s].items)
           Y == ToSet(t[s].items)
           good(x, y) == TakenAndPut(x, y, X, Y)
           inH(k) == ToSet(h[k][s].items)
           inG(k) == ToSet(g[k][s].items)
           T == {k \in Nat : k <= n => good(inH(k), inG(k))}
<1>5. 0 \in T
  <2>1. inH(0) = X /\ inG(0) = Y
    BY <1>3, <1>4 DEF StatesOf
  <2> HIDE DEF inH, inG, X, Y
  <2>2. inH(0) = (X \ {}) \cup {} /\ inG(0) = (Y \ {}) \cup {}
    BY <2>1
  <2> QED
    BY <2>2 DEF TakenAndPut
<1>6. ASSUME NEW k \in Nat, k \in T PROVE k + 1 \in T
  <2> HIDE DEF good
  <2> SUFFICES ASSUME k + 1 <= n PROVE good(inH(k+1), inG(k+1))
    OBVIOUS
  <2>1. good(inH(k), inG(k))
    BY <1>6
  <2> DEFINE op == c[k+1]
  <2>2. op \in Steps
    BY <1>1
  <2>3. /\ h[k][s] \in Cells
        /\ h[k+1][s] = IF op.slot = s THEN CellAfter(h[k][s], op) ELSE h[k][s]
    BY <1>1, <1>3, RunStep DEF Stepped
  <2>4. /\ g[k][s] \in Cells
        /\ g[k+1][s] = IF op.slot = s THEN CellAfter(g[k][s], op) ELSE g[k][s]
    BY <1>1, <1>4, RunStep DEF Stepped
  <2> HIDE DEF op
  <2>5. CASE op.slot # s
    BY <2>1, <2>3, <2>4, <2>5
  <2>6. CASE op.slot = s
    <3>1. inH(k+1) = SetAfter(inH(k), op) /\ inG(k+1) = SetAfter(inG(k), op)
      BY <2>2, <2>3, <2>4, <2>6, CellAfterIsGood
    <3> HIDE DEF X, Y, inH, inG
    <3>2. TakenAndPut(SetAfter(inH(k), op), SetAfter(inG(k), op), X, Y)
      BY <2>1, <2>2, TakesAndPuts DEF good
    <3> QED
      BY <3>1, <3>2 DEF good
  <2> QED
    BY <2>5, <2>6
<1>7. \A k \in Nat : k \in T => k + 1 \in T
  <2> HIDE DEF T
  <2> QED
    BY <1>6
<1> HIDE DEF T
<1>8. n \in T
  BY <1>5, <1>7, Induct
<1>9. good(inH(n), inG(n))
  <2> HIDE DEF good
  <2> QED
    BY <1>8 DEF T
<1>10. inH(n) = Y /\ inG(n) = ToSet(u[s].items)
  BY <1>3, <1>4
<1> HIDE DEF X, Y, inH, inG
<1>11. ToSet(u[s].items) = Y
  BY <1>9, <1>10 DEF TakenAndPut
<1> QED
  BY <1>11 DEF u, t, Y

Resets(op) == op.kind \in {"replace", "clear"}

\* An operation that replaces or clears makes both runs the same.
LEMMA SameAfterReset ==
    ASSUME NEW n \in Nat, NEW c \in [1..n -> Steps], NEW s \in Slots, NEW b, NEW t,
           NEW h, StatesOf(h, b, c, n), NEW g, StatesOf(g, t, c, n),
           \E i \in 1..n : c[i].slot = s /\ Resets(c[i])
    PROVE  h[n][s] = g[n][s]
<1> DEFINE reset(k) == \E i \in 1..k : c[i].slot = s /\ Resets(c[i])
           T == {k \in Nat : k <= n /\ reset(k) => h[k][s] = g[k][s]}
<1>1. 0 \in T
  OBVIOUS
<1>2. ASSUME NEW k \in Nat, k \in T PROVE k + 1 \in T
  <2> SUFFICES ASSUME k + 1 <= n, reset(k + 1) PROVE h[k+1][s] = g[k+1][s]
    OBVIOUS
  <2> DEFINE op == c[k+1]
  <2>0. Stepped(h, c, k, s) /\ Stepped(g, c, k, s)
    BY RunStep
  <2>1. /\ h[k+1][s] = IF op.slot = s THEN CellAfter(h[k][s], op) ELSE h[k][s]
        /\ g[k+1][s] = IF op.slot = s THEN CellAfter(g[k][s], op) ELSE g[k][s]
    BY <2>0 DEF Stepped
  <2>2. reset(k) \/ (op.slot = s /\ Resets(op))
    <3>1. 1..(k+1) = (1..k) \cup {k+1}
      OBVIOUS
    <3> QED
      BY <3>1
  <2>3. reset(k) => h[k][s] = g[k][s]
    BY <1>2
  <2> HIDE DEF op, reset
  <2> QED
    BY <2>1, <2>2, <2>3 DEF Resets, CellAfter
<1>3. \A k \in Nat : k \in T => k + 1 \in T
  <2> HIDE DEF T
  <2> QED
    BY <1>2
<1> HIDE DEF T
<1>4. n \in T
  BY <1>1, <1>3, Induct
<1> QED
  BY <1>4 DEF T

\* Without such an operation a slot is only added to and removed from ...
NoReset(c, n, s) == \A i \in 1..n : c[i].slot = s => c[i].kind \in {"add", "remove"}

IsList(x) == x.one = FALSE

\* A list is not a single value.
LEMMA ListsAreLists == \A l : IsList(ListOf(l))
BY DEF IsList, ListOf

\* An add or a remove leaves a list.
LEMMA KeptCell ==
    ASSUME NEW x \in Cells, NEW op \in Steps, op.kind \in {"add", "remove"}
    PROVE  /\ op.value.items[1] \in Values
           /\ CellAfter(x, op) \in Cells /\ IsList(CellAfter(x, op))
           /\ CellAfter(x, op) = IF op.kind = "add" THEN AppendUnique(x, op.value.items[1])
                                 ELSE Without(x, op.value.items[1])
<1>1. op.value.items[1] \in Values
  BY StepParts
<1>2. CellAfter(x, op) \in Cells
  BY CellAfterIsGood
<1>3. CellAfter(x, op) = IF op.kind = "add" THEN AppendUnique(x, op.value.items[1])
                         ELSE Without(x, op.value.items[1])
  BY DEF CellAfter
<1>4. \A v : IsList(AppendUnique(x, v)) /\ IsList(Without(x, v))
  BY ListsAreLists, Zenon DEF AppendUnique, Without
<1> QED
  BY <1>1, <1>2, <1>3, <1>4

\* ... it ends as a list, if it is touched at all ...
LEMMA EndsAsList ==
    ASSUME NEW n \in Nat, NEW c \in [1..n -> Steps], NEW s \in Slots, NEW b,
           NEW h, StatesOf(h, b, c, n), NoReset(c, n, s), Reached(c, n, s)
    PROVE  IsList(h[n][s])
<1> DEFINE was(k) == \E i \in 1..k : c[i].slot = s
           T == {k \in Nat : k <= n /\ was(k) => IsList(h[k][s])}
<1>1. 0 \in T
  OBVIOUS
<1>2. ASSUME NEW k \in Nat, k \in T PROVE k + 1 \in T
  <2> SUFFICES ASSUME k + 1 <= n, was(k + 1) PROVE IsList(h[k+1][s])
    OBVIOUS
  <2> DEFINE op == c[k+1]
  <2>0. Stepped(h, c, k, s)
    BY RunStep
  <2>1. /\ h[k][s] \in Cells
        /\ h[k+1][s] = IF op.slot = s THEN CellAfter(h[k][s], op) ELSE h[k][s]
    BY <2>0 DEF Stepped
  <2>2. was(k) \/ op.slot = s
    <3>1. 1..(k+1) = (1..k) \cup {k+1}
      OBVIOUS
    <3> QED
      BY <3>1
  <2>3. op \in Steps /\ (op.slot = s => op.kind \in {"add", "remove"})
    BY DEF NoReset
  <2>4. was(k) => IsList(h[k][s])
    BY <1>2
  <2> HIDE DEF op, was
  <2> QED
    BY <2>1, <2>2, <2>3, <2>4, KeptCell
<1>3. \A k \in Nat : k \in T => k + 1 \in T
  <2> HIDE DEF T
  <2> QED
    BY <1>2
<1> HIDE DEF T
<1>4. n \in T
  BY <1>1, <1>3, Induct
<1> QED
  BY <1>4 DEF T, Reached

\* ... what is removed stays out, as it is not put back ...
Gone(c, n, s, S) ==
    \A j \in 1..n : c[j].slot = s /\ c[j].kind = "remove" => c[j].value.items[1] \notin S

\* What the operations remove is not there after them.
LEMMA RemovedStaysOut ==
    ASSUME NEW n \in Nat, NEW c \in [1..n -> Steps], NEW s \in Slots, NEW b,
           NEW h, StatesOf(h, b, c, n), NoReset(c, n, s), PutsNothingBack(c)
    PROVE  Gone(c, n, s, ToSet(h[n][s].items))
<1> DEFINE has(k) == ToSet(h[k][s].items)
           T == {k \in Nat : k <= n => Gone(c, k, s, has(k))}
<1>1. 0 \in T
  BY DEF Gone
<1>2. ASSUME NEW k \in Nat, k \in T PROVE k + 1 \in T
  <2> SUFFICES ASSUME k + 1 <= n PROVE Gone(c, k + 1, s, has(k + 1))
    OBVIOUS
  <2> DEFINE op == c[k+1]
             v == op.value.items[1]
  <2>0. Stepped(h, c, k, s)
    BY RunStep
  <2>1. /\ h[k][s] \in Cells
        /\ h[k+1][s] = IF op.slot = s THEN CellAfter(h[k][s], op) ELSE h[k][s]
    BY <2>0 DEF Stepped
  <2>2. op \in Steps /\ (op.slot = s => op.kind \in {"add", "remove"})
    BY DEF NoReset
  <2>3. op.slot = s => has(k+1) = IF op.kind = "add" THEN has(k) \cup {v} ELSE has(k) \ {v}
    BY <2>1, <2>2, CellAfterIsGood DEF SetAfter
  <2>4. op.slot # s => has(k+1) = has(k)
    BY <2>1
  <2>5. Gone(c, k, s, has(k))
    BY <1>2
  <2> HIDE DEF has
  <2>6. ASSUME NEW j \in 1..(k+1), c[j].slot = s, c[j].kind = "remove"
        PROVE  c[j].value.items[1] \notin has(k+1)
    <3>1. CASE j = k + 1
      BY <2>2, <2>3, <2>6, <3>1
    <3>2. CASE j # k + 1
      <4>1. j \in 1..k /\ j \in 1..n /\ k + 1 \in 1..n /\ j < k + 1
        BY <3>2
      <4>2. c[j].value.items[1] \notin has(k)
        BY <2>5, <2>6, <4>1 DEF Gone
      <4>3. CASE op.slot = s /\ op.kind = "add"
        <5>1. c[j].value # op.value
          BY <2>6, <4>1, <4>3 DEF PutsNothingBack
        <5>2. c[j] \in Steps
          BY <4>1
        <5>3. c[j].value = One(c[j].value.items[1]) /\ op.value = One(v)
          BY <2>2, <2>6, <4>3, <5>2, StepParts
        <5>4. c[j].value.items[1] # v
          <6> DEFINE w == c[j].value.items[1]
          <6> HIDE DEF w, v
          <6>1. w # v
            BY <5>1, <5>3 DEF w
          <6> QED
            BY <6>1 DEF w
        <5> QED
          BY <2>3, <4>2, <4>3, <5>4
      <4>4. CASE ~(op.slot = s /\ op.kind = "add")
        BY <2>2, <2>3, <2>4, <4>2, <4>4
      <4> QED
        BY <4>3, <4>4
    <3> QED
      BY <3>1, <3>2
  <2> QED
    BY <2>6 DEF Gone
<1>3. \A k \in Nat : k \in T => k + 1 \in T
  <2> HIDE DEF T
  <2> QED
    BY <1>2
<1> HIDE DEF T
<1>4. n \in T
  BY <1>1, <1>3, Induct
<1> QED
  BY <1>4 DEF T

\* ... and a list without what is removed stays in front.
LEMMA ListStaysInFront ==
    ASSUME NEW n \in Nat, NEW c \in [1..n -> Steps], NEW s \in Slots, NEW t \in States,
           NEW g, StatesOf(g, t, c, n), NoReset(c, n, s),
           Gone(c, n, s, ToSet(t[s].items))
    PROVE  Starts(g[n][s].items, t[s].items)
<1> DEFINE p == t[s].items
           T == {k \in Nat : k <= n => Starts(g[k][s].items, p)}
<1>1. p \in Lists /\ g[0] = t
  BY DEF States, Cells, StatesOf
<1>2. 0 \in T
  <2>1. Len(p) \in Nat
    BY <1>1, ListDomain
  <2>2. Starts(p, p)
    BY <2>1 DEF Starts
  <2> QED
    BY <1>1, <2>2
<1> HIDE DEF p
<1>3. ASSUME NEW k \in Nat, k \in T PROVE k + 1 \in T
  <2> SUFFICES ASSUME k + 1 <= n PROVE Starts(g[k+1][s].items, p)
    OBVIOUS
  <2> DEFINE op == c[k+1]
             v == op.value.items[1]
             x == g[k][s]
             y == g[k+1][s]
  <2>0. Stepped(g, c, k, s)
    BY RunStep
  <2>1. x \in Cells /\ y = IF op.slot = s THEN CellAfter(x, op) ELSE x
    BY <2>0 DEF Stepped
  <2>2. op \in Steps /\ (op.slot = s => op.kind \in {"add", "remove"})
    BY DEF NoReset
  <2>3. op.slot = s /\ op.kind = "remove" => v \notin ToSet(p)
    BY DEF Gone, p
  <2>4. Starts(x.items, p)
    BY <1>3
  <2> SUFFICES Starts(y.items, p)
    OBVIOUS
  <2> HIDE DEF x, y, op
  <2>5. CASE op.slot = s /\ op.kind = "add"
    <3>1. y = AppendUnique(x, v) /\ v \in Values
      BY <2>1, <2>2, <2>5, KeptCell
    <3> QED
      BY <1>1, <2>1, <2>4, <3>1, AppendUniqueKeepsStart
  <2>6. CASE op.slot = s /\ op.kind = "remove"
    <3>1. y = Without(x, v) /\ v \notin ToSet(p)
      BY <2>1, <2>2, <2>3, <2>6, KeptCell
    <3> QED
      BY <1>1, <2>1, <2>4, <3>1, WithoutKeepsStart
  <2> QED
    BY <2>1, <2>2, <2>4, <2>5, <2>6
<1>4. \A k \in Nat : k \in T => k + 1 \in T
  <2> HIDE DEF T
  <2> QED
    BY <1>3
<1> HIDE DEF T
<1>5. n \in T
  BY <1>2, <1>4, Induct
<1> QED
  BY <1>5 DEF T, p

\* Operations that put nothing back leave the same cells when applied again.
LEMMA SameCellAgain ==
    ASSUME NEW b \in States, NEW c \in StepLists, PutsNothingBack(c), NEW s \in Slots
    PROVE  ApplyAll(ApplyAll(b, c), c)[s] = ApplyAll(b, c)[s]
<1>1. PICK n \in Nat : c \in [1..n -> Steps]
  BY ListedOperations
<1> DEFINE t == ApplyAll(b, c)
           u == ApplyAll(t, c)
<1>2. t \in States
  BY <1>1, ApplyAllIsState
<1>3. u \in States
  <2> HIDE DEF t
  <2> QED
    BY <1>1, <1>2, ApplyAllIsState
<1>4. ToSet(u[s].items) = ToSet(t[s].items)
  BY SameValuesAgain
<1>5. PICK h : StatesOf(h, b, c, n) /\ t = h[n]
  BY <1>1, ApplySteps
<1> HIDE DEF t
<1>6. PICK g : StatesOf(g, t, c, n) /\ u = g[n]
  BY <1>1, <1>2, ApplySteps
<1> HIDE DEF u
<1>7. CASE \E i \in 1..n : c[i].slot = s /\ Resets(c[i])
  <2>1. h[n][s] = g[n][s]
    BY <1>1, <1>5, <1>6, <1>7, SameAfterReset
  <2> QED
    BY <1>5, <1>6, <2>1 DEF u, t
<1>8. CASE ~Reached(c, n, s)
  <2>1. OnlyBy(c, n, s, Absent)
    BY <1>8 DEF OnlyBy, Reached
  <2>2. u[s] = t[s]
    BY <1>1, <1>2, <1>8, <2>1, OneOperationPerSlot DEF u
  <2> QED
    BY <2>2 DEF u, t
<1>9. CASE Reached(c, n, s) /\ ~\E i \in 1..n : c[i].slot = s /\ Resets(c[i])
  <2>1. NoReset(c, n, s)
    BY <1>1, <1>9, StepParts DEF NoReset, Resets
  <2>2. IsList(t[s])
    BY <1>1, <1>5, <1>9, <2>1, EndsAsList
  <2>3. IsList(u[s])
    BY <1>1, <1>6, <1>9, <2>1, EndsAsList
  <2>4. Gone(c, n, s, ToSet(t[s].items))
    BY <1>1, <1>5, <2>1, RemovedStaysOut
  <2>5. Starts(u[s].items, t[s].items)
    BY <1>1, <1>2, <1>6, <2>1, <2>4, ListStaysInFront
  <2>6. t[s] \in Cells /\ u[s] \in Cells
    BY <1>2, <1>3 DEF States
  <2>7. t[s].items \in Lists /\ u[s].items \in Lists
    BY <2>6 DEF Cells
  <2>8. u[s].items = t[s].items
    BY <1>4, <2>5, <2>7, StartsSame
  <2>9. u[s] = t[s]
    <3>1. \A x, y \in Cells : x.one = y.one /\ x.items = y.items => x = y
      BY DEF Cells
    <3>2. u[s].one = t[s].one
      BY <2>2, <2>3, Zenon DEF IsList
    <3> QED
      BY <2>6, <2>8, <3>1, <3>2
  <2> QED
    BY <2>9 DEF u, t
<1> QED
  BY <1>7, <1>8, <1>9

\* The last batch, if it was a batch of operations, led from the state before.
BatchInv ==
    batch # <<>> => batch \in OperationLists /\ state = ApplyAll(before, Coalesce(batch))

\* A session starts without a batch.
LEMMA InitBatchInv == Init => BatchInv
BY DEF Init, BatchInv

\* Every step keeps the relation of the last batch to the last two states.
LEMMA NextBatchInv == BatchInv /\ [Next]_vars => BatchInv'
<1> SUFFICES ASSUME BatchInv, [Next]_vars, (batch # <<>>)'
             PROVE  /\ batch' \in OperationLists
                    /\ state' = ApplyAll(before', Coalesce(batch'))
  BY DEF BatchInv
<1>1. ASSUME NEW ops \in OperationLists, CommitBatch(ops)
      PROVE  batch' \in OperationLists /\ state' = ApplyAll(before', Coalesce(batch'))
  BY <1>1 DEF CommitBatch, Become
<1>2. CASE ClearAll \/ RollBack
  BY <1>2 DEF ClearAll, RollBack, Become
<1>3. CASE UNCHANGED vars
  BY <1>3 DEF BatchInv, vars
<1> QED
  BY <1>1, <1>2, <1>3 DEF Next

\* The invariant of the last batch.
LEMMA BatchInvariant == Spec => []BatchInv
BY InitBatchInv, NextBatchInv, PTL DEF Spec

\* What the same operations make of the state they have led to.
LEMMA CommittedAgain ==
    ASSUME NEW b \in States, NEW ops \in OperationLists
    PROVE  LET t == ApplyAll(b, Coalesce(ops))
               u == ApplyAll(t, Coalesce(ops))
           IN  SetsOf(u) = SetsOf(t) /\ (PutsNothingBack(ops) => u = t)
<1>1. PICK n \in Nat : ops \in [1..n -> Operations]
  BY OperationsAssumption, ListedOperations
<1> DEFINE c == Coalesce(ops)
           t == ApplyAll(b, c)
           u == ApplyAll(t, c)
<1>2. c \in StepLists
  BY <1>1, CoalescedOnSlot
<1>3. t \in States
  BY CommittedIsState
<1>4. u \in States
  <2> HIDE DEF t
  <2> QED
    BY <1>3, CommittedIsState
<1>5. PutsNothingBack(ops) => PutsNothingBack(c)
  BY <1>1, CoalescedPutsNothingBack
<1> HIDE DEF c
<1>6. \A s \in Slots : ToSet(u[s].items) = ToSet(t[s].items)
  BY <1>2, SameValuesAgain
<1>7. PutsNothingBack(c) => \A s \in Slots : u[s] = t[s]
  BY <1>2, SameCellAgain
<1> HIDE DEF t, u
<1>8. SetsOf(u) = SetsOf(t)
  BY <1>6 DEF SetsOf
<1>9. (\A s \in Slots : u[s] = t[s]) => u = t
  BY <1>3, <1>4 DEF States
<1>10. SetsOf(u) = SetsOf(t) /\ (PutsNothingBack(ops) => u = t)
  BY <1>5, <1>7, <1>8, <1>9
<1> QED
  BY <1>10 DEF u, t, c

\* A turn that is sent twice has the effect of one: the same operations,
\* committed again right away, leave each slot with the same values, and
\* change nothing at all unless the batch puts back a value it has removed.
THEOREM RetryIsHarmless == Spec => RetryChangesNothing
<1> DEFINE Same == batch' = batch /\ batch # <<>> =>
                      /\ SetsOf(state') = SetsOf(state)
                      /\ PutsNothingBack(batch) => state' = state /\ diff' = {}
<1>1. SlotsInv /\ BatchInv /\ [Next]_vars => [Same]_vars
  <2> SUFFICES ASSUME SlotsInv, BatchInv, Next, batch' = batch, batch # <<>>
               PROVE  /\ SetsOf(state') = SetsOf(state)
                      /\ PutsNothingBack(batch) => state' = state /\ diff' = {}
    OBVIOUS
  <2>1. PICK ops \in OperationLists : CommitBatch(ops)
    BY DEF Next, ClearAll, RollBack, Become
  <2>2. /\ ops = batch /\ state' = ApplyAll(state, Coalesce(batch))
        /\ diff' = Diff(state, state')
    BY <2>1 DEF CommitBatch, Become
  <2>3. before \in States /\ state = ApplyAll(before, Coalesce(batch))
    BY DEF SlotsInv, BatchInv
  <2>4. SetsOf(state') = SetsOf(state) /\ (PutsNothingBack(batch) => state' = state)
    BY <2>2, <2>3, CommittedAgain
  <2>5. Diff(state, state) = {}
    BY DEF Diff
  <2> QED
    BY <2>2, <2>4, <2>5
<1> HIDE DEF Same
<1>2. Spec => [][Same]_vars
  BY <1>1, SlotsInvariant, BatchInvariant, PTL DEF Spec
<1> QED
  BY <1>2 DEF Same, RetryChangesNothing
=============================================================================
