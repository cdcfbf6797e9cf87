----------------------------- MODULE IndexProofs -----------------------------
(***************************************************************************)
(* Theorems about the indexes of indicators, for any number of indicators, *)
(* labels, data types and items, in any order, listed on their own or      *)
(* while a snapshot is captured.                                           *)
(***************************************************************************)
EXTENDS SigmaSnapshots, TLAPS

----------------------------------------------------------------------------
(* Lists of labels.                                                        *)

Well(a) == a \in Lists /\ (a.all = {} => a = Empty) /\ (a.all # {} => a.first \in a.all)

\* The lists built from one label.
LEMMA OneWell ==
    ASSUME NEW l \in Labels \cup {NoLabel}
    PROVE  Well(One(l)) /\ One(l).all = {l} \ {NoLabel} /\ (One(l) = Empty <=> l = NoLabel)
BY IndexAssumption DEF One, Empty, Well, Lists

\* ... and joined.
LEMMA JoinWell ==
    ASSUME NEW a, NEW b, Well(a), Well(b)
    PROVE  /\ Well(Join(a, b)) /\ Join(a, b).all = a.all \cup b.all
           /\ Join(a, b) = Empty => a = Empty /\ b = Empty
BY IndexAssumption DEF Join, Empty, Well, Lists

\* A list and what of it the metadata keeps: its first element, and the
\* list itself if it has several.
Kept(first, conflicts) ==
    /\ first \in Labels \cup {NoLabel} /\ Well(conflicts)
    /\ conflicts # Empty => Several(conflicts) /\ conflicts.first = first

\* Reading it back gives what was kept.
LEMMA KeptList ==
    ASSUME NEW a, Well(a), NEW f, NEW c, f = a.first,
           c = IF Several(a) THEN a ELSE Empty
    PROVE  Kept(f, c) /\ Join(c, One(f)).all = a.all /\ Join(One(f), c).all = a.all
<1>1. f \in Labels \cup {NoLabel} /\ Well(Empty)
  BY IndexAssumption DEF Well, Lists, Empty
<1>2. Well(c) /\ Well(One(f))
  BY <1>1, OneWell
<1>3. c.all \cup One(f).all = a.all
  BY <1>1, OneWell, IndexAssumption DEF Several, Well, Lists, Empty
<1>4. c # Empty => Several(c) /\ c.first = f
  <2>1. CASE Several(a)
    BY <2>1
  <2>2. CASE ~Several(a)
    BY <2>2
  <2> QED
    BY <2>1, <2>2
<1>5. Kept(f, c)
  BY <1>1, <1>2, <1>4 DEF Kept
<1>6. /\ Join(c, One(f)).all = c.all \cup One(f).all
      /\ Join(One(f), c).all = One(f).all \cup c.all
  BY <1>2, JoinWell
<1> QED
  BY <1>3, <1>5, <1>6

\* A list within one of at most one label is kept as no conflict.
LEMMA KeptEmpty ==
    ASSUME NEW f, NEW c, Kept(f, c), NEW a, c.all \subseteq a.all, ~Several(a)
    PROVE  c = Empty
<1>1. CASE c # Empty
  <2>1. c.first \in c.all /\ c.all \ {c.first} # {}
    BY <1>1 DEF Kept, Well, Several
  <2>2. \A x, y \in a.all : x = y
    BY DEF Several
  <2> QED
    BY <2>1, <2>2
<1> QED
  BY <1>1

----------------------------------------------------------------------------
(* Candidates.                                                             *)

\* A candidate as the gateway builds it.
Good(c) ==
    /\ c \in Candidates
    /\ Kept(c.index, c.conflicts)
    /\ \A d \in DataTypes : Kept(c.indexBy[d], c.conflictsBy[d])

\* What is read from a candidate's metadata is a list.
LEMMA GoodLists ==
    ASSUME NEW c, Good(c)
    PROVE  /\ Well(IndexesOf(c))
           /\ c.conflicts.all \subseteq IndexesOf(c).all
           /\ c.index = NoLabel \/ c.index \in IndexesOf(c).all
           /\ IndexesOf(c) = Empty => /\ c.index = NoLabel /\ c.label = NoLabel
                                      /\ c.conflicts = Empty
           /\ \A d \in DataTypes :
                /\ Well(OfType(c, d))
                /\ c.conflictsBy[d].all \subseteq OfType(c, d).all
                /\ c.indexBy[d] = NoLabel \/ c.indexBy[d] \in OfType(c, d).all
<1>1. /\ c.label \in Labels \cup {NoLabel} /\ c.index \in Labels \cup {NoLabel}
      /\ Well(c.conflicts)
  BY DEF Good, Kept, Candidates
<1> DEFINE own == Join(c.conflicts, One(c.index))
<1>2. Well(own) /\ own.all = c.conflicts.all \cup ({c.index} \ {NoLabel})
  BY <1>1, OneWell, JoinWell
<1>3. own = Empty => c.conflicts = Empty /\ c.index = NoLabel
  BY <1>1, OneWell, JoinWell
<1>4. Well(One(c.label)) /\ (One(c.label) = Empty <=> c.label = NoLabel)
  BY <1>1, OneWell
<1>5. IndexesOf(c) = IF own = Empty THEN One(c.label) ELSE own
  BY DEF IndexesOf
<1>6. ASSUME NEW d \in DataTypes
      PROVE  /\ Well(OfType(c, d))
             /\ c.conflictsBy[d].all \subseteq OfType(c, d).all
             /\ c.indexBy[d] = NoLabel \/ c.indexBy[d] \in OfType(c, d).all
  BY OneWell, JoinWell DEF Good, Kept, OfType
<1> HIDE DEF own
<1>7. Empty.all = {}
  BY DEF Empty
<1> QED
  BY <1>1, <1>2, <1>3, <1>4, <1>5, <1>6, <1>7

\* The metadata without any data type.
LEMMA NoTypes ==
    /\ NoIndexBy \in [DataTypes -> Labels \cup {NoLabel}]
    /\ NoConflictsBy \in [DataTypes -> Lists]
    /\ Well(Empty) /\ Kept(NoLabel, Empty)
    /\ One(NoLabel) = Empty /\ Join(Empty, Empty) = Empty
    /\ \A d \in DataTypes : NoIndexBy[d] = NoLabel /\ NoConflictsBy[d] = Empty
BY IndexAssumption DEF NoIndexBy, NoConflictsBy, Lists, Empty, Well, Kept, One, Join

\* An item of an answer.
LEMMA ItemGood ==
    ASSUME NEW l \in Labels \cup {NoLabel}
    PROVE  /\ Good(Item(l)) /\ IndexesOf(Item(l)).all = {l} \ {NoLabel}
           /\ \A d \in DataTypes : OfType(Item(l), d) = Empty
<1>1. Item(l) \in Candidates
  BY NoTypes DEF Item, Candidates, Well
<1>2. Kept(l, Empty)
  BY NoTypes DEF Kept
<1>3. Good(Item(l))
  BY <1>1, <1>2, NoTypes DEF Good, Item
<1>4. IndexesOf(Item(l)) = One(l)
  BY NoTypes, OneWell DEF IndexesOf, Item, Join, Empty
<1>5. \A d \in DataTypes : OfType(Item(l), d) = Empty
  BY NoTypes DEF OfType, Item
<1> QED
  BY <1>3, <1>4, <1>5, OneWell

\* A repeated candidate keeps every label of both.
LEMMA MergeGood ==
    ASSUME NEW a, NEW b, Good(a), Good(b)
    PROVE  /\ Good(Merge(a, b))
           /\ IndexesOf(Merge(a, b)).all = IndexesOf(a).all \cup IndexesOf(b).all
           /\ \A d \in DataTypes :
                 OfType(Merge(a, b), d).all = OfType(a, d).all \cup OfType(b, d).all
<1> DEFINE c       == Merge(a, b)
           indexes == Join(IndexesOf(a), IndexesOf(b))
           by(d)   == Join(OfType(a, d), OfType(b, d))
<1>1. Well(indexes) /\ indexes.all = IndexesOf(a).all \cup IndexesOf(b).all
  BY GoodLists, JoinWell
<1>2. \A d \in DataTypes : Well(by(d)) /\ by(d).all = OfType(a, d).all \cup OfType(b, d).all
  BY GoodLists, JoinWell
<1>3. /\ c.label = IF b.label # NoLabel THEN b.label ELSE a.label
      /\ c.index = indexes.first
      /\ c.types = a.types \cup b.types
      /\ \A d \in DataTypes : c.indexBy[d] = by(d).first
  BY DEF Merge
<1>4. c.conflicts = IF Several(indexes) THEN indexes ELSE Empty
  <2>1. CASE Several(indexes)
    BY <2>1 DEF Merge
  <2>2. CASE ~Several(indexes)
    <3>1. a.conflicts.all \subseteq indexes.all /\ b.conflicts.all \subseteq indexes.all
      BY <1>1, GoodLists
    <3>2. Kept(a.index, a.conflicts) /\ Kept(b.index, b.conflicts)
      BY DEF Good
    <3>3. a.conflicts = Empty /\ b.conflicts = Empty
      BY <2>2, <3>1, <3>2, KeptEmpty
    <3> QED
      BY <2>2, <3>3 DEF Merge
  <2> QED
    BY <2>1, <2>2
<1>5. ASSUME NEW d \in DataTypes
      PROVE  c.conflictsBy[d] = IF Several(by(d)) THEN by(d) ELSE Empty
  <2>1. CASE \E e \in DataTypes : Several(by(e))
    BY <2>1 DEF Merge
  <2>2. CASE ~\E e \in DataTypes : Several(by(e))
    <3>1. ~Several(by(d))
      BY <2>2
    <3>2. a.conflictsBy[d].all \subseteq by(d).all /\ b.conflictsBy[d].all \subseteq by(d).all
      BY <1>2, GoodLists
    <3>3. /\ Kept(a.indexBy[d], a.conflictsBy[d])
          /\ Kept(b.indexBy[d], b.conflictsBy[d])
      BY DEF Good
    <3>4. a.conflictsBy[d] = Empty /\ b.conflictsBy[d] = Empty
      BY <3>1, <3>2, <3>3, KeptEmpty
    <3>5. c.conflictsBy = IF b.conflictsBy # NoConflictsBy THEN b.conflictsBy
                          ELSE a.conflictsBy
      BY <2>2 DEF Merge
    <3> QED
      BY <3>1, <3>4, <3>5
  <2> QED
    BY <2>1, <2>2
<1>6. c.conflictsBy \in [DataTypes -> Lists]
  <2>1. /\ a.conflictsBy \in [DataTypes -> Lists] /\ b.conflictsBy \in [DataTypes -> Lists]
        /\ \A d \in DataTypes : by(d) \in Lists /\ Empty \in Lists
    BY <1>2, NoTypes DEF Good, Candidates, Well
  <2> QED
    BY <2>1 DEF Merge
<1>7. c.indexBy \in [DataTypes -> Labels \cup {NoLabel}]
  <2>1. \A d \in DataTypes : by(d).first \in Labels \cup {NoLabel}
    BY <1>2 DEF Well, Lists
  <2> QED
    BY <2>1 DEF Merge
<1>8. Kept(c.index, c.conflicts) /\ Join(c.conflicts, One(c.index)).all = indexes.all
  BY <1>1, <1>3, <1>4, KeptList
<1>9. \A d \in DataTypes : /\ Kept(c.indexBy[d], c.conflictsBy[d])
                           /\ Join(One(c.indexBy[d]), c.conflictsBy[d]).all = by(d).all
  BY <1>2, <1>3, <1>5, KeptList
<1>10. c \in Candidates
  <2>1. /\ c.label \in Labels \cup {NoLabel} /\ c.index \in Labels \cup {NoLabel}
        /\ c.conflicts \in Lists /\ c.types \in SUBSET DataTypes
    BY <1>3, <1>8 DEF Good, Candidates, Kept, Well
  <2> QED
    BY <2>1, <1>6, <1>7 DEF Merge, Candidates
<1>11. IndexesOf(c).all = indexes.all
  <2>1. CASE indexes.all # {}
    <3>1. Join(c.conflicts, One(c.index)) # Empty
      BY <2>1, <1>8 DEF Empty
    <3> QED
      BY <3>1, <1>8 DEF IndexesOf
  <2>2. CASE indexes.all = {}
    <3>1. IndexesOf(a) = Empty /\ IndexesOf(b) = Empty
      BY <2>2, <1>1, GoodLists DEF Well
    <3>2. c.label = NoLabel
      BY <3>1, <1>3, GoodLists
    <3>3. One(c.label).all = {}
      BY <3>2, NoTypes DEF Empty
    <3> QED
      BY <2>2, <3>3, <1>8 DEF IndexesOf
  <2> QED
    BY <2>1, <2>2
<1>12. Good(c)
  BY <1>8, <1>9, <1>10 DEF Good
<1>13. \A d \in DataTypes : OfType(c, d).all = by(d).all
  BY <1>9 DEF OfType
<1> QED
  BY <1>1, <1>2, <1>11, <1>12, <1>13

\* A candidate of one answer carries its labels to that data type only.
LEMMA WithDataTypeGood ==
    ASSUME NEW c, NEW t \in DataTypes, Good(c), \A d \in DataTypes : OfType(c, d) = Empty
    PROVE  /\ Good(WithDataType(c, t))
           /\ OfType(WithDataType(c, t), t).all = IndexesOf(c).all
           /\ \A d \in DataTypes \ {t} : OfType(WithDataType(c, t), d).all = {}
<1> DEFINE e       == WithDataType(c, t)
           indexes == IndexesOf(c)
<1>1. Well(indexes)
  BY GoodLists
<1>2. c \in Candidates
  BY DEF Good
<1>3. \A d \in DataTypes : c.indexBy[d] = NoLabel /\ c.conflictsBy[d] = Empty
  <2> SUFFICES ASSUME NEW d \in DataTypes
               PROVE  c.indexBy[d] = NoLabel /\ c.conflictsBy[d] = Empty
    OBVIOUS
  <2>1. OfType(c, d) = Empty /\ c.indexBy[d] \in Labels \cup {NoLabel} /\ Well(c.conflictsBy[d])
    BY DEF Good, Kept
  <2> QED
    BY <2>1, OneWell, JoinWell DEF OfType
<1>4. c.indexBy = NoIndexBy /\ c.conflictsBy = NoConflictsBy
  BY <1>2, <1>3 DEF Candidates, NoIndexBy, NoConflictsBy
<1>5. /\ e.label = c.label /\ e.index = c.index /\ e.conflicts = c.conflicts
      /\ e.types = c.types \cup {t}
      /\ e.indexBy = IF indexes = Empty THEN NoIndexBy ELSE [NoIndexBy EXCEPT ![t] = indexes.first]
      /\ e.conflictsBy = IF Several(indexes) THEN [NoConflictsBy EXCEPT ![t] = indexes]
                         ELSE NoConflictsBy
  BY <1>2, <1>4 DEF WithDataType, Candidates
<1>6. e.indexBy[t] = indexes.first
  BY <1>1, <1>5, NoTypes DEF Well, Empty, NoIndexBy
<1>7. e.conflictsBy[t] = IF Several(indexes) THEN indexes ELSE Empty
  BY <1>5, NoTypes DEF NoConflictsBy
<1>8. \A d \in DataTypes \ {t} : e.indexBy[d] = NoLabel /\ e.conflictsBy[d] = Empty
  BY <1>5, NoTypes DEF NoIndexBy, NoConflictsBy
<1>9. /\ Kept(e.indexBy[t], e.conflictsBy[t])
      /\ Join(One(e.indexBy[t]), e.conflictsBy[t]).all = indexes.all
  BY <1>1, <1>6, <1>7, KeptList
<1>10. e \in Candidates
  <2>1. /\ e.indexBy \in [DataTypes -> Labels \cup {NoLabel}]
        /\ e.conflictsBy \in [DataTypes -> Lists]
    BY <1>1, <1>5, NoTypes DEF Well, Lists
  <2>2. e.types \in SUBSET DataTypes
    BY <1>2, <1>5 DEF Candidates
  <2> HIDE DEF indexes
  <2>3. e = [c EXCEPT !.types = e.types, !.indexBy = e.indexBy, !.conflictsBy = e.conflictsBy]
    BY <1>2 DEF WithDataType, Candidates
  <2> HIDE DEF e
  <2> QED
    BY <2>1, <2>2, <2>3, <1>2 DEF Candidates
<1>11. Good(e)
  BY <1>5, <1>8, <1>9, <1>10, NoTypes DEF Good
<1>12. ASSUME NEW d \in DataTypes \ {t}
       PROVE  OfType(e, d).all = {}
  <2>1. OfType(e, d) = Empty
    BY <1>8, NoTypes DEF OfType
  <2> QED
    BY <2>1, NoTypes DEF Empty
<1> QED
  BY <1>9, <1>11, <1>12 DEF OfType

----------------------------------------------------------------------------
(* The inductive invariant: candidates know what Sigma said.               *)

\* Candidates of the answer that is read.
AnswerKnows(n) ==
    \A c \in answer[n] :
        /\ type \in DataTypes /\ Good(c) /\ IndexesOf(c).all = said[n][type]
        /\ \A d \in DataTypes : OfType(c, d) = Empty

\* Candidates of the answers before.
ListedKnows(n) ==
    \A c \in listed[n] :
        /\ Good(c)
        /\ \A d \in DataTypes : OfType(c, d).all = IF d < type THEN said[n][d] ELSE {}

\* What was said and has no candidate.
Unsaid(n) ==
    /\ answer[n] = {} /\ type \in DataTypes => said[n][type] = {}
    /\ listed[n] = {} => \A d \in DataTypes : d < type => said[n][d] = {}
    /\ \A d \in DataTypes : d > type => said[n][d] = {}

IndexInv ==
    /\ type \in 1 .. NumTypes + 1
    /\ DOMAIN answer = Names /\ DOMAIN listed = Names
    /\ answer = [n \in Names |-> answer[n]] /\ listed = [n \in Names |-> listed[n]]
    /\ said \in [Names -> [DataTypes -> SUBSET Labels]]
    /\ \A n \in Names : AnswerKnows(n) /\ ListedKnows(n) /\ Unsaid(n)

\* It holds before the first answer.
LEMMA IndexInit == Init => IndexInv
BY IndexAssumption DEF Init, IndexInv, NoCandidate, AnswerKnows, ListedKnows, Unsaid, DataTypes

\* Reading an item keeps it.
LEMMA ReadKeeps ==
    ASSUME IndexInv, NEW n \in Names, NEW l \in Labels \cup {NoLabel}, Read(n, l)
    PROVE  IndexInv'
<1>1. /\ type \in DataTypes /\ type' = type /\ listed' = listed
      /\ answer' = [answer EXCEPT ![n] = Add(@, Item(l))]
      /\ said' = [said EXCEPT ![n][type] = @ \cup ({l} \ {NoLabel})]
  BY DEF Read
<1>2. said' \in [Names -> [DataTypes -> SUBSET Labels]]
  BY <1>1 DEF IndexInv
<1>3. \A m \in Names \ {n} : said'[m] = said[m] /\ answer'[m] = answer[m]
  BY <1>1 DEF IndexInv
<1>4. /\ said'[n][type] = said[n][type] \cup ({l} \ {NoLabel})
      /\ \A d \in DataTypes \ {type} : said'[n][d] = said[n][d]
      /\ answer'[n] = Add(answer[n], Item(l))
  BY <1>1 DEF IndexInv
<1>5. AnswerKnows(n)'
  <2> SUFFICES ASSUME NEW c \in Add(answer[n], Item(l))
               PROVE  /\ Good(c) /\ IndexesOf(c).all = said'[n][type]
                      /\ \A d \in DataTypes : OfType(c, d) = Empty
    BY <1>1, <1>4 DEF AnswerKnows
  <2>1. CASE answer[n] = {}
    <3>1. c = Item(l) /\ said[n][type] = {}
      BY <2>1, <1>1 DEF Add, IndexInv, Unsaid
    <3> QED
      BY <3>1, <1>4, ItemGood
  <2>2. CASE answer[n] # {}
    <3>1. PICK a \in answer[n] : c = Merge(a, Item(l))
      BY <2>2 DEF Add
    <3>2. /\ Good(a) /\ IndexesOf(a).all = said[n][type]
          /\ \A d \in DataTypes : OfType(a, d) = Empty
      BY <3>1 DEF IndexInv, AnswerKnows
    <3>3. Good(c) /\ IndexesOf(c).all = said[n][type] \cup ({l} \ {NoLabel})
      BY <3>1, <3>2, ItemGood, MergeGood
    <3>4. \A d \in DataTypes : OfType(c, d).all = {}
      BY <3>1, <3>2, ItemGood, MergeGood DEF Empty
    <3>5. \A d \in DataTypes : OfType(c, d) = Empty
      BY <3>3, <3>4, GoodLists DEF Well
    <3> QED
      BY <3>3, <3>5, <1>4
  <2> QED
    BY <2>1, <2>2
<1>6. Add(answer[n], Item(l)) # {}
  BY DEF Add
<1>7. Unsaid(n)'
  BY <1>1, <1>4, <1>6 DEF IndexInv, Unsaid, DataTypes
<1>8. ListedKnows(n)'
  BY <1>1, <1>4 DEF IndexInv, ListedKnows, DataTypes
<1>9. \A m \in Names \ {n} : AnswerKnows(m)' /\ ListedKnows(m)' /\ Unsaid(m)'
  BY <1>1, <1>3 DEF IndexInv, AnswerKnows, ListedKnows, Unsaid
<1>10. /\ DOMAIN answer' = Names /\ DOMAIN listed' = Names
       /\ answer' = [m \in Names |-> answer'[m]] /\ listed' = [m \in Names |-> listed'[m]]
  BY <1>1 DEF IndexInv
<1> QED
  BY <1>1, <1>2, <1>5, <1>7, <1>8, <1>9, <1>10 DEF IndexInv

\* So does the end of an answer.
LEMMA EndKeeps ==
    ASSUME IndexInv, EndAnswer
    PROVE  IndexInv'
<1>1. /\ type \in DataTypes /\ type' = type + 1 /\ answer' = NoCandidate /\ said' = said
      /\ \A n \in Names : listed'[n] = IF answer[n] = {} THEN listed[n]
            ELSE UNION {Add(listed[n], WithDataType(c, type)) : c \in answer[n]}
      /\ DOMAIN listed' = Names /\ listed' = [n \in Names |-> listed'[n]]
  BY DEF EndAnswer
<1>2. \A d \in DataTypes : (d < type' <=> d < type \/ d = type) /\ (d > type' => d > type)
  BY <1>1, IndexAssumption DEF DataTypes
<1>3. type' \in 1 .. NumTypes + 1
  BY <1>1, IndexAssumption DEF DataTypes
<1>4. ASSUME NEW n \in Names
      PROVE  ListedKnows(n)' /\ (listed'[n] = {} => listed[n] = {} /\ answer[n] = {})
  <2>1. CASE answer[n] = {}
    <3>1. listed'[n] = listed[n] /\ said[n][type] = {}
      BY <2>1, <1>1 DEF IndexInv, Unsaid
    <3>2. \A c \in listed[n] : Good(c) /\ \A d \in DataTypes :
             OfType(c, d).all = IF d < type' THEN said[n][d] ELSE {}
      BY <1>1, <1>2, <3>1 DEF IndexInv, ListedKnows
    <3> QED
      BY <2>1, <3>1, <3>2, <1>1 DEF ListedKnows
  <2>2. CASE answer[n] # {}
    <3>1. ASSUME NEW a \in answer[n]
          PROVE  /\ Good(WithDataType(a, type))
                 /\ \A d \in DataTypes : OfType(WithDataType(a, type), d).all =
                       IF d = type THEN said[n][d] ELSE {}
      <4>1. Good(a) /\ IndexesOf(a).all = said[n][type] /\ \A d \in DataTypes : OfType(a, d) = Empty
        BY <3>1 DEF IndexInv, AnswerKnows
      <4>2. /\ Good(WithDataType(a, type))
            /\ OfType(WithDataType(a, type), type).all = IndexesOf(a).all
            /\ \A d \in DataTypes \ {type} : OfType(WithDataType(a, type), d).all = {}
        BY <4>1, <1>1, WithDataTypeGood
      <4> QED
        BY <4>1, <4>2
    <3>2. ASSUME NEW a \in answer[n], NEW c \in Add(listed[n], WithDataType(a, type))
          PROVE  Good(c) /\ \A d \in DataTypes :
                    OfType(c, d).all = IF d < type' THEN said[n][d] ELSE {}
      <4>1. CASE listed[n] = {}
        <5>1. c = WithDataType(a, type) /\ \A d \in DataTypes : d < type => said[n][d] = {}
          BY <4>1, <3>2 DEF Add, IndexInv, Unsaid
        <5> QED
          BY <5>1, <3>1, <1>2
      <4>2. CASE listed[n] # {}
        <5>1. PICK b \in listed[n] : c = Merge(b, WithDataType(a, type))
          BY <4>2, <3>2 DEF Add
        <5>2. Good(b) /\ \A d \in DataTypes :
                 OfType(b, d).all = IF d < type THEN said[n][d] ELSE {}
          BY <5>1 DEF IndexInv, ListedKnows
        <5>3. Good(c) /\ \A d \in DataTypes :
                 OfType(c, d).all = OfType(b, d).all \cup OfType(WithDataType(a, type), d).all
          BY <5>1, <5>2, <3>1, MergeGood
        <5>4. type < type' /\ ~(type < type)
          BY <1>1, IndexAssumption DEF DataTypes
        <5> QED
          BY <5>2, <5>3, <5>4, <3>1, <1>2
      <4> QED
        BY <4>1, <4>2
    <3>3. \A a \in answer[n] : Add(listed[n], WithDataType(a, type)) # {}
      BY DEF Add
    <3>4. listed'[n] # {}
      BY <2>2, <3>3, <1>1
    <3> QED
      BY <2>2, <3>2, <3>4, <1>1 DEF ListedKnows
  <2> QED
    BY <2>1, <2>2
<1>5. ASSUME NEW n \in Names
      PROVE  AnswerKnows(n)' /\ Unsaid(n)'
  <2>1. answer'[n] = {}
    BY <1>1 DEF NoCandidate
  <2>2. type' \in DataTypes => said[n][type'] = {}
    <3>1. type' > type
      BY <1>1, IndexAssumption DEF DataTypes
    <3> QED
      BY <3>1 DEF IndexInv, Unsaid
  <2>3. listed'[n] = {} => \A d \in DataTypes : d < type' => said[n][d] = {}
    BY <1>1, <1>2, <1>4 DEF IndexInv, Unsaid
  <2>4. \A d \in DataTypes : d > type' => said[n][d] = {}
    BY <1>2 DEF IndexInv, Unsaid
  <2> QED
    BY <2>1, <2>2, <2>3, <2>4, <1>1 DEF AnswerKnows, Unsaid
<1> QED
  BY <1>1, <1>3, <1>4, <1>5 DEF IndexInv, NoCandidate

\* The invariant holds of every reachable state.
LEMMA IndexInvariant == Spec => []IndexInv
<1>1. IndexInv /\ [Next]_listing => IndexInv'
  <2> SUFFICES ASSUME IndexInv, [Next]_listing PROVE IndexInv'
    OBVIOUS
  <2>1. CASE UNCHANGED listing
    BY <2>1 DEF listing, IndexInv, AnswerKnows, ListedKnows, Unsaid
  <2>2. ASSUME NEW item \in Items, Read(item[1], item[2])
        PROVE  IndexInv'
    <3>1. item[1] \in Names /\ item[2] \in Labels \cup {NoLabel}
      BY IndexAssumption
    <3> QED
      BY <2>2, <3>1, ReadKeeps
  <2>3. CASE EndAnswer
    BY <2>3, EndKeeps
  <2> QED
    BY <2>1, <2>2, <2>3 DEF Next
<1> QED
  BY <1>1, IndexInit, PTL DEF Spec

\* A capture lists Sigma's indicators as the gateway does: seen without the
\* snapshot, each of its steps reads an item, ends an answer or changes
\* nothing (capture_snapshot, HttpSigmaGateway.list_indicator_names).
LEMMA CaptureLists == SnapshotSpec => Spec
<1>1. SnapshotInit => Init
  BY DEF SnapshotInit
<1>2. [SnapshotNext]_<<listing, capture>> => [Next]_listing
  <2>1. ASSUME NEW item \in Items, CaptureItem(item[1], item[2])
        PROVE  Next
    BY <2>1 DEF CaptureItem, Next
  <2>2. CapturePlace => Next \/ UNCHANGED listing
    BY DEF CapturePlace, Next
  <2> QED
    BY <2>1, <2>2 DEF SnapshotNext
<1> QED
  BY <1>1, <1>2, PTL DEF Spec, SnapshotSpec

\* What a task finds for the name of an indicator is what Sigma said of the
\* indicators the name stands for, and of that one alone when no other one has
\* the name as its label.
LEMMA NamedIndices ==
    ASSUME IndexInv, NEW n \in Names, NEW d \in DataTypes, d < type
    PROVE  /\ IndicesFor(n, d) = UNION {said[m][d] : m \in {k \in Names : Named(n, k)}}
           /\ (\A m \in Names \ {n} : \A c \in listed[m] : c.label # n)
                 => IndicesFor(n, d) = said[n][d]
<1>1. ASSUME NEW m \in Names
      PROVE  UNION {OfType(c, d).all : c \in listed[m]} = said[m][d]
  <2>1. \A c \in listed[m] : OfType(c, d).all = said[m][d]
    BY DEF IndexInv, ListedKnows
  <2>2. listed[m] = {} => said[m][d] = {}
    BY DEF IndexInv, Unsaid
  <2> QED
    BY <2>1, <2>2
<1>2. IndicesFor(n, d) = UNION {said[m][d] : m \in {k \in Names : Named(n, k)}}
  BY <1>1 DEF IndicesFor
<1>3. ASSUME \A m \in Names \ {n} : \A c \in listed[m] : c.label # n
      PROVE  {k \in Names : Named(n, k)} = {n}
  BY <1>3 DEF Named
<1> QED
  BY <1>2, <1>3

\* An index is picked only if it is all Sigma said for the data type of the
\* indicators the name stands for: a conflict is never resolved silently,
\* however often and in whichever order Sigma names indicators and labels
\* (_merge_candidate_metadata, _indicator_index).
THEOREM PickedIndexCorrect == Spec \/ SnapshotSpec => []PickedIndexIsSigmas
<1>1. IndexInv => PickedIndexIsSigmas
  BY NamedIndices DEF PickedIndexIsSigmas, Resolves
<1> QED
  BY <1>1, IndexInvariant, CaptureLists, PTL

\* An indicator Sigma gave one index is usable in a task.
THEOREM OneIndexCorrect == Spec \/ SnapshotSpec => []OneIndexResolves
<1>1. IndexInv => OneIndexResolves
  BY NamedIndices DEF OneIndexResolves, Resolves
<1> QED
  BY <1>1, IndexInvariant, CaptureLists, PTL
----------------------------------------------------------------------------
(* The inductive invariant of a capture beside a listing.                  *)

\* What the replay knows of an indicator and a data type.
Back(n, d) == UNION {OfType(c, d).all : c \in replayed[n]}

HasRow(n, d) == \E r \in rows : r.name = n /\ r.type = d

\* The candidate of the place's answer has a label Sigma gave, and with what
\* the replay knows of the places before it accounts for all the labels.
CellKnows(n) ==
    /\ \A b, c \in cell[n] : b = c
    /\ \A c \in cell[n] :
        /\ type \in DataTypes /\ c.label \in Labels \cup {NoLabel}
        /\ c.label # NoLabel => c.label \in said[n][type]
        /\ said[n][type] # {} => c.label # NoLabel \/ Back(n, type) # {}
        /\ <<n, type>> \notin torn =>
              said[n][type] = ({c.label} \ {NoLabel}) \cup Back(n, type)

\* A candidate put together from rows.
Replayable(c) ==
    /\ c = [label |-> c.label, index |-> c.index, conflicts |-> c.conflicts,
            types |-> c.types, indexBy |-> c.indexBy, conflictsBy |-> c.conflictsBy]
    /\ c.indexBy \in [DataTypes -> Labels \cup {NoLabel}]
    /\ c.conflictsBy \in [DataTypes -> Lists]
    /\ \A d \in DataTypes : Well(c.conflictsBy[d])

\* What is replayed has the data types of the rows, and for the places that
\* are captured the labels Sigma gave.
ReplayKnows(n) ==
    /\ \A b, c \in replayed[n] : b = c
    /\ \A c \in replayed[n] : Replayable(c) /\ c.types = {d \in DataTypes : HasRow(n, d)}
    /\ replayed[n] = {} => \A d \in DataTypes : ~HasRow(n, d)
    /\ \A d \in DataTypes :
        /\ Back(n, d) \subseteq said[n][d]
        /\ d < type \/ (d = type /\ cell[n] = {}) =>
              /\ said[n][d] # {} => Back(n, d) # {}
              /\ <<n, d>> \notin torn => Back(n, d) = said[n][d]

\* What is listed has the data types of the rows; the answer that is read
\* is the answers for its places.
ListedTypes(n) ==
    /\ \A c \in answer[n] : c.types = {}
    /\ type \in DataTypes => (answer[n] = {} <=> cell[n] = {} /\ ~HasRow(n, type))
    /\ \A c \in listed[n] : c.types = {d \in DataTypes : d < type /\ HasRow(n, d)}
    /\ listed[n] = {} => \A d \in DataTypes : d < type => ~HasRow(n, d)

SnapshotInv ==
    /\ place \in Places
    /\ cell = [n \in Names |-> cell[n]] /\ replayed = [n \in Names |-> replayed[n]]
    /\ \A r \in rows : r.type \in DataTypes /\ r.type <= type /\ r.place \in Places
    /\ \A n \in Names : CellKnows(n) /\ ReplayKnows(n) /\ ListedTypes(n)

\* A candidate of no row yet.
LEMMA UnlabelledReplayable ==
    /\ Replayable(Unlabelled) /\ Unlabelled.types = {}
    /\ \A d \in DataTypes : OfType(Unlabelled, d).all = {}
<1>1. Unlabelled = [label |-> NoLabel, index |-> NoLabel, conflicts |-> Empty, types |-> {},
                    indexBy |-> NoIndexBy, conflictsBy |-> NoConflictsBy]
  BY DEF Unlabelled, Item
<1> HIDE DEF Unlabelled
<1>2. Replayable(Unlabelled) /\ Unlabelled.types = {}
  BY <1>1, NoTypes DEF Replayable
<1>3. \A d \in DataTypes : OfType(Unlabelled, d) = Empty
  BY <1>1, NoTypes DEF OfType
<1> QED
  BY <1>2, <1>3 DEF Empty

\* A further row adds its data type and, for this data type, its label.
LEMMA ReplayAdds ==
    ASSUME NEW c, Replayable(c), NEW r,
           r.type \in DataTypes, r.label \in Labels \cup {NoLabel}
    PROVE  /\ Replayable(Replay(c, r))
           /\ Replay(c, r).types = c.types \cup {r.type}
           /\ \A d \in DataTypes :
                OfType(Replay(c, r), d).all =
                   OfType(c, d).all \cup IF d = r.type THEN {r.label} \ {NoLabel} ELSE {}
<1> DEFINE t == r.type
           l == r.label
           clash == l # NoLabel /\ c.indexBy[t] \notin {NoLabel, l}
           index == IF l # NoLabel /\ ~clash THEN l ELSE c.indexBy[t]
           known == IF c.conflictsBy[t] = Empty THEN One(c.indexBy[t]) ELSE c.conflictsBy[t]
           conflict == IF ~clash THEN c.conflictsBy[t] ELSE Join(known, One(l))
           e == Replay(c, r)
<1>1. /\ c.indexBy[t] \in Labels \cup {NoLabel} /\ Well(c.conflictsBy[t])
      /\ l \in Labels \cup {NoLabel} /\ t \in DataTypes
  BY DEF Replayable
<1>2. Well(One(c.indexBy[t])) /\ One(c.indexBy[t]).all = {c.indexBy[t]} \ {NoLabel}
  BY <1>1, OneWell
<1>3. Well(One(l)) /\ One(l).all = {l} \ {NoLabel}
  BY <1>1, OneWell
<1>4. Well(known) /\ known.all \subseteq One(c.indexBy[t]).all \cup c.conflictsBy[t].all
                  /\ c.conflictsBy[t].all \subseteq known.all
  BY <1>1, <1>2 DEF Empty
<1>5. Well(Join(known, One(l))) /\ Join(known, One(l)).all = known.all \cup One(l).all
  <2> HIDE DEF known
  <2> QED
    BY <1>3, <1>4, JoinWell
<1>6. index \in Labels \cup {NoLabel} /\ Well(conflict)
  <2> HIDE DEF known
  <2> QED
    BY <1>1, <1>5
<1>7. One(index).all \cup conflict.all =
         One(c.indexBy[t]).all \cup c.conflictsBy[t].all \cup ({l} \ {NoLabel})
  <2>1. One(index).all = {index} \ {NoLabel}
    BY <1>6, OneWell
  <2>2. CASE clash
    <3>1. index = c.indexBy[t] /\ conflict = Join(known, One(l))
      BY <2>2
    <3> HIDE DEF known, index, conflict
    <3> QED
      BY <3>1, <1>2, <1>3, <1>4, <1>5
  <2>3. CASE ~clash
    <3>1. conflict = c.conflictsBy[t] /\ index = IF l # NoLabel THEN l ELSE c.indexBy[t]
      BY <2>3
    <3>2. l # NoLabel => c.indexBy[t] \in {NoLabel, l}
      BY <2>3
    <3> HIDE DEF index, conflict, clash
    <3> QED
      BY <3>1, <3>2, <2>1, <1>2
  <2> QED
    BY <2>2, <2>3
<1>8. /\ e = [label |-> e.label, index |-> e.index, conflicts |-> e.conflicts,
              types |-> e.types, indexBy |-> e.indexBy, conflictsBy |-> e.conflictsBy]
      /\ e.types = c.types \cup {t}
      /\ e.indexBy = [c.indexBy EXCEPT ![t] = index]
      /\ e.conflictsBy = [c.conflictsBy EXCEPT ![t] = conflict]
  <2>1. c = [label |-> c.label, index |-> c.index, conflicts |-> c.conflicts,
             types |-> c.types, indexBy |-> c.indexBy, conflictsBy |-> c.conflictsBy]
    BY DEF Replayable
  <2>2. e = [c EXCEPT !.types = @ \cup {t}, !.label = IF l # NoLabel THEN l ELSE @,
                      !.indexBy[t] = index, !.conflictsBy[t] = conflict]
    BY DEF Replay
  <2> HIDE DEF e, index, conflict
  <2>3. e = [label |-> IF l # NoLabel THEN l ELSE c.label,
             index |-> c.index, conflicts |-> c.conflicts, types |-> c.types \cup {t},
             indexBy |-> [c.indexBy EXCEPT ![t] = index],
             conflictsBy |-> [c.conflictsBy EXCEPT ![t] = conflict]]
    BY <2>1, <2>2
  <2> QED
    BY <2>3
<1> HIDE DEF e, index, conflict, known, clash
<1>9. /\ e.indexBy \in [DataTypes -> Labels \cup {NoLabel}] /\ e.indexBy[t] = index
      /\ \A d \in DataTypes \ {t} : e.indexBy[d] = c.indexBy[d]
  BY <1>1, <1>6, <1>8 DEF Replayable
<1>10. /\ e.conflictsBy \in [DataTypes -> Lists] /\ e.conflictsBy[t] = conflict
       /\ \A d \in DataTypes \ {t} : e.conflictsBy[d] = c.conflictsBy[d]
  BY <1>1, <1>6, <1>8 DEF Replayable, Well
<1>11. Replayable(e)
  BY <1>6, <1>8, <1>9, <1>10 DEF Replayable
<1>12. \A x, y : Well(x) /\ Well(y) => Join(x, y).all = x.all \cup y.all
  BY JoinWell
<1>13. OfType(e, t).all = OfType(c, t).all \cup ({l} \ {NoLabel})
  <2>1. OfType(e, t).all = One(index).all \cup conflict.all
    BY <1>6, <1>9, <1>10, <1>12, OneWell DEF OfType
  <2>2. OfType(c, t).all = One(c.indexBy[t]).all \cup c.conflictsBy[t].all
    BY <1>1, <1>2, <1>12 DEF OfType
  <2> QED
    BY <2>1, <2>2, <1>7
<1>14. \A d \in DataTypes \ {t} : OfType(e, d) = OfType(c, d)
  BY <1>9, <1>10 DEF OfType
<1> QED
  BY <1>8, <1>11, <1>13, <1>14 DEF e

\* It holds before the first answer.
LEMMA SnapshotStart == SnapshotInit => SnapshotInv
<1> SUFFICES ASSUME SnapshotInit PROVE SnapshotInv
  OBVIOUS
<1>1. /\ type = 1 /\ place = 1 /\ rows = {} /\ torn = {}
      /\ cell = [n \in Names |-> {}] /\ replayed = [n \in Names |-> {}]
      /\ answer = [n \in Names |-> {}] /\ listed = [n \in Names |-> {}]
      /\ said = [n \in Names |-> [d \in DataTypes |-> {}]]
  BY DEF SnapshotInit, Init, NoCandidate
<1>2. place \in Places
  BY <1>1, PlacesAssumption DEF Places
<1>3. \A n \in Names, d \in DataTypes : Back(n, d) = {} /\ ~HasRow(n, d) /\ said[n][d] = {}
  BY <1>1 DEF Back, HasRow
<1>4. \A n \in Names : CellKnows(n) /\ ReplayKnows(n) /\ ListedTypes(n)
  BY <1>1, <1>3 DEF CellKnows, ReplayKnows, ListedTypes
<1> QED
  BY <1>1, <1>2, <1>4 DEF SnapshotInv

\* Reading an item keeps it.
LEMMA ItemKeeps ==
    ASSUME SnapshotInv, IndexInv, NEW n \in Names, NEW l \in Labels \cup {NoLabel},
           CaptureItem(n, l)
    PROVE  SnapshotInv'
<1>1. /\ type \in DataTypes /\ UNCHANGED <<type, listed, place, rows, replayed>>
      /\ answer' = [answer EXCEPT ![n] = Add(@, Item(l))]
      /\ said' = [said EXCEPT ![n][type] = @ \cup ({l} \ {NoLabel})]
      /\ cell' = [cell EXCEPT ![n] = Add(@, Item(l))]
      /\ torn' = torn \cup {<<n, type>> : c \in {x \in cell[n] :
                                /\ x.label # NoLabel /\ l \notin {NoLabel, x.label}}}
  BY DEF CaptureItem, Read
<1>2. /\ said'[n][type] = said[n][type] \cup ({l} \ {NoLabel})
      /\ \A d \in DataTypes \ {type} : said'[n][d] = said[n][d]
      /\ \A m \in Names \ {n} : said'[m] = said[m]
  BY <1>1 DEF IndexInv
<1>3. /\ answer'[n] = Add(answer[n], Item(l)) /\ cell'[n] = Add(cell[n], Item(l))
      /\ \A m \in Names \ {n} : answer'[m] = answer[m] /\ cell'[m] = cell[m]
      /\ cell' = [m \in Names |-> cell'[m]]
  BY <1>1 DEF IndexInv, SnapshotInv
<1>4. \A m \in Names, d \in DataTypes : Back(m, d)' = Back(m, d) /\ HasRow(m, d)' = HasRow(m, d)
  BY <1>1 DEF Back, HasRow
<1>5. \A m \in Names, d \in DataTypes :
         <<m, d>> \notin torn' => /\ <<m, d>> \notin torn
                                  /\ m = n /\ d = type => \A x \in cell[n] :
                                       x.label = NoLabel \/ l \in {NoLabel, x.label}
  BY <1>1
<1>6. Item(l).label = l /\ Item(l).types = {}
  BY DEF Item
<1>7. \A a : /\ Merge(a, Item(l)).label = IF l # NoLabel THEN l ELSE a.label
             /\ Merge(a, Item(l)).types = a.types
  BY <1>6 DEF Merge
<1>8. Add(answer[n], Item(l)) # {} /\ Add(cell[n], Item(l)) # {}
  BY DEF Add
<1>9. CellKnows(n)'
  <2>1. ASSUME NEW b \in cell'[n], NEW c \in cell'[n]
        PROVE  b = c
    <3>1. \A x, y \in cell[n] : x = y
      BY DEF SnapshotInv, CellKnows
    <3>2. b \in Add(cell[n], Item(l)) /\ c \in Add(cell[n], Item(l))
      BY <1>3
    <3> QED
      BY <3>1, <3>2 DEF Add
  <2>2. ASSUME NEW c \in cell'[n]
        PROVE  /\ type \in DataTypes /\ c.label \in Labels \cup {NoLabel}
               /\ c.label # NoLabel => c.label \in said'[n][type]
               /\ said'[n][type] # {} => c.label # NoLabel \/ Back(n, type) # {}
               /\ <<n, type>> \notin torn' =>
                     said'[n][type] = ({c.label} \ {NoLabel}) \cup Back(n, type)
    <3>1. CASE cell[n] = {}
      <4>1. c.label = l
        BY <3>1, <1>3, <1>6 DEF Add
      <4>2. /\ said[n][type] # {} => Back(n, type) # {}
            /\ <<n, type>> \notin torn => Back(n, type) = said[n][type]
        BY <3>1, <1>1 DEF SnapshotInv, ReplayKnows
      <4> QED
        BY <4>1, <4>2, <1>1, <1>2, <1>5
    <3>2. CASE cell[n] # {}
      <4>1. PICK x \in cell[n] : c = Merge(x, Item(l))
        BY <3>2, <1>3 DEF Add
      <4>2. c.label = IF l # NoLabel THEN l ELSE x.label
        BY <4>1, <1>7
      <4>3. /\ x.label \in Labels \cup {NoLabel}
            /\ x.label # NoLabel => x.label \in said[n][type]
            /\ said[n][type] # {} => x.label # NoLabel \/ Back(n, type) # {}
            /\ <<n, type>> \notin torn =>
                  said[n][type] = ({x.label} \ {NoLabel}) \cup Back(n, type)
        BY <4>1 DEF SnapshotInv, CellKnows
      <4>4. <<n, type>> \notin torn' =>
               /\ <<n, type>> \notin torn
               /\ x.label = NoLabel \/ l = NoLabel \/ l = x.label
        BY <4>1, <1>1, <1>5
      <4>5. CASE l = NoLabel
        BY <4>5, <4>2, <4>3, <4>4, <1>1, <1>2
      <4>6. CASE l # NoLabel
        BY <4>6, <4>2, <4>3, <4>4, <1>1, <1>2
      <4> QED
        BY <4>5, <4>6
    <3> QED
      BY <3>1, <3>2
  <2> QED
    BY <2>1, <2>2, <1>1, <1>4 DEF CellKnows
<1>10. ReplayKnows(n)'
  <2>1. cell'[n] # {}
    BY <1>3, <1>8
  <2>2. ASSUME NEW d \in DataTypes
        PROVE  Back(n, d) \subseteq said'[n][d]
    BY <1>2 DEF SnapshotInv, ReplayKnows
  <2>3. ASSUME NEW d \in DataTypes, d < type
        PROVE  /\ said'[n][d] # {} => Back(n, d) # {}
               /\ <<n, d>> \notin torn' => Back(n, d) = said'[n][d]
    <3>1. d # type
      BY <2>3, IndexAssumption DEF DataTypes
    <3>2. /\ said[n][d] # {} => Back(n, d) # {}
          /\ <<n, d>> \notin torn => Back(n, d) = said[n][d]
      BY <2>3 DEF SnapshotInv, ReplayKnows
    <3> QED
      BY <3>1, <3>2, <1>2, <1>5
  <2> QED
    BY <2>1, <2>2, <2>3, <1>1, <1>4 DEF SnapshotInv, ReplayKnows
<1>11. ListedTypes(n)'
  <2>1. \A c \in answer'[n] : c.types = {}
    BY <1>3, <1>6, <1>7 DEF Add, SnapshotInv, ListedTypes
  <2> QED
    BY <2>1, <1>1, <1>3, <1>4, <1>8 DEF SnapshotInv, ListedTypes
<1>12. ASSUME NEW m \in Names \ {n}
       PROVE  CellKnows(m)' /\ ReplayKnows(m)' /\ ListedTypes(m)'
  <2>1. CellKnows(m)'
    BY <1>1, <1>2, <1>3, <1>4, <1>5 DEF SnapshotInv, CellKnows
  <2>2. ReplayKnows(m)'
    BY <1>1, <1>2, <1>3, <1>4, <1>5 DEF SnapshotInv, ReplayKnows
  <2>3. ListedTypes(m)'
    BY <1>1, <1>3, <1>4 DEF SnapshotInv, ListedTypes
  <2> QED
    BY <2>1, <2>2, <2>3
<1> QED
  BY <1>1, <1>3, <1>9, <1>10, <1>11, <1>12 DEF SnapshotInv

\* So does the end of a place's answer.
LEMMA PlaceKeeps ==
    ASSUME SnapshotInv, IndexInv, CapturePlace
    PROVE  SnapshotInv'
<1> DEFINE from(n) == IF replayed[n] = {} THEN Unlabelled ELSE CHOOSE x \in replayed[n] : TRUE
<1>1. /\ type \in DataTypes /\ torn' = torn /\ said' = said
      /\ rows' = rows \cup UNION {RowsOf(n) : n \in Names}
      /\ \A n \in Names : replayed'[n] = IF RowsOf(n) = {} THEN replayed[n]
                                         ELSE {Replay(from(n), r) : r \in RowsOf(n)}
      /\ replayed' = [n \in Names |-> replayed'[n]] /\ cell' = [n \in Names |-> {}]
      /\ \/ place < NumPlaces /\ place' = place + 1 /\ UNCHANGED listing
         \/ place = NumPlaces /\ place' = 1 /\ EndAnswer
  BY DEF CapturePlace, NoCandidate, EndAnswer, listing
<1>2. place' \in Places /\ type' \in {type, type + 1}
  BY <1>1, PlacesAssumption DEF SnapshotInv, Places, EndAnswer, listing
<1>3. type \in Nat /\ \A d \in DataTypes : d \in Nat
  BY <1>1, IndexAssumption DEF DataTypes
<1>t. PICK t \in DataTypes : t = type
  BY <1>1
<1>4. ASSUME NEW n \in Names
      PROVE  /\ RowsOf(n) = {} <=> cell[n] = {}
             /\ \A r \in RowsOf(n) : /\ r.type = t /\ r.place = place /\ r.name = n
                                     /\ \E c \in cell[n] : r.label = c.label
             /\ \A r, x \in RowsOf(n) : r = x
  <2>1. \A x, y \in cell[n] : x = y
    BY DEF SnapshotInv, CellKnows
  <2>2. RowsOf(n) = {[type |-> t, place |-> place, name |-> n, label |-> c.label] : c \in cell[n]}
    BY <1>t DEF RowsOf
  <2>3. RowsOf(n) = {} <=> cell[n] = {}
    BY <2>2
  <2>4. \A r \in RowsOf(n) : \E c \in cell[n] :
           r = [type |-> t, place |-> place, name |-> n, label |-> c.label]
    BY <2>2
  <2> QED
    BY <2>1, <2>3, <2>4
<1>5. \A r \in rows' : r.type \in DataTypes /\ r.type <= type /\ r.place \in Places
  BY <1>1, <1>3, <1>4, <1>t DEF SnapshotInv
<1>6. ASSUME NEW n \in Names, NEW d \in DataTypes
      PROVE  HasRow(n, d)' <=> HasRow(n, d) \/ (d = t /\ cell[n] # {})
  BY <1>1, <1>4 DEF HasRow
<1>7. ASSUME NEW n \in Names, cell[n] # {}
      PROVE  /\ \A b, c \in replayed'[n] : b = c
             /\ replayed'[n] # {}
             /\ \A c \in replayed'[n] : /\ Replayable(c)
                                        /\ c.types = {d \in DataTypes : HasRow(n, d)'}
             /\ \E x \in cell[n] : \A d \in DataTypes :
                   Back(n, d)' = Back(n, d) \cup IF d = t THEN {x.label} \ {NoLabel} ELSE {}
  <2>1. PICK r \in RowsOf(n) : RowsOf(n) = {r}
    BY <1>4, <1>7
  <2>2. PICK x \in cell[n] : r.label = x.label
    BY <1>4
  <2>3. r.type \in DataTypes /\ r.label \in Labels \cup {NoLabel} /\ r.type = t
    BY <2>2, <1>4 DEF SnapshotInv, CellKnows
  <2>4. /\ Replayable(from(n)) /\ from(n).types = {d \in DataTypes : HasRow(n, d)}
        /\ \A d \in DataTypes : OfType(from(n), d).all = Back(n, d)
    <3>1. CASE replayed[n] = {}
      <4>1. \A d \in DataTypes : Back(n, d) = {} /\ ~HasRow(n, d)
        BY <3>1 DEF Back, SnapshotInv, ReplayKnows
      <4>2. from(n) = Unlabelled
        BY <3>1
      <4> HIDE DEF from
      <4> QED
        BY <4>1, <4>2, UnlabelledReplayable
    <3>2. CASE replayed[n] # {}
      <4>1. from(n) \in replayed[n]
        BY <3>2
      <4> HIDE DEF from
      <4>2. replayed[n] = {from(n)}
        BY <4>1 DEF SnapshotInv, ReplayKnows
      <4>3. \A d \in DataTypes : OfType(from(n), d).all = Back(n, d)
        BY <4>2 DEF Back
      <4> QED
        BY <4>1, <4>3 DEF SnapshotInv, ReplayKnows
    <3> QED
      BY <3>1, <3>2
  <2> HIDE DEF from
  <2>5. /\ Replayable(Replay(from(n), r))
        /\ Replay(from(n), r).types = from(n).types \cup {r.type}
        /\ \A d \in DataTypes : OfType(Replay(from(n), r), d).all =
              OfType(from(n), d).all \cup IF d = r.type THEN {r.label} \ {NoLabel} ELSE {}
    BY <2>3, <2>4, ReplayAdds
  <2>6. replayed'[n] = {Replay(from(n), r)}
    BY <2>1, <1>1
  <2>7. \A d \in DataTypes : Back(n, d)' = OfType(Replay(from(n), r), d).all
    BY <2>6 DEF Back
  <2>8. from(n).types \cup {t} = {d \in DataTypes : HasRow(n, d)'}
    BY <2>4, <1>6, <1>7
  <2> QED
    BY <2>2, <2>3, <2>4, <2>5, <2>6, <2>7, <2>8
<1>8. ASSUME NEW n \in Names, cell[n] = {}
      PROVE  /\ replayed'[n] = replayed[n]
             /\ \A d \in DataTypes : Back(n, d)' = Back(n, d) /\ HasRow(n, d)' = HasRow(n, d)
  <2>1. replayed'[n] = replayed[n]
    BY <1>1, <1>4, <1>8
  <2> QED
    BY <2>1, <1>6, <1>8 DEF Back, HasRow
<1>9. ASSUME NEW n \in Names, NEW d \in DataTypes
      PROVE  /\ Back(n, d)' \subseteq said[n][d]
             /\ d <= type => /\ said[n][d] # {} => Back(n, d)' # {}
                             /\ <<n, d>> \notin torn => Back(n, d)' = said[n][d]
  <2>1. /\ Back(n, d) \subseteq said[n][d]
        /\ d < type \/ (d = type /\ cell[n] = {}) =>
              /\ said[n][d] # {} => Back(n, d) # {}
              /\ <<n, d>> \notin torn => Back(n, d) = said[n][d]
    BY DEF SnapshotInv, ReplayKnows
  <2>2. d <= type <=> d < type \/ d = type
    BY <1>3
  <2>3. CASE cell[n] = {} \/ d # t
    <3>1. CASE cell[n] = {}
      <4>1. Back(n, d)' = Back(n, d)
        BY <3>1, <1>8
      <4> QED
        BY <4>1, <3>1, <2>1, <2>2
    <3>2. CASE cell[n] # {} /\ d # t
      <4>1. Back(n, d)' = Back(n, d)
        <5>1. PICK x \in cell[n] : \A e \in DataTypes :
                 Back(n, e)' = Back(n, e) \cup IF e = t THEN {x.label} \ {NoLabel} ELSE {}
          BY <3>2, <1>7
        <5>2. Back(n, d)' = Back(n, d) \cup {}
          BY <5>1, <3>2
        <5> QED
          BY <5>2
      <4> QED
        BY <4>1, <3>2, <2>1, <2>2, <1>t
    <3> QED
      BY <3>1, <3>2, <2>3
  <2>4. CASE cell[n] # {} /\ d = t
    <3>1. \A x \in cell[n] :
             /\ x.label # NoLabel => x.label \in said[n][d]
             /\ said[n][d] # {} => x.label # NoLabel \/ Back(n, d) # {}
             /\ <<n, d>> \notin torn => said[n][d] = ({x.label} \ {NoLabel}) \cup Back(n, d)
      BY <2>4, <1>t DEF SnapshotInv, CellKnows
    <3>2. PICK x \in cell[n] : Back(n, d)' = Back(n, d) \cup ({x.label} \ {NoLabel})
      BY <2>4, <1>7
    <3> QED
      BY <3>1, <3>2, <2>1
  <2> QED
    BY <2>3, <2>4
<1>10. ASSUME NEW n \in Names
       PROVE  /\ \A b, c \in replayed'[n] : b = c
              /\ \A c \in replayed'[n] : /\ Replayable(c)
                                         /\ c.types = {d \in DataTypes : HasRow(n, d)'}
              /\ replayed'[n] = {} => \A d \in DataTypes : ~HasRow(n, d)'
  <2>1. CASE cell[n] = {}
    BY <2>1, <1>8 DEF SnapshotInv, ReplayKnows
  <2>2. CASE cell[n] # {}
    BY <2>2, <1>7
  <2> QED
    BY <2>1, <2>2
<1>11. ASSUME NEW n \in Names PROVE CellKnows(n)'
  BY <1>1 DEF CellKnows
<1>12. CASE place < NumPlaces /\ UNCHANGED listing
  <2>1. type' = type /\ answer' = answer /\ listed' = listed
    BY <1>12 DEF listing
  <2>2. ASSUME NEW n \in Names PROVE ReplayKnows(n)'
    <3>1. \A d \in DataTypes : d < type \/ d = type => d <= type
      BY <1>3
    <3> QED
      BY <3>1, <2>1, <1>1, <1>9, <1>10 DEF ReplayKnows
  <2>3. ASSUME NEW n \in Names PROVE ListedTypes(n)'
    <3>1. \A d \in DataTypes : d < type => (HasRow(n, d)' <=> HasRow(n, d))
      BY <1>3, <1>6, <1>t
    <3>2. cell'[n] = {} /\ (HasRow(n, t)' <=> HasRow(n, t) \/ cell[n] # {})
      BY <1>1, <1>6
    <3>3. /\ answer[n] = {} <=> cell[n] = {} /\ ~HasRow(n, t)
          /\ \A c \in answer[n] : c.types = {}
          /\ \A c \in listed[n] : c.types = {d \in DataTypes : d < type /\ HasRow(n, d)}
          /\ listed[n] = {} => \A d \in DataTypes : d < type => ~HasRow(n, d)
      BY <1>t DEF SnapshotInv, ListedTypes
    <3>4. {d \in DataTypes : d < type /\ HasRow(n, d)'} = {d \in DataTypes : d < type /\ HasRow(n, d)}
      BY <3>1
    <3>5. HasRow(n, t)' <=> HasRow(n, type)'
      BY <2>1, <1>t DEF HasRow
    <3> QED
      BY <2>1, <3>1, <3>2, <3>3, <3>4, <3>5 DEF ListedTypes
  <2> QED
    BY <2>1, <2>2, <2>3, <1>1, <1>2, <1>5, <1>11 DEF SnapshotInv
<1>13. CASE place = NumPlaces /\ EndAnswer
  <2>1. /\ type' = type + 1 /\ answer' = [n \in Names |-> {}]
        /\ \A n \in Names : listed'[n] = IF answer[n] = {} THEN listed[n]
              ELSE UNION {Add(listed[n], WithDataType(c, type)) : c \in answer[n]}
    BY <1>13 DEF EndAnswer, NoCandidate
  <2>2. \A d \in DataTypes : (d < type' <=> d <= type) /\ (d <= type <=> d < type \/ d = type)
    BY <2>1, <1>3
  <2>3. ASSUME NEW n \in Names PROVE ReplayKnows(n)'
    <3>1. ASSUME NEW d \in DataTypes, d = type'
          PROVE  said[n][d] = {} /\ Back(n, d)' = {}
      <4>1. d > type
        BY <3>1, <2>1, <1>3
      <4> QED
        BY <4>1, <1>9 DEF IndexInv, Unsaid
    <3> QED
      BY <3>1, <2>2, <1>1, <1>9, <1>10 DEF ReplayKnows
  <2>4. ASSUME NEW n \in Names PROVE ListedTypes(n)'
    <3>1. answer'[n] = {} /\ cell'[n] = {}
      BY <2>1, <1>1
    <3>2. ~HasRow(n, type)'
      <4> SUFFICES ASSUME HasRow(n, type)' PROVE FALSE
        OBVIOUS
      <4>1. PICK r \in rows' : r.type = type'
        BY DEF HasRow
      <4>2. r.type <= type
        BY <1>5
      <4> QED
        BY <4>1, <4>2, <2>1, <1>3
    <3>3. /\ answer[n] = {} <=> cell[n] = {} /\ ~HasRow(n, t)
          /\ \A c \in answer[n] : c.types = {}
          /\ \A c \in listed[n] : c.types = {d \in DataTypes : d < type /\ HasRow(n, d)}
          /\ listed[n] = {} => \A d \in DataTypes : d < type => ~HasRow(n, d)
      BY <1>t DEF SnapshotInv, ListedTypes
    <3>4. HasRow(n, t)' <=> answer[n] # {}
      BY <3>3, <1>6
    <3>5. \A d \in DataTypes : d < type => (HasRow(n, d)' <=> HasRow(n, d))
      BY <1>3, <1>6, <1>t
    <3> DEFINE before == {d \in DataTypes : d < type /\ HasRow(n, d)}
               now    == {d \in DataTypes : d < type' /\ HasRow(n, d)'}
    <3>6. now = before \cup IF answer[n] = {} THEN {} ELSE {type}
      BY <3>4, <3>5, <2>2, <1>t
    <3>7. \A c \in listed'[n] : c.types = now
      <4>1. CASE answer[n] = {}
        BY <4>1, <3>3, <3>6, <2>1
      <4>2. CASE answer[n] # {}
        <5> SUFFICES ASSUME NEW a \in answer[n], NEW c \in Add(listed[n], WithDataType(a, type))
                     PROVE  c.types = now
          <6>1. listed'[n] = UNION {Add(listed[n], WithDataType(a, type)) : a \in answer[n]}
            BY <4>2, <2>1
          <6> HIDE DEF now
          <6> QED
            BY <6>1
        <5>1. a.types = {} /\ a \in Candidates
          BY <3>3 DEF IndexInv, AnswerKnows, Good
        <5>2. WithDataType(a, type).types = {type}
          BY <5>1 DEF WithDataType, Candidates
        <5>3. \A b : Merge(b, WithDataType(a, type)).types = b.types \cup {type}
          BY <5>2 DEF Merge
        <5>4. listed[n] = {} => before = {}
          BY <3>3
        <5> HIDE DEF before, now
        <5>5. CASE listed[n] = {}
          <6>1. c = WithDataType(a, type)
            BY <5>5 DEF Add
          <6> QED
            BY <6>1, <5>2, <5>4, <5>5, <4>2, <3>6
        <5>6. CASE listed[n] # {}
          <6>1. PICK b \in listed[n] : c = Merge(b, WithDataType(a, type))
            BY <5>6 DEF Add
          <6>2. b.types = before
            BY <3>3 DEF before
          <6> QED
            BY <6>1, <6>2, <5>3, <4>2, <3>6
        <5> QED
          BY <5>5, <5>6
      <4> QED
        BY <4>1, <4>2
    <3>8. listed'[n] = {} => listed[n] = {} /\ answer[n] = {}
      <4>1. \A a \in answer[n] : Add(listed[n], WithDataType(a, type)) # {}
        BY DEF Add
      <4>2. CASE answer[n] = {}
        BY <4>2, <2>1
      <4>3. CASE answer[n] # {}
        <5>1. PICK a \in answer[n] : TRUE
          BY <4>3
        <5>2. Add(listed[n], WithDataType(a, type)) \subseteq listed'[n]
          BY <4>3, <2>1
        <5> QED
          BY <4>1, <5>2
      <4> QED
        BY <4>2, <4>3
    <3>9. listed'[n] = {} => now = {}
      BY <3>3, <3>6, <3>8
    <3> QED
      BY <3>1, <3>2, <3>7, <3>9 DEF ListedTypes
  <2>5. \A r \in rows' : r.type <= type'
    BY <1>3, <1>5, <2>1
  <2> QED
    BY <2>3, <2>4, <2>5, <1>1, <1>2, <1>5, <1>11 DEF SnapshotInv
<1> QED
  BY <1>1, <1>12, <1>13

\* The invariant holds of every reachable state of a capture.
LEMMA SnapshotInvariant == SnapshotSpec => []SnapshotInv
<1>1. /\ SnapshotInv /\ IndexInv /\ [SnapshotNext]_<<listing, capture>> => SnapshotInv'
  <2> SUFFICES ASSUME SnapshotInv, IndexInv, [SnapshotNext]_<<listing, capture>>
               PROVE  SnapshotInv'
    OBVIOUS
  <2>1. CASE UNCHANGED <<listing, capture>>
    BY <2>1 DEF listing, capture, SnapshotInv, CellKnows, ReplayKnows, ListedTypes, Back, HasRow
  <2>2. ASSUME NEW item \in Items, CaptureItem(item[1], item[2])
        PROVE  SnapshotInv'
    <3>1. item[1] \in Names /\ item[2] \in Labels \cup {NoLabel}
      BY IndexAssumption
    <3> QED
      BY <2>2, <3>1, ItemKeeps
  <2>3. CASE CapturePlace
    BY <2>3, PlaceKeeps
  <2> QED
    BY <2>1, <2>2, <2>3 DEF SnapshotNext
<1> QED
  BY <1>1, SnapshotStart, CaptureLists, IndexInvariant, PTL DEF SnapshotSpec

\* A replay of a snapshot lists the indicators and data types the live
\* gateway lists, and gives every index it replays from Sigma's answers; a
\* conflict is lost only within one answer (capture_snapshot,
\* SnapshotSigmaGateway.list_indicator_names).
THEOREM ReplayCorrect == SnapshotSpec => []ReplayAgrees
<1>1. IndexInv /\ SnapshotInv => ReplayAgrees
  <2> SUFFICES ASSUME IndexInv, SnapshotInv, NEW n \in Names, NEW d \in DataTypes, d < type
               PROVE  LET live == UNION {OfType(c, d).all : c \in listed[n]}
                          back == UNION {OfType(c, d).all : c \in replayed[n]}
                      IN  /\ (\E c \in listed[n] : d \in c.types) <=> n \in ReplayedNames(d, Places)
                          /\ (\E c \in replayed[n] : d \in c.types) <=> n \in ReplayedNames(d, Places)
                          /\ back \subseteq live
                          /\ live # {} => back # {}
                          /\ <<n, d>> \notin torn => back = live
    BY DEF ReplayAgrees, Captured
  <2>1. n \in ReplayedNames(d, Places) <=> HasRow(n, d)
    BY DEF ReplayedNames, HasRow, SnapshotInv
  <2>2. \A c \in listed[n] : OfType(c, d).all = said[n][d]
    BY DEF IndexInv, ListedKnows
  <2>3. listed[n] = {} => said[n][d] = {}
    BY DEF IndexInv, Unsaid
  <2>4. UNION {OfType(c, d).all : c \in listed[n]} = said[n][d]
    BY <2>2, <2>3
  <2>5. (\E c \in listed[n] : d \in c.types) <=> HasRow(n, d)
    BY DEF SnapshotInv, ListedTypes
  <2>6. (\E c \in replayed[n] : d \in c.types) <=> HasRow(n, d)
    BY DEF SnapshotInv, ReplayKnows
  <2>7. /\ Back(n, d) \subseteq said[n][d]
        /\ said[n][d] # {} => Back(n, d) # {}
        /\ <<n, d>> \notin torn => Back(n, d) = said[n][d]
    BY DEF SnapshotInv, ReplayKnows
  <2> QED
    BY <2>1, <2>4, <2>5, <2>6, <2>7 DEF Back
<1> QED
  BY <1>1, IndexInvariant, CaptureLists, SnapshotInvariant, PTL
=============================================================================
