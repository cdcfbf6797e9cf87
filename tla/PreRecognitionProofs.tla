------------------------ MODULE PreRecognitionProofs ------------------------
(***************************************************************************)
(* Whatever processors are registered, for whatever candidates, and        *)
(* whatever they propose: the arbiter gives the recognizer a message they  *)
(* agree on, or puts their disagreement on record, and the catalog of the  *)
(* last of them by priority and name, which serves the message it was      *)
(* narrowed for.                                                           *)
(*                                                                         *)
(* Then what the observation processor makes of a message, for names of    *)
(* any length.  Replacing a name is a scan of the message (ReplacedScans): *)
(* it brings up no text that neither was there nor overlaps what is put in *)
(* (ReplacedAddsNothing), and where the name stands for whole phrases only *)
(* it replaces those phrases (ReplacesWhole).  So the rewriting names      *)
(* nothing new (RewriteCorrect), the catalog serves the message            *)
(* (OwnCatalogCorrect), and the message is said word by word with every    *)
(* candidate by its value (SaysCorrect).                                   *)
(***************************************************************************)
EXTENDS PreRecognition, ListProofs, SequenceTheorems

IsSequence(s) == \E S : s \in Seq(S)

LEMMA AppendSequence ==
    ASSUME NEW s, IsSequence(s), NEW e
    PROVE  IsSequence(Append(s, e))
<1>1. PICK S : s \in Seq(S)
  BY DEF IsSequence
<1>2. s \in Seq(S \cup {e}) /\ e \in S \cup {e}
  BY <1>1
<1>3. Append(s, e) \in Seq(S \cup {e})
  BY <1>2
<1> QED
  BY <1>3 DEF IsSequence

LEMMA FiniteElements ==
    ASSUME NEW s, IsSequence(s)
    PROVE  IsFiniteSet(ToSet(s))
<1>1. PICK S : s \in Seq(S)
  BY DEF IsSequence
<1>2. IsFiniteSet(DOMAIN s)
  BY <1>1, FS_Interval DEF ToSet
<1>3. s \in Surjection(DOMAIN s, ToSet(s))
  BY <1>1 DEF Surjection, ToSet
<1> QED
  BY <1>2, <1>3, FS_Surjection

\* How many different rewrites there are says whether they agree.
LEMMA RewritesCounted ==
    ASSUME NEW es, IsSequence(es)
    PROVE  LET n == Cardinality(Rewrites(es))
           IN  /\ n \in Nat
               /\ n = 0 <=> Rewrites(es) = {}
               /\ n = 1 <=> \E m : Rewrites(es) = {m}
<1> DEFINE all == {e.rewrite : e \in ToSet(es)}
<1>1. IsFiniteSet(ToSet(es))
  BY FiniteElements
<1>2. IsFiniteSet(all)
  <2> DEFINE f == [e \in ToSet(es) |-> e.rewrite]
  <2>1. f \in Surjection(ToSet(es), all)
    BY DEF Surjection
  <2> QED
    BY <1>1, <2>1, FS_Surjection
<1>3. IsFiniteSet(Rewrites(es))
  BY <1>2, FS_Subset DEF Rewrites
<1> QED
  BY <1>3, FS_CardinalityType, FS_EmptySet, FS_Singleton DEF Rewrites

\* The result was merged from all the effects, for the message shown to the
\* processors of the domains.
MergedInv ==
    /\ IsSequence(effects)
    /\ stage = "done" => result = Merge(heard, effects)

LEMMA MergedInit == Init => MergedInv
<1>1. <<>> \in Seq({})
  OBVIOUS
<1> QED
  BY <1>1 DEF Init, MergedInv, IsSequence

LEMMA MergedNext == MergedInv /\ [Next]_vars => MergedInv'
<1> SUFFICES ASSUME MergedInv, [Next]_vars
             PROVE  MergedInv'
  OBVIOUS
<1>1. ASSUME NEW m, Receive(m)
      PROVE  MergedInv'
  BY <1>1 DEF Receive, MergedInv
<1>2. CASE RunProcessor
  <2>1. effects' = effects \/ \E e : effects' = Append(effects, e)
    BY <1>2 DEF RunProcessor
  <2>2. IsSequence(effects)'
    BY <2>1, AppendSequence DEF MergedInv, IsSequence
  <2> QED
    BY <1>2, <2>2 DEF RunProcessor, MergedInv
<1>3. CASE MergeGlobal
  BY <1>3 DEF MergeGlobal, MergedInv
<1>4. CASE MergeAll
  BY <1>4 DEF MergeAll, MergedInv
<1>5. CASE HandOver
  <2>1. effects' = <<>> /\ <<>> \in Seq({})
    BY <1>5 DEF HandOver
  <2> QED
    BY <1>5, <2>1 DEF HandOver, MergedInv, IsSequence
<1>6. CASE UNCHANGED vars
  BY <1>6 DEF vars, MergedInv
<1> QED
  BY <1>1, <1>2, <1>3, <1>4, <1>5, <1>6 DEF Next

LEMMA MergedOneVoice == MergedInv => OneVoice
<1> SUFFICES ASSUME MergedInv, Finished
             PROVE  OneVoice
  BY DEF OneVoice
<1> DEFINE wishes == {e \in ToSet(effects) : e.rewrite # <<>>}
           n == Cardinality(Rewrites(effects))
<1>1. /\ n \in Nat
      /\ n = 0 <=> Rewrites(effects) = {}
      /\ n = 1 <=> \E m : Rewrites(effects) = {m}
  BY RewritesCounted DEF MergedInv
<1>2. Rewrites(effects) = {e.rewrite : e \in wishes}
  BY DEF Rewrites
<1>3. /\ result.message = AgreedMessage(heard, effects)
      /\ result.conflict = IF n > 1 THEN {e.id : e \in wishes} ELSE {}
  BY DEF MergedInv, Finished, Merge
<1>4. CASE n = 0
  <2>1. wishes = {}
    <3>1. Rewrites(effects) = {}
      BY <1>1, <1>4
    <3> QED
      BY <1>2, <3>1
  <2>2. result.conflict = {}
    BY <1>3, <1>4
  <2> QED
    BY <2>1, <2>2 DEF OneVoice
<1>5. CASE n = 1
  <2>1. PICK m : Rewrites(effects) = {m}
    BY <1>1, <1>5
  <2>2. result.message = m /\ result.conflict = {}
    BY <1>3, <1>5, <2>1 DEF AgreedMessage
  <2>3. \A e \in wishes : e.rewrite = m
    BY <1>2, <2>1
  <2> QED
    BY <2>2, <2>3 DEF OneVoice
<1>6. CASE n > 1
  <2>1. wishes # {} /\ result.message = heard /\ result.conflict = {e.id : e \in wishes}
    BY <1>1, <1>2, <1>3, <1>6 DEF AgreedMessage
  <2>2. result.conflict # {}
    BY <2>1
  <2> QED
    BY <2>1, <2>2 DEF OneVoice
<1> QED
  BY <1>1, <1>4, <1>5, <1>6

\* The recognizer's message is agreed on, or a conflict is on record, for any
\* processors and candidates (PreRecognitionArbiter.merge).
THEOREM OneVoiceCorrect == Spec => []OneVoice
  BY MergedInit, MergedNext, MergedOneVoice, PTL DEF Spec

----------------------------------------------------------------------------
(* Sorting.                                                                *)

\* What is compared has numbers to compare by.
Keyed(x) == x.priority \in Int /\ Rank[x.id] \in Int

Earlier(es, i, j) == \/ Before(es[i], es[j])
                     \/ ~Before(es[j], es[i]) /\ i < j

EarlierPairs(es, n) == {pair \in (1..n) \X (1..n) : Earlier(es, pair[1], pair[2])}

LEMMA EarlierIsOrdered ==
    ASSUME NEW n \in Nat, NEW es, \A i \in 1..n : Keyed(es[i])
    PROVE  Ordered(EarlierPairs(es, n), 1..n)
<1> DEFINE R == EarlierPairs(es, n)
<1>1. ASSUME NEW i \in 1..n, NEW j \in 1..n
      PROVE  <<i, j>> \in R <=> Earlier(es, i, j)
  BY DEF EarlierPairs
<1>2. ASSUME NEW i \in 1..n PROVE ~Earlier(es, i, i)
  BY DEF Earlier, Before, Keyed
<1>3. ASSUME NEW i \in 1..n, NEW j \in 1..n, i # j
      PROVE  Earlier(es, i, j) \/ Earlier(es, j, i)
  BY <1>3 DEF Earlier, Before, Keyed
<1>4. ASSUME NEW i \in 1..n, NEW j \in 1..n, NEW k \in 1..n,
             Earlier(es, i, j), Earlier(es, j, k)
      PROVE  Earlier(es, i, k)
  <2> DEFINE pi == es[i].priority pj == es[j].priority pk == es[k].priority
             ri == Rank[es[i].id] rj == Rank[es[j].id] rk == Rank[es[k].id]
  <2>1. /\ pi \in Int /\ pj \in Int /\ pk \in Int
        /\ ri \in Int /\ rj \in Int /\ rk \in Int
    BY DEF Keyed
  <2>2. /\ pi < pj \/ (pi = pj /\ ri < rj) \/ (pi = pj /\ ri = rj /\ i < j)
        /\ pj < pk \/ (pj = pk /\ rj < rk) \/ (pj = pk /\ rj = rk /\ j < k)
    BY <1>4, <2>1 DEF Earlier, Before
  <2> SUFFICES pi < pk \/ (pi = pk /\ ri < rk) \/ (pi = pk /\ ri = rk /\ i < k)
    BY <2>1 DEF Earlier, Before
  <2> HIDE DEF pi, pj, pk, ri, rj, rk
  <2> QED
    BY <2>1, <2>2
<1> HIDE DEF R
<1> QED
  BY <1>1, <1>2, <1>3, <1>4 DEF Ordered, R

\* at is a way to go through es in order.
Sorts(at, es, n) ==
    /\ at \in [1..n -> 1..n]
    /\ \A i, j \in 1..n : i # j => at[i] # at[j]
    /\ \A i, j \in 1..n : i < j => Earlier(es, at[i], at[j])

LEMMA SortExists ==
    ASSUME NEW n \in Nat, NEW es, \A i \in 1..n : Keyed(es[i])
    PROVE  \E at : Sorts(at, es, n)
<1> DEFINE R == EarlierPairs(es, n)
<1>1. Ordered(R, 1..n)
  BY EarlierIsOrdered
<1>2. IsFiniteSet(1..n) /\ Cardinality(1..n) = n
  BY FS_Interval
<1>3. PICK p : Enumerates(p, 1..n, n, R)
  <2> HIDE DEF R
  <2>1. \E p : Enumerates(p, 1..n, Cardinality(1..n), R)
    BY <1>1, <1>2, ListExists
  <2> QED
    BY <1>2, <2>1
<1>4. p \in [1..n -> 1..n]
  BY <1>3 DEF Enumerates
<1>5. ASSUME NEW i \in 1..n, NEW j \in 1..n, i < j
      PROVE  Earlier(es, p[i], p[j]) /\ p[i] # p[j]
  <2>1. <<p[i], p[j]>> \in R
    BY <1>3, <1>5 DEF Enumerates
  <2>2. Earlier(es, p[i], p[j])
    BY <2>1 DEF EarlierPairs
  <2>3. p[i] # p[j]
    BY <1>1, <1>4, <2>1 DEF Ordered
  <2> QED
    BY <2>2, <2>3
<1>6. \A i, j \in 1..n : i # j => p[i] # p[j]
  <2> SUFFICES ASSUME NEW i \in 1..n, NEW j \in 1..n, i # j PROVE p[i] # p[j]
    OBVIOUS
  <2>1. i < j \/ j < i
    OBVIOUS
  <2> QED
    BY <1>5, <2>1
<1>7. Sorts(p, es, n)
  BY <1>4, <1>5, <1>6 DEF Sorts
<1> QED
  BY <1>7

\* Sorting goes through the elements in order, and through each once.
LEMMA SortedBy ==
    ASSUME NEW n \in Nat, NEW es, DOMAIN es = 1..n, \A i \in 1..n : Keyed(es[i])
    PROVE  \E at : Sorts(at, es, n) /\ Sorted(es) = [i \in 1..n |-> es[at[i]]]
<1> DEFINE good(p) == p \in SetToSeqs(DOMAIN es) /\
                      \A i, j \in DOMAIN es : i < j => Earlier(es, p[i], p[j])
           at == CHOOSE p \in SetToSeqs(DOMAIN es) :
                     \A i, j \in DOMAIN es : i < j => Earlier(es, p[i], p[j])
<1>1. Cardinality(1..n) = n
  BY FS_Interval
<1>2. ASSUME NEW p PROVE good(p) <=> Sorts(p, es, n)
  BY <1>1 DEF SetToSeqs, Sorts
<1>3. PICK p : Sorts(p, es, n)
  BY SortExists
<1>4. good(at)
  <2>1. good(p)
    BY <1>2, <1>3
  <2> QED
    BY <2>1
<1>5. Sorts(at, es, n)
  BY <1>2, <1>4
<1>6. Sorted(es) = [i \in 1..n |-> es[at[i]]]
  BY DEF Sorted, Earlier
<1> HIDE DEF at
<1> QED
  BY <1>5, <1>6

\* Nothing is sorted before what it should follow.
LEMMA SortedInOrder ==
    ASSUME NEW n \in Nat, NEW es, DOMAIN es = 1..n, \A i \in 1..n : Keyed(es[i])
    PROVE  /\ DOMAIN Sorted(es) = 1..n
           /\ \A x \in ToSet(es) : \E i \in 1..n : Sorted(es)[i] = x
           /\ \A i \in 1..n : Sorted(es)[i] \in ToSet(es)
           /\ \A i, j \in 1..n : i < j => ~Before(Sorted(es)[j], Sorted(es)[i])
           /\ (\A i, j \in 1..n : i # j => es[i] # es[j]) =>
                  \A i, j \in 1..n : i # j => Sorted(es)[i] # Sorted(es)[j]
<1>1. PICK at : Sorts(at, es, n) /\ Sorted(es) = [i \in 1..n |-> es[at[i]]]
  BY SortedBy
<1>2. at \in [1..n -> 1..n] /\ \A i, j \in 1..n : i # j => at[i] # at[j]
  BY <1>1 DEF Sorts
<1>3. \A k \in 1..n : \E i \in 1..n : at[i] = k
  <2>1. at \in Injection(1..n, 1..n)
    BY <1>2 DEF Injection, IsInjective
  <2>2. IsFiniteSet(1..n)
    BY FS_Interval
  <2>3. at \in Surjection(1..n, 1..n)
    BY <2>1, <2>2, FS_Injection
  <2> QED
    BY <2>3 DEF Surjection
<1>4. \A i \in 1..n : Sorted(es)[i] = es[at[i]]
  BY <1>1
<1>5. ASSUME NEW x \in ToSet(es) PROVE \E i \in 1..n : Sorted(es)[i] = x
  <2>1. PICK k \in 1..n : x = es[k]
    BY DEF ToSet
  <2>2. PICK i \in 1..n : at[i] = k
    BY <1>3
  <2> QED
    BY <1>4, <2>1, <2>2
<1>6. \A i \in 1..n : Sorted(es)[i] \in ToSet(es)
  BY <1>2, <1>4 DEF ToSet
<1>7. ASSUME NEW i \in 1..n, NEW j \in 1..n, i < j
      PROVE  ~Before(Sorted(es)[j], Sorted(es)[i])
  <2>1. Earlier(es, at[i], at[j]) /\ at[i] \in 1..n /\ at[j] \in 1..n
    BY <1>1, <1>2, <1>7 DEF Sorts
  <2>2. Keyed(es[at[i]]) /\ Keyed(es[at[j]])
    BY <2>1
  <2>3. ~Before(es[at[j]], es[at[i]])
    BY <2>1, <2>2 DEF Earlier, Before, Keyed
  <2> QED
    BY <1>4, <2>3
<1>8. (\A i, j \in 1..n : i # j => es[i] # es[j]) =>
          \A i, j \in 1..n : i # j => Sorted(es)[i] # Sorted(es)[j]
  BY <1>2, <1>4
<1>9. DOMAIN Sorted(es) = 1..n
  BY <1>1
<1> QED
  BY <1>5, <1>6, <1>7, <1>8, <1>9

----------------------------------------------------------------------------
(* The processors run, and what they propose.                              *)

LEMMA LengthOf ==
    ASSUME NEW S, NEW n \in Nat, NEW f \in [1..n -> S]
    PROVE  Len(f) = n
<1>1. f \in Seq(S)
  OBVIOUS
<1>2. DOMAIN f = 1..Len(f) /\ Len(f) \in Nat
  BY <1>1
<1>3. 1..Len(f) = 1..n
  BY <1>2
<1> HIDE <1>1, <1>2
<1> QED
  BY <1>2, <1>3

LEMMA AppendedElements ==
    ASSUME NEW s, IsSequence(s), NEW e
    PROVE  ToSet(Append(s, e)) = ToSet(s) \cup {e}
<1>1. PICK S : s \in Seq(S)
  BY DEF IsSequence
<1>2. /\ DOMAIN s = 1..Len(s) /\ Len(s) \in Nat
      /\ DOMAIN Append(s, e) = 1..(Len(s) + 1)
      /\ \A i \in 1..(Len(s) + 1) : Append(s, e)[i] = IF i = Len(s) + 1 THEN e ELSE s[i]
  BY <1>1
<1> QED
  BY <1>2 DEF ToSet

\* A processor's name has the rank the processor has.
LEMMA RankOf ==
    ASSUME NEW p \in Processors
    PROVE  Rank[p.id] = p.rank /\ Keyed(p)
<1>1. p.id \in {x.id : x \in Processors}
  OBVIOUS
<1>2. \A x \in Processors : x.id = p.id => x = p
  BY ProcessorAssumption
<1>3. (CHOOSE x \in Processors : x.id = p.id) = p
  BY <1>2
<1>4. Rank[p.id] = (CHOOSE x \in Processors : x.id = p.id).rank
  BY <1>1 DEF Rank
<1>5. Rank[p.id] = p.rank
  BY <1>3, <1>4
<1> QED
  BY <1>5, ProcessorAssumption DEF Keyed

\* es lists processors of stage s, each once.
ListsStage(es, s, n) ==
    /\ es \in [1..n -> {p \in Processors : p.stage = s}]
    /\ \A i, j \in 1..n : i # j => es[i] # es[j]

RegisteredInv ==
    \A s \in {"global", "domain"} : \E n \in Nat : ListsStage(registered[s], s, n)

\* The processors of a stage are run in an order without repetition.
LEMMA PipelineLists ==
    ASSUME RegisteredInv, NEW s \in {"global", "domain"}
    PROVE  \E n \in Nat : ListsStage(Pipeline(s), s, n) /\ Len(Pipeline(s)) = n
<1> DEFINE P == {p \in Processors : p.stage = s}
           es == registered[s]
<1>1. PICK n \in Nat : ListsStage(es, s, n)
  BY DEF RegisteredInv
<1>2. DOMAIN es = 1..n /\ \A i \in 1..n : es[i] \in P
  BY <1>1 DEF ListsStage
<1>3. \A i \in 1..n : Keyed(es[i])
  BY <1>2, RankOf
<1>4. ToSet(es) \subseteq P
  BY <1>2 DEF ToSet
<1> DEFINE o == Sorted(es)
<1>5. /\ DOMAIN o = 1..n
      /\ \A i \in 1..n : o[i] \in ToSet(es)
      /\ \A i, j \in 1..n : i # j => o[i] # o[j]
  <2>1. \A i, j \in 1..n : i # j => es[i] # es[j]
    BY <1>1 DEF ListsStage
  <2> HIDE DEF es
  <2> QED
    BY <1>2, <1>3, <2>1, SortedInOrder
<1>6. \E at : o = [i \in 1..n |-> es[at[i]]]
  <2> HIDE DEF es
  <2> QED
    BY <1>2, <1>3, SortedBy
<1>7. o \in [1..n -> P]
  <2> HIDE DEF o, es
  <2> QED
    BY <1>4, <1>5, <1>6
<1>8. Len(o) = n
  <2> HIDE DEF o, P
  <2> QED
    BY <1>7, LengthOf
<1>9. ListsStage(o, s, n)
  BY <1>5, <1>7 DEF ListsStage
<1> QED
  BY <1>8, <1>9 DEF Pipeline

\* An effect is a proposal of a processor.
From(e, p) == e.id = p.id /\ e.priority = p.priority

LEMMA ProposalIsFrom ==
    ASSUME NEW p, NEW msg, NEW e \in Proposals(p, msg)
    PROVE  From(e, p)
<1>1. \E new, cat : e = Effect(p, msg, new, cat)
  <2>1. CASE p.id = "observation"
    BY <2>1 DEF Proposals, Observed
  <2>2. CASE p.id # "observation"
    BY <2>2 DEF Proposals
  <2> QED
    BY <2>1, <2>2
<1> QED
  BY <1>1 DEF Effect, From

\* p has had its say.
Ran(p) ==
    \/ stage = "done"
    \/ stage = "domain" /\ p.stage = "global"
    \/ p.stage = stage /\ \E i \in 1..ran : Pipeline(stage)[i] = p

\* What is proposed comes from processors that have run, one proposal from each.
EffectsInv ==
    /\ ran \in Nat
    /\ stage \in {"idle", "global", "domain", "done"}
    /\ stage = "idle" => ran = 0 /\ effects = <<>>
    /\ IsSequence(effects)
    /\ \A e \in ToSet(effects) : \E p \in Processors : From(e, p) /\ Ran(p)
    /\ \A a, b \in ToSet(effects) : a.id = b.id => a = b

LEMMA RegisteredInit == Init => RegisteredInv
<1> SUFFICES ASSUME Init, NEW s \in {"global", "domain"}
             PROVE  \E n \in Nat : ListsStage(registered[s], s, n)
  BY DEF RegisteredInv
<1> DEFINE es == registered[s]
<1>1. PICK Q \in SUBSET Processors : es \in SetToSeqs(Q)
  BY DEF Init
<1> DEFINE n == Cardinality(Q)
<1>2. n \in Nat
  BY ProcessorAssumption, FS_Subset, FS_CardinalityType
<1>3. es \in [1..n -> Q] /\ \A i, j \in 1..n : i # j => es[i] # es[j]
  BY <1>1 DEF SetToSeqs
<1>4. ToSet(es) = {p \in Processors : p.stage = s}
  BY DEF Init
<1>5. \A i \in 1..n : es[i] \in ToSet(es)
  <2> HIDE DEF es, n
  <2> QED
    BY <1>3 DEF ToSet
<1> HIDE DEF es, n
<1>6. es \in [1..n -> {p \in Processors : p.stage = s}]
  BY <1>3, <1>4, <1>5
<1>7. ListsStage(es, s, n)
  BY <1>3, <1>6 DEF ListsStage
<1> QED
  BY <1>2, <1>7 DEF es

\* Nothing is registered or taken away once the runtime is assembled.
LEMMA RegisteredStays == [Next]_vars => registered' = registered
<1> SUFFICES ASSUME [Next]_vars PROVE registered' = registered
  OBVIOUS
<1>1. ASSUME NEW m, Receive(m) PROVE registered' = registered
  BY <1>1 DEF Receive
<1>2. CASE RunProcessor
  BY <1>2 DEF RunProcessor
<1>3. CASE MergeGlobal
  BY <1>3 DEF MergeGlobal
<1>4. CASE MergeAll
  BY <1>4 DEF MergeAll
<1>5. CASE HandOver
  BY <1>5 DEF HandOver
<1>6. CASE UNCHANGED vars
  BY <1>6 DEF vars
<1> QED
  BY <1>1, <1>2, <1>3, <1>4, <1>5, <1>6 DEF Next

LEMMA RegisteredNext == RegisteredInv /\ [Next]_vars => RegisteredInv'
BY RegisteredStays DEF RegisteredInv, ListsStage

LEMMA EmptyEffects == IsSequence(<<>>) /\ ToSet(<<>>) = {}
<1>1. <<>> \in Seq({}) /\ DOMAIN <<>> = {}
  OBVIOUS
<1> QED
  BY <1>1 DEF IsSequence, ToSet

LEMMA EffectsInit == Init => EffectsInv
  BY EmptyEffects DEF Init, EffectsInv

LEMMA EffectsNext == RegisteredInv /\ RegisteredInv' /\ EffectsInv /\ [Next]_vars => EffectsInv'
<1> SUFFICES ASSUME RegisteredInv, EffectsInv, [Next]_vars
             PROVE  EffectsInv'
  OBVIOUS
<1>1. ASSUME NEW m, Receive(m) PROVE EffectsInv'
  BY <1>1, EmptyEffects DEF Receive, EffectsInv
<1>2. CASE RunProcessor
  <2>1. stage \in {"global", "domain"} /\ ran < Len(Pipeline(stage)) /\ ran \in Nat
    BY <1>2 DEF RunProcessor, EffectsInv
  <2>2. /\ ran' = ran + 1 /\ stage' = stage /\ registered' = registered
        /\ effects' = effects \/ \E e \in Proposals(Pipeline(stage)[ran + 1], heard) :
                                    effects' = Append(effects, e)
    BY <1>2 DEF RunProcessor
  <2>3. PICK q : q = Pipeline(stage)[ran + 1]
    OBVIOUS
  <2> DEFINE all == ToSet(effects)
  <2>4. PICK n \in Nat : ListsStage(Pipeline(stage), stage, n) /\ Len(Pipeline(stage)) = n
    BY <2>1, PipelineLists
  <2>5. ran + 1 \in 1..n
    BY <2>1, <2>4
  <2>6. q \in Processors /\ q.stage = stage
    BY <2>3, <2>4, <2>5 DEF ListsStage
  <2>7. \A i \in 1..ran : Pipeline(stage)[i] # q
    <3>1. \A i \in 1..ran : i \in 1..n /\ i # ran + 1
      BY <2>1, <2>5
    <3> QED
      BY <2>3, <2>4, <2>5, <3>1 DEF ListsStage
  <2>8. ~Ran(q)
    BY <2>1, <2>6, <2>7 DEF Ran
  <2>9. Pipeline(stage)' = Pipeline(stage)
    BY <2>2 DEF Pipeline
  <2>10. \A p : Ran(p) => Ran(p)'
    <3>1. \A i \in 1..ran : i \in 1..(ran + 1)
      BY <2>1
    <3> QED
      BY <2>2, <2>9, <3>1 DEF Ran
  <2>11. Ran(q)'
    <3>1. ran + 1 \in 1..(ran + 1)
      BY <2>1
    <3> QED
      BY <2>3, <2>2, <2>6, <2>9, <3>1 DEF Ran
  <2>12. /\ IsSequence(effects)
         /\ \A e \in all : \E p \in Processors : From(e, p) /\ Ran(p)
         /\ \A a, b \in all : a.id = b.id => a = b
    BY DEF EffectsInv
  <2> DEFINE all2 == ToSet(effects)'
  <2>13. IsSequence(effects)' /\ (all2 = all \/ \E e : all2 = all \cup {e} /\ From(e, q))
    <3>1. CASE effects' = effects
      BY <2>12, <3>1
    <3>2. ASSUME NEW e \in Proposals(q, heard), effects' = Append(effects, e)
          PROVE  IsSequence(effects)' /\ all2 = all \cup {e} /\ From(e, q)
      <4>1. From(e, q)
        BY ProposalIsFrom
      <4>2. IsSequence(Append(effects, e)) /\ ToSet(Append(effects, e)) = all \cup {e}
        BY <2>12, AppendSequence, AppendedElements
      <4> QED
        BY <3>2, <4>1, <4>2
    <3> QED
      BY <2>3, <2>2, <3>1, <3>2
  <2> HIDE DEF all, all2
  <2>14. ASSUME NEW e \in all2 PROVE \E p \in Processors : From(e, p) /\ Ran(p)'
    <3>1. CASE e \in all
      BY <2>10, <2>12, <3>1
    <3>2. CASE From(e, q)
      BY <2>6, <2>11, <3>2
    <3> QED
      BY <2>13, <3>1, <3>2
  <2>15. ASSUME NEW e \in all, NEW f, From(f, q) PROVE e.id # f.id
    <3>1. PICK p \in Processors : From(e, p) /\ Ran(p)
      BY <2>12
    <3>2. p # q
      BY <2>8, <3>1
    <3> QED
      BY <2>6, <2>15, <3>1, <3>2, ProcessorAssumption DEF From
  <2>16. \A a, b \in all2 : a.id = b.id => a = b
    BY <2>12, <2>13, <2>15
  <2>17. ran' \in Nat /\ stage' \in {"global", "domain"}
    BY <2>1, <2>2
  <2> QED
    BY <2>13, <2>14, <2>16, <2>17 DEF EffectsInv, all2
<1>3. CASE MergeGlobal \/ MergeAll
  <2>1. /\ effects' = effects /\ registered' = registered
        /\ \/ stage = "global" /\ stage' = "domain"
           \/ stage = "domain" /\ stage' = "done"
        /\ ran' \in Nat
    BY <1>3 DEF MergeGlobal, MergeAll, EffectsInv
  <2>2. \A p : Ran(p) => Ran(p)'
    BY <2>1 DEF Ran
  <2> QED
    BY <2>1, <2>2 DEF EffectsInv
<1>4. CASE HandOver
  BY <1>4, EmptyEffects DEF HandOver, EffectsInv
<1>5. CASE UNCHANGED vars
  BY <1>5 DEF vars, EffectsInv, Ran, Pipeline
<1> QED
  BY <1>1, <1>2, <1>3, <1>4, <1>5 DEF Next

\* The last of the effects that bring a catalog, by priority and name.
LEMMA LastCatalog ==
    ASSUME RegisteredInv, EffectsInv, MergedInv
    PROVE  RegistrationIsIrrelevant
<1> SUFFICES ASSUME stage = "done" PROVE RegistrationIsIrrelevant
  BY DEF RegistrationIsIrrelevant, Finished
<1> DEFINE es == effects
           o == Sorted(es)
           bring == {i \in DOMAIN o : o[i].catalog # NoCatalog}
           bringing == {e \in ToSet(es) : e.catalog # NoCatalog}
<1>1. result.catalog = IF bring = {} THEN NoCatalog ELSE o[Max(bring)].catalog
  BY DEF MergedInv, Merge
<1>2. PICK n \in Nat : DOMAIN es = 1..n
  BY DEF EffectsInv, IsSequence
<1>3. ASSUME NEW e \in ToSet(es) PROVE Keyed(e)
  <2>1. PICK p \in Processors : From(e, p)
    BY DEF EffectsInv
  <2>2. Rank[p.id] = p.rank /\ Keyed(p)
    BY RankOf
  <2> QED
    BY <2>1, <2>2 DEF From, Keyed
<1>4. \A i \in 1..n : Keyed(es[i])
  BY <1>2, <1>3 DEF ToSet
<1>5. /\ DOMAIN o = 1..n
      /\ \A x \in ToSet(es) : \E i \in 1..n : o[i] = x
      /\ \A i \in 1..n : o[i] \in ToSet(es)
      /\ \A i, j \in 1..n : i < j => ~Before(o[j], o[i])
  <2> HIDE DEF es
  <2> QED
    BY <1>2, <1>4, SortedInOrder
<1>6. ASSUME NEW x \in ToSet(es), NEW e \in ToSet(es), x # e, ~Before(e, x)
      PROVE  Before(x, e)
  <2>1. PICK p \in Processors, q \in Processors : From(x, p) /\ From(e, q)
    BY DEF EffectsInv
  <2>2. x.id # e.id
    BY <1>6 DEF EffectsInv
  <2>3. p.rank # q.rank
    BY <2>1, <2>2, ProcessorAssumption DEF From
  <2>4. Rank[x.id] # Rank[e.id]
    BY <2>1, <2>3, RankOf DEF From
  <2> QED
    BY <1>3, <1>6, <2>4 DEF Before, Keyed
<1> HIDE DEF o, es
<1>7. CASE bring = {}
  <2>1. bringing = {}
    BY <1>5, <1>7
  <2> QED
    BY <1>1, <1>7, <2>1 DEF RegistrationIsIrrelevant, es
<1>8. CASE bring # {}
  <2>1. Max(bring) \in bring /\ \A y \in bring : Max(bring) >= y
    BY <1>5, <1>8, LastIndex
  <2> DEFINE m == Max(bring)
             e == o[m]
  <2>2. m \in 1..n /\ e \in bringing
    BY <1>5, <2>1
  <2>3. ASSUME NEW x \in bringing, x # e PROVE Before(x, e)
    <3>1. PICK i \in 1..n : o[i] = x
      BY <1>5
    <3>2. i \in bring
      BY <1>5, <3>1
    <3>3. i < m
      BY <2>1, <2>2, <2>3, <3>1, <3>2
    <3>4. ~Before(e, x)
      BY <1>5, <2>2, <3>1, <3>3
    <3> QED
      BY <1>6, <2>2, <2>3, <3>4
  <2>4. result.catalog = e.catalog /\ bringing # {}
    BY <1>1, <1>8, <2>2
  <2> HIDE DEF e, m
  <2> QED
    BY <2>2, <2>3, <2>4 DEF RegistrationIsIrrelevant, Before, es
<1> QED
  BY <1>7, <1>8

\* Whatever the processors and however they were registered, the recognizer
\* works with the catalog of the last of them by priority and name that brings
\* one (PreRecognitionArbiter.merge).
THEOREM RegistrationCorrect == Spec => []RegistrationIsIrrelevant
<1>1. Init => RegisteredInv /\ EffectsInv /\ MergedInv
  BY RegisteredInit, EffectsInit, MergedInit
<1>2. RegisteredInv /\ EffectsInv /\ MergedInv /\ [Next]_vars
        => (RegisteredInv /\ EffectsInv /\ MergedInv)'
  BY RegisteredNext, EffectsNext, MergedNext
<1>3. RegisteredInv /\ EffectsInv /\ MergedInv => RegistrationIsIrrelevant
  BY LastCatalog
<1> QED
  BY <1>1, <1>2, <1>3, PTL DEF Spec

----------------------------------------------------------------------------
(* The catalog and the message.                                            *)

\* The observation processor runs with the domains, on the message the merged
\* result is for, and its catalog is the one narrowed by that message.
CatalogInv ==
    \A e \in ToSet(effects) :
        e.id = "observation" /\ e.catalog # NoCatalog =>
            stage \in {"domain", "done"} /\ e.catalog = NarrowedTo(Matched(heard))

LEMMA ObservedCatalog ==
    ASSUME NEW p, NEW msg, NEW e \in Proposals(p, msg),
           e.id = "observation", e.catalog # NoCatalog
    PROVE  p.id = "observation" /\ e.catalog = NarrowedTo(Matched(msg))
<1>1. p.id = "observation"
  BY ProposalIsFrom DEF From
<1>2. PICK new : e = Effect(p, msg, new, IF Matched(msg) = {} THEN NoCatalog
                                         ELSE NarrowedTo(Matched(msg)))
  BY <1>1 DEF Proposals, Observed
<1> QED
  BY <1>1, <1>2 DEF Effect

LEMMA CatalogInit == Init => CatalogInv
  BY EmptyEffects DEF Init, CatalogInv

LEMMA CatalogNext == RegisteredInv /\ EffectsInv /\ CatalogInv /\ [Next]_vars => CatalogInv'
<1> SUFFICES ASSUME RegisteredInv, EffectsInv, CatalogInv, [Next]_vars
             PROVE  CatalogInv'
  OBVIOUS
<1>1. ASSUME NEW m, Receive(m) PROVE CatalogInv'
  BY <1>1, EmptyEffects DEF Receive, EffectsInv, CatalogInv
<1>2. CASE RunProcessor
  <2>1. stage \in {"global", "domain"} /\ ran < Len(Pipeline(stage)) /\ ran \in Nat
    BY <1>2 DEF RunProcessor, EffectsInv
  <2>2. PICK q : q = Pipeline(stage)[ran + 1]
    OBVIOUS
  <2>3. /\ stage' = stage /\ heard' = heard
        /\ effects' = effects \/ \E e \in Proposals(q, heard) : effects' = Append(effects, e)
    BY <1>2, <2>2 DEF RunProcessor
  <2>4. q \in Processors /\ q.stage = stage
    <3>1. PICK n \in Nat : ListsStage(Pipeline(stage), stage, n) /\ Len(Pipeline(stage)) = n
      BY <2>1, PipelineLists
    <3>2. ran + 1 \in 1..n
      BY <2>1, <3>1
    <3> QED
      BY <2>2, <3>1, <3>2 DEF ListsStage
  <2>5. ASSUME NEW e \in Proposals(q, heard), e.id = "observation", e.catalog # NoCatalog
        PROVE  stage = "domain" /\ e.catalog = NarrowedTo(Matched(heard))
    <3>1. q.id = "observation" /\ e.catalog = NarrowedTo(Matched(heard))
      BY <2>5, ObservedCatalog
    <3>2. q.stage = "domain"
      BY <2>4, <3>1, ProcessorAssumption
    <3> QED
      BY <2>4, <3>1, <3>2
  <2>6. CASE effects' = effects
    BY <2>3, <2>6 DEF CatalogInv
  <2>7. ASSUME NEW e \in Proposals(q, heard), effects' = Append(effects, e)
        PROVE  CatalogInv'
    <3>1. IsSequence(effects)
      BY DEF EffectsInv
    <3>2. ToSet(effects)' = ToSet(effects) \cup {e}
      BY <2>7, <3>1, AppendedElements
    <3> QED
      BY <2>3, <2>5, <3>2 DEF CatalogInv
  <2> QED
    BY <2>3, <2>6, <2>7
<1>3. CASE MergeGlobal
  BY <1>3 DEF MergeGlobal, CatalogInv
<1>4. CASE MergeAll
  BY <1>4 DEF MergeAll, CatalogInv
<1>5. CASE HandOver
  BY <1>5, EmptyEffects DEF HandOver, CatalogInv
<1>6. CASE UNCHANGED vars
  BY <1>6 DEF vars, CatalogInv
<1> QED
  BY <1>1, <1>2, <1>3, <1>4, <1>5, <1>6 DEF Next

\* Narrowing keeps what is mentioned, but for indicators out of its scope.
LEMMA NarrowedKeeps ==
    ASSUME NEW hits, NEW c \in Candidates,
           c \in hits \/ (Kind[c] # "indicator" /\ hits \cap OfKind(Kind[c]) = {})
    PROVE  \/ c \in NarrowedTo(hits)[Kind[c]]
           \/ \E k \in Scopes : /\ Kind[c] = "indicator"
                                /\ hits \cap OfKind(k) # {} /\ Meta[c][k] \cap hits = {}
<1>1. Kind[c] \in ToSet(Kinds) /\ c \in OfKind(Kind[c])
  BY KindAssumption DEF OfKind
<1>2. NarrowedTo(hits)[Kind[c]] =
         IF Kind[c] = "indicator" /\ InScope(hits) # {} THEN InScope(hits)
         ELSE IF hits \cap OfKind(Kind[c]) # {} THEN hits \cap OfKind(Kind[c])
         ELSE OfKind(Kind[c])
  BY <1>1 DEF NarrowedTo
<1>3. CASE Kind[c] # "indicator" \/ InScope(hits) = {}
  BY <1>1, <1>2, <1>3
<1>4. CASE Kind[c] = "indicator" /\ InScope(hits) # {} /\ c \notin InScope(hits)
  <2> DEFINE told(i) == {k \in Scopes : hits \cap OfKind(k) # {} /\ Meta[i][k] # {}}
  <2>1. PICK i \in InScope(hits) : TRUE
    BY <1>4
  <2>2. i \in OfKind("indicator") /\ told(i) # {} /\ c \in OfKind("indicator")
    BY <1>1, <1>4, <2>1 DEF InScope
  <2>3. told(c) = told(i)
    BY <2>2, MetaAssumption
  <2>4. \E k \in told(c) : Meta[c][k] \cap hits = {}
    BY <1>4, <2>2, <2>3 DEF InScope
  <2> QED
    BY <1>4, <2>4
<1> QED
  BY <1>2, <1>3, <1>4

LEMMA NarrowedServes ==
    ASSUME CatalogInv, RegistrationIsIrrelevant, NamesNothingNew
    PROVE  CatalogServesMessage
<1> SUFFICES ASSUME Finished,
                    \A e \in ToSet(effects) : e.catalog # NoCatalog => e.id = "observation",
                    NEW c \in Candidates, Occurs(ValueOf[c], result.message),
                    result.catalog # NoCatalog
             PROVE  \/ c \in result.catalog[Kind[c]]
                    \/ \E k \in Scopes : /\ Kind[c] = "indicator"
                                         /\ Matched(heard) \cap OfKind(k) # {}
                                         /\ Meta[c][k] \cap Matched(heard) = {}
  BY DEF CatalogServesMessage
<1>1. \E e \in ToSet(effects) : e.catalog # NoCatalog /\ result.catalog = e.catalog
  BY DEF RegistrationIsIrrelevant
<1>2. result.catalog = NarrowedTo(Matched(heard))
  BY <1>1 DEF CatalogInv
<1>3. \/ c \in Matched(heard)
      \/ Kind[c] # "indicator" /\ Matched(heard) \cap OfKind(Kind[c]) = {}
  BY DEF NamesNothingNew
<1> QED
  BY <1>2, <1>3, NarrowedKeeps

\* Whatever the candidates, their names and the processors: a message that
\* names nothing new comes with a catalog that serves it.  What is left to
\* the names is whether replacing them makes a message name anything new
\* (ObservationPreProcessor, PreRecognitionArbiter.merge).
THEOREM CatalogCorrect == Spec => [](NamesNothingNew => CatalogServesMessage)
<1>1. Init => RegisteredInv /\ EffectsInv /\ MergedInv /\ CatalogInv
  BY RegisteredInit, EffectsInit, MergedInit, CatalogInit
<1>2. RegisteredInv /\ EffectsInv /\ MergedInv /\ CatalogInv /\ [Next]_vars
        => (RegisteredInv /\ EffectsInv /\ MergedInv /\ CatalogInv)'
  BY RegisteredNext, EffectsNext, MergedNext, CatalogNext
<1>3. RegisteredInv /\ EffectsInv /\ MergedInv /\ CatalogInv
        => (NamesNothingNew => CatalogServesMessage)
  BY LastCatalog, NarrowedServes
<1> QED
  BY <1>1, <1>2, <1>3, PTL DEF Spec

----------------------------------------------------------------------------
(* Where a text stands in a message, and in texts put together.            *)

\* From its jth word on, u stands at place p of s.
Begins(u, j, s, p) == \A i \in j .. Len(u) : p + i - j \in 1 .. Len(s) /\ s[p + i - j] = u[i]

LEMMA OccursBegins ==
    ASSUME NEW W, NEW u \in Seq(W), u # <<>>, NEW s \in Seq(W), NEW p \in Nat \ {0}
    PROVE  /\ Len(u) \in Nat \ {0}
           /\ OccursAt(u, s, p) <=> Begins(u, 1, s, p)
<1> DEFINE n == Len(u)
           t == SubSeq(s, p, p + n - 1)
<1>1. n \in Nat \ {0} /\ Len(s) \in Nat
  OBVIOUS
<1>2. CASE p + n - 1 <= Len(s)
  <2>1. t \in Seq(W) /\ Len(t) = n /\ \A i \in 1 .. n : t[i] = s[p + i - 1]
    BY <1>1, <1>2
  <2> HIDE DEF t
  <2>2. t = u <=> \A i \in 1 .. n : s[p + i - 1] = u[i]
    BY <1>1, <2>1
  <2>3. \A i \in 1 .. n : p + i - 1 \in 1 .. Len(s)
    BY <1>1, <1>2
  <2> QED
    BY <1>1, <1>2, <2>2, <2>3 DEF OccursAt, Begins, t
<1>3. CASE p + n - 1 > Len(s)
  <2>1. n \in 1 .. n /\ p + n - 1 \notin 1 .. Len(s)
    BY <1>1, <1>3
  <2>2. ~Begins(u, 1, s, p)
    BY <2>1 DEF Begins
  <2> QED
    BY <1>1, <1>3, <2>2 DEF OccursAt
<1> QED
  BY <1>1, <1>2, <1>3

\* The words of one text after another.
LEMMA Joined ==
    ASSUME NEW W, NEW s \in Seq(W), NEW t \in Seq(W)
    PROVE  /\ s \o t \in Seq(W) /\ Len(s \o t) = Len(s) + Len(t)
           /\ Len(s) \in Nat /\ Len(t) \in Nat
           /\ \A i \in 1 .. Len(s) : (s \o t)[i] = s[i]
           /\ \A i \in 1 .. Len(t) : (s \o t)[Len(s) + i] = t[i]
  OBVIOUS

\* ... and of a text after a word.
LEMMA Led ==
    ASSUME NEW W, NEW w \in W, NEW t \in Seq(W)
    PROVE  /\ <<w>> \o t \in Seq(W) /\ Len(<<w>> \o t) = 1 + Len(t)
           /\ Len(t) \in Nat
           /\ (<<w>> \o t)[1] = w
           /\ \A i \in 1 .. Len(t) : (<<w>> \o t)[1 + i] = t[i]
  OBVIOUS

\* What stands where a value that it cannot overlap has been put stands after it.
LEMMA NotAcross ==
    ASSUME NEW W, NEW u \in Seq(W), u # <<>>, NEW v \in Seq(W), v # <<>>, ~Clash(u, v),
           NEW rest \in Seq(W)
    PROVE  /\ \A j \in 1 .. Len(u) : ~Begins(u, j, v \o rest, 1)
           /\ \A p \in Nat \ {0} : Begins(u, 1, v \o rest, p) =>
                 p - Len(v) \in Nat \ {0} /\ Begins(u, 1, rest, p - Len(v))
<1> DEFINE m == Len(u)
           n == Len(v)
           s == v \o rest
<1>1. /\ m \in Nat \ {0} /\ n \in Nat \ {0} /\ DOMAIN u = 1 .. m /\ DOMAIN v = 1 .. n
      /\ Len(s) = n + Len(rest) /\ Len(rest) \in Nat
      /\ \A i \in 1 .. n : s[i] = v[i]
      /\ \A i \in 1 .. Len(rest) : s[n + i] = rest[i]
  BY Joined
<1>2. ~\E k \in (1 - n) .. (m - 1) : \A i \in 1 .. m : i - k \in 1 .. n => u[i] = v[i - k]
  BY <1>1 DEF Clash
<1> HIDE DEF m, n, s
<1>3. ASSUME NEW j \in 1 .. m, Begins(u, j, s, 1) PROVE FALSE
  <2>1. j - 1 \in (1 - n) .. (m - 1)
    BY <1>1
  <2>2. ASSUME NEW i \in 1 .. m, i - (j - 1) \in 1 .. n PROVE u[i] = v[i - (j - 1)]
    <3>1. i \in j .. m /\ 1 + i - j = i - (j - 1)
      BY <1>1, <2>2
    <3>2. s[1 + i - j] = u[i]
      BY <1>3, <3>1 DEF Begins, m
    <3>3. s[i - (j - 1)] = v[i - (j - 1)]
      BY <1>1, <2>2
    <3> QED
      BY <3>1, <3>2, <3>3
  <2> QED
    BY <1>2, <2>1, <2>2
<1>4. ASSUME NEW p \in Nat \ {0}, Begins(u, 1, s, p), p <= n PROVE FALSE
  <2>1. 1 - p \in (1 - n) .. (m - 1)
    BY <1>1, <1>4
  <2>2. ASSUME NEW i \in 1 .. m, i - (1 - p) \in 1 .. n PROVE u[i] = v[i - (1 - p)]
    <3>1. p + i - 1 = i - (1 - p)
      BY <1>1
    <3>2. s[p + i - 1] = u[i]
      BY <1>1, <1>4 DEF Begins, m
    <3>3. s[i - (1 - p)] = v[i - (1 - p)]
      BY <1>1, <2>2
    <3> QED
      BY <3>1, <3>2, <3>3
  <2> QED
    BY <1>2, <2>1, <2>2
<1>5. ASSUME NEW p \in Nat \ {0}, Begins(u, 1, s, p), p > n
      PROVE  p - n \in Nat \ {0} /\ Begins(u, 1, rest, p - n)
  <2>1. p - n \in Nat \ {0}
    BY <1>1, <1>5
  <2>2. ASSUME NEW i \in 1 .. m
        PROVE  (p - n) + i - 1 \in 1 .. Len(rest) /\ rest[(p - n) + i - 1] = u[i]
    <3>1. p + i - 1 \in 1 .. Len(s) /\ s[p + i - 1] = u[i]
      BY <1>5 DEF Begins, m
    <3>2. (p - n) + i - 1 \in 1 .. Len(rest) /\ n + ((p - n) + i - 1) = p + i - 1
      <4>1. m \in Nat /\ n \in Nat /\ Len(rest) \in Nat /\ Len(s) = n + Len(rest)
        BY <1>1
      <4>2. p + i - 1 <= Len(s)
        BY <3>1, <4>1
      <4> QED
        BY <2>1, <4>1, <4>2
    <3> QED
      BY <1>1, <3>1, <3>2
  <2> QED
    BY <2>1, <2>2 DEF Begins, m
<1>6. ASSUME NEW p \in Nat \ {0}, Begins(u, 1, s, p)
      PROVE  p - n \in Nat \ {0} /\ Begins(u, 1, rest, p - n)
  BY <1>1, <1>4, <1>5, <1>6
<1> QED
  BY <1>3, <1>6 DEF m, n, s

----------------------------------------------------------------------------
(* Replacing a name is a scan of the message.                              *)

\* Replaced scans the message from its end: what replacing makes of the rest
\* of msg from each place on.
Scan(f, msg, a, v) ==
    [i \in 1 .. Len(msg) + 1 |->
        IF i > Len(msg) THEN <<>>
        ELSE IF OccursAt(a, msg, i) THEN v \o f[i + Len(a)] ELSE <<msg[i]>> \o f[i + 1]]

LEMMA ReplacedUnfolds ==
    ASSUME NEW msg, NEW a, NEW v
    PROVE  Replaced(msg, a, v) = (CHOOSE f : f = Scan(f, msg, a, v))[1]
BY DEF Replaced, Scan

Scans(f, msg, a, v, W) ==
    /\ f \in [1 .. Len(msg) + 1 -> Seq(W)] /\ f[Len(msg) + 1] = <<>>
    /\ \A i \in 1 .. Len(msg) :
          \/ OccursAt(a, msg, i) /\ i + Len(a) \in 1 .. Len(msg) + 1 /\ f[i] = v \o f[i + Len(a)]
          \/ ~OccursAt(a, msg, i) /\ f[i] = <<msg[i]>> \o f[i + 1]

\* Induction down from n: what holds of n, and of a number when it holds of
\* all that follow, holds of all from 1 on.
LEMMA InductDown ==
    ASSUME NEW n \in Nat, NEW T, n \in T,
           \A i \in 1 .. n - 1 : (\A j \in (i + 1) .. n : j \in T) => i \in T
    PROVE  1 .. n \subseteq T
<1> DEFINE D == {k \in Nat : \A j \in 1 .. n : j >= n - k => j \in T}
<1>1. 0 \in D
  OBVIOUS
<1>2. ASSUME NEW k \in Nat, k \in D PROVE k + 1 \in D
  <2> SUFFICES ASSUME NEW j \in 1 .. n, j = n - (k + 1) PROVE j \in T
    BY <1>2
  <2>1. j \in 1 .. n - 1 /\ \A i \in (j + 1) .. n : i \in T
    BY <1>2
  <2> QED
    BY <2>1
<1> HIDE DEF D
<1>3. n \in D
  BY <1>1, <1>2, Induct
<1> QED
  BY <1>3 DEF D

LEMMA ScanExists ==
    ASSUME NEW W, NEW msg \in Seq(W), NEW a \in Seq(W), a # <<>>, NEW v \in Seq(W)
    PROVE  \E f : f = Scan(f, msg, a, v)
<1> DEFINE n == Len(msg)
           k == Len(a)
           O == {i \in 1 .. n : OccursAt(a, msg, i)}
           value(f, i) == IF i > n THEN <<>>
                          ELSE IF i \in O THEN v \o f[i + k] ELSE <<msg[i]>> \o f[i + 1]
           T == {m \in Nat : \E f : \A i \in 1 .. n + 1 : i >= n + 1 - m => f[i] = value(f, i)}
<1>1. n \in Nat /\ k \in Nat \ {0}
  OBVIOUS
<1>2. \A i \in 1 .. n : OccursAt(a, msg, i) => i + k \in 1 .. n + 1
  BY <1>1 DEF OccursAt
<1>3. \A i \in O : i + k \in 1 .. n + 1
  BY <1>2
<1> HIDE DEF n, k, O
<1>4. 0 \in T
  <2> DEFINE f == [i \in 1 .. n + 1 |-> <<>>]
  <2>1. \A i \in 1 .. n + 1 : i >= n + 1 - 0 => f[i] = value(f, i)
    BY <1>1
  <2> QED
    BY <2>1
<1>5. ASSUME NEW m \in Nat, m \in T PROVE m + 1 \in T
  <2>1. PICK f : \A i \in 1 .. n + 1 : i >= n + 1 - m => f[i] = value(f, i)
    BY <1>5
  <2> DEFINE g == [i \in 1 .. n + 1 |-> IF i >= n + 1 - m THEN f[i] ELSE value(f, i)]
  <2>2. ASSUME NEW i \in 1 .. n + 1, i >= n + 1 - (m + 1) PROVE g[i] = value(g, i)
    <3>1. g[i] = value(f, i)
      BY <2>1
    <3>2. ASSUME NEW j \in 1 .. n + 1, j > i PROVE g[j] = f[j]
      <4>1. j >= n + 1 - m
        BY <1>1, <1>5, <2>2, <3>2
      <4> QED
        BY <4>1
    <3> HIDE DEF g
    <3>3. ASSUME i \in O PROVE g[i + k] = f[i + k]
      <4>1. i + k \in 1 .. n + 1 /\ i + k > i
        BY <1>1, <1>3, <3>3
      <4> QED
        BY <3>2, <4>1
    <3>4. i <= n => g[i + 1] = f[i + 1]
      BY <1>1, <3>2
    <3> QED
      BY <1>1, <3>1, <3>3, <3>4
  <2> HIDE DEF value
  <2>3. \E h : \A i \in 1 .. n + 1 : i >= n + 1 - (m + 1) => h[i] = value(h, i)
    BY <2>2
  <2> QED
    BY <2>3
<1>6. \A m \in Nat : m \in T => m + 1 \in T
  <2> HIDE DEF T
  <2> QED
    BY <1>5
<1>7. n + 1 \in T
  <2> HIDE DEF T
  <2> QED
    BY <1>1, <1>4, <1>6, Induct
<1>8. PICK f : \A i \in 1 .. n + 1 : f[i] = value(f, i)
  BY <1>1, <1>7
<1> DEFINE g == [i \in 1 .. n + 1 |-> f[i]]
<1>9. ASSUME NEW i \in 1 .. n + 1 PROVE g[i] = value(g, i)
  <2>1. i \in O => g[i + k] = f[i + k]
    BY <1>3
  <2>2. i <= n => g[i + 1] = f[i + 1]
    BY <1>1
  <2>3. g[i] = value(f, i)
    BY <1>8
  <2> HIDE DEF g
  <2> QED
    BY <1>1, <2>1, <2>2, <2>3
<1>10. g = [i \in 1 .. n + 1 |-> value(g, i)]
  <2> DEFINE val(i) == value(g, i)
  <2>1. \A i \in 1 .. n + 1 : g[i] = val(i)
    BY <1>9
  <2>2. g = [i \in 1 .. n + 1 |-> g[i]]
    OBVIOUS
  <2> HIDE DEF g, val
  <2>3. g = [i \in 1 .. n + 1 |-> val(i)]
    BY <2>1, <2>2
  <2> QED
    BY <2>3 DEF val
<1> HIDE DEF g
<1>11. \A i \in 1 .. n + 1 : i <= n => (i \in O <=> OccursAt(a, msg, i))
  BY <1>1 DEF O
<1>12. g = Scan(g, msg, a, v)
  <2> DEFINE val(i) == value(g, i)
             body(i) == IF i > n THEN <<>>
                        ELSE IF OccursAt(a, msg, i) THEN v \o g[i + k] ELSE <<msg[i]>> \o g[i + 1]
  <2>1. \A i \in 1 .. n + 1 : val(i) = body(i)
    BY <1>1, <1>11
  <2>2. g = [i \in 1 .. n + 1 |-> val(i)]
    BY <1>10
  <2> HIDE DEF val, body
  <2>3. g = [i \in 1 .. n + 1 |-> body(i)]
    BY <2>1, <2>2
  <2> QED
    BY <2>3 DEF body, Scan, n, k
<1> QED
  BY <1>12

LEMMA ReplacedScans ==
    ASSUME NEW W, NEW msg \in Seq(W), NEW a \in Seq(W), a # <<>>, NEW v \in Seq(W)
    PROVE  \E f : Scans(f, msg, a, v, W) /\ Replaced(msg, a, v) = f[1]
<1> DEFINE n == Len(msg)
           k == Len(a)
           f == CHOOSE f : f = Scan(f, msg, a, v)
<1>1. n \in Nat /\ k \in Nat \ {0}
  OBVIOUS
<1>2. f = Scan(f, msg, a, v)
  BY ScanExists
<1>3. Replaced(msg, a, v) = f[1]
  BY ReplacedUnfolds
<1> HIDE DEF f
<1>4. DOMAIN f = 1 .. n + 1 /\ f[n + 1] = <<>>
  <2>1. n + 1 \in 1 .. n + 1
    BY <1>1
  <2> QED
    BY <1>1, <1>2, <2>1 DEF Scan
<1>5. ASSUME NEW i \in 1 .. n
      PROVE  \/ OccursAt(a, msg, i) /\ i + k \in 1 .. n + 1 /\ f[i] = v \o f[i + k]
             \/ ~OccursAt(a, msg, i) /\ f[i] = <<msg[i]>> \o f[i + 1]
  <2>1. i \in 1 .. n + 1 /\ ~(i > n)
    BY <1>1
  <2>2. f[i] = IF OccursAt(a, msg, i) THEN v \o f[i + k] ELSE <<msg[i]>> \o f[i + 1]
    BY <1>2, <2>1 DEF Scan
  <2>3. OccursAt(a, msg, i) => i + k \in 1 .. n + 1
    BY <1>1 DEF OccursAt
  <2> QED
    BY <2>2, <2>3
<1> DEFINE T == {i \in 1 .. n + 1 : f[i] \in Seq(W)}
<1>6. n + 1 \in T
  <2>1. <<>> \in Seq(W)
    OBVIOUS
  <2>2. f[n + 1] \in Seq(W)
    BY <1>4, <2>1
  <2>3. n + 1 \in 1 .. n + 1
    BY <1>1
  <2> HIDE DEF n
  <2> QED
    BY <2>2, <2>3
<1>7. ASSUME NEW i \in 1 .. (n + 1) - 1, \A j \in (i + 1) .. n + 1 : j \in T
      PROVE  i \in T
  <2>1. i \in 1 .. n /\ i + 1 \in (i + 1) .. n + 1 /\ msg[i] \in W
    BY <1>1
  <2>2. i + k \in 1 .. n + 1 => i + k \in (i + 1) .. n + 1
    BY <1>1
  <2>3. CASE OccursAt(a, msg, i)
    <3>1. f[i + k] \in Seq(W) /\ f[i] = v \o f[i + k]
      BY <1>5, <1>7, <2>1, <2>2, <2>3
    <3>2. f[i] \in Seq(W)
      BY <3>1, Joined
    <3> QED
      BY <3>2, <2>1, <1>1
  <2>4. CASE ~OccursAt(a, msg, i)
    <3>1. f[i + 1] \in Seq(W) /\ f[i] = <<msg[i]>> \o f[i + 1]
      BY <1>5, <1>7, <2>1, <2>4
    <3>2. f[i] \in Seq(W)
      BY <2>1, <3>1, Led
    <3> QED
      BY <3>2, <2>1, <1>1
  <2> QED
    BY <2>3, <2>4
<1>8. 1 .. n + 1 \subseteq T
  <2> HIDE DEF T, n
  <2>1. n + 1 \in Nat /\ \A i \in 1 .. (n + 1) - 1 : (\A j \in (i + 1) .. n + 1 : j \in T) => i \in T
    BY <1>1, <1>7
  <2> QED
    BY <1>6, <2>1, InductDown
<1>9. f = [i \in 1 .. n + 1 |-> f[i]]
  BY <1>2 DEF Scan
<1>10. f \in [1 .. n + 1 -> Seq(W)]
  BY <1>8, <1>9
<1>11. Scans(f, msg, a, v, W)
  BY <1>4, <1>5, <1>10 DEF Scans
<1> QED
  BY <1>3, <1>11

----------------------------------------------------------------------------
(* Replacing brings up nothing but what is put in.                         *)

\* What stands after a word.
LEMMA AfterWord ==
    ASSUME NEW W, NEW u \in Seq(W), NEW w \in W, NEW rest \in Seq(W)
    PROVE  /\ \A j \in 1 .. Len(u) : Begins(u, j, <<w>> \o rest, 1) =>
                 u[j] = w /\ Begins(u, j + 1, rest, 1)
           /\ \A p \in Nat \ {0} : Begins(u, 1, <<w>> \o rest, p) /\ p # 1 =>
                 p - 1 \in Nat \ {0} /\ Begins(u, 1, rest, p - 1)
<1> DEFINE m == Len(u)
           s == <<w>> \o rest
           n == Len(rest)
<1>1. /\ m \in Nat /\ n \in Nat /\ Len(s) = 1 + n /\ s[1] = w
      /\ \A i \in 1 .. n : s[1 + i] = rest[i]
  BY Led
<1> HIDE DEF m, s, n
<1>2. ASSUME NEW j \in 1 .. m, Begins(u, j, s, 1)
      PROVE  u[j] = w /\ Begins(u, j + 1, rest, 1)
  <2>1. u[j] = w
    <3>1. j \in j .. m /\ 1 + j - j = 1
      BY <1>1
    <3> QED
      BY <1>1, <1>2, <3>1 DEF Begins, m
  <2>2. ASSUME NEW i \in (j + 1) .. m
        PROVE  1 + i - (j + 1) \in 1 .. n /\ rest[1 + i - (j + 1)] = u[i]
    <3>1. i \in j .. m
      BY <1>1
    <3>2. 1 + i - j \in 1 .. 1 + n /\ s[1 + i - j] = u[i]
      BY <1>1, <1>2, <3>1 DEF Begins, m
    <3>3. 1 + i - (j + 1) \in 1 .. n /\ 1 + (1 + i - (j + 1)) = 1 + i - j
      BY <1>1, <3>2
    <3> QED
      BY <1>1, <3>2, <3>3
  <2> QED
    BY <2>1, <2>2 DEF Begins, m, n
<1>3. ASSUME NEW p \in Nat \ {0}, Begins(u, 1, s, p), p # 1
      PROVE  p - 1 \in Nat \ {0} /\ Begins(u, 1, rest, p - 1)
  <2>1. p - 1 \in Nat \ {0}
    BY <1>3
  <2>2. ASSUME NEW i \in 1 .. m
        PROVE  (p - 1) + i - 1 \in 1 .. n /\ rest[(p - 1) + i - 1] = u[i]
    <3>1. p + i - 1 \in 1 .. 1 + n /\ s[p + i - 1] = u[i]
      BY <1>1, <1>3 DEF Begins, m
    <3>2. (p - 1) + i - 1 \in 1 .. n /\ 1 + ((p - 1) + i - 1) = p + i - 1
      BY <1>1, <2>1, <3>1
    <3> QED
      BY <1>1, <3>1, <3>2
  <2> QED
    BY <2>1, <2>2 DEF Begins, m, n
<1> QED
  BY <1>2, <1>3 DEF m, s

\* Putting v in place of a makes nothing stand in the message that v cannot
\* overlap and that did not stand there before.
LEMMA ReplacedAddsNothing ==
    ASSUME NEW W, NEW msg \in Seq(W), NEW a \in Seq(W), a # <<>>, NEW v \in Seq(W), v # <<>>,
           NEW u \in Seq(W), u # <<>>, ~Clash(u, v)
    PROVE  /\ Replaced(msg, a, v) \in Seq(W)
           /\ Occurs(u, Replaced(msg, a, v)) => Occurs(u, msg)
<1> DEFINE n == Len(msg)
           m == Len(u)
<1>1. PICK f : Scans(f, msg, a, v, W) /\ Replaced(msg, a, v) = f[1]
  BY ReplacedScans
<1>2. /\ f \in [1 .. n + 1 -> Seq(W)] /\ f[n + 1] = <<>>
      /\ \A i \in 1 .. n :
            \/ i + Len(a) \in 1 .. n + 1 /\ f[i] = v \o f[i + Len(a)]
            \/ f[i] = <<msg[i]>> \o f[i + 1]
  BY <1>1 DEF Scans
<1>3. n \in Nat /\ m \in Nat \ {0} /\ Len(a) \in Nat \ {0} /\ \A i \in 1 .. n : msg[i] \in W
  OBVIOUS
<1> DEFINE T == {i \in 1 .. n + 1 :
                   /\ \A j \in 1 .. m : Begins(u, j, f[i], 1) => Begins(u, j, msg, i)
                   /\ \A p \in Nat \ {0} :
                         Begins(u, 1, f[i], p) => \E q \in 1 .. n : Begins(u, 1, msg, q)}
<1>4. n + 1 \in T
  <2>1. ASSUME NEW j \in 1 .. m, NEW p \in Nat PROVE ~Begins(u, j, <<>>, p)
    <3>1. j \in j .. m /\ Len(<<>>) = 0 /\ p + j - j \notin 1 .. 0
      BY <1>3
    <3> QED
      BY <3>1 DEF Begins
  <2>2. 1 \in 1 .. m /\ n + 1 \in 1 .. n + 1
    BY <1>3
  <2> HIDE DEF n, m
  <2> QED
    BY <1>2, <2>1, <2>2
<1>5. ASSUME NEW i \in 1 .. (n + 1) - 1, \A j \in (i + 1) .. n + 1 : j \in T
      PROVE  i \in T
  <2> HIDE DEF T
  <2>1. i \in 1 .. n /\ i \in 1 .. n + 1 /\ i + 1 \in (i + 1) .. n + 1
    BY <1>3
  <2>2. CASE i + Len(a) \in 1 .. n + 1 /\ f[i] = v \o f[i + Len(a)]
    <3>1. i + Len(a) \in T
      BY <1>3, <1>5, <2>2
    <3>2. f[i + Len(a)] \in Seq(W)
      BY <1>2, <2>2
    <3>3. /\ \A j \in 1 .. m : ~Begins(u, j, f[i], 1)
          /\ \A p \in Nat \ {0} : Begins(u, 1, f[i], p) =>
                p - Len(v) \in Nat \ {0} /\ Begins(u, 1, f[i + Len(a)], p - Len(v))
      BY <2>2, <3>2, NotAcross
    <3> HIDE DEF n, m
    <3> QED
      BY <2>1, <3>1, <3>3 DEF T
  <2>3. CASE f[i] = <<msg[i]>> \o f[i + 1]
    <3>1. i + 1 \in T
      BY <1>5, <2>1
    <3>2. f[i + 1] \in Seq(W) /\ msg[i] \in W
      <4>1. i + 1 \in 1 .. n + 1
        BY <1>3, <2>1
      <4>2. f[i + 1] \in Seq(W)
        BY <1>2, <4>1
      <4> QED
        BY <1>3, <2>1, <4>2
    <3>3. /\ \A j \in 1 .. m : Begins(u, j, f[i], 1) =>
                u[j] = msg[i] /\ Begins(u, j + 1, f[i + 1], 1)
          /\ \A p \in Nat \ {0} : Begins(u, 1, f[i], p) /\ p # 1 =>
                p - 1 \in Nat \ {0} /\ Begins(u, 1, f[i + 1], p - 1)
      BY <2>3, <3>2, AfterWord
    <3> HIDE DEF n, m
    <3>4. ASSUME NEW j \in 1 .. m, Begins(u, j, f[i], 1) PROVE Begins(u, j, msg, i)
      <4>1. u[j] = msg[i] /\ Begins(u, j + 1, f[i + 1], 1)
        BY <3>3, <3>4
      <4>2. j < m => Begins(u, j + 1, msg, i + 1)
        BY <1>3, <3>1, <4>1 DEF T
      <4>3. ASSUME NEW x \in j .. m PROVE i + x - j \in 1 .. n /\ msg[i + x - j] = u[x]
        <5>1. CASE x = j
          BY <1>3, <2>1, <4>1, <5>1
        <5>2. CASE x # j
          <6>1. j < m /\ x \in (j + 1) .. m /\ (i + 1) + x - (j + 1) = i + x - j
            BY <1>3, <2>1, <5>2
          <6> QED
            BY <4>2, <6>1 DEF Begins, m, n
        <5> QED
          BY <5>1, <5>2
      <4> QED
        BY <4>3 DEF Begins, m, n
    <3>5. ASSUME NEW p \in Nat \ {0}, Begins(u, 1, f[i], p)
          PROVE  \E q \in 1 .. n : Begins(u, 1, msg, q)
      <4>1. CASE p = 1
        <5>1. 1 \in 1 .. m
          BY <1>3
        <5>2. Begins(u, 1, msg, i)
          BY <3>4, <3>5, <4>1, <5>1
        <5> QED
          BY <2>1, <5>2
      <4>2. CASE p # 1
        BY <3>1, <3>3, <3>5, <4>2 DEF T
      <4> QED
        BY <4>1, <4>2
    <3> QED
      BY <2>1, <3>4, <3>5 DEF T
  <2> QED
    BY <1>2, <2>1, <2>2, <2>3
<1>6. 1 .. n + 1 \subseteq T
  <2> HIDE DEF T, n, m
  <2>1. n + 1 \in Nat /\ \A i \in 1 .. (n + 1) - 1 : (\A j \in (i + 1) .. n + 1 : j \in T) => i \in T
    BY <1>3, <1>5
  <2> QED
    BY <1>4, <2>1, InductDown
<1>7. 1 \in 1 .. n + 1 /\ f[1] \in Seq(W)
  BY <1>2, <1>3
<1>8. ASSUME Occurs(u, f[1]) PROVE Occurs(u, msg)
  <2>1. PICK p \in DOMAIN f[1] : OccursAt(u, f[1], p)
    BY <1>8 DEF Occurs
  <2>2. p \in Nat \ {0}
    BY <1>7
  <2>3. Begins(u, 1, f[1], p)
    BY <1>7, <2>1, <2>2, OccursBegins
  <2>4. 1 \in T
    BY <1>6, <1>7
  <2>5. PICK q \in 1 .. n : Begins(u, 1, msg, q)
    BY <2>2, <2>3, <2>4
  <2>6. OccursAt(u, msg, q)
    BY <1>3, <2>5, OccursBegins
  <2> QED
    BY <2>6 DEF Occurs
<1> QED
  BY <1>1, <1>7, <1>8

\* Replacing gives a message.
LEMMA ReplacedIsText ==
    ASSUME NEW W, NEW msg \in Seq(W), NEW a \in Seq(W), a # <<>>, NEW v \in Seq(W)
    PROVE  Replaced(msg, a, v) \in Seq(W)
<1>1. PICK f : Scans(f, msg, a, v, W) /\ Replaced(msg, a, v) = f[1]
  BY ReplacedScans
<1>2. 1 \in 1 .. Len(msg) + 1
  OBVIOUS
<1> QED
  BY <1>1, <1>2 DEF Scans

\* A text in front of the message adds nothing that it cannot overlap.
LEMMA LeadingAddsNothing ==
    ASSUME NEW W, NEW s \in Seq(W), NEW v \in Seq(W), v # <<>>,
           NEW u \in Seq(W), u # <<>>, ~Clash(u, v), Occurs(u, v \o s)
    PROVE  Occurs(u, s)
<1>1. v \o s \in Seq(W)
  BY Joined
<1>2. PICK p \in DOMAIN (v \o s) : OccursAt(u, v \o s, p)
  BY DEF Occurs
<1>3. p \in Nat \ {0}
  BY <1>1
<1>4. p - Len(v) \in Nat \ {0} /\ Begins(u, 1, s, p - Len(v))
  BY <1>1, <1>2, <1>3, OccursBegins, NotAcross
<1>5. OccursAt(u, s, p - Len(v))
  BY <1>4, OccursBegins
<1>6. p - Len(v) \in DOMAIN s
  <2>1. Len(u) \in Nat \ {0} /\ 1 \in 1 .. Len(u)
    OBVIOUS
  <2>2. (p - Len(v)) + 1 - 1 \in 1 .. Len(s)
    BY <1>4, <2>1 DEF Begins
  <2> QED
    BY <1>4, <2>2
<1> QED
  BY <1>5, <1>6 DEF Occurs

----------------------------------------------------------------------------
(* Rewriting a message, replacement by replacement.                        *)

Replace(m, r) == Replaced(m, r.alias, ValueOf[r.of])

Rewrite(msg, o, f) ==
    [S \in SUBSET DOMAIN o |->
        IF S = {} THEN msg ELSE Replace(f[S \ {Max(S)}], o[Max(S)])]

LEMMA RewrittenUnfolds ==
    ASSUME NEW msg, NEW o
    PROVE  Rewritten(msg, o) = (CHOOSE f : f = Rewrite(msg, o, f))[DOMAIN o]
BY DEF Rewritten, FoldLeft, MapThenFoldSet, Rewrite, Replace

\* What a replacement may be: a text for a text.
Replaces(r, W) ==
    /\ r.alias \in Seq(W) /\ r.alias # <<>>
    /\ ValueOf[r.of] \in Seq(W) /\ ValueOf[r.of] # <<>>

RewriteRuns(h, msg, o, n, W) ==
    /\ h \in [0 .. n -> Seq(W)] /\ h[0] = msg
    /\ \A k \in 1 .. n : h[k] = Replace(h[k - 1], o[k])

\* The messages that rewriting leads through.
LEMMA RewrittenSteps ==
    ASSUME NEW W, NEW msg \in Seq(W), NEW n \in Nat, NEW o, DOMAIN o = 1 .. n,
           \A i \in 1 .. n : Replaces(o[i], W)
    PROVE  \E h : RewriteRuns(h, msg, o, n, W) /\ Rewritten(msg, o) = h[n]
<1> DEFINE X == Seq(W)
           G == [i \in 1 .. n |-> [x \in X |-> Replace(x, o[i])]]
           it == CHOOSE f : f = Rewrite(msg, o, f)
<1>1. msg \in X
  OBVIOUS
<1>2. \A i \in 1 .. n : \A x \in X : Replace(x, o[i]) \in X
  BY ReplacedIsText DEF Replace, Replaces
<1>3. G \in [1 .. n -> [X -> X]]
  BY <1>2
<1>4. \A i \in 1 .. n : \A x \in X : G[i][x] = Replace(x, o[i])
  OBVIOUS
<1> HIDE DEF G, X
<1>5. \E f : f = Rewrite(msg, o, f)
  <2>1. PICK f : Folds(f, X, msg, n, G)
    BY <1>1, <1>3, FoldExists
  <2>2. ASSUME NEW S \in SUBSET (1 .. n), S # {}
        PROVE  f[S] = Replace(f[S \ {Max(S)}], o[Max(S)])
    <3>1. Max(S) \in 1 .. n
      BY <2>2, LastIndex
    <3>2. f[S \ {Max(S)}] \in X
      BY <2>1 DEF Folds
    <3> QED
      BY <2>1, <2>2, <3>1, <3>2, <1>4 DEF Folds
  <2>3. f = Rewrite(msg, o, f)
    BY <2>1, <2>2 DEF Rewrite, Folds
  <2> QED
    BY <2>3
<1>6. it = Rewrite(msg, o, it)
  BY <1>5
<1> HIDE DEF it
<1>7. it[{}] = msg
  BY <1>6 DEF Rewrite
<1>8. ASSUME NEW k \in 1 .. n, it[1 .. (k - 1)] \in X
      PROVE  it[1 .. k] = G[k][it[1 .. (k - 1)]]
  <2>1. Max(1 .. k) = k /\ (1 .. k) \ {Max(1 .. k)} = 1 .. (k - 1)
    BY LastOfPrefix
  <2>2. 1 .. k \in SUBSET (1 .. n) /\ 1 .. k # {}
    BY FirstIndices
  <2>3. it[1 .. k] = Replace(it[1 .. (k - 1)], o[k])
    BY <1>6, <2>1, <2>2 DEF Rewrite
  <2> QED
    BY <1>4, <1>8, <2>3
<1>9. \A k \in 1 .. n : it[1 .. (k - 1)] \in X => it[1 .. k] = G[k][it[1 .. (k - 1)]]
  BY <1>8
<1>10. PICK h : Runs(h, X, msg, n, G) /\ h[n] = it[1 .. n]
  <2>1. Folding(it, X, msg, n, G)
    BY <1>1, <1>3, <1>7, <1>9 DEF Folding
  <2> QED
    BY <2>1, FoldSteps
<1>11. Rewritten(msg, o) = h[n]
  BY <1>10, RewrittenUnfolds DEF it
<1>12. \A k \in 1 .. n : k - 1 \in 0 .. n
  OBVIOUS
<1>13. \A k \in 1 .. n : h[k] = Replace(h[k - 1], o[k])
  BY <1>4, <1>10, <1>12 DEF Runs
<1>14. RewriteRuns(h, msg, o, n, W)
  BY <1>10, <1>13 DEF X, Runs, RewriteRuns
<1> QED
  BY <1>11, <1>14

\* A text that no value put in can overlap stands in the rewritten message
\* only if it stood in the message.
LEMMA RewrittenAddsNothing ==
    ASSUME NEW W, NEW msg \in Seq(W), NEW n \in Nat, NEW o, DOMAIN o = 1 .. n,
           \A i \in 1 .. n : Replaces(o[i], W),
           NEW u \in Seq(W), u # <<>>, \A i \in 1 .. n : ~Clash(u, ValueOf[o[i].of])
    PROVE  /\ Rewritten(msg, o) \in Seq(W)
           /\ Occurs(u, Rewritten(msg, o)) => Occurs(u, msg)
<1>1. PICK h : RewriteRuns(h, msg, o, n, W) /\ Rewritten(msg, o) = h[n]
  BY RewrittenSteps
<1> DEFINE T == {k \in Nat : k <= n => (Occurs(u, h[k]) => Occurs(u, msg))}
<1>2. 0 \in T
  BY <1>1 DEF RewriteRuns
<1>3. ASSUME NEW k \in Nat, k \in T PROVE k + 1 \in T
  <2> SUFFICES ASSUME k + 1 <= n, Occurs(u, h[k + 1]) PROVE Occurs(u, msg)
    OBVIOUS
  <2>1. k + 1 \in 1 .. n /\ k \in 0 .. n /\ (k + 1) - 1 = k
    OBVIOUS
  <2>2. h[k] \in Seq(W) /\ h[k + 1] = Replace(h[k], o[k + 1])
    BY <1>1, <2>1 DEF RewriteRuns
  <2>3. Occurs(u, h[k])
    BY <2>1, <2>2, ReplacedAddsNothing DEF Replace, Replaces
  <2> QED
    BY <1>3, <2>3
<1> HIDE DEF T
<1>4. n \in T
  BY <1>2, <1>3, Induct
<1>5. n \in 0 .. n
  OBVIOUS
<1> QED
  BY <1>1, <1>4, <1>5 DEF T, RewriteRuns

----------------------------------------------------------------------------
(* Putting texts one after the other.                                      *)

\* F[i] are the first i texts of g, put together.
Flats(F, g, n, W) ==
    /\ F \in [0 .. n -> Seq(W)] /\ F[0] = <<>>
    /\ \A i \in 1 .. n : F[i] = F[i - 1] \o g[i]

Flattened(f, g) ==
    [i \in 1 .. Len(g) |-> IF i = 1 THEN g[i] ELSE f[i - 1] \o g[i]]

LEMMA FlattenUnfolds ==
    ASSUME NEW g, Len(g) # 0
    PROVE  FlattenSeq(g) = (CHOOSE f : f = Flattened(f, g))[Len(g)]
BY DEF FlattenSeq, Flattened

LEMMA FlattenSteps ==
    ASSUME NEW W, NEW n \in Nat \ {0}, NEW g \in [1 .. n -> Seq(W)]
    PROVE  \E F : Flats(F, g, n, W) /\ FlattenSeq(g) = F[n]
<1> DEFINE step(f, i) == IF i = 1 THEN g[i] ELSE f[i - 1] \o g[i]
           P(m) == \E f \in [1 .. m -> Seq(W)] : \A i \in 1 .. m : f[i] = step(f, i)
           T == {m \in Nat : m <= n => P(m)}
           it == CHOOSE f : f = Flattened(f, g)
<1>1. g \in Seq(Seq(W)) /\ Len(g) = n
  <2>1. g \in Seq(Seq(W))
    BY SeqDef
  <2> QED
    BY <2>1, LenProperties
<1>2. 0 \in T
  <2>1. [i \in 1 .. 0 |-> <<>>] \in [1 .. 0 -> Seq(W)]
    OBVIOUS
  <2>2. \A i \in 1 .. 0 : FALSE
    OBVIOUS
  <2> QED
    BY <2>1, <2>2
<1>3. ASSUME NEW m \in Nat, m \in T PROVE m + 1 \in T
  <2> SUFFICES ASSUME m + 1 <= n PROVE P(m + 1)
    <3> HIDE DEF P
    <3> QED
      OBVIOUS
  <2>1. PICK f \in [1 .. m -> Seq(W)] : \A i \in 1 .. m : f[i] = step(f, i)
    BY <1>3
  <2> DEFINE h == [i \in 1 .. m + 1 |-> IF i = m + 1 THEN step(f, i) ELSE f[i]]
  <2>2. m + 1 \in 1 .. m + 1 /\ m + 1 \in 1 .. n /\ \A i \in 1 .. m + 1 : i = m + 1 \/ i \in 1 .. m
    BY <1>3
  <2>3. step(f, m + 1) \in Seq(W)
    <3>1. g[m + 1] \in Seq(W)
      BY <2>2
    <3>2. m + 1 # 1 => m \in 1 .. m /\ (m + 1) - 1 = m
      BY <1>3
    <3>3. m + 1 # 1 => f[(m + 1) - 1] \in Seq(W)
      BY <2>1, <3>2
    <3>4. m + 1 # 1 => f[(m + 1) - 1] \o g[m + 1] \in Seq(W)
      BY <3>1, <3>3, Joined
    <3> QED
      BY <3>1, <3>4
  <2>4. h \in [1 .. m + 1 -> Seq(W)]
    <3> HIDE DEF step
    <3>1. \A i \in 1 .. m + 1 : (IF i = m + 1 THEN step(f, i) ELSE f[i]) \in Seq(W)
      BY <2>1, <2>2, <2>3
    <3> QED
      BY <3>1
  <2>5. ASSUME NEW i \in 1 .. m + 1 PROVE h[i] = step(h, i)
    <3>1. h[i] = step(f, i)
      BY <2>1, <2>2
    <3>2. i # 1 => i - 1 \in 1 .. m /\ i - 1 \in 1 .. m + 1 /\ i - 1 # m + 1
      BY <1>3
    <3>3. i # 1 => h[i - 1] = f[i - 1]
      BY <3>2
    <3> HIDE DEF h
    <3> QED
      BY <3>1, <3>3
  <2> HIDE DEF h, step
  <2> QED
    BY <2>4, <2>5
<1> HIDE DEF T
<1>4. n \in T
  BY <1>2, <1>3, Induct
<1>5. PICK f \in [1 .. n -> Seq(W)] : \A i \in 1 .. n : f[i] = step(f, i)
  <2>1. P(n)
    <3> HIDE DEF P
    <3> QED
      BY <1>4 DEF T
  <2> HIDE DEF step
  <2> QED
    BY <2>1
<1>6. f = Flattened(f, g)
  BY <1>1, <1>5 DEF Flattened
<1>7. it = Flattened(it, g) /\ FlattenSeq(g) = it[n]
  BY <1>1, <1>6, FlattenUnfolds
<1> HIDE DEF it
<1>8. \A i \in 1 .. n : it[i] = step(it, i)
  BY <1>1, <1>7 DEF Flattened
<1> DEFINE S == {m \in Nat : m + 1 <= n => it[m + 1] \in Seq(W)}
<1>9. 0 \in S
  <2>1. 1 \in 1 .. n
    OBVIOUS
  <2>2. it[1] = g[1]
    BY <1>8, <2>1
  <2>3. it[1] \in Seq(W)
    BY <2>1, <2>2
  <2> HIDE DEF it
  <2> QED
    BY <2>3
<1>10. ASSUME NEW m \in Nat, m \in S PROVE m + 1 \in S
  <2> SUFFICES ASSUME (m + 1) + 1 <= n PROVE it[(m + 1) + 1] \in Seq(W)
    OBVIOUS
  <2>1. (m + 1) + 1 \in 1 .. n /\ (m + 1) + 1 # 1 /\ ((m + 1) + 1) - 1 = m + 1 /\ m + 1 <= n
    OBVIOUS
  <2>2. it[(m + 1) + 1] = it[m + 1] \o g[(m + 1) + 1]
    BY <1>8, <2>1
  <2>3. it[m + 1] \in Seq(W) /\ g[(m + 1) + 1] \in Seq(W)
    BY <1>10, <2>1
  <2> QED
    BY <2>2, <2>3, Joined
<1>11. ASSUME NEW i \in 1 .. n PROVE it[i] \in Seq(W)
  <2>1. Nat \subseteq S
    <3> HIDE DEF S
    <3> QED
      BY <1>9, <1>10, Induct
  <2>2. i - 1 \in S /\ (i - 1) + 1 = i
    <3> HIDE DEF S
    <3> QED
      BY <2>1
  <2> QED
    BY <2>2
<1> DEFINE F == [i \in 0 .. n |-> IF i = 0 THEN <<>> ELSE it[i]]
<1>12. F \in [0 .. n -> Seq(W)] /\ F[0] = <<>> /\ F[n] = it[n]
  <2>1. <<>> \in Seq(W)
    OBVIOUS
  <2>2. \A i \in 0 .. n : (IF i = 0 THEN <<>> ELSE it[i]) \in Seq(W)
    BY <1>11, <2>1
  <2>3. 0 \in 0 .. n /\ n \in 0 .. n /\ n # 0
    OBVIOUS
  <2> QED
    BY <2>2, <2>3
<1>13. ASSUME NEW i \in 1 .. n PROVE F[i] = F[i - 1] \o g[i]
  <2>1. i \in 0 .. n /\ i # 0 /\ i - 1 \in 0 .. n
    OBVIOUS
  <2>2. F[i] = it[i] /\ F[i - 1] = IF i - 1 = 0 THEN <<>> ELSE it[i - 1]
    BY <2>1
  <2>3. g[i] \in Seq(W) /\ <<>> \o g[i] = g[i]
    BY ConcatEmptySeq
  <2>4. it[i] = IF i = 1 THEN g[i] ELSE it[i - 1] \o g[i]
    BY <1>8
  <2> HIDE DEF F
  <2>5. CASE i = 1
    <3>1. F[i - 1] = <<>>
      BY <2>2, <2>5
    <3> QED
      BY <2>2, <2>3, <2>4, <2>5, <3>1
  <2>6. CASE i # 1
    <3>1. i - 1 # 0
      BY <2>6
    <3>2. F[i - 1] = it[i - 1]
      BY <2>2, <3>1
    <3> QED
      BY <2>2, <2>4, <2>6, <3>2
  <2> QED
    BY <2>5, <2>6
<1>14. Flats(F, g, n, W)
  <2> HIDE DEF F
  <2> QED
    BY <1>12, <1>13 DEF Flats
<1> QED
  BY <1>7, <1>12, <1>14

----------------------------------------------------------------------------
(* Names, phrases and messages are texts.                                  *)

AllWords == (UNION {UNION {ToSet(n) : n \in Names(c)} : c \in Candidates}) \cup Filler

LEMMA NameIsText ==
    ASSUME NEW c \in Candidates, NEW n \in Names(c)
    PROVE  n \in Seq(AllWords) /\ n # <<>>
<1>1. n # <<>> /\ n \in Seq(ToSet(n))
  BY NamesAssumption
<1>2. ToSet(n) \subseteq AllWords
  BY DEF AllWords
<1>3. \A i \in 1 .. Len(n) : n[i] \in AllWords
  BY <1>1, <1>2
<1>4. n \in Seq(AllWords)
  <2>1. n = [i \in 1 .. Len(n) |-> n[i]] /\ Len(n) \in Nat
    BY <1>1
  <2>2. n \in [1 .. Len(n) -> AllWords]
    BY <1>3, <2>1
  <2> QED
    BY <2>1, <2>2, SeqDef
<1> QED
  BY <1>1, <1>4

LEMMA PhraseIsText ==
    ASSUME NEW p \in Phrases
    PROVE  /\ p.words \in Seq(AllWords) /\ p.words # <<>>
           /\ \/ p.of \in Candidates /\ p.words \in Names(p.of)
              \/ p.of = NoOne /\ \E w \in Filler : p.words = <<w>>
<1>1. CASE \E c \in Candidates : p \in {[of |-> c, words |-> n] : n \in Names(c)}
  <2>1. PICK c \in Candidates : p \in {[of |-> c, words |-> n] : n \in Names(c)}
    BY <1>1
  <2>2. PICK n \in Names(c) : p = [of |-> c, words |-> n]
    BY <2>1
  <2>3. p.of = c /\ p.words = n
    BY <2>2
  <2>4. n \in Seq(AllWords) /\ n # <<>>
    BY NameIsText
  <2> QED
    BY <2>3, <2>4
<1>2. CASE p \in {[of |-> NoOne, words |-> <<w>>] : w \in Filler}
  <2>1. PICK w \in Filler : p = [of |-> NoOne, words |-> <<w>>]
    BY <1>2
  <2>2. w \in AllWords
    BY DEF AllWords
  <2>3. <<w>> \in Seq(AllWords) /\ <<w>> # <<>>
    BY <2>2
  <2>4. p.of = NoOne /\ p.words = <<w>>
    BY <2>1
  <2> QED
    BY <2>3, <2>4
<1> QED
  BY <1>1, <1>2 DEF Phrases

LEMMA WordsAreText ==
    ASSUME NEW n \in Nat \ {0}, NEW m \in [1 .. n -> Phrases]
    PROVE  Words(m) \in Seq(AllWords)
<1> DEFINE g == [i \in 1 .. n |-> m[i].words]
<1>1. g \in [1 .. n -> Seq(AllWords)]
  BY PhraseIsText
<1>2. Words(m) = FlattenSeq(g)
  BY DEF Words
<1> HIDE DEF g
<1>3. PICK F : Flats(F, g, n, AllWords) /\ FlattenSeq(g) = F[n]
  BY <1>1, FlattenSteps
<1>4. n \in 0 .. n
  OBVIOUS
<1> QED
  BY <1>2, <1>3, <1>4 DEF Flats

LEMMA ReplacementIsText ==
    ASSUME NEW S \in SUBSET Candidates, NEW r \in Replacements(S)
    PROVE  /\ Replaces(r, AllWords)
           /\ r.of \in S /\ Kind[r.of] # "data_type"
           /\ r.alias \in Aliases[r.of] /\ r.alias # ValueOf[r.of]
<1>1. PICK c \in S \ OfKind("data_type") :
          r \in {[of |-> c, alias |-> n] : n \in Aliases[c] \ {ValueOf[c]}}
  BY DEF Replacements
<1>2. PICK n \in Aliases[c] \ {ValueOf[c]} : r = [of |-> c, alias |-> n]
  BY <1>1
<1>3. c \in Candidates /\ n \in Names(c) /\ ValueOf[c] \in Names(c)
  BY <1>1, <1>2 DEF Names
<1>4. r.of = c /\ r.alias = n
  BY <1>2
<1> QED
  BY <1>2, <1>1, <1>3, <1>4, NameIsText DEF Replaces, OfKind

LEMMA ReplacementsFinite ==
    ASSUME NEW S \in SUBSET Candidates
    PROVE  IsFiniteSet(Replacements(S))
<1> DEFINE T == S \ OfKind("data_type")
           of(c) == {[of |-> c, alias |-> n] : n \in Aliases[c] \ {ValueOf[c]}}
           all == {of(c) : c \in T}
<1>1. IsFiniteSet(T)
  BY FS_Subset, NamesAssumption
<1>2. ASSUME NEW c \in T PROVE IsFiniteSet(of(c))
  <2> DEFINE N == Aliases[c] \ {ValueOf[c]}
             f == [n \in N |-> [of |-> c, alias |-> n]]
  <2>1. IsFiniteSet(N)
    BY FS_Subset, NamesAssumption
  <2>2. f \in Surjection(N, of(c))
    BY DEF Surjection
  <2> QED
    BY <2>1, <2>2, FS_Surjection
<1>3. IsFiniteSet(all)
  <2> DEFINE f == [c \in T |-> of(c)]
  <2> HIDE DEF of
  <2>1. f \in Surjection(T, all)
    BY DEF Surjection
  <2> QED
    BY <1>1, <2>1, FS_Surjection
<1>4. \A A \in all : IsFiniteSet(A)
  BY <1>2
<1>5. IsFiniteSet(UNION all)
  <2> HIDE DEF all
  <2> QED
    BY <1>3, <1>4, FS_UNION
<1> QED
  BY <1>5 DEF Replacements

\* An order goes through the replacements, each of them once.
LEMMA OrderLists ==
    ASSUME NEW S \in SUBSET Candidates, NEW o \in Orders(Replacements(S))
    PROVE  \E n \in Nat : /\ o \in [1 .. n -> Replacements(S)]
                          /\ \A r \in Replacements(S) : \E i \in 1 .. n : o[i] = r
                          /\ \A i \in 1 .. n : Replaces(o[i], AllWords) /\ o[i].of \in S
<1> DEFINE R == Replacements(S)
           n == Cardinality(R)
<1>1. IsFiniteSet(R)
  BY ReplacementsFinite
<1> HIDE DEF R
<1>2. n \in Nat
  BY <1>1, FS_CardinalityType
<1>3. o \in SetToSeqs(R)
  BY DEF Orders, R
<1>4. o \in [1 .. n -> R] /\ \A i, j \in 1 .. n : i # j => o[i] # o[j]
  BY <1>3 DEF SetToSeqs
<1>5. IsFiniteSet(1 .. n) /\ Cardinality(1 .. n) = n
  <2> HIDE DEF n
  <2> QED
    BY <1>2, FS_Interval
<1>6. o \in Surjection(1 .. n, R)
  <2>1. o \in Injection(1 .. n, R)
    BY <1>4 DEF Injection, IsInjective
  <2>2. Cardinality(1 .. n) = Cardinality(R)
    BY <1>5
  <2> HIDE DEF n
  <2> QED
    BY <1>1, <1>5, <2>1, <2>2, FS_Injection
<1>7. \A r \in R : \E i \in 1 .. n : o[i] = r
  BY <1>6 DEF Surjection
<1>8. ASSUME NEW i \in 1 .. n PROVE Replaces(o[i], AllWords) /\ o[i].of \in S
  BY <1>4, ReplacementIsText DEF R
<1> HIDE DEF n
<1> QED
  BY <1>2, <1>4, <1>7, <1>8 DEF R

----------------------------------------------------------------------------
(* The rewritten message names nothing new.                                *)

\* The text, or in front of it the one data type of the one indicator in S.
Hinted(new, text, S) ==
    \/ new = text
    \/ /\ S \cap OfKind("data_type") = {}
       /\ \E i \in S \cap OfKind("indicator") : \E d \in OfKind("data_type") :
             /\ S \cap OfKind("indicator") = {i} /\ Meta[i]["data_type"] = {d}
             /\ new = ValueOf[d] \o text

LEMMA HintedType ==
    ASSUME NEW hits \in SUBSET Candidates, NEW msg
    PROVE  Hinted(ScopeHint(msg, hits), msg, hits)
<1> DEFINE indicators == hits \cap OfKind("indicator")
           types == UNION {Meta[c]["data_type"] : c \in indicators}
<1> SUFFICES ASSUME hits \cap OfKind("data_type") = {},
                    Cardinality(indicators) = 1, Cardinality(types) = 1,
                    ScopeHint(msg, hits) = ValueOf[CHOOSE d \in types : TRUE] \o msg
             PROVE  \E i \in indicators : \E d \in OfKind("data_type") :
                       /\ indicators = {i} /\ Meta[i]["data_type"] = {d}
                       /\ ScopeHint(msg, hits) = ValueOf[d] \o msg
  BY DEF ScopeHint, Hinted
<1>1. IsFiniteSet(indicators) /\ indicators \subseteq Candidates
  BY FS_Subset, NamesAssumption
<1>2. PICK i \in Candidates : indicators = {i}
  BY <1>1, FS_Singleton
<1>3. types = Meta[i]["data_type"] /\ types \subseteq OfKind("data_type")
  <2>1. "data_type" \in Scopes /\ i \in OfKind("indicator")
    BY <1>2 DEF Scopes
  <2>2. Meta[i]["data_type"] \subseteq OfKind("data_type")
    BY <2>1, MetaAssumption
  <2> QED
    BY <1>2, <2>2
<1>4. IsFiniteSet(types)
  <2>1. types \subseteq Candidates
    BY <1>3 DEF OfKind
  <2> HIDE DEF types
  <2> QED
    BY <2>1, FS_Subset, NamesAssumption
<1>5. PICK d : types = {d}
  <2> HIDE DEF types
  <2> QED
    BY <1>4, FS_Singleton
<1>6. (CHOOSE x \in types : TRUE) = d
  BY <1>5
<1>7. d \in OfKind("data_type")
  BY <1>3, <1>5
<1> HIDE DEF types
<1> QED
  BY <1>2, <1>3, <1>5, <1>6, <1>7

\* What the observation processor makes of a message names what the message
\* names, and where it names no data type perhaps one.
LEMMA RewriteAddsNothing ==
    ASSUME ValuesApart, NEW msg \in Seq(AllWords), NEW o \in Orders(Replacements(Matched(msg))),
           NEW c \in Candidates, Occurs(ValueOf[c], ScopeHint(Rewritten(msg, o), Matched(msg)))
    PROVE  \/ c \in Matched(msg)
           \/ Kind[c] = "data_type" /\ Matched(msg) \cap OfKind("data_type") = {}
<1> DEFINE hits == Matched(msg)
           new == Rewritten(msg, o)
<1>1. hits \in SUBSET Candidates
  BY DEF Matched
<1>2. ValueOf[c] \in Seq(AllWords) /\ ValueOf[c] # <<>> /\ ValueOf[c] \in Names(c)
  BY NameIsText DEF Names
<1> HIDE DEF hits
<1>3. SUFFICES ASSUME c \notin hits PROVE Kind[c] = "data_type" /\ hits \cap OfKind("data_type") = {}
  BY DEF hits
<1>4. PICK n \in Nat : /\ o \in [1 .. n -> Replacements(hits)]
                       /\ \A i \in 1 .. n : Replaces(o[i], AllWords) /\ o[i].of \in hits
  BY <1>1, OrderLists DEF hits
<1>5. \A i \in 1 .. n : ~Clash(ValueOf[c], ValueOf[o[i].of])
  BY <1>1, <1>3, <1>4 DEF ValuesApart
<1>6. DOMAIN o = 1 .. n
  BY <1>4
<1>7. new \in Seq(AllWords) /\ (Occurs(ValueOf[c], new) => Occurs(ValueOf[c], msg))
  BY <1>2, <1>4, <1>5, <1>6, RewrittenAddsNothing
<1>8. ~Occurs(ValueOf[c], new)
  BY <1>2, <1>3, <1>7 DEF Matched, hits
<1> HIDE DEF new
<1>9. CASE ScopeHint(new, hits) = new
  BY <1>8, <1>9 DEF hits, new
<1>10. ASSUME hits \cap OfKind("data_type") = {}, NEW d \in OfKind("data_type"),
              ScopeHint(new, hits) = ValueOf[d] \o new
       PROVE  Kind[c] = "data_type"
  <2>1. d \in Candidates /\ Kind[d] = "data_type"
    BY DEF OfKind
  <2>2. ValueOf[d] \in Seq(AllWords) /\ ValueOf[d] # <<>>
    BY <2>1, NameIsText DEF Names
  <2>3. c # d => ~Clash(ValueOf[c], ValueOf[d])
    BY <2>1 DEF ValuesApart
  <2>4. Occurs(ValueOf[c], ValueOf[d] \o new)
    BY <1>10 DEF hits, new
  <2>5. c = d
    BY <1>2, <1>7, <1>8, <2>2, <2>3, <2>4, LeadingAddsNothing
  <2> QED
    BY <2>1, <2>5
<1>11. Hinted(ScopeHint(new, hits), new, hits)
  BY <1>1, HintedType
<1> QED
  BY <1>1, <1>9, <1>10, <1>11 DEF Hinted

----------------------------------------------------------------------------
(* What is shown to the processors, and what the observation processor     *)
(* has made of it.                                                         *)

HeardInv ==
    /\ stage # "idle" => \E n \in Nat \ {0} : said \in [1 .. n -> Phrases]
    /\ stage = "global" \/ (stage \in {"domain", "done"} /\ OwnRewrites) =>
           heard = Words(said)

ObservedInv ==
    \A e \in ToSet(effects) :
        e.id = "observation" => /\ stage \in {"domain", "done"}
                                /\ \E p \in Processors : e \in Observed(p, heard)

LEMMA HeardInit == Init => HeardInv /\ ObservedInv
  BY EmptyEffects DEF Init, HeardInv, ObservedInv

LEMMA ObservedNext == RegisteredInv /\ EffectsInv /\ ObservedInv /\ [Next]_vars => ObservedInv'
<1> SUFFICES ASSUME RegisteredInv, EffectsInv, ObservedInv, [Next]_vars
             PROVE  ObservedInv'
  OBVIOUS
<1>1. ASSUME NEW m, Receive(m) PROVE ObservedInv'
  BY <1>1, EmptyEffects DEF Receive, EffectsInv, ObservedInv
<1>2. CASE RunProcessor
  <2>1. stage \in {"global", "domain"} /\ ran < Len(Pipeline(stage)) /\ ran \in Nat
    BY <1>2 DEF RunProcessor, EffectsInv
  <2>2. PICK q : q = Pipeline(stage)[ran + 1]
    OBVIOUS
  <2>3. /\ stage' = stage /\ heard' = heard
        /\ effects' = effects \/ \E e \in Proposals(q, heard) : effects' = Append(effects, e)
    BY <1>2, <2>2 DEF RunProcessor
  <2>4. q \in Processors /\ q.stage = stage
    <3>1. PICK n \in Nat : ListsStage(Pipeline(stage), stage, n) /\ Len(Pipeline(stage)) = n
      BY <2>1, PipelineLists
    <3>2. ran + 1 \in 1..n
      BY <2>1, <3>1
    <3> QED
      BY <2>2, <3>1, <3>2 DEF ListsStage
  <2>5. ASSUME NEW e \in Proposals(q, heard), e.id = "observation"
        PROVE  stage = "domain" /\ e \in Observed(q, heard)
    <3>1. q.id = "observation"
      BY <2>5, ProposalIsFrom DEF From
    <3>2. q.stage = "domain"
      BY <2>4, <3>1, ProcessorAssumption
    <3> QED
      BY <2>4, <3>1, <3>2 DEF Proposals
  <2>6. CASE effects' = effects
    BY <2>3, <2>6 DEF ObservedInv
  <2>7. ASSUME NEW e \in Proposals(q, heard), effects' = Append(effects, e)
        PROVE  ObservedInv'
    <3>1. ToSet(effects)' = ToSet(effects) \cup {e}
      BY <2>7, AppendedElements DEF EffectsInv
    <3> QED
      BY <2>3, <2>4, <2>5, <3>1 DEF ObservedInv
  <2> QED
    BY <2>3, <2>6, <2>7
<1>3. CASE MergeGlobal
  BY <1>3 DEF MergeGlobal, ObservedInv
<1>4. CASE MergeAll
  BY <1>4 DEF MergeAll, ObservedInv
<1>5. CASE HandOver
  BY <1>5, EmptyEffects DEF HandOver, ObservedInv
<1>6. CASE UNCHANGED vars
  BY <1>6 DEF vars, ObservedInv
<1> QED
  BY <1>1, <1>2, <1>3, <1>4, <1>5, <1>6 DEF Next

\* No processor has said anything of the message, or the observation
\* processor alone.
LEMMA Unanswered ==
    ASSUME NEW es, IsSequence(es), \A e \in ToSet(es) : e.rewrite = <<>>, NEW msg
    PROVE  AgreedMessage(msg, es) = msg
<1>1. Rewrites(es) = {}
  BY DEF Rewrites
<1>2. Cardinality(Rewrites(es)) = 0
  BY <1>1, FS_EmptySet
<1> QED
  BY <1>2 DEF AgreedMessage

LEMMA HeardNext ==
    RegisteredInv /\ EffectsInv /\ ObservedInv /\ HeardInv /\ [Next]_vars => HeardInv'
<1> SUFFICES ASSUME RegisteredInv, EffectsInv, ObservedInv, HeardInv, [Next]_vars
             PROVE  HeardInv'
  OBVIOUS
<1>1. ASSUME NEW n \in 1 .. MaxPhrases, NEW m \in [1 .. n -> Phrases], Receive(m)
      PROVE  HeardInv'
  <2>1. n \in Nat \ {0}
    BY NamesAssumption
  <2> QED
    BY <1>1, <2>1 DEF Receive, HeardInv
<1>2. CASE RunProcessor
  <2>1. /\ stage \in {"global", "domain"} /\ stage' = stage /\ heard' = heard /\ said' = said
        /\ effects' = effects \/ \E e : effects' = Append(effects, e)
    BY <1>2 DEF RunProcessor
  <2>2. OwnRewrites' => OwnRewrites
    <3>1. ASSUME NEW e, effects' = Append(effects, e) PROVE ToSet(effects) \subseteq ToSet(effects)'
      BY <3>1, AppendedElements DEF EffectsInv
    <3> QED
      BY <2>1, <3>1 DEF OwnRewrites
  <2> QED
    BY <2>1, <2>2 DEF HeardInv
<1>3. CASE MergeGlobal
  <2>1. /\ stage = "global" /\ stage' = "domain" /\ said' = said /\ effects' = effects
        /\ heard' = AgreedMessage(heard, effects)
    BY <1>3 DEF MergeGlobal, Merge
  <2>2. ASSUME OwnRewrites' PROVE heard' = Words(said)
    <3>1. \A e \in ToSet(effects) : e.rewrite = <<>>
      BY <2>1, <2>2 DEF OwnRewrites, ObservedInv
    <3>2. heard' = heard
      BY <2>1, <3>1, Unanswered DEF EffectsInv
    <3> QED
      BY <2>1, <3>2 DEF HeardInv
  <2> QED
    BY <2>1, <2>2 DEF HeardInv
<1>4. CASE MergeAll
  BY <1>4 DEF MergeAll, HeardInv, OwnRewrites
<1>5. CASE HandOver
  BY <1>5 DEF HandOver, HeardInv
<1>6. CASE UNCHANGED vars
  BY <1>6 DEF vars, HeardInv, OwnRewrites
<1> QED
  BY <1>1, <1>2, <1>3, <1>4, <1>5, <1>6 DEF Next

\* Where no other processor rewrites the message, the recognizer reads what
\* the observation processor has made of it, if anything, or the message.
LEMMA OwnMessage ==
    ASSUME EffectsInv, MergedInv, ObservedInv, stage = "done", OwnRewrites
    PROVE  /\ \A e \in ToSet(effects) : e.rewrite # <<>> => result.message = e.rewrite
           /\ (\A e \in ToSet(effects) : e.rewrite = <<>>) => result.message = heard
<1>1. result.message = AgreedMessage(heard, effects)
  BY DEF MergedInv, Merge
<1>2. ASSUME NEW e \in ToSet(effects), e.rewrite # <<>> PROVE result.message = e.rewrite
  <2>1. Rewrites(effects) = {e.rewrite}
    <3>1. \A d \in ToSet(effects) : d.rewrite # <<>> => d = e
      BY <1>2 DEF OwnRewrites, EffectsInv
    <3> QED
      BY <1>2, <3>1 DEF Rewrites
  <2>2. Cardinality(Rewrites(effects)) = 1
    BY <2>1, FS_Singleton
  <2> QED
    BY <1>1, <2>1, <2>2 DEF AgreedMessage
<1>3. ASSUME \A e \in ToSet(effects) : e.rewrite = <<>> PROVE result.message = heard
  BY <1>1, <1>3, Unanswered DEF EffectsInv
<1> QED
  BY <1>2, <1>3

LEMMA MessageAddsNothing ==
    ASSUME ValuesApart, EffectsInv, MergedInv, ObservedInv, HeardInv
    PROVE  RewriteNamesNothingNew
<1> SUFFICES ASSUME stage = "done", OwnRewrites,
                    NEW c \in Candidates, Occurs(ValueOf[c], result.message)
             PROVE  \/ c \in Matched(heard)
                    \/ Kind[c] = "data_type" /\ Matched(heard) \cap OfKind("data_type") = {}
  BY DEF RewriteNamesNothingNew, NamesNothingNew, Finished
<1>1. heard \in Seq(AllWords)
  BY WordsAreText DEF HeardInv
<1>2. CASE \A e \in ToSet(effects) : e.rewrite = <<>>
  <2>1. ValueOf[c] \in Names(c) /\ Occurs(ValueOf[c], heard)
    BY <1>2, OwnMessage DEF Names
  <2> QED
    BY <2>1 DEF Matched
<1>3. ASSUME NEW e \in ToSet(effects), e.rewrite # <<>>
      PROVE  \/ c \in Matched(heard)
             \/ Kind[c] = "data_type" /\ Matched(heard) \cap OfKind("data_type") = {}
  <2>1. PICK p \in Processors : e \in Observed(p, heard)
    BY <1>3 DEF OwnRewrites, ObservedInv
  <2>2. PICK o \in Orders(Replacements(Matched(heard))) :
            e = Effect(p, heard, ScopeHint(Rewritten(heard, o), Matched(heard)),
                       IF Matched(heard) = {} THEN NoCatalog ELSE NarrowedTo(Matched(heard)))
    BY <2>1 DEF Observed
  <2>3. e.rewrite = ScopeHint(Rewritten(heard, o), Matched(heard))
    BY <1>3, <2>2 DEF Effect
  <2>4. result.message = ScopeHint(Rewritten(heard, o), Matched(heard))
    BY <1>3, <2>3, OwnMessage
  <2> QED
    BY <1>1, <2>4, RewriteAddsNothing
<1> QED
  BY <1>2, <1>3

MessageInv == RegisteredInv /\ EffectsInv /\ MergedInv /\ CatalogInv /\ ObservedInv /\ HeardInv

LEMMA MessageInvariant == Spec => []MessageInv
<1>1. Init => MessageInv
  BY RegisteredInit, EffectsInit, MergedInit, CatalogInit, HeardInit DEF MessageInv
<1>2. MessageInv /\ [Next]_vars => MessageInv'
  BY RegisteredNext, EffectsNext, MergedNext, CatalogNext, ObservedNext, HeardNext DEF MessageInv
<1> QED
  BY <1>1, <1>2, PTL DEF Spec

\* For whatever names: where the values of no two candidates can overlap,
\* putting them in place of aliases, and a data type in front, brings up no
\* candidate that was not mentioned.
THEOREM RewriteCorrect == ValuesApart => (Spec => []RewriteNamesNothingNew)
<1> SUFFICES ASSUME ValuesApart PROVE Spec => []RewriteNamesNothingNew
  OBVIOUS
<1>1. MessageInv => RewriteNamesNothingNew
  BY MessageAddsNothing DEF MessageInv
<1> QED
  BY <1>1, MessageInvariant, PTL

\* ... and as no other processor of the repository rewrites a message or
\* brings a catalog, the catalog serves the message whatever it is.
THEOREM OwnCatalogCorrect == ValuesApart => (Spec => [](OwnRewrites => CatalogServesMessage))
<1> SUFFICES ASSUME ValuesApart PROVE Spec => [](OwnRewrites => CatalogServesMessage)
  OBVIOUS
<1>1. MessageInv => (OwnRewrites => CatalogServesMessage)
  <2> SUFFICES ASSUME MessageInv, OwnRewrites, Finished PROVE CatalogServesMessage
    BY DEF CatalogServesMessage
  <2>1. NamesNothingNew
    BY MessageAddsNothing DEF MessageInv, RewriteNamesNothingNew
  <2> QED
    BY <2>1, LastCatalog, NarrowedServes DEF MessageInv
<1> QED
  BY <1>1, MessageInvariant, PTL

----------------------------------------------------------------------------
(* Texts put together, place by place.                                     *)

\* F goes from its i-1st text to its ith.
Extends(F, g, i, W) ==
    /\ F[i - 1] \in Seq(W) /\ F[i] \in Seq(W) /\ g[i] \in Seq(W)
    /\ F[i] = F[i - 1] \o g[i]
    /\ Len(F[i - 1]) \in Nat /\ Len(F[i]) \in Nat /\ Len(g[i]) \in Nat
    /\ Len(F[i]) = Len(F[i - 1]) + Len(g[i])

LEMMA FlatExtends ==
    ASSUME NEW W, NEW n \in Nat \ {0}, NEW g \in [1 .. n -> Seq(W)],
           NEW F, Flats(F, g, n, W)
    PROVE  \A i \in 1 .. n : Extends(F, g, i, W)
<1> SUFFICES ASSUME NEW i \in 1 .. n PROVE Extends(F, g, i, W)
  OBVIOUS
<1>1. i - 1 \in 0 .. n /\ i \in 0 .. n
  OBVIOUS
<1>2. F[i - 1] \in Seq(W) /\ F[i] \in Seq(W) /\ g[i] \in Seq(W) /\ F[i] = F[i - 1] \o g[i]
  BY <1>1 DEF Flats
<1>3. /\ Len(F[i - 1] \o g[i]) = Len(F[i - 1]) + Len(g[i])
      /\ Len(F[i - 1]) \in Nat /\ Len(g[i]) \in Nat
  BY <1>2, Joined
<1>4. Len(F[i]) \in Nat
  BY <1>2, <1>3
<1> QED
  BY <1>2, <1>3, <1>4 DEF Extends

\* The words of each text are in the whole, and nothing else is.
Placed(F, g, n) ==
    \A i \in 1 .. n : \A j \in 1 .. Len(g[i]) :
        /\ Len(F[i - 1]) + j \in 1 .. Len(F[n])
        /\ F[n][Len(F[i - 1]) + j] = g[i][j]

LEMMA FlatAt ==
    ASSUME NEW W, NEW n \in Nat \ {0}, NEW g \in [1 .. n -> Seq(W)],
           NEW F, Flats(F, g, n, W)
    PROVE  Placed(F, g, n)
<1> SUFFICES ASSUME NEW i \in 1 .. n, NEW j \in 1 .. Len(g[i])
             PROVE  /\ Len(F[i - 1]) + j \in 1 .. Len(F[n])
                    /\ F[n][Len(F[i - 1]) + j] = g[i][j]
  BY DEF Placed
<1> DEFINE p == Len(F[i - 1]) + j
           P(m) == p \in 1 .. Len(F[m]) /\ F[m][p] = g[i][j]
           T == {m \in Nat : i + m <= n => P(i + m)}
<1>1. \A k \in 1 .. n : Extends(F, g, k, W)
  BY FlatExtends
<1>2. p \in Nat \ {0}
  BY <1>1 DEF Extends
<1>3. 0 \in T
  <2>1. P(i)
    <3>1. /\ F[i - 1] \in Seq(W) /\ g[i] \in Seq(W) /\ F[i] = F[i - 1] \o g[i]
          /\ Len(F[i]) = Len(F[i - 1]) + Len(g[i]) /\ Len(F[i - 1]) \in Nat /\ Len(g[i]) \in Nat
      BY <1>1 DEF Extends
    <3>2. \A k \in 1 .. Len(g[i]) : (F[i - 1] \o g[i])[Len(F[i - 1]) + k] = g[i][k]
      <4>1. PICK s, t : s = F[i - 1] /\ t = g[i]
        OBVIOUS
      <4>2. s \in Seq(W) /\ t \in Seq(W)
        BY <3>1, <4>1
      <4>3. \A k \in 1 .. Len(t) : (s \o t)[Len(s) + k] = t[k]
        BY <4>2, Joined
      <4> QED
        BY <4>1, <4>3
    <3>3. F[i][p] = g[i][j]
      BY <3>1, <3>2
    <3>4. p \in 1 .. Len(F[i])
      BY <3>1
    <3> QED
      BY <3>3, <3>4
  <2> HIDE DEF P
  <2>2. i + 0 = i
    OBVIOUS
  <2> QED
    BY <2>1, <2>2
<1>4. ASSUME NEW m \in Nat, m \in T PROVE m + 1 \in T
  <2> SUFFICES ASSUME i + (m + 1) <= n PROVE P(i + (m + 1))
    <3> HIDE DEF P
    <3> QED
      OBVIOUS
  <2>1. i + m <= n /\ i + (m + 1) \in 1 .. n /\ (i + (m + 1)) - 1 = i + m
    OBVIOUS
  <2>2. P(i + m)
    <3> HIDE DEF P
    <3> QED
      BY <1>4, <2>1
  <2> DEFINE x == F[i + m]
             y == F[i + (m + 1)]
             t == g[i + (m + 1)]
  <2>3. x \in Seq(W) /\ t \in Seq(W) /\ y = x \o t
    BY <1>1, <2>1 DEF Extends
  <2>4. p \in 1 .. Len(x) /\ x[p] = g[i][j]
    BY <2>2
  <2> HIDE DEF x, y, t, p
  <2>5. Len(y) = Len(x) + Len(t) /\ Len(x) \in Nat /\ Len(t) \in Nat /\ \A k \in 1 .. Len(x) : y[k] = x[k]
    BY <2>3, Joined
  <2>6. p \in 1 .. Len(y) /\ y[p] = g[i][j]
    BY <2>4, <2>5
  <2> QED
    BY <2>6 DEF y
<1> HIDE DEF T
<1>5. n - i \in T /\ i + (n - i) = n /\ n - i \in Nat
  <2>1. Nat \subseteq T
    BY <1>3, <1>4, Induct
  <2> QED
    BY <2>1
<1>6. P(n)
  <2> HIDE DEF P
  <2> QED
    BY <1>5 DEF T
<1> QED
  BY <1>6

Covered(F, g, n) ==
    \A p \in 1 .. Len(F[n]) : \E i \in 1 .. n : \E j \in 1 .. Len(g[i]) : p = Len(F[i - 1]) + j

LEMMA FlatPlace ==
    ASSUME NEW W, NEW n \in Nat \ {0}, NEW g \in [1 .. n -> Seq(W)],
           NEW F, Flats(F, g, n, W)
    PROVE  Covered(F, g, n)
<1> SUFFICES ASSUME NEW p \in 1 .. Len(F[n])
             PROVE  \E i \in 1 .. n : \E j \in 1 .. Len(g[i]) : p = Len(F[i - 1]) + j
  BY DEF Covered
<1> DEFINE P(q) == \E i \in 1 .. n : \E j \in 1 .. Len(g[i]) : q = Len(F[i - 1]) + j
           T == {m \in Nat : m <= n => \A q \in 1 .. Len(F[m]) : P(q)}
<1>1. \A k \in 1 .. n : Extends(F, g, k, W)
  BY FlatExtends
<1>2. 0 \in T
  <2>1. Len(F[0]) = 0
    BY DEF Flats
  <2> HIDE DEF P
  <2> QED
    BY <2>1
<1>3. ASSUME NEW m \in Nat, m \in T PROVE m + 1 \in T
  <2> SUFFICES ASSUME m + 1 <= n, NEW q \in 1 .. Len(F[m + 1]) PROVE P(q)
    <3> HIDE DEF P
    <3> QED
      OBVIOUS
  <2>1. m + 1 \in 1 .. n /\ (m + 1) - 1 = m
    OBVIOUS
  <2>2. /\ Len(F[m]) \in Nat /\ Len(g[m + 1]) \in Nat
        /\ Len(F[m + 1]) = Len(F[m]) + Len(g[m + 1])
    BY <1>1, <2>1 DEF Extends
  <2>3. CASE q <= Len(F[m])
    <3>1. q \in 1 .. Len(F[m]) /\ m <= n
      BY <2>2, <2>3
    <3> HIDE DEF P
    <3> QED
      BY <1>3, <3>1
  <2>4. CASE q > Len(F[m])
    <3> DEFINE x == Len(F[m])
               y == Len(g[m + 1])
               j == q - x
    <3>1. x \in Nat /\ y \in Nat /\ q \in 1 .. x + y /\ q > x
      BY <2>2, <2>4
    <3>2. j \in 1 .. y /\ q = x + j
      <4> HIDE DEF x, y
      <4> QED
        BY <3>1
    <3> HIDE DEF j
    <3> QED
      BY <2>1, <3>2
  <2> QED
    BY <2>2, <2>3, <2>4
<1> HIDE DEF T
<1>4. n \in T
  BY <1>2, <1>3, Induct
<1> QED
  BY <1>4 DEF T

----------------------------------------------------------------------------
(* Replacing whole phrases.                                                *)

Regroups(r, s, t) == (r \o s) \o t = r \o (s \o t)

Associates(W) == \A r, s, t \in Seq(W) : Regroups(r, s, t)

LEMMA PuttingTogether == \A W : Associates(W)
  BY ConcatAssociative DEF Associates, Regroups

\* Text t stands after s words of msg, and a nowhere begins in it.
Untouched(t, a, msg, s) ==
    /\ s + Len(t) <= Len(msg)
    /\ \A j \in 1 .. Len(t) : msg[s + j] = t[j] /\ ~OccursAt(a, msg, s + j)

\* It is copied.
LEMMA CopyRun ==
    ASSUME NEW W, NEW msg \in Seq(W), NEW a, NEW v, NEW f, Scans(f, msg, a, v, W),
           NEW s \in Nat, NEW t \in Seq(W), Untouched(t, a, msg, s)
    PROVE  f[s + 1] = t \o f[s + Len(t) + 1]
<1> DEFINE m == Len(t)
           pre(k) == SubSeq(t, 1, k)
           P(k) == f[s + 1] = pre(k) \o f[s + k + 1]
           T == {k \in Nat : k <= m => P(k)}
<1>1. Associates(W)
  BY PuttingTogether
<1>2. m \in Nat /\ Len(msg) \in Nat
  OBVIOUS
<1>3. ASSUME NEW k \in 0 .. m PROVE f[s + k + 1] \in Seq(W)
  <2>1. s + k + 1 \in 1 .. Len(msg) + 1
    BY <1>2 DEF Untouched
  <2> QED
    BY <2>1 DEF Scans
<1>4. 0 \in T
  <2>1. pre(0) = <<>> /\ s + 0 + 1 = s + 1 /\ 0 \in 0 .. m
    BY <1>2
  <2>2. f[s + 1] \in Seq(W)
    BY <1>3, <2>1
  <2>3. P(0)
    BY <2>1, <2>2, ConcatEmptySeq
  <2> HIDE DEF P
  <2> QED
    BY <2>3
<1>5. ASSUME NEW k \in Nat, k \in T PROVE k + 1 \in T
  <2> SUFFICES ASSUME k + 1 <= m PROVE P(k + 1)
    <3> HIDE DEF P
    <3> QED
      OBVIOUS
  <2>1. /\ k <= m /\ k + 1 \in 1 .. m /\ k \in 0 .. m /\ k + 1 \in 0 .. m
        /\ s + k + 1 \in 1 .. Len(msg) /\ s + (k + 1) = s + k + 1
        /\ s + (k + 1) + 1 = (s + k + 1) + 1
    BY <1>2 DEF Untouched
  <2>2. P(k)
    <3> HIDE DEF P
    <3> QED
      BY <1>5, <2>1
  <2>3. msg[s + k + 1] = t[k + 1] /\ ~OccursAt(a, msg, s + k + 1)
    BY <2>1 DEF Untouched
  <2>4. f[s + k + 1] = <<t[k + 1]>> \o f[s + (k + 1) + 1]
    BY <2>1, <2>3 DEF Scans
  <2>5. pre(k) \in Seq(W) /\ t[k + 1] \in W /\ <<t[k + 1]>> \in Seq(W) /\ f[s + (k + 1) + 1] \in Seq(W)
    BY <1>3, <2>1
  <2>6. pre(k + 1) = pre(k) \o <<t[k + 1]>>
    <3>1. 1 \in 1 .. m /\ k + 1 \in 1 .. m /\ (k + 1) - 1 = k
      BY <1>2, <2>1
    <3> QED
      BY <3>1, SubSeqRecursiveSecond
  <2>7. (pre(k) \o <<t[k + 1]>>) \o f[s + (k + 1) + 1] = pre(k) \o (<<t[k + 1]>> \o f[s + (k + 1) + 1])
    <3>1. PICK x, y, z : x = pre(k) /\ y = <<t[k + 1]>> /\ z = f[s + (k + 1) + 1]
      OBVIOUS
    <3>2. x \in Seq(W) /\ y \in Seq(W) /\ z \in Seq(W)
      BY <2>5, <3>1
    <3>3. (x \o y) \o z = x \o (y \o z)
      <4>1. Regroups(x, y, z)
        BY <1>1, <3>2 DEF Associates
      <4> QED
        BY <4>1 DEF Regroups
    <3> HIDE DEF pre
    <3> QED
      BY <3>1, <3>3
  <2>8. f[s + 1] = pre(k) \o f[s + k + 1]
    BY <2>2
  <2> HIDE DEF pre
  <2> QED
    BY <2>4, <2>6, <2>7, <2>8
<1> HIDE DEF T
<1>6. m \in T
  BY <1>2, <1>4, <1>5, Induct
<1>7. pre(m) = t
  OBVIOUS
<1>8. P(m)
  <2> HIDE DEF P
  <2> QED
    BY <1>6, <1>2 DEF T
<1> QED
  BY <1>7, <1>8

\* Of the texts g, that F puts together, only those that are a hold it.
Whole(a, msg, F, g, n) ==
    \A i \in 1 .. n :
        /\ g[i] # <<>>
        /\ \A j \in 1 .. Len(g[i]) :
              OccursAt(a, msg, Len(F[i - 1]) + j) => j = 1 /\ g[i] = a

Swapped(g, a, v, n) == [i \in 1 .. n |-> IF g[i] = a THEN v ELSE g[i]]

\* msg is the texts g, and new is the texts t, where v is in place of a.
Swaps(msg, g, F, new, t, E, a, v, n, W) ==
    /\ g \in [1 .. n -> Seq(W)] /\ Flats(F, g, n, W) /\ msg = F[n]
    /\ a \in Seq(W) /\ a # <<>> /\ v \in Seq(W)
    /\ t = Swapped(g, a, v, n) /\ Flats(E, t, n, W) /\ new = E[n]
    /\ Whole(a, msg, F, g, n)

\* Then replacing a by v leads from one to the other.
LEMMA ReplacesWhole ==
    ASSUME NEW W, NEW n \in Nat \ {0}, NEW g, NEW F, NEW msg, NEW a, NEW v, NEW E, NEW t, NEW new,
           Swaps(msg, g, F, new, t, E, a, v, n, W)
    PROVE  Replaced(msg, a, v) = new
<1> SUFFICES Replaced(msg, a, v) = E[n]
  BY DEF Swaps
<1>1. /\ g \in [1 .. n -> Seq(W)] /\ Flats(F, g, n, W) /\ msg = F[n]
       /\ a \in Seq(W) /\ a # <<>> /\ v \in Seq(W)
       /\ t = Swapped(g, a, v, n) /\ Flats(E, t, n, W)
       /\ Whole(a, msg, F, g, n)
  BY DEF Swaps
<1>2. Associates(W)
  BY PuttingTogether
<1>3. t \in [1 .. n -> Seq(W)]
  BY <1>1 DEF Swapped
<1>4. n \in 0 .. n /\ 0 \in 0 .. n
  OBVIOUS
<1>5. Placed(F, g, n)
  BY <1>1, FlatAt
<1>6. msg \in Seq(W)
  BY <1>1, <1>4 DEF Flats
<1>7. msg \in Seq(W) /\ F[0] = <<>> /\ E[0] = <<>>
  BY <1>1, <1>4 DEF Flats
<1>8. PICK f : Scans(f, msg, a, v, W) /\ Replaced(msg, a, v) = f[1]
  BY <1>1, <1>6, ReplacedScans
<1>9. \A i \in 1 .. n : Extends(F, g, i, W) /\ Extends(E, t, i, W)
  BY <1>1, <1>3, FlatExtends
<1>10. ASSUME NEW i \in 1 .. n, NEW j \in 1 .. Len(g[i])
      PROVE  Len(F[i - 1]) + j \in 1 .. Len(msg) /\ msg[Len(F[i - 1]) + j] = g[i][j]
  BY <1>1, <1>5 DEF Placed
<1>11. /\ f \in [1 .. Len(msg) + 1 -> Seq(W)] /\ f[Len(msg) + 1] = <<>>
      /\ \A i \in 1 .. Len(msg) : OccursAt(a, msg, i) => f[i] = v \o f[i + Len(a)]
  BY <1>8 DEF Scans
<1>12. Len(msg) \in Nat
  BY <1>7
<1>13. Len(a) \in Nat \ {0}
  BY <1>1
<1> DEFINE P(m) == f[1] = E[m] \o f[Len(F[m]) + 1] /\ Len(F[m]) + 1 \in 1 .. Len(msg) + 1
           T == {m \in Nat : m <= n => P(m)}
<1>14. 0 \in T
  <2>1. Len(F[0]) + 1 = 1 /\ 1 \in 1 .. Len(msg) + 1
    BY <1>7, <1>12
  <2>2. f[1] \in Seq(W)
    BY <1>11, <2>1
  <2>3. <<>> \o f[1] = f[1]
    BY <2>2, ConcatEmptySeq
  <2>4. P(0)
    BY <1>7, <2>1, <2>3
  <2> HIDE DEF P
  <2> QED
    BY <2>4
<1>15. ASSUME NEW m \in Nat, m \in T PROVE m + 1 \in T
  <2> SUFFICES ASSUME m + 1 <= n PROVE P(m + 1)
    <3> HIDE DEF P
    <3> QED
      OBVIOUS
  <2>1. PICK i \in 1 .. n : i = m + 1 /\ i - 1 = m /\ m <= n
    OBVIOUS
  <2>2. P(m)
    <3> HIDE DEF P
    <3> QED
      BY <1>15, <2>1
  <2> DEFINE s == Len(F[i - 1])
             k == Len(g[i])
  <2>3. s \in Nat /\ k \in Nat \ {0} /\ Len(F[i]) = s + k /\ g[i] \in Seq(W) /\ g[i] # <<>>
    <3>1. g[i] \in Seq(W) /\ g[i] # <<>>
      BY <1>1 DEF Whole
    <3>2. k # 0
      BY <3>1
    <3> QED
      BY <1>9, <3>1, <3>2 DEF Extends
  <2>4. \A j \in 1 .. k : s + j \in 1 .. Len(msg) /\ msg[s + j] = g[i][j]
    BY <1>10
  <2>5. E[i] = E[m] \o t[i] /\ E[m] \in Seq(W) /\ t[i] \in Seq(W)
    BY <1>9, <2>1 DEF Extends
  <2>6. t[i] = IF g[i] = a THEN v ELSE g[i]
    BY <1>1 DEF Swapped
  <2>7. f[1] = E[m] \o f[s + 1]
    BY <2>1, <2>2
  <2>8. \A j \in 1 .. k : OccursAt(a, msg, s + j) => j = 1 /\ g[i] = a
    BY <1>1 DEF Whole
  <2>9. 1 \in 1 .. k /\ k \in 1 .. k
    BY <2>3
  <2> HIDE DEF s, k, P
  <2>10. s + k \in 1 .. Len(msg)
    BY <2>4, <2>9
  <2>11. s + k + 1 \in 1 .. Len(msg) + 1 /\ s + k <= Len(msg)
    BY <1>12, <2>3, <2>10
  <2>12. f[s + 1] = t[i] \o f[s + k + 1]
    <3>1. CASE g[i] = a
      <4>1. \A x \in 1 .. Len(a) : s + x \in 1 .. Len(msg) /\ msg[s + x] = a[x]
        BY <2>4, <3>1 DEF k
      <4>2. \A x \in 1 .. Len(a) : (s + 1) + x - 1 = s + x
        BY <2>3
      <4>3. Begins(a, 1, msg, s + 1)
        BY <4>1, <4>2 DEF Begins
      <4>4. s + 1 \in Nat \ {0} /\ s + 1 \in 1 .. Len(msg)
        BY <2>3, <2>4, <2>9
      <4>5. OccursAt(a, msg, s + 1)
        BY <1>1, <1>7, <4>3, <4>4, OccursBegins
      <4>6. f[s + 1] = v \o f[(s + 1) + Len(a)]
        BY <1>11, <4>4, <4>5
      <4>7. (s + 1) + Len(a) = s + k + 1
        BY <1>13, <2>3, <3>1 DEF k
      <4> QED
        BY <2>6, <3>1, <4>6, <4>7
    <3>2. CASE g[i] # a
      <4>1. Untouched(g[i], a, msg, s)
        BY <2>4, <2>11, <2>8, <3>2 DEF Untouched, k
      <4>2. PICK x : x = g[i]
        OBVIOUS
      <4>3. x \in Seq(W) /\ s \in Nat /\ Untouched(x, a, msg, s)
        BY <2>3, <4>1, <4>2
      <4>4. Scans(f, msg, a, v, W)
        BY <1>8
      <4>5. f[s + 1] = x \o f[s + Len(x) + 1]
        BY <1>6, <4>3, <4>4, CopyRun
      <4> QED
        BY <2>6, <3>2, <4>2, <4>5 DEF k
    <3> QED
      BY <3>1, <3>2
  <2>13. f[s + k + 1] \in Seq(W)
    BY <1>11, <2>11
  <2>14. (E[m] \o t[i]) \o f[s + k + 1] = E[m] \o (t[i] \o f[s + k + 1])
    BY <1>2, <2>5, <2>13 DEF Associates, Regroups
  <2>15. f[1] = E[i] \o f[Len(F[i]) + 1] /\ Len(F[i]) + 1 = s + k + 1
    <3>1. f[1] = E[i] \o f[s + k + 1]
      BY <2>5, <2>7, <2>12, <2>14
    <3> QED
      BY <2>3, <3>1
  <2>16. P(i)
    BY <2>11, <2>15 DEF P
  <2> QED
    BY <2>1, <2>16
<1> HIDE DEF T
<1>16. n \in T
  BY <1>14, <1>15, Induct
<1>17. P(n)
  <2> HIDE DEF P
  <2> QED
    BY <1>16 DEF T
<1>18. E[n] \in Seq(W)
  BY <1>1, <1>4 DEF Flats
<1>19. E[n] \o <<>> = E[n]
  BY <1>18, ConcatEmptySeq
<1> QED
  BY <1>1, <1>8, <1>11, <1>17, <1>19

----------------------------------------------------------------------------
(* What is left of the phrases said.                                       *)

WordsOf(c) == UNION {ToSet(n) : n \in Names(c)}

\* S are the candidates meant by the n phrases of m, told apart by their words.
Tells(m, n, S) ==
    /\ m \in [1 .. n -> Phrases]
    /\ S = {m[i].of : i \in 1 .. n} \ {NoOne}
    /\ Apart(S) /\ \A c \in S : Legible(c)

\* o lists all replacements of S, names of a candidate longest first.
Replacing(o, q, S) ==
    /\ o \in [1 .. q -> Replacements(S)]
    /\ \A r \in Replacements(S) : \E k \in 1 .. q : o[k] = r
    /\ \A k, l \in 1 .. q : k < l /\ o[k].of = o[l].of => LongestFirst(o[k].alias, o[l].alias)

Done(p, o, k) == \E l \in 1 .. k : o[l].of = p.of /\ o[l].alias = p.words

\* The phrases after the first k replacements.
After(m, n, o, k) == [i \in 1 .. n |-> IF Done(m[i], o, k) THEN ValueOf[m[i].of] ELSE m[i].words]

LEMMA ToldAreCandidates ==
    ASSUME NEW n, NEW m, NEW S, Tells(m, n, S)
    PROVE  /\ S \in SUBSET Candidates
           /\ \A i \in 1 .. n : /\ m[i] \in Phrases
                                /\ m[i].of = NoOne \/ m[i].of \in S
<1>1. \A i \in 1 .. n : m[i] \in Phrases
  BY DEF Tells
<1>2. \A i \in 1 .. n : m[i].of = NoOne \/ m[i].of \in Candidates
  BY <1>1, PhraseIsText
<1> QED
  BY <1>1, <1>2 DEF Tells

\* t is what stands for phrase p after k replacements.
StandsFor(t, p, S, o, k) ==
    \/ p.of = NoOne /\ t = p.words /\ \E w \in Filler : t = <<w>>
    \/ /\ p.of \in S /\ t \in Names(p.of)
       /\ t = ValueOf[p.of] \/ (t = p.words /\ ~Done(p, o, k))

LEMMA AfterStands ==
    ASSUME NEW n, NEW m, NEW S, Tells(m, n, S), NEW q \in Nat, NEW o, Replacing(o, q, S),
           NEW k \in 0 .. q, NEW i \in 1 .. n
    PROVE  /\ StandsFor(After(m, n, o, k)[i], m[i], S, o, k)
           /\ After(m, n, o, k)[i] \in Seq(AllWords) /\ After(m, n, o, k)[i] # <<>>
<1> DEFINE t == After(m, n, o, k)[i]
           p == m[i]
<1>1. S \in SUBSET Candidates /\ p \in Phrases /\ (p.of = NoOne \/ p.of \in S)
  BY ToldAreCandidates
<1>2. t = IF Done(p, o, k) THEN ValueOf[p.of] ELSE p.words
  BY DEF After
<1>3. /\ p.words \in Seq(AllWords) /\ p.words # <<>>
      /\ \/ p.of \in Candidates /\ p.words \in Names(p.of)
         \/ p.of = NoOne /\ \E w \in Filler : p.words = <<w>>
  BY <1>1, PhraseIsText
<1> HIDE DEF t, p
<1>4. CASE p.of = NoOne
  <2>1. p.of \notin Candidates
    BY <1>4, NamesAssumption
  <2>2. ASSUME NEW l \in 1 .. k PROVE o[l].of # p.of
    <3>1. l \in 1 .. q
      OBVIOUS
    <3>2. o[l] \in Replacements(S)
      BY <3>1 DEF Replacing
    <3>3. o[l].of \in S
      BY <1>1, <3>2, ReplacementIsText
    <3> QED
      BY <1>1, <2>1, <3>3
  <2>3. ~Done(p, o, k)
    BY <2>2 DEF Done
  <2> QED
    BY <1>2, <1>3, <1>4, <2>1, <2>3 DEF StandsFor, t, p
<1>5. CASE p.of # NoOne
  <2>1. p.of \in S /\ p.of \in Candidates /\ p.words \in Names(p.of)
    BY <1>1, <1>3, <1>5
  <2>2. ValueOf[p.of] \in Names(p.of)
    BY DEF Names
  <2>3. ValueOf[p.of] \in Seq(AllWords) /\ ValueOf[p.of] # <<>>
    BY <2>1, <2>2, NameIsText
  <2>4. CASE Done(p, o, k)
    BY <1>2, <2>1, <2>2, <2>3, <2>4 DEF StandsFor, t, p
  <2>5. CASE ~Done(p, o, k)
    BY <1>2, <1>3, <2>1, <2>5 DEF StandsFor, t, p
  <2> QED
    BY <2>4, <2>5
<1> QED
  BY <1>4, <1>5

LEMMA AfterIsText ==
    ASSUME NEW n, NEW m, NEW S, Tells(m, n, S), NEW q \in Nat, NEW o, Replacing(o, q, S),
           NEW k \in 0 .. q
    PROVE  After(m, n, o, k) \in [1 .. n -> Seq(AllWords)]
<1> DEFINE g == After(m, n, o, k)
<1>1. \A i \in 1 .. n : g[i] \in Seq(AllWords)
  BY AfterStands
<1>2. g = [i \in 1 .. n |-> g[i]]
  BY DEF After
<1> HIDE DEF g
<1>3. g \in [1 .. n -> Seq(AllWords)]
  BY <1>1, <1>2
<1> QED
  BY <1>3 DEF g

\* Only another name of the same candidate, not yet replaced, shares a word
\* with an alias.
LEMMA SharedWord ==
    ASSUME NEW S \in SUBSET Candidates, Apart(S), NEW o, NEW k, NEW p, NEW t,
           StandsFor(t, p, S, o, k), NEW c \in S, NEW a \in Aliases[c] \ {ValueOf[c]},
           NEW w, w \in ToSet(a), w \in ToSet(t)
    PROVE  /\ p.of = c /\ t = p.words /\ ~Done(p, o, k)
           /\ t \in Names(c) /\ t \in Aliases[c] \ {ValueOf[c]}
<1>1. a \in Names(c) /\ c \in Candidates
  BY DEF Names
<1>2. w \in WordsOf(c)
  BY <1>1 DEF WordsOf
<1>3. p.of # NoOne
  <2> SUFFICES ASSUME NEW x \in Filler, t = <<x>> PROVE FALSE
    BY NamesAssumption DEF StandsFor
  <2>1. ToSet(t) = {x}
    BY DEF ToSet
  <2>2. w \in Filler
    BY <2>1
  <2>3. ToSet(a) \cap Filler = {}
    BY <1>1, NamesAssumption
  <2> QED
    BY <2>2, <2>3
<1>4. p.of \in S /\ t \in Names(p.of) /\ (t = ValueOf[p.of] \/ (t = p.words /\ ~Done(p, o, k)))
  BY <1>3 DEF StandsFor
<1>5. p.of = c
  <2>1. w \in WordsOf(p.of)
    BY <1>4 DEF WordsOf
  <2>2. c # p.of => WordsOf(c) \cap WordsOf(p.of) = {}
    BY <1>4 DEF Apart, WordsOf
  <2> QED
    BY <1>2, <2>1, <2>2
<1>6. t # ValueOf[c]
  <2>1. ToSet(a) \cap ToSet(ValueOf[c]) = {}
    BY DEF Apart
  <2> QED
    BY <2>1
<1>7. t \in Aliases[c]
  BY <1>4, <1>5, <1>6 DEF Names
<1> QED
  BY <1>4, <1>5, <1>6, <1>7

\* A name that stands in a name of its candidate not yet replaced is that name.
LEMMA NoShorterFirst ==
    ASSUME NEW S \in SUBSET Candidates, NEW q \in Nat, NEW o, Replacing(o, q, S),
           NEW k \in 1 .. q, NEW p, p.of = o[k].of, ~Done(p, o, k - 1),
           p.words \in Aliases[p.of] \ {ValueOf[p.of]}, Occurs(o[k].alias, p.words)
    PROVE  p.words = o[k].alias
<1> SUFFICES ASSUME p.words # o[k].alias PROVE FALSE
  OBVIOUS
<1> DEFINE r == [of |-> p.of, alias |-> p.words]
<1>1. o[k] \in Replacements(S)
  BY DEF Replacing
<1>2. o[k].of \in S /\ Kind[o[k].of] # "data_type"
  BY <1>1, ReplacementIsText
<1>3. p.of \in S \ OfKind("data_type")
  BY <1>2 DEF OfKind
<1>4. r \in Replacements(S)
  BY <1>3 DEF Replacements
<1>5. PICK l \in 1 .. q : o[l] = r
  BY <1>4 DEF Replacing
<1>6. o[l].of = p.of /\ o[l].alias = p.words
  BY <1>5
<1>7. l \notin 1 .. k - 1
  BY <1>6 DEF Done
<1>8. l # k
  BY <1>6
<1>9. k < l
  BY <1>7, <1>8
<1>10. LongestFirst(o[k].alias, o[l].alias)
  BY <1>6, <1>9 DEF Replacing
<1> QED
  BY <1>6, <1>10 DEF LongestFirst

\* A name that begins in a text and goes on after it runs on into the next.
LEMMA GoesOn ==
    ASSUME NEW a \in Seq(AllWords), NEW t \in Seq(AllWords), NEW u \in Seq(AllWords), u # <<>>,
           NEW j \in 1 .. Len(t), j + Len(a) - 1 > Len(t),
           \A x \in 1 .. Len(t) - j + 1 : a[x] = t[j + x - 1],
           a[Len(t) - j + 2] = u[1]
    PROVE  RunsOn(a, t, u)
<1> DEFINE k == Len(t) - j + 1
           lt == Len(t)
           la == Len(a)
<1>1. lt \in Nat /\ la \in Nat
  OBVIOUS
<1> HIDE DEF lt, la
<1>2. k \in 1 .. la - 1 /\ k <= lt /\ k + 1 = lt - j + 2
  BY <1>1 DEF lt, la
<1>3. \A i \in 1 .. k : lt - k + i = j + i - 1
  BY <1>1, <1>2 DEF lt
<1>4. \A i \in 1 .. k : a[i] = t[lt - k + i]
  BY <1>3 DEF lt
<1> HIDE DEF k
<1> QED
  BY <1>2, <1>4 DEF RunsOn, lt, la

\* What the next replacement is for stands in the message as a phrase of its
\* own, wherever it stands.
LEMMA AliasStandsWhole ==
    ASSUME NEW n \in Nat \ {0}, NEW m, NEW S, Tells(m, n, S), NEW q \in Nat, NEW o,
           Replacing(o, q, S), NEW k \in 1 .. q, NEW F, Flats(F, After(m, n, o, k - 1), n, AllWords),
           NEW msg, msg = F[n]
    PROVE  Whole(o[k].alias, msg, F, After(m, n, o, k - 1), n)
<1> DEFINE g == After(m, n, o, k - 1)
           a == o[k].alias
           c == o[k].of
<1>1. k - 1 \in 0 .. q /\ S \in SUBSET Candidates /\ Apart(S) /\ \A d \in S : Legible(d)
  BY ToldAreCandidates DEF Tells
<1>2. o[k] \in Replacements(S)
  BY DEF Replacing
<1>3. /\ a \in Seq(AllWords) /\ a # <<>> /\ c \in S /\ a \in Aliases[c] \ {ValueOf[c]}
  BY <1>1, <1>2, ReplacementIsText DEF Replaces
<1>4. \A i \in 1 .. n : StandsFor(g[i], m[i], S, o, k - 1) /\ g[i] \in Seq(AllWords) /\ g[i] # <<>>
  BY <1>1, AfterStands
<1>5. g \in [1 .. n -> Seq(AllWords)]
  BY <1>1, AfterIsText
<1>6. Placed(F, g, n) /\ \A i \in 1 .. n : Extends(F, g, i, AllWords)
  BY <1>5, FlatAt, FlatExtends
<1>7. msg \in Seq(AllWords)
  <2>1. n \in 0 .. n
    OBVIOUS
  <2> QED
    BY <2>1 DEF Flats
<1>8. Len(a) \in Nat \ {0} /\ Len(msg) \in Nat
  BY <1>3, <1>7
<1> HIDE DEF g, a, c
<1>9. ASSUME NEW i \in 1 .. n, NEW x \in 1 .. Len(a), NEW y \in 1 .. Len(g[i]), a[x] = g[i][y]
      PROVE  /\ m[i].of = c /\ g[i] = m[i].words /\ ~Done(m[i], o, k - 1)
             /\ g[i] \in Names(c) /\ g[i] \in Aliases[c] \ {ValueOf[c]}
  <2>1. a[x] \in ToSet(a) /\ a[x] \in ToSet(g[i])
    <3>1. x \in DOMAIN a /\ y \in DOMAIN g[i]
      BY <1>3, <1>4
    <3> QED
      BY <1>9, <3>1 DEF ToSet
  <2>2. StandsFor(g[i], m[i], S, o, k - 1)
    BY <1>4
  <2> QED
    BY <1>1, <1>3, <2>1, <2>2, SharedWord
<1>10. ASSUME NEW i \in 1 .. n, NEW j \in 1 .. Len(g[i]), OccursAt(a, msg, Len(F[i - 1]) + j)
       PROVE  j = 1 /\ g[i] = a
  <2> DEFINE t == g[i]
             s == Len(F[i - 1])
             lt == Len(g[i])
             la == Len(a)
  <2>1. t \in Seq(AllWords) /\ t # <<>> /\ s \in Nat /\ lt \in Nat /\ Len(F[i]) = s + lt
        /\ lt = Len(t)
    BY <1>4, <1>6 DEF Extends
  <2>2. \A y \in 1 .. lt : s + y \in 1 .. Len(msg) /\ msg[s + y] = t[y]
    BY <1>6 DEF Placed
  <2>3. \A x \in 1 .. la : s + j + x - 1 \in 1 .. Len(msg) /\ msg[s + j + x - 1] = a[x]
    <3>1. s + j \in Nat \ {0}
      BY <2>1
    <3>2. Begins(a, 1, msg, s + j)
      BY <1>3, <1>7, <1>10, <3>1, OccursBegins
    <3> QED
      BY <3>2 DEF Begins
  <2>4. j \in 1 .. lt
    OBVIOUS
  <2>5. /\ m[i].of = c /\ t = m[i].words /\ ~Done(m[i], o, k - 1)
        /\ t \in Names(c) /\ t \in Aliases[c] \ {ValueOf[c]}
    <3>1. 1 \in 1 .. la /\ s + j + 1 - 1 = s + j
      BY <1>8, <2>1, <2>4
    <3>2. a[1] = t[j]
      BY <2>2, <2>3, <2>4, <3>1
    <3> QED
      BY <1>9, <2>4, <3>1, <3>2
  <2> HIDE DEF t, s, lt, la
  <2>6. la \in Nat \ {0}
    BY <1>8 DEF la
  <2>7. CASE j + la - 1 <= lt
    <3>1. \A x \in 1 .. la : /\ j + x - 1 \in 1 .. lt
                             /\ s + (j + x - 1) = s + j + x - 1
      BY <2>1, <2>4, <2>6, <2>7
    <3>2. \A x \in 1 .. la : j + x - 1 \in 1 .. lt /\ t[j + x - 1] = a[x]
      BY <2>2, <2>3, <3>1
    <3>3. Begins(a, 1, t, j)
      BY <2>1, <3>2 DEF Begins, la
    <3>4. OccursAt(a, t, j)
      BY <1>3, <2>1, <2>4, <3>3, OccursBegins
    <3>5. Occurs(a, t)
      <4>1. j \in DOMAIN t
        BY <2>1, <2>4
      <4> QED
        BY <3>4, <4>1 DEF Occurs
    <3>6. t = a
      <4>1. m[i].words = o[k].alias
        BY <1>1, <2>5, <3>5, NoShorterFirst DEF a, c
      <4> QED
        BY <2>5, <4>1 DEF a
    <3>7. j = 1
      <4>1. lt = la
        BY <2>1, <3>6 DEF la
      <4> QED
        BY <2>4, <2>6, <2>7, <4>1
    <3> QED
      BY <3>6, <3>7 DEF t
  <2>8. CASE j + la - 1 > lt
    <3> DEFINE x == lt - j + 2
    <3>1. x \in 1 .. la /\ s + j + x - 1 = Len(F[i]) + 1
      BY <2>1, <2>4, <2>6, <2>8
    <3>2. Len(F[i]) + 1 \in 1 .. Len(msg) /\ msg[Len(F[i]) + 1] = a[x]
      BY <2>3, <3>1
    <3>3. i # n
      BY <1>8, <3>2
    <3>4. i + 1 \in 1 .. n /\ (i + 1) - 1 = i
      BY <3>3
    <3> DEFINE u == g[i + 1]
    <3>5. u \in Seq(AllWords) /\ u # <<>> /\ 1 \in 1 .. Len(u)
      <4>1. u \in Seq(AllWords) /\ u # <<>>
        BY <1>4, <3>4
      <4> HIDE DEF u
      <4> QED
        BY <4>1
    <3>6. msg[Len(F[i]) + 1] = u[1]
      BY <1>6, <3>4, <3>5 DEF Placed
    <3> HIDE DEF x
    <3>7. u \in Names(c)
      <4>1. x \in 1 .. Len(a) /\ 1 \in 1 .. Len(g[i + 1]) /\ a[x] = g[i + 1][1]
        BY <3>1, <3>2, <3>5, <3>6 DEF la
      <4> QED
        BY <1>9, <3>4, <4>1
    <3>8. \A y \in 1 .. lt - j + 1 : a[y] = t[j + y - 1]
      <4>1. \A y \in 1 .. lt - j + 1 : /\ y \in 1 .. la /\ j + y - 1 \in 1 .. lt
                                       /\ s + (j + y - 1) = s + j + y - 1
        BY <2>1, <2>4, <2>6, <2>8
      <4> QED
        BY <2>2, <2>3, <4>1
    <3>9. a[lt - j + 2] = u[1]
      BY <3>2, <3>6 DEF x
    <3>10. RunsOn(a, t, u)
      <4> HIDE DEF u
      <4> QED
        BY <1>3, <2>1, <2>4, <2>8, <3>5, <3>8, <3>9, GoesOn DEF la
    <3>11. Legible(c)
      BY <1>1, <1>3
    <3> QED
      BY <1>3, <2>5, <3>7, <3>10, <3>11 DEF Legible
  <2> QED
    BY <2>1, <2>4, <2>6, <2>7, <2>8
<1>11. Whole(a, msg, F, g, n)
  BY <1>4, <1>10 DEF Whole
<1> QED
  BY <1>11 DEF g, a

\* Replacing it gives the phrases after one replacement more.
LEMMA AfterNext ==
    ASSUME NEW n \in Nat \ {0}, NEW m, NEW S, Tells(m, n, S), NEW q \in Nat, NEW o,
           Replacing(o, q, S), NEW k \in 1 .. q
    PROVE  Swapped(After(m, n, o, k - 1), o[k].alias, ValueOf[o[k].of], n) = After(m, n, o, k)
<1> DEFINE g == After(m, n, o, k - 1)
           h == After(m, n, o, k)
           a == o[k].alias
           c == o[k].of
<1>1. k - 1 \in 0 .. q /\ S \in SUBSET Candidates /\ Apart(S)
  BY ToldAreCandidates DEF Tells
<1>2. o[k] \in Replacements(S)
  BY DEF Replacing
<1>3. /\ a \in Seq(AllWords) /\ a # <<>> /\ c \in S /\ a \in Aliases[c] \ {ValueOf[c]}
  BY <1>1, <1>2, ReplacementIsText DEF Replaces
<1>4. ASSUME NEW i \in 1 .. n PROVE (IF g[i] = a THEN ValueOf[c] ELSE g[i]) = h[i]
  <2> DEFINE p == m[i]
  <2>1. g[i] = IF Done(p, o, k - 1) THEN ValueOf[p.of] ELSE p.words
    BY DEF After
  <2>2. h[i] = IF Done(p, o, k) THEN ValueOf[p.of] ELSE p.words
    BY DEF After
  <2>3. Done(p, o, k) <=> Done(p, o, k - 1) \/ (c = p.of /\ a = p.words)
    <3>1. \A l : l \in 1 .. k <=> l \in 1 .. k - 1 \/ l = k
      OBVIOUS
    <3> QED
      BY <3>1 DEF Done
  <2>4. StandsFor(g[i], p, S, o, k - 1)
    BY <1>1, AfterStands
  <2> HIDE DEF p, g, h, a, c
  <2>5. CASE g[i] = a
    <3>1. 1 \in DOMAIN a
      BY <1>3
    <3>2. a[1] \in ToSet(a)
      BY <3>1 DEF ToSet
    <3>3. p.of = c /\ g[i] = p.words /\ ~Done(p, o, k - 1)
      BY <1>1, <1>3, <2>4, <2>5, <3>2, SharedWord
    <3> QED
      BY <2>2, <2>3, <2>5, <3>3
  <2>6. CASE g[i] # a
    BY <2>1, <2>2, <2>3, <2>6
  <2> QED
    BY <2>5, <2>6
<1>5. h = [i \in 1 .. n |-> h[i]]
  BY DEF After
<1> HIDE DEF g, h, a, c
<1> QED
  BY <1>4, <1>5 DEF Swapped, g, h, a, c

\* What the user said, each candidate by its value, a data type as he put it.
Body(m) == [i \in DOMAIN m |-> IF m[i].of = NoOne \/ Kind[m[i].of] = "data_type"
                               THEN m[i].words ELSE ValueOf[m[i].of]]

LEMMA RewrittenIsBody ==
    ASSUME NEW n \in Nat \ {0}, NEW m, NEW S, Tells(m, n, S), NEW q \in Nat, NEW o,
           Replacing(o, q, S)
    PROVE  Rewritten(Words(m), o) = FlattenSeq(After(m, n, o, q))
<1> DEFINE msg == Words(m)
           P(k, h) == h[k] = FlattenSeq(After(m, n, o, k))
<1>1. S \in SUBSET Candidates /\ m \in [1 .. n -> Phrases] /\ \A i \in 1 .. n : m[i] \in Phrases
  BY ToldAreCandidates DEF Tells
<1>2. msg \in Seq(AllWords)
  BY <1>1, WordsAreText
<1>3. DOMAIN o = 1 .. q /\ \A k \in 1 .. q : Replaces(o[k], AllWords)
  BY <1>1, ReplacementIsText DEF Replacing
<1>4. msg = FlattenSeq(After(m, n, o, 0))
  <2>1. After(m, n, o, 0) = [i \in DOMAIN m |-> m[i].words]
    BY <1>1 DEF After, Done
  <2> QED
    BY <2>1 DEF Words
<1> HIDE DEF msg
<1>5. PICK h : RewriteRuns(h, msg, o, q, AllWords) /\ Rewritten(msg, o) = h[q]
  BY <1>2, <1>3, RewrittenSteps
<1> DEFINE T == {k \in Nat : k <= q => P(k, h)}
<1>6. 0 \in T
  BY <1>4, <1>5 DEF RewriteRuns
<1>7. ASSUME NEW k \in Nat, k \in T PROVE k + 1 \in T
  <2> SUFFICES ASSUME k + 1 <= q PROVE P(k + 1, h)
    <3> HIDE DEF P
    <3> QED
      OBVIOUS
  <2>1. PICK l \in 1 .. q : l = k + 1 /\ l - 1 = k /\ k <= q
    OBVIOUS
  <2>2. l - 1 \in 0 .. q /\ l \in 0 .. q
    OBVIOUS
  <2> DEFINE g == After(m, n, o, l - 1)
             e == After(m, n, o, l)
  <2>3. g \in [1 .. n -> Seq(AllWords)] /\ e \in [1 .. n -> Seq(AllWords)]
    BY <2>2, AfterIsText
  <2> HIDE DEF g, e
  <2>4. PICK F : Flats(F, g, n, AllWords) /\ FlattenSeq(g) = F[n]
    BY <2>3, FlattenSteps
  <2>5. PICK E : Flats(E, e, n, AllWords) /\ FlattenSeq(e) = E[n]
    BY <2>3, FlattenSteps
  <2>6. h[l - 1] = F[n]
    <3>1. P(k, h)
      <4> HIDE DEF P
      <4> QED
        BY <1>7, <2>1
    <3> QED
      BY <2>1, <2>4, <3>1 DEF g
  <2>7. PICK x : x = h[l - 1]
    OBVIOUS
  <2>8. Whole(o[l].alias, x, F, g, n)
    BY <2>4, <2>6, <2>7, AliasStandsWhole DEF g
  <2>9. Swapped(g, o[l].alias, ValueOf[o[l].of], n) = e
    BY AfterNext DEF g, e
  <2>10. /\ o[l].alias \in Seq(AllWords) /\ o[l].alias # <<>>
         /\ ValueOf[o[l].of] \in Seq(AllWords)
    BY <1>3 DEF Replaces
  <2>11. Replaced(x, o[l].alias, ValueOf[o[l].of]) = E[n]
    <3>1. PICK a, v : a = o[l].alias /\ v = ValueOf[o[l].of]
      OBVIOUS
    <3>2. a \in Seq(AllWords) /\ a # <<>> /\ v \in Seq(AllWords)
      BY <2>10, <3>1
    <3>3. Swaps(x, g, F, E[n], e, E, a, v, n, AllWords)
      BY <2>3, <2>4, <2>5, <2>6, <2>7, <2>8, <2>9, <3>1, <3>2 DEF Swaps
    <3>4. Replaced(x, a, v) = E[n]
      BY <3>3, ReplacesWhole
    <3> QED
      BY <3>1, <3>4
  <2>12. h[l] = E[n]
    BY <1>5, <2>7, <2>11 DEF RewriteRuns, Replace
  <2> QED
    BY <2>1, <2>5, <2>12 DEF e
<1> HIDE DEF T
<1>8. q \in T
  BY <1>6, <1>7, Induct
<1>9. P(q, h)
  <2> HIDE DEF P
  <2> QED
    BY <1>8 DEF T
<1> QED
  BY <1>5, <1>9 DEF msg

LEMMA AfterIsBody ==
    ASSUME NEW n \in Nat \ {0}, NEW m, NEW S, Tells(m, n, S), NEW q \in Nat, NEW o,
           Replacing(o, q, S)
    PROVE  After(m, n, o, q) = Body(m)
<1>1. m \in [1 .. n -> Phrases] /\ S \in SUBSET Candidates
  BY ToldAreCandidates DEF Tells
<1>2. ASSUME NEW i \in 1 .. n
      PROVE  After(m, n, o, q)[i] = IF m[i].of = NoOne \/ Kind[m[i].of] = "data_type"
                                    THEN m[i].words ELSE ValueOf[m[i].of]
  <2> DEFINE p == m[i]
  <2>1. After(m, n, o, q)[i] = IF Done(p, o, q) THEN ValueOf[p.of] ELSE p.words
    BY DEF After
  <2>2. p \in Phrases /\ (p.of = NoOne \/ p.of \in S)
    BY ToldAreCandidates
  <2>3. /\ p.of \in Candidates /\ p.words \in Names(p.of)
        \/ p.of = NoOne
    BY <2>2, PhraseIsText
  <2>4. ASSUME Done(p, o, q) PROVE p.of # NoOne /\ Kind[p.of] # "data_type"
    <3>1. PICK l \in 1 .. q : o[l].of = p.of
      BY <2>4 DEF Done
    <3>2. o[l] \in Replacements(S)
      BY DEF Replacing
    <3>3. p.of \in S /\ Kind[p.of] # "data_type"
      BY <1>1, <3>1, <3>2, ReplacementIsText
    <3> QED
      BY <1>1, <3>3, NamesAssumption
  <2>5. ASSUME ~Done(p, o, q), p.of # NoOne, Kind[p.of] # "data_type"
        PROVE  p.words = ValueOf[p.of]
    <3> SUFFICES ASSUME p.words # ValueOf[p.of] PROVE FALSE
      OBVIOUS
    <3>1. p.of \in S \ OfKind("data_type") /\ p.words \in Aliases[p.of] \ {ValueOf[p.of]}
      BY <2>2, <2>3, <2>5 DEF Names, OfKind
    <3> DEFINE r == [of |-> p.of, alias |-> p.words]
    <3>2. r \in Replacements(S)
      BY <3>1 DEF Replacements
    <3>3. PICK l \in 1 .. q : o[l] = r
      BY <3>2 DEF Replacing
    <3>4. o[l].of = p.of /\ o[l].alias = p.words
      BY <3>3
    <3> QED
      BY <2>5, <3>4 DEF Done
  <2> HIDE DEF p
  <2> QED
    BY <2>1, <2>4, <2>5 DEF p
<1>3. DOMAIN m = 1 .. n
  BY <1>1
<1>4. After(m, n, o, q) = [i \in 1 .. n |-> After(m, n, o, q)[i]]
  BY DEF After
<1> HIDE <1>1
<1> QED
  BY <1>2, <1>3, <1>4 DEF Body

\* The candidates found in a message are those it means.
LEMMA MatchedIsMeant ==
    ASSUME NEW n \in Nat \ {0}, NEW m, NEW S, Tells(m, n, S)
    PROVE  Matched(Words(m)) = S /\ Words(m) # <<>>
<1> DEFINE g == [i \in DOMAIN m |-> m[i].words]
<1>1. /\ m \in [1 .. n -> Phrases] /\ S \in SUBSET Candidates /\ Apart(S)
      /\ \A i \in 1 .. n : m[i] \in Phrases /\ (m[i].of = NoOne \/ m[i].of \in S)
  BY ToldAreCandidates DEF Tells
<1>2. g \in [1 .. n -> Seq(AllWords)] /\ \A i \in 1 .. n : g[i] = m[i].words
  BY <1>1, PhraseIsText
<1>3. /\ \A i \in 1 .. n : g[i] \in Seq(AllWords) /\ g[i] # <<>> /\ 1 \in 1 .. Len(g[i])
  <2> SUFFICES ASSUME NEW i \in 1 .. n
               PROVE  g[i] \in Seq(AllWords) /\ g[i] # <<>> /\ 1 \in 1 .. Len(g[i])
    OBVIOUS
  <2>1. g[i] \in Seq(AllWords) /\ g[i] # <<>>
    BY <1>1, <1>2, PhraseIsText
  <2> HIDE DEF g
  <2> QED
    BY <2>1
<1>4. Words(m) = FlattenSeq(g)
  BY DEF Words
<1> HIDE DEF g
<1>5. PICK F : Flats(F, g, n, AllWords) /\ FlattenSeq(g) = F[n]
  BY <1>2, FlattenSteps
<1>6. PICK msg : msg = Words(m)
  OBVIOUS
<1>7. /\ msg = F[n] /\ Placed(F, g, n) /\ Covered(F, g, n)
      /\ \A i \in 1 .. n : Extends(F, g, i, AllWords)
  BY <1>2, <1>4, <1>5, <1>6, FlatAt, FlatPlace, FlatExtends
<1>8. msg \in Seq(AllWords)
  BY <1>1, <1>6, WordsAreText
<1>9. ASSUME NEW i \in 1 .. n, NEW j \in 1 .. Len(g[i])
      PROVE  Len(F[i - 1]) + j \in 1 .. Len(msg) /\ msg[Len(F[i - 1]) + j] = g[i][j]
  BY <1>7 DEF Placed
<1>10. msg # <<>>
  <2>1. 1 \in 1 .. n
    OBVIOUS
  <2>2. Len(F[1 - 1]) + 1 \in 1 .. Len(msg)
    BY <1>3, <1>9, <2>1
  <2> QED
    BY <2>2
<1>11. ASSUME NEW c \in S PROVE c \in Matched(msg)
  <2>1. PICK i \in 1 .. n : m[i].of = c /\ c # NoOne
    BY DEF Tells
  <2>2. c \in Candidates /\ g[i] \in Names(c)
    BY <1>1, <1>2, <2>1, PhraseIsText
  <2> DEFINE p == Len(F[i - 1]) + 1
  <2>3. Len(F[i - 1]) \in Nat
    BY <1>7 DEF Extends
  <2>4. p \in 1 .. Len(msg)
    BY <1>3, <1>9
  <2>5. \A x \in 1 .. Len(g[i]) : p + x - 1 = Len(F[i - 1]) + x
    BY <2>3
  <2> HIDE DEF p
  <2>6. Begins(g[i], 1, msg, p)
    BY <1>9, <2>5 DEF Begins
  <2>7. OccursAt(g[i], msg, p)
    BY <1>3, <1>8, <2>4, <2>6, OccursBegins
  <2>8. p \in DOMAIN msg
    BY <1>8, <2>4
  <2> QED
    BY <2>2, <2>7, <2>8 DEF Matched, Occurs
<1>12. ASSUME NEW c \in Matched(msg) PROVE c \in S
  <2>1. PICK nm \in Names(c) : c \in Candidates /\ Occurs(nm, msg)
    BY <1>12 DEF Matched
  <2>2. PICK p \in DOMAIN msg : OccursAt(nm, msg, p)
    BY <2>1 DEF Occurs
  <2>3. p \in 1 .. Len(msg) /\ p \in Nat \ {0}
    BY <1>8
  <2>4. nm \in Seq(AllWords) /\ nm # <<>>
    BY <2>1, NameIsText
  <2>5. Begins(nm, 1, msg, p) /\ Len(nm) \in Nat \ {0}
    BY <1>8, <2>2, <2>3, <2>4, OccursBegins
  <2>6. msg[p] = nm[1]
    <3>1. 1 \in 1 .. Len(nm) /\ p + 1 - 1 = p
      BY <2>3, <2>5
    <3> QED
      BY <2>5, <3>1 DEF Begins
  <2>7. PICK i \in 1 .. n : \E j \in 1 .. Len(g[i]) : p = Len(F[i - 1]) + j
    BY <1>7, <2>3 DEF Covered
  <2>8. PICK j \in 1 .. Len(g[i]) : p = Len(F[i - 1]) + j
    BY <2>7
  <2>9. g[i][j] = nm[1]
    BY <1>9, <2>6, <2>8
  <2>10. nm[1] \in ToSet(nm) /\ nm[1] \in ToSet(g[i])
    <3>1. 1 \in DOMAIN nm /\ j \in DOMAIN g[i]
      BY <1>3, <2>4
    <3> QED
      BY <2>9, <3>1 DEF ToSet
  <2>11. ToSet(nm) \cap Filler = {} /\ nm[1] \in WordsOf(c)
    BY <2>1, <2>10, NamesAssumption DEF WordsOf
  <2>12. m[i].of # NoOne
    <3> SUFFICES ASSUME m[i].of = NoOne PROVE FALSE
      OBVIOUS
    <3>1. m[i].of \notin Candidates
      BY NamesAssumption
    <3>2. PICK w \in Filler : g[i] = <<w>>
      BY <1>1, <1>2, <3>1, PhraseIsText
    <3>3. ToSet(g[i]) = {w}
      BY <3>2 DEF ToSet
    <3> QED
      BY <2>10, <2>11, <3>3
  <2>13. m[i].of \in S /\ g[i] \in Names(m[i].of)
    BY <1>1, <1>2, <2>12, PhraseIsText
  <2>14. nm[1] \in WordsOf(m[i].of)
    BY <2>10, <2>13 DEF WordsOf
  <2>15. m[i].of # c => WordsOf(m[i].of) \cap WordsOf(c) = {}
    BY <1>1, <2>1, <2>13 DEF Apart, WordsOf
  <2> QED
    BY <2>11, <2>13, <2>14, <2>15
<1>13. Matched(msg) = S
  BY <1>11, <1>12 
<1> QED
  BY <1>6, <1>10, <1>13

----------------------------------------------------------------------------
(* The replacements can be put in order.                                   *)

LEMMA Numbered ==
    ASSUME NEW U, IsFiniteSet(U)
    PROVE  \E x : /\ \A a \in U : x[a] \in Int
                  /\ \A a, b \in U : x[a] = x[b] => a = b
<1>1. PICK n \in Nat : ExistsBijection(1 .. n, U)
  BY FS_NatBijection
<1>2. PICK b \in Bijection(1 .. n, U) : TRUE
  BY <1>1 DEF ExistsBijection
<1>3. \A a \in U : \E i \in 1 .. n : b[i] = a
  BY <1>2 DEF Bijection, Surjection
<1> DEFINE x == [a \in U |-> CHOOSE i \in 1 .. n : b[i] = a]
<1>4. ASSUME NEW a \in U PROVE x[a] \in 1 .. n /\ b[x[a]] = a
  BY <1>3
<1> HIDE DEF x
<1>5. \A a \in U : x[a] \in Int
  BY <1>4
<1>6. \A a, c \in U : x[a] = x[c] => a = c
  BY <1>4
<1> QED
  BY <1>5, <1>6

KindRank(r) == CHOOSE k \in DOMAIN Kinds : Kinds[k] = Kind[r.of]

\* Entity by entity, candidate by candidate, the longer alias first: xc and xr
\* number the candidates and the replacements.
Sooner(r, s, xc, xr) ==
    \/ KindRank(r) < KindRank(s)
    \/ /\ KindRank(r) = KindRank(s)
       /\ \/ xc[r.of] < xc[s.of]
          \/ /\ xc[r.of] = xc[s.of]
             /\ \/ Len(s.alias) < Len(r.alias)
                \/ Len(s.alias) = Len(r.alias) /\ xr[r] < xr[s]

Counts(x, U) == /\ \A a \in U : x[a] \in Int
                /\ \A a, b \in U : x[a] = x[b] => a = b

SoonerPairs(R, xc, xr) == {pair \in R \X R : Sooner(pair[1], pair[2], xc, xr)}

LEMMA RankIsNumber ==
    ASSUME NEW r, r.of \in Candidates
    PROVE  KindRank(r) \in Int
<1>1. Kind[r.of] \in ToSet(Kinds)
  BY KindAssumption
<1>2. DOMAIN Kinds = 1 .. 4
  BY DEF Kinds
<1>3. \E k \in DOMAIN Kinds : Kinds[k] = Kind[r.of]
  BY <1>1 DEF ToSet
<1>4. KindRank(r) \in DOMAIN Kinds
  BY <1>3 DEF KindRank
<1> QED
  BY <1>2, <1>4

LEMMA SoonerIsOrdered ==
    ASSUME NEW S \in SUBSET Candidates, NEW xc, Counts(xc, Candidates),
           NEW xr, Counts(xr, Replacements(S))
    PROVE  Ordered(SoonerPairs(Replacements(S), xc, xr), Replacements(S))
<1> DEFINE R == Replacements(S)
           Q == SoonerPairs(R, xc, xr)
<1>1. ASSUME NEW r \in R
      PROVE  /\ KindRank(r) \in Int /\ xc[r.of] \in Int /\ xr[r] \in Int
             /\ Len(r.alias) \in Int
  <2>1. r.of \in Candidates /\ r.alias \in Seq(AllWords)
    BY ReplacementIsText DEF Replaces
  <2>2. KindRank(r) \in Int
    BY <2>1, RankIsNumber
  <2>3. Len(r.alias) \in Int
    BY <2>1
  <2> QED
    BY <2>1, <2>2, <2>3 DEF Counts
<1>2. ASSUME NEW r \in R, NEW s \in R
      PROVE  <<r, s>> \in Q <=> Sooner(r, s, xc, xr)
  BY DEF SoonerPairs
<1>3. \A r, s \in R : xr[r] = xr[s] => r = s
  BY DEF Counts
<1> HIDE DEF R, Q
<1>4. ASSUME NEW r \in R PROVE ~Sooner(r, r, xc, xr)
  BY <1>1 DEF Sooner
<1>5. ASSUME NEW r \in R, NEW s \in R, r # s
      PROVE  Sooner(r, s, xc, xr) \/ Sooner(s, r, xc, xr)
  BY <1>1, <1>3, <1>5 DEF Sooner
<1>6. ASSUME NEW r \in R, NEW s \in R, NEW t \in R, Sooner(r, s, xc, xr), Sooner(s, t, xc, xr)
      PROVE  Sooner(r, t, xc, xr)
  <2> DEFINE kr == KindRank(r) ks == KindRank(s) kt == KindRank(t)
             cr == xc[r.of] cs == xc[s.of] ct == xc[t.of]
             lr == Len(r.alias) ls == Len(s.alias) lt == Len(t.alias)
             nr == xr[r] ns == xr[s] nt == xr[t]
  <2>1. /\ kr \in Int /\ ks \in Int /\ kt \in Int
        /\ cr \in Int /\ cs \in Int /\ ct \in Int
        /\ lr \in Int /\ ls \in Int /\ lt \in Int
        /\ nr \in Int /\ ns \in Int /\ nt \in Int
    BY <1>1
  <2>2. /\ kr < ks \/ (kr = ks /\ (cr < cs \/ (cr = cs /\ (ls < lr \/ (ls = lr /\ nr < ns)))))
        /\ ks < kt \/ (ks = kt /\ (cs < ct \/ (cs = ct /\ (lt < ls \/ (lt = ls /\ ns < nt)))))
    BY <1>6 DEF Sooner
  <2> SUFFICES kr < kt \/ (kr = kt /\ (cr < ct \/ (cr = ct /\ (lt < lr \/ (lt = lr /\ nr < nt)))))
    BY DEF Sooner
  <2> HIDE DEF kr, ks, kt, cr, cs, ct, lr, ls, lt, nr, ns, nt
  <2> QED
    BY <2>1, <2>2
<1> QED
  BY <1>2, <1>4, <1>5, <1>6 DEF Ordered, R, Q

\* The shorter of two different names does not hold the longer one.
LEMMA LongerIsNotInside ==
    ASSUME NEW a \in Seq(AllWords), NEW b \in Seq(AllWords), a # <<>>, Len(b) <= Len(a)
    PROVE  LongestFirst(a, b)
<1> SUFFICES ASSUME Occurs(a, b) PROVE a = b
  BY DEF LongestFirst
<1>1. PICK i \in DOMAIN b : OccursAt(a, b, i)
  BY DEF Occurs
<1>2. i \in Nat \ {0} /\ Len(a) \in Nat \ {0} /\ Len(b) \in Nat
  OBVIOUS
<1>3. i + Len(a) - 1 <= Len(b)
  BY <1>1 DEF OccursAt
<1>4. i = 1 /\ Len(a) = Len(b)
  BY <1>2, <1>3
<1>5. Begins(a, 1, b, 1)
  BY <1>1, <1>4, OccursBegins
<1>6. \A x \in 1 .. Len(a) : b[x] = a[x]
  <2>1. \A x \in 1 .. Len(a) : 1 + x - 1 = x
    OBVIOUS
  <2> QED
    BY <1>5, <2>1 DEF Begins
<1> QED
  BY <1>4, <1>6

LEMMA OrderExists ==
    ASSUME NEW S \in SUBSET Candidates
    PROVE  Orders(Replacements(S)) # {}
<1> DEFINE R == Replacements(S)
<1>1. PICK xc : Counts(xc, Candidates)
  BY NamesAssumption, Numbered DEF Counts
<1>2. IsFiniteSet(R)
  BY ReplacementsFinite
<1>3. PICK xr : Counts(xr, R)
  <2> HIDE DEF R
  <2> QED
    BY <1>2, Numbered DEF Counts
<1> DEFINE Q == SoonerPairs(R, xc, xr)
           n == Cardinality(R)
<1>4. Ordered(Q, R)
  BY <1>1, <1>3, SoonerIsOrdered
<1>5. PICK o : Enumerates(o, R, n, Q)
  <2> HIDE DEF R, Q
  <2> QED
    BY <1>2, <1>4, ListExists
<1>6. n \in Nat
  BY <1>2, FS_CardinalityType
<1>7. ASSUME NEW r \in R
      PROVE  /\ r.of \in Candidates /\ r.alias \in Seq(AllWords) /\ r.alias # <<>>
             /\ KindRank(r) \in Int /\ xc[r.of] \in Int /\ Len(r.alias) \in Int
  <2>1. r.of \in Candidates /\ r.alias \in Seq(AllWords) /\ r.alias # <<>>
    BY ReplacementIsText DEF Replaces
  <2>2. KindRank(r) \in Int
    BY <2>1, RankIsNumber
  <2>3. Len(r.alias) \in Int
    BY <2>1
  <2> QED
    BY <1>1, <2>1, <2>2, <2>3 DEF Counts
<1>8. o \in [1 .. n -> R]
  BY <1>5 DEF Enumerates
<1>9. ASSUME NEW i \in 1 .. n, NEW j \in 1 .. n, i < j PROVE Sooner(o[i], o[j], xc, xr)
  <2>1. <<o[i], o[j]>> \in Q
    BY <1>5, <1>9 DEF Enumerates
  <2> QED
    BY <2>1 DEF SoonerPairs
<1>10. ASSUME NEW i \in 1 .. n, NEW j \in 1 .. n, i # j PROVE o[i] # o[j]
  <2>1. <<o[i], o[j]>> \in Q \/ <<o[j], o[i]>> \in Q
    BY <1>5, <1>10 DEF Enumerates
  <2> HIDE DEF Q
  <2> QED
    BY <1>4, <1>8, <2>1 DEF Ordered
<1>11. o \in SetToSeqs(R)
  BY <1>8, <1>10 DEF SetToSeqs
<1> HIDE DEF R, Q, n
<1>12. ASSUME NEW i \in 1 .. n, NEW j \in 1 .. n, i < j
       PROVE  /\ KindRank(o[i]) <= KindRank(o[j])
              /\ o[i].of = o[j].of => /\ LongestFirst(o[i].alias, o[j].alias)
                                      /\ \A k \in i .. j : o[k].of = o[i].of
  <2>1. o[i] \in R /\ o[j] \in R
    BY <1>8
  <2>2. Sooner(o[i], o[j], xc, xr)
    BY <1>9, <1>12
  <2>3. KindRank(o[i]) <= KindRank(o[j])
    BY <1>7, <2>1, <2>2 DEF Sooner
  <2>4. ASSUME o[i].of = o[j].of PROVE LongestFirst(o[i].alias, o[j].alias)
    <3>1. KindRank(o[i]) = KindRank(o[j])
      BY <2>4 DEF KindRank
    <3>2. Len(o[j].alias) <= Len(o[i].alias)
      BY <1>7, <2>1, <2>2, <2>4, <3>1 DEF Sooner
    <3> QED
      BY <1>7, <2>1, <3>2, LongerIsNotInside
  <2>5. ASSUME o[i].of = o[j].of, NEW k \in i .. j PROVE o[k].of = o[i].of
    <3>1. k \in 1 .. n /\ o[k] \in R
      BY <1>6, <1>8
    <3>2. KindRank(o[i]) = KindRank(o[j])
      BY <2>5 DEF KindRank
    <3>3. CASE k = i \/ k = j
      BY <2>5, <3>3
    <3>4. CASE i < k /\ k < j
      <4>1. Sooner(o[i], o[k], xc, xr) /\ Sooner(o[k], o[j], xc, xr)
        BY <1>9, <3>1, <3>4
      <4>2. KindRank(o[k]) = KindRank(o[i])
        BY <1>7, <2>1, <3>1, <3>2, <4>1 DEF Sooner
      <4>3. xc[o[k].of] = xc[o[i].of]
        BY <1>7, <2>1, <2>5, <3>1, <3>2, <4>1, <4>2 DEF Sooner
      <4> QED
        BY <1>1, <1>7, <2>1, <3>1, <4>3 DEF Counts
    <3> QED
      BY <3>1, <3>3, <3>4
  <2> QED
    BY <2>3, <2>4, <2>5
<1>13. DOMAIN o = 1 .. n
  BY <1>8
<1>14. o \in Orders(R)
  BY <1>11, <1>12, <1>13 DEF Orders, KindRank
<1> QED
  BY <1>14 DEF R

LEMMA OrderReplaces ==
    ASSUME NEW S \in SUBSET Candidates, NEW o \in Orders(Replacements(S))
    PROVE  \E q \in Nat : Replacing(o, q, S)
<1>1. PICK q \in Nat : /\ o \in [1 .. q -> Replacements(S)]
                       /\ \A r \in Replacements(S) : \E i \in 1 .. q : o[i] = r
  BY OrderLists
<1>2. DOMAIN o = 1 .. q
  BY <1>1
<1>3. \A i, j \in 1 .. q : i < j /\ o[i].of = o[j].of => LongestFirst(o[i].alias, o[j].alias)
  BY <1>2 DEF Orders
<1> QED
  BY <1>1, <1>3 DEF Replacing

----------------------------------------------------------------------------
(* The observation processor has its say in every turn.                    *)

CompleteInv ==
    \A s \in {"global", "domain"} : ToSet(registered[s]) = {p \in Processors : p.stage = s}

LEMMA CompleteInit == Init => CompleteInv
BY DEF Init, CompleteInv

LEMMA CompleteNext == CompleteInv /\ [Next]_vars => CompleteInv'
BY RegisteredStays DEF CompleteInv

\* Each processor of a stage has a turn in it.
LEMMA PipelineComplete ==
    ASSUME RegisteredInv, CompleteInv, NEW s \in {"global", "domain"},
           NEW p \in Processors, p.stage = s
    PROVE  \E i \in 1 .. Len(Pipeline(s)) : Pipeline(s)[i] = p
<1> DEFINE es == registered[s]
<1>1. PICK n \in Nat : ListsStage(es, s, n)
  BY DEF RegisteredInv
<1>2. DOMAIN es = 1 .. n /\ \A i \in 1 .. n : es[i] \in Processors
  BY <1>1 DEF ListsStage
<1>3. \A i \in 1 .. n : Keyed(es[i])
  BY <1>2, RankOf
<1>4. p \in ToSet(es)
  BY DEF CompleteInv
<1> DEFINE o == Sorted(es)
<1>5. DOMAIN o = 1 .. n /\ \E i \in 1 .. n : o[i] = p
  <2> HIDE DEF es
  <2> QED
    BY <1>2, <1>3, <1>4, SortedInOrder
<1>6. PICK n2 \in Nat : ListsStage(Pipeline(s), s, n2) /\ Len(Pipeline(s)) = n2
  BY PipelineLists
<1>7. DOMAIN Pipeline(s) = 1 .. n2
  BY <1>6 DEF ListsStage
<1>8. Pipeline(s) = o
  BY DEF Pipeline
<1> HIDE DEF o
<1> QED
  BY <1>5, <1>6, <1>7, <1>8

AnsweredInv ==
    \A p \in Processors :
        p.id = "observation" /\ Ran(p) => \E e \in ToSet(effects) : e.id = "observation"

LEMMA AnsweredInit == Init => AnsweredInv
<1> SUFFICES ASSUME Init, NEW p \in Processors, p.id = "observation" PROVE ~Ran(p)
  BY DEF AnsweredInv
<1>1. p.stage = "domain" /\ stage = "idle"
  BY ProcessorAssumption DEF Init
<1> QED
  BY <1>1 DEF Ran

\* It proposes something of every message.
LEMMA ObservedAnswers ==
    ASSUME NEW p, p.id = "observation", NEW msg
    PROVE  Proposals(p, msg) # {} /\ \A e \in Proposals(p, msg) : e.id = "observation"
<1>1. PICK o : o \in Orders(Replacements(Matched(msg)))
  <2>1. Matched(msg) \in SUBSET Candidates
    BY DEF Matched
  <2> QED
    BY <2>1, OrderExists
<1>2. Proposals(p, msg) # {}
  BY <1>1 DEF Proposals, Observed
<1> QED
  BY <1>2, ProposalIsFrom DEF From

LEMMA AnsweredNext ==
    RegisteredInv /\ CompleteInv /\ EffectsInv /\ AnsweredInv /\ [Next]_vars => AnsweredInv'
<1> SUFFICES ASSUME RegisteredInv, CompleteInv, EffectsInv, AnsweredInv, [Next]_vars,
                    NEW p \in Processors, p.id = "observation", Ran(p)'
             PROVE  \E e \in ToSet(effects)' : e.id = "observation"
  BY DEF AnsweredInv
<1>1. p.stage = "domain"
  BY ProcessorAssumption
<1>2. ASSUME Ran(p), ToSet(effects) \subseteq ToSet(effects)'
      PROVE  \E e \in ToSet(effects)' : e.id = "observation"
  BY <1>2 DEF AnsweredInv
<1>3. ASSUME NEW m, Receive(m) PROVE \E e \in ToSet(effects)' : e.id = "observation"
  BY <1>1, <1>3 DEF Receive, Ran
<1>4. CASE RunProcessor
  <2>1. stage \in {"global", "domain"} /\ ran < Len(Pipeline(stage)) /\ ran \in Nat
    BY <1>4 DEF RunProcessor, EffectsInv
  <2>2. PICK q : q = Pipeline(stage)[ran + 1]
    OBVIOUS
  <2>3. /\ stage' = stage /\ registered' = registered /\ ran' = ran + 1
        /\ \/ Proposals(q, heard) = {} /\ effects' = effects
           \/ \E e \in Proposals(q, heard) : effects' = Append(effects, e)
    BY <1>4, <2>2 DEF RunProcessor
  <2>4. Pipeline(stage)' = Pipeline(stage)
    BY <2>3 DEF Pipeline
  <2>5. PICK i \in 1 .. ran + 1 : stage = "domain" /\ Pipeline(stage)[i] = p
    BY <1>1, <2>1, <2>3, <2>4 DEF Ran
  <2>6. ToSet(effects) \subseteq ToSet(effects)'
    <3>1. ASSUME NEW e, effects' = Append(effects, e) PROVE ToSet(effects) \subseteq ToSet(effects)'
      BY <3>1, AppendedElements DEF EffectsInv
    <3> QED
      BY <2>3, <3>1
  <2>7. CASE i = ran + 1
    <3>1. q.id = "observation"
      BY <2>2, <2>5, <2>7
    <3>2. PICK e : effects' = Append(effects, e) /\ e.id = "observation"
      BY <2>3, <3>1, ObservedAnswers
    <3>3. e \in ToSet(effects)'
      BY <3>2, AppendedElements DEF EffectsInv
    <3> QED
      BY <3>2, <3>3
  <2>8. CASE i # ran + 1
    <3>1. i \in 1 .. ran
      BY <2>1, <2>8
    <3>2. Ran(p)
      BY <1>1, <2>5, <3>1 DEF Ran
    <3> QED
      BY <1>2, <2>6, <3>2
  <2> QED
    BY <2>7, <2>8
<1>5. CASE MergeGlobal
  BY <1>1, <1>5 DEF MergeGlobal, Ran
<1>6. CASE MergeAll
  <2>1. stage = "domain" /\ ran = Len(Pipeline(stage)) /\ effects' = effects
    BY <1>6 DEF MergeAll
  <2>2. \E i \in 1 .. ran : Pipeline(stage)[i] = p
    BY <1>1, <2>1, PipelineComplete
  <2>3. Ran(p)
    BY <1>1, <2>1, <2>2 DEF Ran
  <2> QED
    BY <1>2, <2>1, <2>3
<1>7. CASE HandOver
  BY <1>1, <1>7 DEF HandOver, Ran
<1>8. CASE UNCHANGED vars
  <2>1. Ran(p) /\ effects' = effects
    BY <1>8 DEF vars, Ran, Pipeline
  <2> QED
    BY <1>2, <2>1
<1> QED
  BY <1>3, <1>4, <1>5, <1>6, <1>7, <1>8 DEF Next

----------------------------------------------------------------------------
(* What the recognizer reads is what was said.                             *)

LEMMA BodyIsText ==
    ASSUME NEW n \in Nat \ {0}, NEW m, NEW S, Tells(m, n, S), NEW q \in Nat, NEW o,
           Replacing(o, q, S)
    PROVE  FlattenSeq(After(m, n, o, q)) \in Seq(AllWords) /\ FlattenSeq(After(m, n, o, q)) # <<>>
<1> DEFINE g == After(m, n, o, q)
<1>1. 1 \in 1 .. n /\ q \in 0 .. q
  OBVIOUS
<1>2. g \in [1 .. n -> Seq(AllWords)] /\ g[1] \in Seq(AllWords) /\ g[1] # <<>>
  BY <1>1, AfterIsText, AfterStands
<1> HIDE DEF g
<1>3. PICK F : Flats(F, g, n, AllWords) /\ FlattenSeq(g) = F[n]
  BY <1>2, FlattenSteps
<1>4. PICK b : b = F[n]
  OBVIOUS
<1>5. b \in Seq(AllWords)
  BY <1>3, <1>4 DEF Flats
<1>6. 1 \in 1 .. Len(g[1])
  BY <1>2
<1>7. Len(F[1 - 1]) + 1 \in 1 .. Len(b)
  <2>1. Placed(F, g, n)
    BY <1>2, <1>3, FlatAt
  <2> QED
    BY <1>1, <1>4, <1>6, <2>1 DEF Placed
<1>8. b # <<>>
  BY <1>7
<1> QED
  BY <1>3, <1>4, <1>5, <1>8 DEF g

\* What the observation processor makes of the message.
LEMMA ObservedSaysTheSame ==
    ASSUME NEW n \in Nat \ {0}, NEW m, NEW S, Tells(m, n, S), NEW msg, msg = Words(m),
           NEW p, NEW e \in Observed(p, msg)
    PROVE  \E new : /\ e.rewrite = (IF new = msg THEN <<>> ELSE new) /\ new # <<>>
                    /\ Hinted(new, FlattenSeq(Body(m)), S)
<1>1. Matched(msg) = S /\ S \in SUBSET Candidates
  BY MatchedIsMeant, ToldAreCandidates
<1>2. PICK o \in Orders(Replacements(S)) :
          e.rewrite = (IF ScopeHint(Rewritten(msg, o), S) = msg
                       THEN <<>> ELSE ScopeHint(Rewritten(msg, o), S))
  BY <1>1 DEF Observed, Effect
<1>3. PICK q \in Nat : Replacing(o, q, S)
  BY <1>1, OrderReplaces
<1>4. PICK body : body = FlattenSeq(Body(m))
  OBVIOUS
<1>5. Rewritten(msg, o) = body /\ body \in Seq(AllWords) /\ body # <<>>
  BY <1>3, <1>4, RewrittenIsBody, AfterIsBody, BodyIsText
<1>6. PICK new : new = ScopeHint(body, S)
  OBVIOUS
<1>7. Hinted(new, body, S)
  BY <1>1, <1>6, HintedType
<1>8. new # <<>>
  <2>1. ASSUME NEW d \in Candidates PROVE ValueOf[d] \o body # <<>>
    <3>1. PICK v : v = ValueOf[d]
      OBVIOUS
    <3>2. v \in Seq(AllWords)
      BY <3>1, NameIsText DEF Names
    <3>3. Len(v \o body) = Len(v) + Len(body) /\ Len(body) # 0 /\ Len(v) \in Nat /\ Len(body) \in Nat
      BY <1>5, <3>2
    <3>4. Len(v \o body) # 0
      BY <3>3
    <3> QED
      BY <3>1, <3>4
  <2> QED
    BY <1>5, <1>7, <2>1 DEF Hinted, OfKind
<1>9. e.rewrite = (IF new = msg THEN <<>> ELSE new)
  BY <1>2, <1>5, <1>6
<1> QED
  BY <1>4, <1>7, <1>8, <1>9

SaidInv == MessageInv /\ CompleteInv /\ AnsweredInv

LEMMA SaidInvariant == Spec => []SaidInv
<1>1. Init => SaidInv
  BY RegisteredInit, EffectsInit, MergedInit, CatalogInit, HeardInit, CompleteInit, AnsweredInit
     DEF MessageInv, SaidInv
<1>2. SaidInv /\ [Next]_vars => SaidInv'
  BY RegisteredNext, EffectsNext, MergedNext, CatalogNext, ObservedNext, HeardNext,
     CompleteNext, AnsweredNext DEF MessageInv, SaidInv
<1> QED
  BY <1>1, <1>2, PTL DEF Spec

LEMMA SaidIsRead ==
    ASSUME SaidInv, \A c \in Meant : Legible(c)
    PROVE  SaysTheSame
<1> SUFFICES ASSUME stage = "done", Apart(Meant), \A e \in ToSet(effects) : e.id = "observation"
             PROVE  Hinted(result.message, FlattenSeq(Body(said)), Meant)
  <2>1. ASSUME Hinted(result.message, FlattenSeq(Body(said)), Meant) PROVE SaysTheSame
    BY <2>1 DEF SaysTheSame, Body, Hinted
  <2> QED
    BY <2>1 DEF SaysTheSame, Finished
<1>1. OwnRewrites
  BY DEF OwnRewrites
<1>2. PICK n \in Nat \ {0} : said \in [1 .. n -> Phrases]
  BY DEF SaidInv, MessageInv, HeardInv
<1>3. heard = Words(said)
  BY <1>1 DEF SaidInv, MessageInv, HeardInv
<1>4. Tells(said, n, Meant)
  <2>1. DOMAIN said = 1 .. n
    BY <1>2
  <2> QED
    BY <1>2, <2>1 DEF Tells, Meant
<1>5. PICK e \in ToSet(effects) : e.id = "observation"
  <2>1. PICK p \in Processors : p.id = "observation"
    BY ProcessorAssumption
  <2>2. Ran(p)
    BY DEF Ran
  <2> QED
    BY <2>1, <2>2 DEF SaidInv, AnsweredInv
<1>6. PICK p : e \in Observed(p, heard)
  BY <1>5 DEF SaidInv, MessageInv, ObservedInv
<1>7. PICK new : /\ e.rewrite = (IF new = heard THEN <<>> ELSE new) /\ new # <<>>
                 /\ Hinted(new, FlattenSeq(Body(said)), Meant)
  BY <1>3, <1>4, <1>6, ObservedSaysTheSame
<1>8. \A d \in ToSet(effects) : d = e
  BY <1>5 DEF SaidInv, MessageInv, EffectsInv
<1>9. result.message = new
  <2>1. CASE new = heard
    BY <1>1, <1>7, <1>8, <2>1, OwnMessage DEF SaidInv, MessageInv
  <2>2. CASE new # heard
    BY <1>1, <1>7, <2>2, OwnMessage DEF SaidInv, MessageInv
  <2> QED
    BY <2>1, <2>2
<1> QED
  BY <1>7, <1>9

\* Whatever is said: where the candidates meant are told apart by their words,
\* and no alias of one can be read out of two of its names side by side, the
\* recognizer is given the message word by word, each candidate by its value.
THEOREM SaysCorrect == Spec => []((\A c \in Meant : Legible(c)) => SaysTheSame)
<1>1. SaidInv => ((\A c \in Meant : Legible(c)) => SaysTheSame)
  BY SaidIsRead
<1> QED
  BY <1>1, SaidInvariant, PTL
=============================================================================
