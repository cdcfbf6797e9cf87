-------------------------- MODULE IndicatorIndexes --------------------------
(***************************************************************************)
(* How the index of an indicator gets from Sigma's answers to a task.      *)
(* HttpSigmaGateway.list_indicator_names asks for the indicators of every  *)
(* data type in turn and merges what it reads, item by item, into one      *)
(* candidate per indicator; ObservationTaskParamProvider then takes the    *)
(* index of an indicator for the task's data type from the candidates.     *)
(*                                                                         *)
(* A Python list of labels without repetitions is kept as its first element*)
(* and the set of its elements: nothing else of it is read.                *)
(***************************************************************************)
EXTENDS Naturals, FiniteSets

CONSTANTS
    Names,      \* indicator names
    Labels,     \* indexes Sigma may give; one may be an indicator's name
    NumTypes,   \* data types are 1..NumTypes, in the order of DOMAIN_ENDPOINTS
    Items,      \* <<name, label or NoLabel>>: the items Sigma's answers have
    NoLabel

ASSUME IndexAssumption ==
    /\ NumTypes \in Nat /\ NoLabel \notin Labels \cup Names
    /\ Items \subseteq Names \X (Labels \cup {NoLabel})

DataTypes == 1 .. NumTypes

----------------------------------------------------------------------------
(* Lists of labels.                                                        *)

Lists == [first : Labels \cup {NoLabel}, all : SUBSET Labels]

Empty == [first |-> NoLabel, all |-> {}]

One(l) == IF l = NoLabel THEN Empty ELSE [first |-> l, all |-> {l}]

\* dict.fromkeys(a + b)
Join(a, b) ==
    IF a.all = {} THEN b ELSE [first |-> a.first, all |-> a.all \cup b.all]

Several(a) == a.all \ {a.first} # {}

----------------------------------------------------------------------------
(* SigmaCandidate: its label and the metadata the gateway keeps.           *)

Candidates ==
    [label : Labels \cup {NoLabel},
     index : Labels \cup {NoLabel}, conflicts : Lists,
     types : SUBSET DataTypes,
     indexBy : [DataTypes -> Labels \cup {NoLabel}],
     conflictsBy : [DataTypes -> Lists]]

NoIndexBy == [d \in DataTypes |-> NoLabel]

NoConflictsBy == [d \in DataTypes |-> Empty]

\* _indicator_candidates: one item of an answer.
Item(l) == [label |-> l, index |-> l, conflicts |-> Empty, types |-> {},
            indexBy |-> NoIndexBy, conflictsBy |-> NoConflictsBy]

\* _candidate_indexes
IndexesOf(c) ==
    LET own == Join(c.conflicts, One(c.index))
    IN  IF own = Empty THEN One(c.label) ELSE own

\* What a candidate's metadata says of data type d.
OfType(c, d) == Join(One(c.indexBy[d]), c.conflictsBy[d])

\* Seeded bug: of the candidate met again only the newer index counts.
MergeLatest(a, b) ==
    [b EXCEPT !.label = IF b.label # NoLabel THEN b.label ELSE a.label,
              !.types = a.types \cup b.types]

\* Seeded bug: one data type's indexes replace those of the others.
MergeLatestType(a, b) ==
    LET indexes == Join(IndexesOf(a), IndexesOf(b))
    IN  [b EXCEPT !.label = IF b.label # NoLabel THEN b.label ELSE a.label,
                  !.index = indexes.first,
                  !.conflicts = IF Several(indexes) THEN indexes ELSE Empty,
                  !.types = a.types \cup b.types]

\* _dedupe_candidates with _merge_candidate_metadata: b is met after a.
Merge(a, b) ==
    LET indexes == Join(IndexesOf(a), IndexesOf(b))
        by == [d \in DataTypes |-> Join(OfType(a, d), OfType(b, d))]
    IN  [label |-> IF b.label # NoLabel THEN b.label ELSE a.label,
         index |-> indexes.first,
         conflicts |-> IF Several(indexes) THEN indexes
                       ELSE IF b.conflicts # Empty THEN b.conflicts ELSE a.conflicts,
         types |-> a.types \cup b.types,
         indexBy |-> [d \in DataTypes |-> by[d].first],
         conflictsBy |-> IF \E d \in DataTypes : Several(by[d])
                         THEN [d \in DataTypes |-> IF Several(by[d]) THEN by[d] ELSE Empty]
                         ELSE IF b.conflictsBy # NoConflictsBy THEN b.conflictsBy
                         ELSE a.conflictsBy]

\* _with_data_type_metadata
WithDataType(c, d) ==
    LET indexes == IndexesOf(c)
    IN  [c EXCEPT !.types = @ \cup {d},
                  !.indexBy = IF indexes = Empty THEN @
                              ELSE [NoIndexBy EXCEPT ![d] = indexes.first],
                  !.conflictsBy = IF Several(indexes)
                                  THEN [NoConflictsBy EXCEPT ![d] = indexes] ELSE @]

----------------------------------------------------------------------------
(* The listing, one item of an answer at a time.                           *)

VARIABLES
    type,       \* the data type whose answer is read; above NumTypes: done
    answer,     \* candidates of this answer: name -> at most one
    listed,     \* candidates of the answers before: name -> at most one
    said        \* history: the labels Sigma gave, name -> data type -> labels

listing == <<type, answer, listed, said>>

\* At most one candidate: {} or {c}.
NoCandidate == [n \in Names |-> {}]

Add(found, c) == IF found = {} THEN {c} ELSE {Merge(a, c) : a \in found}

Init ==
    /\ type = 1 /\ answer = NoCandidate /\ listed = NoCandidate
    /\ said = [n \in Names |-> [d \in DataTypes |-> {}]]

\* Sigma's answer names indicator n, with a label or without one.
Read(n, l) ==
    /\ type \in DataTypes
    /\ answer' = [answer EXCEPT ![n] = Add(@, Item(l))]
    /\ said' = [said EXCEPT ![n][type] = @ \cup ({l} \ {NoLabel})]
    /\ UNCHANGED <<type, listed>>

\* The answer is read; a data type without rows is not even asked for, which
\* comes to an answer without items.
EndAnswer ==
    /\ type \in DataTypes
    /\ listed' = [n \in Names |->
                    IF answer[n] = {} THEN listed[n]
                    ELSE UNION {Add(listed[n], WithDataType(c, type)) : c \in answer[n]}]
    /\ type' = type + 1 /\ answer' = NoCandidate
    /\ UNCHANGED said

Next == (\E item \in Items : Read(item[1], item[2])) \/ EndAnswer

Spec == Init /\ [][Next]_listing

----------------------------------------------------------------------------
(* ObservationTaskParamProvider.                                           *)

\* The candidates an indicator name stands for: its own, and those whose
\* label it is.
Named(n, m) == m = n \/ \E c \in listed[m] : c.label = n

\* _indicator_index: the distinct indexes for name and data type; one is
\* the task's index, none or several fail the turn.
IndicesFor(n, d) ==
    UNION {UNION {OfType(c, d).all : c \in listed[m]} : m \in {k \in Names : Named(n, k)}}

Resolves(n, d, l) == IndicesFor(n, d) = {l}

----------------------------------------------------------------------------
\* An index is picked only if it is all Sigma ever said for the data type, of
\* the indicator and of those labelled with its name taken together: a
\* contradiction within one answer, between answers or between two indicators
\* is never resolved silently, whatever the order and the number of the items
\* and whatever the indexes for other data types (_merge_candidate_metadata,
\* _indicator_index).  So an indicator without an index of its own gets another
\* one's only if that is the one index of those labelled with its name.
PickedIndexIsSigmas ==
    \A n \in Names, d \in DataTypes, l \in Labels :
        d < type /\ Resolves(n, d, l) =>
            UNION {said[m][d] : m \in {k \in Names : Named(n, k)}} = {l}

\* An indicator with one index for a data type can be used in a task,
\* unless its name is another one's label: repeated items, items without
\* label and other data types' indexes do not take that away.
OneIndexResolves ==
    \A n \in Names, d \in DataTypes, l \in Labels :
        /\ d < type /\ said[n][d] = {l}
        /\ \A m \in Names \ {n} : \A c \in listed[m] : c.label # n
        => Resolves(n, d, l)
=============================================================================
