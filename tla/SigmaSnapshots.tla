--------------------------- MODULE SigmaSnapshots ---------------------------
(***************************************************************************)
(* capture_snapshot asks Sigma for the indicators of every availability    *)
(* row on its own and writes them down as rows; SnapshotSigmaGateway gives *)
(* the candidates back from the rows, in tests that run without Sigma.     *)
(* Here a capture and a live listing (module IndicatorIndexes) read the    *)
(* same Sigma: what it lists for a data type is what it lists for the      *)
(* places of the data type, one after the other.                           *)
(***************************************************************************)
EXTENDS IndicatorIndexes

CONSTANT NumPlaces      \* a data type has data at the places 1..NumPlaces

ASSUME PlacesAssumption == NumPlaces \in Nat \ {0}

Places == 1 .. NumPlaces

VARIABLES
    place,      \* the place captured
    cell,       \* candidates of the answer for it: name -> at most one
    rows,       \* the snapshot: data type, place, indicator and label
    replayed,   \* candidates list_indicator_names replays from the rows
    torn        \* history: the indicators one answer gave several labels

capture == <<place, cell, rows, replayed, torn>>

SnapshotInit ==
    /\ Init
    /\ place = 1 /\ cell = NoCandidate /\ rows = {}
    /\ replayed = NoCandidate /\ torn = {}

\* The live gateway reads the item in the answer for all the places.
CaptureItem(n, l) ==
    /\ Read(n, l)
    /\ cell' = [cell EXCEPT ![n] = Add(@, Item(l))]
    /\ torn' = torn \cup {<<n, type>> : c \in {x \in cell[n] : /\ x.label # NoLabel
                                                               /\ l \notin {NoLabel, x.label}}}
    /\ UNCHANGED <<place, rows, replayed>>

RowsOf(n) == {[type |-> type, place |-> place, name |-> n, label |-> c.label] : c \in cell[n]}

\* A candidate that takes part in the replay of a row.
Unlabelled == [Item(NoLabel) EXCEPT !.types = {}]

\* Seeded bug: the last row's label is the index.
ReplayLast(c, r) ==
    [c EXCEPT !.types = @ \cup {r.type},
              !.label = IF r.label # NoLabel THEN r.label ELSE @,
              !.indexBy[r.type] = IF r.label # NoLabel THEN r.label ELSE @]

\* list_indicator_names: a further row of the candidate.
Replay(c, r) ==
    LET d     == r.type
        clash == r.label # NoLabel /\ c.indexBy[d] \notin {NoLabel, r.label}
    IN  [c EXCEPT !.types = @ \cup {d},
                  !.label = IF r.label # NoLabel THEN r.label ELSE @,
                  !.indexBy[d] = IF r.label # NoLabel /\ ~clash THEN r.label ELSE @,
                  !.conflictsBy[d] = IF ~clash THEN @
                                     ELSE Join(IF @ = Empty THEN One(c.indexBy[d]) ELSE @,
                                               One(r.label))]

\* The answer for this place is read; after the last place so is the live
\* answer for the data type.
CapturePlace ==
    /\ type \in DataTypes
    /\ rows' = rows \cup UNION {RowsOf(n) : n \in Names}
    /\ replayed' = [n \in Names |->
                      IF RowsOf(n) = {} THEN replayed[n]
                      ELSE LET c == IF replayed[n] = {} THEN Unlabelled
                                    ELSE CHOOSE x \in replayed[n] : TRUE
                           IN  {Replay(c, r) : r \in RowsOf(n)}]
    /\ cell' = NoCandidate
    /\ \/ place < NumPlaces /\ place' = place + 1 /\ UNCHANGED listing
       \/ place = NumPlaces /\ place' = 1 /\ EndAnswer
    /\ UNCHANGED torn

SnapshotNext ==
    \/ \E item \in Items : CaptureItem(item[1], item[2])
    \/ CapturePlace

SnapshotSpec == SnapshotInit /\ [][SnapshotNext]_<<listing, capture>>

----------------------------------------------------------------------------
\* list_observation_indicator_names
ReplayedNames(d, places) == {r.name : r \in {x \in rows : x.type = d /\ x.place \in places}}

Captured(d) == d < type

----------------------------------------------------------------------------
\* A replay lists the indicators and data types the live gateway lists, and
\* knows no index of its own making; a conflict between the answers for two
\* places, or two data types, is one in the replay too.  Only the conflicts
\* within one answer are lost: a snapshot row has one label
\* (capture_snapshot, SnapshotSigmaGateway).
ReplayAgrees ==
    \A n \in Names, d \in DataTypes : Captured(d) =>
        LET live == UNION {OfType(c, d).all : c \in listed[n]}
            back == UNION {OfType(c, d).all : c \in replayed[n]}
        IN  /\ (\E c \in listed[n] : d \in c.types) <=> n \in ReplayedNames(d, Places)
            /\ (\E c \in replayed[n] : d \in c.types) <=> n \in ReplayedNames(d, Places)
            /\ back \subseteq live
            /\ live # {} => back # {}
            /\ <<n, d>> \notin torn => back = live
=============================================================================
