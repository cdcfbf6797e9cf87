---------------------------- MODULE MCSlotStates ----------------------------
(***************************************************************************)
(* Operation lists for TLC: up to two operations on either kind of slot,   *)
(* and up to three on one multi slot.                                      *)
(***************************************************************************)
EXTENDS SlotStates

CONSTANTS oneD, timeD, rms, s1, s2, show

MCRows == {[data_type |-> oneD, place |-> [p \in PlaceSlots |-> s1]]}
MCIndicatorsOf == [d \in DataTypes |-> IF d = oneD THEN {rms} ELSE {}]
MCIndexed == {<<rms, oneD>>}
MCPreferred == [d \in DataTypes |-> NoValue]
MCRank == [t \in Tasks |-> 1]
MCTaskDomains == [t \in Tasks |-> {oneD}]
MCRequiredSlots == [t \in Tasks |-> MultiSlots]

Replace(s, v) == Operation("replace", s, One(v))
Add(s, v)     == Operation("add", s, One(v))
Drop(s, v)    == Operation("remove", s, One(v))
Clear(s)      == Operation("clear", s, Absent)

OnSensors == {Replace("sensors", s1), Replace("sensors", s2), Add("sensors", s1),
              Add("sensors", s2), Drop("sensors", s1)}
All == OnSensors \cup {Drop("sensors", s2), Clear("sensors"),
                       Replace("data_types", oneD), Replace("data_types", timeD),
                       Add("data_types", oneD)}

Tuples(S, n) == [1..n -> S]

MCOperationLists == Tuples(All, 1) \cup Tuples(All, 2) \cup Tuples(OnSensors, 3)
=============================================================================
