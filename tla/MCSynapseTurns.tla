--------------------------- MODULE MCSynapseTurns ---------------------------
(***************************************************************************)
(* Small deployments and conversations for TLC.  A configuration picks a   *)
(* deployment (constants with values below), the messages of a             *)
(* conversation, and how many sessions and turns there are.                *)
(***************************************************************************)
EXTENDS TurnRefinement

CONSTANTS oneD, timeD, specD,                \* data types
          rms, peak, wave,                   \* indicators
          s1, s2, seg,                       \* a sensor, another one, a test segment
          nosuch,                            \* a value no catalog offers
          showOne, showTime, showSpec        \* tasks

----------------------------------------------------------------------------
(* The deployment: rms exists in two data types, a preferred indicator     *)
(* only in one of them, and Sigma has no data at all of type specD.         *)

Row(d, s) == [data_type |-> d, place |-> [p \in PlaceSlots |->
                                             IF p = "sensors" THEN s ELSE seg]]

MCRows == {Row(oneD, s1), Row(timeD, s1), Row(timeD, s2)}

MCIndicatorsOf == [d \in DataTypes |-> CASE d = oneD  -> {rms, peak}
                                         [] d = timeD -> {rms, wave}
                                         [] OTHER     -> {}]

\* peak has no unique index.
MCIndexed == {<<rms, oneD>>, <<rms, timeD>>, <<wave, timeD>>}

MCPreferred == [d \in DataTypes |-> IF d = timeD THEN wave ELSE NoValue]

MCRank == [t \in Tasks |-> CASE t = showOne -> 1 [] t = showTime -> 2 [] OTHER -> 3]

MCTaskDomains == [t \in Tasks |-> CASE t = showOne  -> {oneD}
                                    [] t = showTime -> {timeD}
                                    [] OTHER        -> {specD}]

MCRequiredSlots == [t \in Tasks |-> MultiSlots]

----------------------------------------------------------------------------
(* What the recognizer may make of a message.                              *)

Op(n, a, s, v) == [name |-> n, act |-> a, slot |-> s, target |-> v, valid |-> TRUE]

Set(s, v)    == Op("switch", "replace", s, v)
Add(s, v)    == Op("switch", "add", s, v)
Remove(s, v) == Op("switch", "remove", s, v)
Ask(i)       == Op("indicator_list", "none", "indicator_names", i)
Action(n)    == ActionIntent(n)

Clear(is) == [verdict |-> "clear", intents |-> is]
Unsure    == {[verdict |-> "ambiguous", intents |-> {}],
              [verdict |-> "low", intents |-> {}]}

\* message -> <<the values it mentions, the recognizer's readings>>
Script ==
  [ show_one    |-> <<{}, {Clear({Action(showOne)})}>>,
    show_time   |-> <<{timeD}, {Clear({Op(showTime, "none", "data_types", timeD)})}>>,
    show_spec   |-> <<{}, {Clear({Action(showSpec)})}>>,
    show_both   |-> <<{}, {Clear({Action(showOne), Action(showTime)})}>>,
    see_rms     |-> <<{rms}, {Clear({Ask(rms)})}>>,
    see_wave    |-> <<{}, {Clear({Ask(wave)})}>>,
    see_two     |-> <<{}, {Clear({Ask(rms), Ask(wave)})}>>,
    time        |-> <<{timeD}, {Clear({Set("data_types", timeD)}), Clear({})} \cup Unsure>>,
    one_no_s    |-> <<{oneD}, {Clear({Set("data_types", oneD), Set("sensors", nosuch)})}>>,
    to_s2       |-> <<{s2}, {Clear({Set("sensors", s2)})}>>,
    misfiled    |-> <<{}, {Clear({Set(s, seg)}) : s \in {"sensors", "none"}}>>,
    add_s1      |-> <<{}, {Clear({Add("sensors", s1)})}>>,
    drop_s      |-> <<{}, {Clear({Remove("sensors", s1), Remove("test_segments", seg)}),
                           Clear({Action(showOne), Remove("sensors", s1)})}>>,
    drop_ind    |-> <<{}, {Clear({Remove("indicator_names", rms)}),
                           Clear({Op("switch", "clear", "indicator_names", rms)})}>>,
    add_nosuch  |-> <<{}, {Clear({Add("sensors", nosuch)}),
                           Clear({[Add("sensors", nosuch) EXCEPT !.valid = FALSE]})}>>,
    fill        |-> <<{}, {Clear({Set("sensors", s1), Set("test_segments", seg),
                                  Set("indicator_names", rms)}),
                           Clear({Set("test_segments", seg)})}>>,
    use_peak    |-> <<{}, {Clear({Set("indicator_names", i), Action(showOne)}) :
                              i \in {peak, rms}}>>,
    use_wave    |-> <<{}, {Clear({Set("indicator_names", wave)})}>>,
    current     |-> <<{}, {Clear({Action("current")})}>>,
    which       |-> <<{}, {Clear({Action("query_sensors")}),
                           Clear({Action("query_sensors"), Set("sensors", s2)}),
                           Clear({Op("query_data_types", "none", "data_types", NoValue)}),
                           Clear({Op("query_test_segments", "none", "sensors", s1)}),
                           Clear({Action("query_sensors"), Action("query_other")})}>>,
    ask_list    |-> <<{}, {Clear({Op("indicator_list", "none", "data_types", timeD)}),
                           Clear({Action("query_indicators")})}>>,
    ask_places  |-> <<{}, {Clear({Action("query_sensors"), Action("query_data_types")}),
                           Clear({Action("query_sensors"), Action(showTime)}),
                           Clear({Action("query_data_types")}),
                           Clear({Action("query_sensors")})}>>,
    ask_inds    |-> <<{}, {Clear({Action("query_indicators")}),
                           Clear({Op("query_indicators", "none", "data_types", oneD)}),
                           Clear({Action("query_indicators"), Action(showTime)}),
                           Clear({Action("query_indicators"), Action(showOne), Action(showTime)})}>>,
    query       |-> <<{}, {Clear({Action("query_sensors")})}>>,
    clear       |-> <<{}, {Clear({Action("clear_context")})}>>,
    clear_show  |-> <<{}, {Clear({Action("clear_context"), Action(showOne)})}>> ]

MCMentions == [m \in Messages |-> Script[m][1]]
MCReadings == [m \in Messages |-> Script[m][2]]
MCBare     == Messages \cap {"time"}

AllMessages == DOMAIN Script \ {"query", "clear_show"}

\* The hypotheses of the theorems about conversations hold of this deployment
\* and script, but for the decision that both clears and asks for a task.
ASSUME RequestsAreServable == FilesValues /\ TaskPerType
ASSUME ClearsAreAlone == "clear_show" \notin Messages => ClearsAlone
=============================================================================
