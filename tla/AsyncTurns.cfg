\* Two turns of one session, a gateway that suspends, and fairness.
CONSTANTS
    oneD = oneD
    timeD = timeD
    specD = specD
    rms = rms
    peak = peak
    wave = wave
    s1 = s1
    s2 = s2
    seg = seg
    nosuch = nosuch
    showOne = showOne
    showTime = showTime
    showSpec = showSpec
    DataTypes = {oneD, timeD, specD}
    Indicators = {rms, peak, wave}
    Places = {s1, s2, seg}
    Unknown = {nosuch}
    PlaceSlots = {"sensors", "test_segments"}
    Tasks = {showOne, showTime, showSpec}
    Rows <- MCRows
    IndicatorsOf <- MCIndicatorsOf
    Indexed <- MCIndexed
    Preferred <- MCPreferred
    Rank <- MCRank
    TaskDomains <- MCTaskDomains
    RequiredSlots <- MCRequiredSlots
    NoTask = NoTask
    NoValue = NoValue
    NoRequest = NoRequest
    NoTurn = NoTurn
    Sessions = {"u"}
    Turns = {"t1", "t2"}
    Messages = {"show_one", "query"}
    Mentions <- MCMentions
    Bare <- MCBare
    Readings <- MCReadings
    Workspaces = {TRUE}
    AsyncGateway = TRUE
SPECIFICATION FairSpec
PROPERTIES
    EveryTurnEnds
