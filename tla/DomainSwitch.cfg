\* Switching the data domain of a session whose slots are filled.
CONSTANTS
    oneD = oneD
    timeD = timeD
    specD = specD
    rms = rms
    peak = peak
    wave = wave
    s1 = s1
    s2 = s2
    seg = seg
    nosuch = nosuch
    showOne = showOne
    showTime = showTime
    showSpec = showSpec
    DataTypes = {oneD, timeD, specD}
    Indicators = {rms, peak, wave}
    Places = {s1, s2, seg}
    Unknown = {nosuch}
    PlaceSlots = {"sensors", "test_segments"}
    Tasks = {showOne, showTime, showSpec}
    Rows <- MCRows
    IndicatorsOf <- MCIndicatorsOf
    Indexed <- MCIndexed
    Preferred <- MCPreferred
    Rank <- MCRank
    TaskDomains <- MCTaskDomains
    RequiredSlots <- MCRequiredSlots
    NoTask = NoTask
    NoValue = NoValue
    NoRequest = NoRequest
    NoTurn = NoTurn
    Sessions = {"u"}
    Turns = {"t1"}
    Messages = {"show_one", "show_time"}
    Mentions <- MCMentions
    Bare <- MCBare
    Readings <- MCReadings
    Workspaces = {TRUE}
    AsyncGateway = FALSE
SPECIFICATION Spec
INVARIANTS
    DomainSwitchKeepsTheRest
