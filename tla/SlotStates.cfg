\* Batches of slot operations, one after the other, and roll-backs.
CONSTANTS
    oneD = oneD
    timeD = timeD
    rms = rms
    s1 = s1
    s2 = s2
    show = show
    DataTypes = {oneD, timeD}
    Indicators = {rms}
    Places = {s1, s2}
    Unknown = {}
    PlaceSlots = {"sensors"}
    Tasks = {show}
    Rows <- MCRows
    IndicatorsOf <- MCIndicatorsOf
    Indexed <- MCIndexed
    Preferred <- MCPreferred
    Rank <- MCRank
    TaskDomains <- MCTaskDomains
    RequiredSlots <- MCRequiredSlots
    NoTask = NoTask
    NoValue = NoValue
    NoRequest = NoRequest
    OperationLists <- MCOperationLists
SPECIFICATION Spec
INVARIANTS
    RollbackRestores
    ListsAreUnique
PROPERTIES
    CommitsAsSets
    RetryChangesNothing
