\* Two data types with two places each, every order of any number of items.
CONSTANTS
    Names <- MCNames
    Labels <- MCLabels
    Items <- MCItems
    NumTypes = 2
    NumPlaces = 2
    NoLabel <- MCNoLabel
SPECIFICATION SnapshotSpec
INVARIANTS
    PickedIndexIsSigmas
    OneIndexResolves
    ReplayAgrees
CHECK_DEADLOCK FALSE
