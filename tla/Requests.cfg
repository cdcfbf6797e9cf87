\* Loads of up to four requests, from any token on.
CONSTANTS
    Tokens <- MCTokens
    NoToken = NoToken
    Sizes = {0, 1, 3, 4}
SPECIFICATION FairSpec
INVARIANTS
    TwoAttempts
PROPERTIES
    LoadsEnd
    LoadsRecover
