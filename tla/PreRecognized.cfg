\* Messages of up to three phrases; every order of registration.
CONSTANTS
    vib1 = vib1
    vib2 = vib2
    seg = seg
    peak = peak
    rms = rms
    freq = freq
    time = time
    NoOne = NoOne
    NoCatalog = NoCatalog
    NoResult = NoResult
    Candidates <- MCCandidates
    Kind <- MCKind
    ValueOf <- MCValueOf
    Aliases <- MCAliases
    Meta <- MCMeta
    Processors <- MCProcessors
    Filler = {"hum", "all"}
    MaxPhrases = 3
SPECIFICATION Spec
INVARIANTS
    SaysTheSame
    CatalogServesMessage
    OneVoice
    RegistrationIsIrrelevant
    RewriteNamesNothingNew
