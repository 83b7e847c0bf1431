SPECIFICATION Spec
CONSTANTS
    h1 = h1
    h2 = h2
    h3 = h3
    kwin = kwin
    session = session
    NoHash = NoHash
    Hash <- MCHash
    Element <- MCElement
    ElementOf <- MCElementOf
    KdeElement <- MCKdeElement
    MaxCount = 2
    MaxAppends = 3
INVARIANTS
    FailureCountCoversList
    OneEntryPerFailure
    RootCausesListed
    HashedEntriesWereTracked
