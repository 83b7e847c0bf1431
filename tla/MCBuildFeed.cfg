SPECIFICATION FeedSpec
CONSTANTS
    h1 = h1
    h2 = h2
    h3 = h3
    kwin = kwin
    xfwm = xfwm
    NoHash = NoHash
    Hash <- MCHash
    Element <- MCElement
    ElementOf <- MCElementOf
    KdeElement <- MCKdeElement
    MaxCount = 3
    MaxAppends = 6
    MaxSessions = 2
    MaxSubRuns = 2
    MaxUnread = 3
INVARIANTS
    FeedTypeOK
    ActiveIsTruth
    FailuresAreReal
    FailuresShown
PROPERTIES
    CompletionShown
    NotifyNeverMidJob
CHECK_DEADLOCK FALSE
