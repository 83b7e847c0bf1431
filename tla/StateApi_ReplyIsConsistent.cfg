SPECIFICATION ApiSpec
CONSTANTS
    h1 = h1
    h2 = h2
    kwin = kwin
    session = session
    NoHash = NoHash
    Hash <- MCHash
    Element <- MCElement
    ElementOf <- MCElementOf
    KdeElement <- MCKdeElement
    MaxCount = 1
    MaxAppends = 2
INVARIANT ReplyIsConsistent
