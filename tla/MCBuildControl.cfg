SPECIFICATION Spec
CONSTANTS
    r1 = r1
    r2 = r2
    f1 = f1
    f2 = f2
    Nobody = Nobody
    Req <- MCReq
    Fetcher <- MCFetcher
    MaxBuilds = 2
INVARIANTS
    OneOwnBuild
PROPERTIES
    TruncateOnlyWhenIdle
    FetchSettles
    LockLetGo
    FlagFollows
