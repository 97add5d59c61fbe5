\* Two tools, two scopes, two tokens, two ids.
CONSTANTS
    profile = profile
    notes = notes
    read = read
    write = write
    t1 = t1
    t2 = t2
    Tools = {profile, notes}
    Scopes = {read, write}
    ToolScope <- OneScopeEach
    Tokens = {t1, t2}
    Granted <- OneAndBoth
    Foreign = Foreign
    NoToken = NoToken
    Ids = {n1, n2}
    None = None
SPECIFICATION Spec
INVARIANTS
    OnlyLiveTokensGetThrough
    ForbiddenSaysNothing
    EveryClientIsAnswered
