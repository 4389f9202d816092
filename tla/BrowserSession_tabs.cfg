\* Two tabs, one with two calls under way at once.
SPECIFICATION FairSpec
CONSTANTS
    c1 = c1
    c2 = c2
    c3 = c3
    t1 = t1
    t2 = t2
    Tabs = {t1, t2}
    Calls = {c1, c2, c3}
    TabOf <- TabsOfCalls
    KindsOf <- KindsOfCalls
    NoCall = NoCall
    NoTab = NoTab
    MaxPairs = 4
INVARIANT IInv
PROPERTIES
    NoSelfLogout
    RefreshOnlyWhenStale
    ExpiredIsTrue
    ClearedIsRevoked
    CallsEnd
