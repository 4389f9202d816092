\* Two handlers over one browser family; every request ends under FairSpec.
SPECIFICATION FairSpec
CONSTANTS
    Workers = {w1, w2}
    Users = {u1}
    Clients = {}
    Scopes = {}
    Sessions = {s1}
    Tokens = {t1, t2, t3}
    NoWorker = NoWorker
    NoUser = NoUser
    NoClient = NoClient
    NoSession = NoSession
    NoToken = NoToken
    Lifetime = 1
    MaxTime = 0
PROPERTIES
    RequestsEnd
