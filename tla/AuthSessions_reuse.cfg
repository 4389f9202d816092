\* Two handlers over one browser family, no crash: the replay that the database
\* chooses as deadlock victim.
SPECIFICATION FairSteadySpec
CONSTANTS
    Workers = {w1, w2}
    Users = {u1}
    Clients = {}
    Scopes = {}
    Sessions = {s1}
    Tokens = {t1, t2, t3}
    NoWorker = NoWorker
    NoUser = NoUser
    NoClient = NoClient
    NoSession = NoSession
    NoToken = NoToken
    Lifetime = 1
    MaxTime = 0
PROPERTIES
    ReuseRevokesFamily
