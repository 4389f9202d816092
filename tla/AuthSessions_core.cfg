\* Two handlers over one family, of a browser or of an OAuth client with a scope, of
\* at most three refresh tokens, and a clock that passes its lifetime.
SPECIFICATION Spec
CONSTANTS
    Workers = {w1, w2}
    Users = {u1}
    Clients = {c1}
    Scopes = {read}
    Sessions = {s1}
    Tokens = {t1, t2, t3}
    NoWorker = NoWorker
    NoUser = NoUser
    NoClient = NoClient
    NoSession = NoSession
    NoToken = NoToken
    Lifetime = 2
    MaxTime = 2
SYMMETRY Symmetry
INVARIANTS
    RevokedFamilyIsDead
    OneLiveToken
    LiveSessionHasLiveToken
    RefusalEndsFamily
    AbsoluteLifetime
PROPERTIES
    RevokeTrueOnce
    RowsOnlyAge
    ClientIsolation
