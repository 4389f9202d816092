\* Two handlers over two families of one user, of a browser or of an OAuth client.
SPECIFICATION Spec
CONSTANTS
    Workers = {w1, w2}
    Users = {u1}
    Clients = {c1}
    Scopes = {}
    Sessions = {s1, s2}
    Tokens = {t1, t2, t3}
    NoWorker = NoWorker
    NoUser = NoUser
    NoClient = NoClient
    NoSession = NoSession
    NoToken = NoToken
    Lifetime = 1
    MaxTime = 0
SYMMETRY Symmetry
INVARIANTS
    IInv
PROPERTIES
    UserRevocationIsComplete
    ImplementsFamily
