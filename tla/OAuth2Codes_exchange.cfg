\* One code of one of two users, which two clients may present; the configuration
\* may change at a restart.
SPECIFICATION Spec
CONSTANTS
    Workers = {w1, w2}
    Users = {u1, u2}
    Clients = {c1, c2}
    Uris = {r1, r2}
    Scopes = {read}
    Verifiers = {v1, v2}
    Codes = {k1}
    Sessions = {s1, s2}
    Entries <- ChangingEntries
    NoWorker = NoWorker
    NoRequest = NoRequest
    Lifetime = 1
    MaxTime = 1
SYMMETRY Symmetry
INVARIANTS
    IInv
    SpentIffGranted
PROPERTIES
    GrantMatchesConsent
    GrantHonoursRegistry
    CodesAreOneTime
