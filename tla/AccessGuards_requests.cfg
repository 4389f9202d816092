\* One request at any guard, while sessions, users and registrations change.
SPECIFICATION Spec
CONSTANTS
    Workers = {w1}
    Users = {u1, u2}
    Clients = {app}
    Scopes = {read, write}
    Sessions = {s1}
    Claims <- TokenClaims
    Entries <- Registrations
    Required <- ReadOnly
    NoClient = NoClient
    Missing = Missing
    NoSession = NoSession
    NoRequest = NoRequest
    ThisUser = u1
    ThisSession = s1
    ThisClient = app
    Read = read
    SessionLife = 1
    MaxTime = 2
INVARIANTS
    IInv
    AdmittedWereGood
PROPERTIES
    RefusedAreNotGood
