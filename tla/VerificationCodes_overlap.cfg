\* Two handlers that may roll back, two addresses.
SPECIFICATION Spec
CONSTANTS
    Workers = {w1, w2}
    Emails = {e1, e2}
    Codes = {c1, c2}
    ExpireAfter = 2
    Cooldown = 1
    MaxAttempts = 2
    MaxId = 2
    MaxTime = 2
SYMMETRY Symmetry
INVARIANTS
    IInv
PROPERTIES
    SpentForEver
    PromiseKeptInTurn
