\* Overlapping wrong guesses at one code.
SPECIFICATION CommittedSpec
CONSTANTS
    Workers = {w1, w2}
    Emails = {e1}
    Codes = {c1, c2}
    ExpireAfter = 2
    Cooldown = 1
    MaxAttempts = 2
    MaxId = 1
    MaxTime = 0
SYMMETRY Symmetry
INVARIANT AttemptsLimited
