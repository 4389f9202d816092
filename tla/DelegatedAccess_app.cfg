SPECIFICATION Spec
CONSTANTS
    Flows = {f1, f2}
    Codes = {k1, k2}
    Scopes = {offline, read}
    Offline = offline
    Entries <- MCEntries
    NoScope = NoScope
    MaxTokens = 2
    Wishes <- MCWishes
    Scoped <- MCScoped
    MaxStray = 1
    NoFlow = NoFlow
    NoToken = NoToken
    NoRequest = NoRequest
    NoAnswer = NoAnswer
INVARIANTS IInv OfflineAccessOnly SignedOutForGood CallbacksAreRead
PROPERTIES InvalidGrantIsFounded
