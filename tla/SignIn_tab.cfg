\* One tab: two attempts to sign in, two documents of which one is required.
SPECIFICATION Spec
CONSTANTS
    Attempts = {a1, a2}
    Providers = {google}
    Documents = {terms, news}
    MustAccept = {terms}
    FirstDocument = terms
    MaxVersion = 2
    Consents <- AllConsents
    NoAttempt = NoAttempt
    NoProvider = NoProvider
    NoConsent = NoConsent
    StateLife = 1
    MaxTime = 2
    Origins = {"https://a", "https://b", "https://B"}
    Local = {"https://a"}
    Domains = {"b"}
    Below <- SmallBelow
    Canonical <- SmallCanonical
    Emails = {e1, e2}
    NoOrigin = NoOrigin
    NoEmail = NoEmail
INVARIANTS
    IInv
    PostMatchesFlow
    OnlyTicked
PROPERTIES
    RefusalIsFounded
    ConsentIsCurrent
    DroppedNeverRuns
CHECK_DEADLOCK FALSE
