---------------------------- MODULE OAuth2Grants ----------------------------
(***************************************************************************)
(* The authorization server as its clients see it                          *)
(* (services/oauth2.py, fastapi/oauth2.py): authorize, token and revoke,   *)
(* each one step.  OAuth2Codes and AuthSessions show that the transactions *)
(* behind them take effect in single steps.                                *)
(*                                                                         *)
(* A flow stands for its state, its verifier and the challenge of that     *)
(* verifier.  One client is registered; a session is named by the code     *)
(* that bought it, and its refresh tokens are numbered.                    *)
(***************************************************************************)
EXTENDS Naturals, RedirectUris

CONSTANTS
    Flows,      \* authorization requests of the client
    Codes,      \* authorization codes
    Scopes, Offline,  \* Offline: the scope offline_access
    Entries,    \* what the configuration may say of the client
    NoScope,    \* a token request without scope
    MaxTokens   \* bound on the refresh tokens of a session

Entry == [enabled : BOOLEAN, pkce : BOOLEAN, uris : SUBSET Uri, scopes : SUBSET Scopes]

ASSUME EntriesAssumption == Entries \subseteq Entry
ASSUME ScopeAssumption == Offline \in Scopes /\ \A s \in SUBSET Scopes : s # NoScope
ASSUME TokensAssumption == MaxTokens \in Nat \ {0}

VARIABLES
    registry,  \* the entry of the client in the running configuration
    active,    \* the user's is_active
    row,       \* authorization codes, a function on those issued
    session    \* sessions, a function on the codes that bought one

grantVars == <<registry, active, row, session>>

Row == [flow : Flows, uri : Uri, scope : SUBSET Scopes, state : {"open", "spent", "late"}]

Session == [state : {"live", "late", "revoked"},  \* late: past expires_at
            scope : SUBSET Scopes, token : 1..MaxTokens]

\* Token requests, and what the server answers; token is 0 when there is none
Request ==
    [kind : {"exchange"}, code : Codes, uri : Uri, flow : Flows]
    \cup [kind : {"refresh"}, code : Codes, token : 1..MaxTokens,
          scope : {NoScope} \cup SUBSET Scopes]
    \cup [kind : {"revoke"}, code : Codes, token : 1..MaxTokens]

Granted(scope, token) == [result |-> "granted", scope |-> scope, token |-> token]
Refused(error) == [result |-> error, scope |-> {}, token |-> 0]
Revoked == Refused("revoked")
Answer == [result : {"granted", "client", "grant", "scope", "revoked"},
           scope : SUBSET Scopes, token : 0..MaxTokens]

GrantsInit ==
    /\ registry \in Entries
    /\ active = TRUE
    /\ row = [k \in {} |-> 0]
    /\ session = [k \in {} |-> 0]

Extended(f, x, value) == [y \in DOMAIN f \cup {x} |-> IF y = x THEN value ELSE f[y]]

\* _client
Usable ==
    /\ registry.enabled /\ registry.pkce
    /\ registry.uris # {} /\ \A u \in registry.uris : Registrable(u)

\* context and authorize: the user agrees to flow f of the client
Authorize(k, f, uri, scope) ==
    /\ Usable /\ uri \in registry.uris /\ scope \subseteq registry.scopes
    /\ active
    /\ k \notin DOMAIN row
    /\ row' = Extended(row, k, [flow |-> f, uri |-> uri, scope |-> scope, state |-> "open"])
    /\ UNCHANGED <<registry, active, session>>

-----------------------------------------------------------------------------
(* token, with grant_type=authorization_code *)

Exchangeable(r) ==
    /\ r.code \in DOMAIN row
    /\ row[r.code].state = "open"
    /\ row[r.code].uri = r.uri /\ r.uri \in registry.uris
    /\ row[r.code].flow = r.flow

\* Variant of TokenOf: decided by what the user agreed to in the beginning.
TokenOfGrant(k, token, scope) == IF Offline \in row[k].scope THEN token ELSE 0

\* _token_response: the refresh token is told to clients with offline_access only
TokenOf(k, token, scope) == IF Offline \in scope THEN token ELSE 0

\* What an exchange is refused with, in the order of the tests
ExchangeError(r) ==
    CASE ~Usable -> "client"
      [] ~Exchangeable(r) -> "grant"
      [] ~(row[r.code].scope \subseteq registry.scopes) -> "scope"
      [] ~active -> "grant"
      [] OTHER -> "none"

Exchange(r) ==
    /\ r.kind = "exchange"
    /\ IF ExchangeError(r) = "none"
       THEN /\ row' = [row EXCEPT ![r.code].state = "spent"]
            /\ session' = Extended(session, r.code, [state |-> "live", token |-> 1,
                                                    scope |-> row[r.code].scope])
       ELSE UNCHANGED <<row, session>>
    /\ UNCHANGED <<registry, active>>

-----------------------------------------------------------------------------
(* token, with grant_type=refresh_token, and revoke *)

\* Variant of Revoke: the row of the session is deleted.
RevokeDeleting(k) == session' = [s \in DOMAIN session \ {k} |-> session[s]]

Revoke(k) == session' = [session EXCEPT ![k].state = "revoked"]

\* rotate ends the session of a token that is spent, late or of an inactive user
Fatal(r) ==
    \/ session[r.code].state # "live"
    \/ session[r.code].token # r.token
    \/ ~active

Within(r, scope) == r.scope = NoScope \/ r.scope \subseteq scope

RefreshError(r) ==
    CASE ~Usable -> "client"
      [] ~Within(r, registry.scopes) -> "scope"
      [] Fatal(r) -> "grant"
      [] ~Within(r, session[r.code].scope) -> "tooWide"
      [] OTHER -> "none"

\* The successor carries the scope of the session, narrowed if the client asks for it
ScopeAfter(r) == IF r.scope = NoScope THEN session[r.code].scope ELSE r.scope

\* Variant of RefuseTooWide: the token is marked used before the scope is compared.
RefuseTooWideLate(r) == session' = [session EXCEPT ![r.code].token = @ + 1]

\* rotate raises before it changes anything
RefuseTooWide(r) == UNCHANGED session

Refresh(r) ==
    /\ r.kind = "refresh"
    /\ \/ /\ RefreshError(r) = "none"
          /\ session' = [session EXCEPT ![r.code].scope = ScopeAfter(r), ![r.code].token = @ + 1]
       \/ RefreshError(r) = "grant" /\ Revoke(r.code)
       \/ RefreshError(r) = "tooWide" /\ RefuseTooWide(r)
       \/ RefreshError(r) \in {"client", "scope"} /\ UNCHANGED session
    /\ UNCHANGED <<registry, active, row>>

\* Variant of Revocable: spent tokens are of no use.
RevocableNow(r) == session[r.code].token = r.token

\* Every token of a session revokes it, a spent one too
Revocable(r) == TRUE

RevokeToken(r) ==
    /\ r.kind = "revoke"
    /\ IF Usable /\ Revocable(r) THEN Revoke(r.code) ELSE UNCHANGED session
    /\ UNCHANGED <<registry, active, row>>

Token(r) == Exchange(r) \/ Refresh(r) \/ RevokeToken(r)

\* What the routes answer; to a revocation 200, whatever it found
AnswerTo(r) ==
    CASE r.kind = "exchange" /\ ExchangeError(r) = "none" ->
           Granted(row[r.code].scope, TokenOf(r.code, 1, row[r.code].scope))
      [] r.kind = "exchange" /\ ExchangeError(r) # "none" -> Refused(ExchangeError(r))
      [] r.kind = "refresh" /\ RefreshError(r) = "none" ->
           Granted(ScopeAfter(r), TokenOf(r.code, r.token + 1, ScopeAfter(r)))
      [] r.kind = "refresh" /\ RefreshError(r) = "tooWide" -> Refused("scope")
      [] r.kind = "refresh" /\ RefreshError(r) \notin {"none", "tooWide"} ->
           Refused(RefreshError(r))
      [] r.kind = "revoke" -> IF Usable THEN Revoked ELSE Refused("client")

-----------------------------------------------------------------------------
(* Time, the user and the configuration *)

CodeLate(k) ==
    /\ row[k].state = "open"
    /\ row' = [row EXCEPT ![k].state = "late"]
    /\ UNCHANGED <<registry, active, session>>

SessionLate(k) ==
    /\ session[k].state = "live"
    /\ session' = [session EXCEPT ![k].state = "late"]
    /\ UNCHANGED <<registry, active, row>>

Deactivate ==
    /\ active /\ active' = FALSE
    /\ UNCHANGED <<registry, row, session>>

Restart(entry) ==
    /\ entry # registry /\ registry' = entry
    /\ UNCHANGED <<active, row, session>>

World ==
    \/ \E k \in DOMAIN row : CodeLate(k)
    \/ \E k \in DOMAIN session : SessionLate(k)
    \/ Deactivate
    \/ \E entry \in Entries : Restart(entry)

\* A code that is spent names a session, and no other does.
GrantsTypeOK ==
    /\ registry \in Entries
    /\ active \in BOOLEAN
    /\ DOMAIN row \subseteq Codes /\ \A k \in DOMAIN row : row[k] \in Row
    /\ DOMAIN session = {k \in DOMAIN row : row[k].state = "spent"}
    /\ \A k \in DOMAIN session : session[k] \in Session
=============================================================================
