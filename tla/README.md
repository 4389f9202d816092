# Verification of orcestr-auth

TLA+ models of the authentication library in `src/` (a Python backend over
FastAPI and SQLAlchemy, and TypeScript packages for the browser), the TLC runs
that check them on small instances, and TLAPS proofs of their main properties.
`PROJECT.json` holds the same facts for tools: components, runs, mutants, the
source lines of every definition, findings, hazards and theorems.

    tlc -workers 2 -config AuthSessions_core.cfg MCAuthSessions    # a run
    tlapm AuthSessionsProofs.tla                                   # a proof

## 1. The system

Paths are relative to `src/backend/src/orcestr_auth/` and
`src/frontend/packages/`.

| Component | State | Operations | What makes it correct |
|---|---|---|---|
| Refresh-token sessions, `services/sessions.py` | rows of `auth_session` and `auth_refresh_token`, their row locks | `create`, `rotate`, `revoke`, `revoke_user_sessions`, `_revoke_session` | the tokens of a session form one chain with one live end; a revoked session has no live token; rotation never prolongs or widens a session; waits for locks end |
| Authorization server, `services/oauth2.py`, `fastapi/oauth2.py` | rows of authorization codes, the registered clients of the configuration | `context`, `authorize`, `token` (code, refresh), `revoke` | a code buys one session, the one the user approved, for the client that knows the verifier; only `offline_access` lets a client go on; `invalid_grant` has a reason; a revoked session stays revoked |
| Verification and reset codes, `services/codes.py` | rows of codes with `attempts` and `used_at` | `issue`, `verify` | a code succeeds once, allows few attempts, and replaces its predecessors; as far as requests take turns |
| WebSocket tickets, `services/websocket.py` | rows of tickets | `issue`, `consume` | a ticket opens one connection |
| Browser session manager, `core/src/session.ts` | `refreshPromise`, `generation` | `request`, `refreshOnce` | calls that meet a 401 share one refresh and all end; an expiry is reported only when there is one |
| API client, `core/src/client.ts` | none of its own | the public methods, `canRefreshFor` | refreshes only where a refresh makes sense |
| Browser routes and cookies, `fastapi/router.py`, `cookies.py` | the browser's cookie jar | login, register, refresh, logout | logout revokes, then clears, and no late response undoes it |
| Access guards, `fastapi/dependencies.py`, `tokens.py` | none; reads sessions and users | `resolve`, `require_oauth2_scopes` | only a live session of an active user passes, with no more scope than it has; nobody else is refused |
| OAuth browser flow, `core/src/oauth.ts`, `oauth/providers.py`, `fastapi/oauth_redirects.py` | state and verifier in `sessionStorage`; none in the backend | start, callback; `redirect_uri`, `validate_callback_uri`, `exchange` | a callback is matched with the flow that started it, and comes to an address the backend gave out; an address of GitHub's called verified is a verified one of its list |
| Public OAuth client, `core/src/public-client.ts` | none; the application keeps the flow and the refresh token | `createOAuthAuthorizationRequest`, `parseOAuthCallback`, `exchangeAuthorizationCode`, `refreshToken` | a callback is read by the flow it answers and by no other; the application and the server agree on who may go on |
| Legal consent, `forms/src/LegalConsent.tsx` | accepted documents, selection, pending action | request, change, confirm, close | nothing begins without current consent, nor once cancelled |
| Safe redirects, `core/src/redirects.ts` | none | `safeRedirectPath` | the result is an internal path |
| React bindings, forms, persistence schema, configuration, passwords | views, table definitions, data classes | | |

How they interact. The services are objects over one SQLAlchemy session, that
is one database transaction; a request handler of the product calls them and
most of them leave the commit to it. `OAuth2AuthorizationService` calls
`AuthSessionService` inside its own transaction. `AuthClient` wires the
`AuthSessionManager` to `fetch`; the browser adds its cookie jar, which all tabs
share; the routes turn the tokens a service returns into cookies.

What is hard. Handlers overlap, and only what the code locks with
`with_for_update` or writes with a conditional UPDATE is safe from it: sessions
and authorization codes are, verification codes and tickets are not. Requests
are cancelled, connections are lost, a database aborts the victim of a
deadlock, and a caller may roll back after an error. Refresh tokens punish
their second presentation, so a duplicated or lost refresh costs the session.
In the browser, every `await` lets other calls run. `PROJECT.json` lists these
hazards, each at its line, with the properties that cover it.

## 2. The modules

    SessionFamily <--- AuthSessions --- AuthSessionsInv --- AuthSessionsProofs
    (promise)             |                   |                    |
                    MCAuthSessions -----------+           AuthSessionsRefinement
    OneTimeGrant  <--- OAuth2Codes --- MCOAuth2Codes, OAuth2CodesProofs
    (promise)     <--- WebSocketTickets --- MCWebSocketTickets
    RecoveryCode  <--- VerificationCodes --- MCVerificationCodes, VerificationCodesProofs
    (promise)
                       AccessGuards --- MCAccessGuards, AccessGuardsProofs
    SessionManager ----- BrowserSession --- MCBrowserSession, BrowserSessionProofs
    OAuthBrowserFlow --- SignIn --- MCSignIn, SignInProofs
    ProviderSignIn ---------------- MCSignIn, SignInProofs
    RedirectUris --- OAuth2Grants --- DelegatedAccess --- MCDelegatedAccess
                                             |
                                    DelegatedAccessProofs

### The database

The repository names no database product and no isolation level. The models
take READ COMMITTED with row locks, which is what `with_for_update` asks for and
what the usual servers do by default: a SELECT sees committed rows, an UPDATE or
a `SELECT ... FOR UPDATE` waits for the row's lock and then tests the row again,
locks last until the transaction ends, writes become visible at the commit, and
a cycle of waits is broken by aborting one of its transactions. SQLite, where
FOR UPDATE is ignored, is outside the models.

### AuthSessions

`session` and `token` are the committed rows, `sessionLock` and `tokenLock` the
row locks, `pc[w]` the next statement of handler `w`, `job[w]` its arguments,
what it has read and what it has pending. Each SQL statement is one action:

| code | actions |
|---|---|
| `create` 55-98 | `BeginCreate`, `CommitCreate` (the flushed INSERTs are invisible until the commit) |
| `rotate` 100-179 | `BeginRotate`, `LockToken` (FOR UPDATE of the token), then one of `RotateWrongClient`, `RotateReplayed`, `RotateExpired`, `RotateInactive`, `RotateTooWide`, `RotateGrant` under FOR UPDATE of the session, `CommitRotate` |
| `revoke` 181-209 | `BeginRevoke`, `RevokeFound` or `RevokeNotFound` |
| `revoke_user_sessions` 211-222 | `BeginRevokeUser`, `SelectUserSessions`, `RevokeNext` for each id |
| `_revoke_session` 224-241 | `EndSession`, `SelectTokens`, `EndToken` for each row, `CommitRevoke` |
| the database | `AbortDeadlock`, `Crash` (a cancelled request, a lost connection or a dead process) |

Two details matter. The UPDATE of the tokens takes a snapshot of the matching
rows (`SelectTokens`) and then locks them one at a time in any order
(`EndToken`); and a rotation that fails runs `_revoke_session` while it keeps
the two locks of its own, which is why deadlocks exist. `outcome` records what
the caller was told, so that properties can relate it to the rows.

`SessionFamily` is the promise: families that open, rotate and close in single
steps. `AuthSessions` implements it (`ImplementsFamily`): a commit is one of its
steps, everything else is a stutter.

### OAuth2Codes

`authorize` is one action: it inserts one row and the route commits it. The
exchange is `BeginExchange` (`_client`), `LockCode` or `InvalidGrant` (FOR
UPDATE and the tests of 299-312), `ConsumeCode` or `RefuseUser` (the user, and
the conditional UPDATE), `CommitGrant` (`sessions.create`, commit). `Restart`
starts the whole service again with another registration of a client, which ends every
transaction. A verifier stands for its S256 challenge, the digest being
one-to-one. What becomes of the sessions is `AuthSessions`, and what the client is
answered `OAuth2Grants`. Its promise is `OneTimeGrant`.

### OAuth2Grants, RedirectUris and DelegatedAccess

`OAuth2Codes` and `AuthSessions` show that the transactions of the server, however
they overlap, act as single steps. `OAuth2Grants` starts from there: every
operation of `OAuth2AuthorizationService` is one action, and what is modelled is
what it decides and answers.

| code | operators and actions |
|---|---|
| `context`, `authorize`, `_validated_scopes`, `_validated_redirect_uri` | `Usable`, `Authorize` |
| `_exchange_authorization_code` | `Exchangeable`, `ExchangeError`, `Exchange` |
| `_refresh`, and `rotate` behind it | `Fatal`, `Within`, `RefreshError`, `ScopeAfter`, `Refresh` |
| `revoke` | `Revocable`, `RevokeToken` |
| `_token_response`, the token route's errors | `AnswerTo`, `TokenOf`, `Granted`, `Refused` |
| time, users, the configuration | `CodeLate`, `SessionLate`, `Deactivate`, `Restart` |

A code is named by a value of `Codes`, and the session it buys by the same value;
the refresh tokens of a session are numbered, the last number is the live one. The
registration (`registry`) may lose a URI, a scope or the client at a restart.

`RedirectUris` describes a URI by its parts and has both ends of the callback:
`Registrable` (`validate_oauth2_redirect_uri`), `Redirect`
(`_authorization_redirect`, which appends `code` and `state` to a registered
query), and the client's `AsExpected`, `Single` and `Parses` (`parseOAuthCallback`).

`DelegatedAccess` puts an application, a browser and a network in front. The
application is the product's; the models take the one that
`core/README.md` describes: it keeps the flow started last, parses every callback with
the state of that flow, keeps the refresh token of the last answer that brought
one, and forgets it when told `invalid_grant`. It may give up any request (`GiveUp`):
the answer is lost, or the request strays and is served later (`ServeStray`).
The browser can open any callback again (`Pages`), for any flow the user ever agreed
to (`Approve`). After an answer without a refresh token it may forget the token it has or
go on with it (`ReceiveNone`). `astray` is history: sessions of which the
application has missed an answer.

### VerificationCodes

The service takes no locks, so a request is its reads, its decision, and a
commit. BEGIN coincides with the first SELECT. `BeginIssue`, `SpendOld`, `InsertCode` are
the statements of `issue`; `VerifyStale` and `VerifyGuess` those of `verify`;
`Commit` applies the columns SQLAlchemy flushes, that is the changed ones, with
the values computed in memory (`Written`); `Rollback` is a caller that does not
commit, which includes those that roll back when `verify` raises. `compared` and
`accepted` are history: guesses compared with a code, successes committed.
`inTurn` is history too: it holds while no request has overlapped another.

`RecoveryCode` is the promise, in single steps without requests: one open code for
all addresses, `MaxAttempts` guesses at it, the right one ends it, and an open code
holds back the next for its own address for a while. As long as
`inTurn` holds, every commit is a step of it, and a rollback is none
(`PromiseKeptInTurn`); what overlap costs is the subject of `codes_attempts`. Guesses
are those committed: a caller that rolls back when `verify` raises stores none. And
the promise is weaker than the documents (section 4): it limits the guesses at a code,
not the codes sent.

### WebSocketTickets

`Consume` is the unlocked read, `Accept` the write of `used_at`, the commit and
the connection. The signed ticket carries the user of its row (`TokenCodec`), so the
comparison of the two always succeeds and is left out.

### AccessGuards

A guard is two queries, for the session and for the user, with tests before,
between and after them; one action stands for each stretch without a query:
`ResolveVisitor`, `ResolveToken`, `ResolveSession` for `resolve`, behind
`current_user` and `current_user_or_none`; `PrincipalToken`, `PrincipalSession` for
`require_oauth2_scopes`; `LoadUser` for both. A request carries a token with any
claims of a set `Claims`, since products mint tokens with `create_access_token` as
well as get them from the services. Between the queries the environment opens,
narrows, revokes or deletes sessions (the single steps of `SessionFamily`), deactivates
users, and restarts the service with another registration.

`Good` states what a request deserves in the words of the security documents,
scope by scope, without the order in which the code tests; `wasGood` is history: it
was `Good` on arrival. What the code does beyond the documents is `Outgrown`: a
session whose scopes its client has partly lost is refused altogether.

### SessionManager and BrowserSession

`SessionManager` is the script of the tabs. Between two awaits JavaScript runs to
completion, so the actions are: `Begin` (a public method of `AuthClient`), what the manager
does with a delivered response (`Settle`, `RetryAtOnce`, `ShareRefresh`,
`StartRefresh`), and the end of a refresh, which resumes all its waiters
(`RefreshSucceeds`, `RefreshFails`). `MayRefresh` is `canRefreshFor`.
`SetCookies` is the browser, which stores the headers of a response before the script
sees it; `LoseCall` and `LoseRefresh` are the network.

`BrowserSession` adds the routes: `ServeApi`, `ServeLogin`, `ServeLogout`,
`ServeRefresh` (which is `AuthClient.refresh()`) and `Rotate` (the refresh of
`refreshOnce`), `Unavailable` for the statuses that are neither a success nor a 401; of
these the manager takes a 403 to the refresh for an expired session (`SaysExpired`). Cookie pairs
are numbered as they are issued; the first pair of a session names it; the current
pair is exchanged for its successor and an older one ends the session, as
`AuthSessions` shows. `EndElsewhere` is whatever ends a session without this browser: its
lifetime, a deactivated user, a revocation by another device. `Strand`, `RotateLate` and
`RevokeLate` are a refresh (of either kind) or a logout whose tab has given it up
and which reaches the server all the same. A login that does so is left out: it would
start a session whose pair nobody holds, as a login does whose answer is lost. `owner` is
history: the tab whose `refreshOnce` asked for a pair.

Seen on the way: `oauthCallback` is not among the routes of `canRefreshFor`, so a
callback that the product refuses with a 401 starts a refresh and is sent again; a
login does not revoke the session it replaces, so a refresh response that arrives
after it puts the older session back into the jar.

### OAuthBrowserFlow and SignIn

`OAuthBrowserFlow` is one tab with its `sessionStorage`: `Start` stores state and
verifier in one turn of the event loop, `Digest` is the awaited digest that then assigns
`location.href`, `Navigate` the browser that follows it and stops every script of the
page. `Approve`, `GoBack` and `Revisit` are the provider and the history of the
browser. `AcceptCallback` and `RefuseCallback` are the callback page of a product, from its
use of `consumeOAuthState` and `consumeOAuthCodeVerifier`. `post` is history: what the
request to the backend carried.

`SignIn` puts the gate of `LegalConsent.tsx` in front of it, as `LoginForm` and
`RegisterForm` do: an
attempt goes ahead (`GoAhead`) or opens the dialog (`Ask`), where the user ticks
(`Change`), confirms or closes (`Confirm`, `Cancel`); a provider may be started without
a click (`byItself`, for `autoAuthorizeProvider`). Documents appear and get new versions at any
time (`Publish`). The dialog keeps the ids that are ticked, not the versions, so a
version that is published while it is open is confirmed on the tick of the one before.
`ticked` (the versions the user has ticked), `carried` (those that came so) and
`dropped` are history.

### ProviderSignIn

What the backend does for a sign-in with a provider keeps no state between its
requests, so the module has operators and no actions. `OriginOf`, `RedirectUri` and
`ValidCallback` are `OAuthRedirectPolicy`: the first request builds the address, a later one,
with other headers and perhaps through another host, tests it. An origin is a
scheme with an authority; `Local` and `Below` stand for the tests on host names. `Tests`
is `OAuthProviderClient.exchange`: what it tests in the order in which it tests it, so that
`Raises` is the error of the first test that fails (GitHub's two requests are both sent before
the status of either is read). `Profile` is what `_google`, `_github` and `_yandex` make of the
replies. Replies that are JSON of another shape than the providers document are
outside.

TLC evaluates the module in `MCSignIn`, by ASSUMEs over small sets, each time `signin_tab`
runs.

## 3. The runs

| Run | Instance | States | What it shows |
|---|---|---|---|
| `sessions_core` | 2 handlers, 1 session, 3 tokens, 1 client, 1 scope, 1 user, clock 0..2, lifetime 2 | 788 k | eight properties of the chain of tokens, below |
| `sessions_families` | 2 handlers, 2 sessions, 3 tokens, 1 user, 1 client | 272 k | the inductive invariant, complete revocation of a user, refinement of `SessionFamily` |
| `sessions_live` | 2 handlers, 1 session, 3 tokens | 85 k | every request ends |
| `sessions_reuse` | the same, no crashes | violation | a detected reuse that leaves the family live |
| `codes_overlap` | 2 handlers, 2 addresses, 2 codes, ids 1..2, clock 0..2, 2 attempts | 765 k | spent codes stay spent; in turn, the service implements `RecoveryCode`; the inductive invariant |
| `codes_attempts` | 2 handlers, 1 code row | violation | more comparisons than `max_attempts` |
| `tickets_twice` | 2 handlers, 2 tickets, 3 connections | violation | two connections for one ticket |
| `oauth2_exchange` | 2 handlers, 2 clients, 2 URIs, 2 verifiers, 2 users, 1 code, 3 registrations | 105 k | one code, one session, as approved and as registered; the inductive invariant |
| `browser_tabs` | 2 tabs, 3 calls of several kinds, 4 cookie pairs | 378 k | no self-logout, no needless refresh, true expiries, a cleared jar; every call ends; the inductive invariant |
| `guards_requests` | 1 handler, 2 users, 1 client, 1 session, 2 scopes, 12 tokens, 3 registrations, clock 0..2 | 876 k | who is admitted deserved it, who deserves it is admitted; the inductive invariant |
| `signin_tab` | 2 attempts, 1 provider, 2 documents of 2 versions, clock 0..2 | 2.2 M | flows are not mixed up; consent is current; what was cancelled never begins; the inductive invariant |
| `delegated_access` | 2 flows, 2 codes, 2 scopes, 3 redirect URIs, 3 registrations, 2 tokens of a session, 1 stray request | 1.4 M | the application and the server agree on callbacks, scopes, errors and sign-out; the inductive invariant |

The properties, by what it takes to break them:

* `RevokedFamilyIsDead`, `OneLiveToken`, `LiveSessionHasLiveToken`: a rotation
  overlapping a logout or another rotation, with a crash or a deadlock victim at
  any statement. Removing either FOR UPDATE, or the lock `_revoke_session` takes
  first, breaks them.
* `RefusalEndsFamily`, `RevokeTrueOnce`: what a caller was told against the rows,
  however many others were revoking the same session.
* `AbsoluteLifetime`, `RowsOnlyAge`, `ClientIsolation`: a
  long sequence of refreshes cannot prolong, widen or hand over a session, nor continue
  it at the very moment it ends.
* `UserRevocationIsComplete`: the sessions in the snapshot, rotated or revoked by
  others meanwhile. A session being created is not in the snapshot and survives.
* `SpentForEver`, and `FinishedIsSpent` within `IInv`: a slow request writes an older `attempts`
  over a newer one, and still cannot make a code usable again.
* `PromiseKeptInTurn`: one open code, limited guesses, one success, as long as requests
  take turns, with rollbacks between reads and commits. Of the resend frequency it
  promises no more than the code keeps, which is less than the documents say.
* `GrantMatchesConsent`, `GrantHonoursRegistry`, `SpentIffGranted`,
  `CodesAreOneTime`: mixed-up requests, withdrawn registrations, crashes between
  the UPDATE and the INSERT, two exchanges at once.
* `NoSelfLogout`, `RefreshOnlyWhenStale`, `ExpiredIsTrue`, `CallsEnd`: 401s that arrive
  late or together, refreshes that fail, are lost or overlap with logins and logouts.
* `ClearedIsRevoked`: a refresh before, during or after a logout, whose response comes
  later or earlier, leaves no usable pair when the logout's response clears the jar.
* `AdmittedWereGood`, `RefusedAreNotGood`: a token, a session row and a registration that
  disagree, and change between two queries; the first says the guards are strict
  enough, the second that they are not stricter.
* `PostMatchesFlow`, `RefusalIsFounded`: flows that overwrite each other's entries, a digest
  that ends late, old pages opened again, the tenth minute.
* `ConsentIsCurrent`, `DroppedNeverRuns`: versions that change while the dialog
  is open, pending actions that are replaced, cancelled, or left behind with the page.
* `OnlyTicked`: versions that change after consent was stored, restored by another visit.
  What came while the dialog was open is set apart (`carried`): the user has not
  ticked it, and the code sends it.

* `OfflineAccessOnly`: a session that had `offline_access`, was narrowed by a
  refresh without it, and whose last token the application still holds, or finds in an
  answer that was on its way.
* `InvalidGrantIsFounded`: a refresh that was refused for its scope or its client, or answered
  without a token, must leave the application a token it can use. The reasons are listed: a
  spent or late code or session, a user or URI withdrawn, an answer missed.
* `SignedOutForGood`: a refresh that was given up is served before the revocation, which
  then presents a spent token, or after it.
* `CallbacksAreRead`: redirect URIs with queries that meet the parameters of the callback,
  compared by a client that gets the whole address or the part before its query.

Every property has a mutant: a variant of one definition, kept beside it in
its module (`\* Variant of ...`), that changes it as a plausible bug would and
under which the same run finds the property violated.

### Bounds

The locks of one session concern the transactions that work on it; every hazard
listed needs two of them (a deadlock, a lost update, a replay), and the theorems
cover any number. Three tokens give a replay of a token two generations old next
to a rotation of the current one. Two sessions are needed only where sessions
interact, in `revoke_user_sessions`. The token pool would run dry in the middle of a
rotation, and a model that stops there would show nothing about liveness:
`BeginCreate` and `BeginRotate` therefore leave a spare token for every
rotation of a live token (`Rotating`, `Spare`), and a replay needs none.
Lifetimes of one or two clock steps put every expiry test on both sides of its
boundary. In `BrowserSession` a call begins while the pairs it may ask for are left
(`Needs`, `BusyWith`, `PairLeft`): four of them allow two sessions and two refreshes of one.
A logout needs none, and one given up on its way counts like a pair. A login is checked as a
callback, which differs in that it may refresh; the proofs cover both. One call at a time suffices for `AccessGuards`: handlers there share
nothing but the rows, which the environment changes anyway. In `DelegatedAccess`
a second refresh token (`MaxTokens`) makes one rotation, hence a
spent and a live token, for each of two sessions; `AskRefresh` stops where no number is left,
and two flows and one stray request are what it takes to mix up two of
anything. The proofs cover any number. One tab is the scope of
`sessionStorage`, and one provider the key under which entries meet.
History counters stop one past the value the properties mention. Symmetry is used
for sets the model treats alike, and in no run that checks a leads-to
property. Deadlock checking is on in every run but `signin_tab`: a user with no attempt left
may leave the tab alone.

### Fairness

`AuthSessions`: weak fairness of a handler's own statements (the event loop runs
what is ready), strong fairness of the statements that wait for a row lock (a
database queues the waiters of a lock, so one that finds it free again and again
gets it), weak fairness of the deadlock detector. Nothing is assumed of clients,
crashes or the clock. `BrowserSession`: weak fairness, for each call, of what its tab does with a
delivered response and of the server's answer; a `fetch` is answered or rejected in the
end. Nothing is assumed of the user, of losses or of expiry.

## 4. Where code and documents differ

These come from `docs/security/invariants.md`.

* Line 19, "Reuse of an old refresh token revokes its complete server-side
  session family" (`sessions_reuse`). The replay locks the old token and the
  session, then waits for the current token; the rotation of the current token
  holds it and waits for the session. If the database aborts the replay, its
  revocation is undone and nothing repeats it. Checked without crashes and with
  fairness: a later request may never come.
* Line 40, one-time tickets (`tickets_twice`): `consume` reads without a lock and
  writes unconditionally, so two overlapping requests both succeed. The same holds of
  verification codes, which line 25 calls one-time: `PromiseKeptInTurn` shows that overlap
  is the only way, apart from a caller that lets a guess count and rolls it back.
* Line 26, "Attempts ... are limited" (`codes_attempts`): increments computed in
  memory are lost when they overlap. A caller that rolls back on the error
  stores no attempt at all; the property is stated for callers that commit.

A fourth is not a run, since it is plain from one definition. The same line 26 says that
resend frequency is limited. `issue` (`codes.py`:47-50) looks at the latest unused code of
the address: once a code has been guessed to its last attempt, or has been superseded by
one for another address, nothing holds back the next, which may be sent at the same
instant, any number of times (`RecoveryCode`, `Send`). A limit would have to come from the product.

## 5. The proofs

TLAPS proves every safety invariant, every action property and every refinement that
the passing runs check, for every value of the constants:

| Module | Theorem | Result |
|---|---|---|
| `AuthSessionsProofs` | `LockInvariance`, `TypeCorrect` | the part of the inductive invariant about locks; types |
| | `RevokedFamilyIsDeadAlways`, `OneLiveTokenAlways`, `LiveSessionHasLiveTokenAlways`, `RefusalEndsFamilyAlways`, `AbsoluteLifetimeAlways` | the invariants of `sessions_core` |
| `AuthSessionsRefinement` | `Invariance` | the inductive invariant |
| | `RowsOnlyAgeAlways`, `RevokeTrueOnceAlways`, `ClientIsolationAlways`, `UserRevocationIsCompleteAlways` | what no step of a handler may do to rows or answer |
| | `Refinement` | `Spec => Family!Spec` |
| `OAuth2CodesProofs` | `CodeInvariance`, `Invariance`, `SpentIffGrantedAlways`, `GrantMatchesConsentAlways`, `GrantHonoursRegistryAlways`, `OneTimeCodes` | the inductive invariant; a code is spent exactly when it bought a session, the one approved and still registered; `Spec` implements `OneTimeGrant` |
| `VerificationCodesProofs` | `Invariance`, `SpentForEverAlways`, `PromiseKeptInTurnAlways` | the inductive invariant; spent codes stay spent; in turn, rollbacks included, the service implements `RecoveryCode` |
| `AccessGuardsProofs` | `Invariance`, `AdmittedWereGoodAlways`, `RefusedAreNotGoodAlways` | the inductive invariant; who is admitted deserved it on arrival; who is refused does not deserve it |
| `BrowserSessionProofs` | `Invariance`, `NoSelfLogoutAlways`, `RefreshOnlyWhenStaleAlways`, `ExpiredIsTrueAlways`, `ClearedIsRevokedAlways` | the inductive invariant and all safety properties of `browser_tabs` |
| `SignInProofs` | `Invariance`, `PostMatchesFlowAlways`, `OnlyTickedAlways`, `ConsentIsCurrentAlways`, `DroppedNeverRunsAlways`, `RefusalIsFoundedAlways` | the inductive invariant and all properties of `signin_tab` |
| | `CallbackRoundTrip`, `CallbackIsBuilt`, `GitHubAddressIsListed` | of `ProviderSignIn`: the two requests agree on the callback address; which address of GitHub's list is called verified |
| `DelegatedAccessProofs` | `Invariance`, `OfflineAccessOnlyAlways`, `SignedOutForGoodAlways`, `CallbacksAreReadAlways`, `InvalidGrantIsFoundedAlways` | the inductive invariant and all properties of `delegated_access` |

The assumptions are those the modules declare. The sentinels are none of the data
(`SentinelAssumption`, `FlowAssumption`, and the like); lifetimes, limits and bounds are natural
numbers; `MaxPairs`, `MaxTokens` and `MaxVersion` are at least one, since the initial
states issue a first. Handlers and calls are finite sets (`SetsAssumption`), wherever a
bound counts those that may still draw a number: a server has finitely many requests
under way. No theorem assumes anything else of how many there are.

Every invariant called `IInv` is also checked by TLC, in the run of its component.

The argument for sessions. The properties speak of committed rows, but a row
changes at the end of a transaction that decided long before; none of them is
inductive. `IInv` (in `AuthSessionsInv`) adds what the decision still means at the
commit. Its part `LockInv` is about locks:

* `LocksProtectReads`: what a rotation read of its token, and later of its session,
  is still in the row, because it holds the lock of each;
* `RotatePending`: its token is live, its session is live and as it was read, and the
  successor is unused by the rows and by everybody else;
* `EndsOwned`, `KillsOwned`: a revocation holds the locks of the rows it will revoke;
* the targets it has still to lock, together with those it has, are all the
  unrevoked tokens of the session: nobody inserts one meanwhile, since a
  rotation needs the session's lock;
* `TodoChosen`, `ChosenCovered`: bookkeeping of the loop of `revoke_user_sessions`.

The other part, `OneFamily`, says that a refresh or logout has one session in hand, of the
client it named, and ends no other; `ClientIsolation` reads off it what a commit may write, and
`RevokeTrueOnce` reads off `EndsOwned` that the session was live until that commit.

The proof has one lemma per action. Most actions change one handler and no
row; `QuietLemma` covers what they leave alone, so that each needs only its own
`WorkerInv`. `CommitRotate` and `CommitRevoke` change rows under locks, and their
lemmas show that no other handler's claims mention those rows. The refinement
proof shows that each commit is an `Open`, a `Rotate` or a `Close` of the mapped
variables and every other action leaves them unchanged.

For `OAuth2Codes`, the invariant says that an exchange past its SELECT holds the
lock of a code that is still unspent (`HoldsItsCode`), that spent codes and
sessions correspond, and that the tests the exchange has passed would pass again
(`TestsStillHold`): only a restart changes the registration, and it ends every exchange.

For `VerificationCodes` there are no locks to rest on. `Pending` says what a handler that is
about to commit may write: a row of its own, or a count and a mark on rows that exist, where
a match or the last attempt always comes with the mark. Since a flush writes changed
columns only and no request ever clears `used_at`, a late writer cannot
reopen a code, and `FinishedIsSpent` follows. `InTurn` is the claim about
requests that have not overlapped: one is under way at most, and what it has read (`ReadsHold`) is still
so, from which each commit is shown to be a step of `RecoveryCode`.

For `BrowserSession`, `IInv` relates four parties. `AnswerHolds`: an answer on its way to a
call told the truth when it was given, and ends and expiries are for ever.
`RefreshHolds`: the promise of a tab is the one refresh it has under way; a refresh on its way
carries the current pair of its session, unless something other than this tab has
renewed it, or the renewed pair is lost. That holds when it starts, since a pair that this
tab asked for and does not have would still be on its way to it, and then its
refresh would be under way (`StartRefreshStep`); and it lasts, because only this refresh can
issue a pair to its tab (`SentStays`). `JarHolds`: while a call of the present
generation is unanswered, no refresh of its own tab has put a pair into the jar
but one whose success is about to raise the generation. `NoSelfLogout` and
`RefreshOnlyWhenStale` are read off the last two. `PairsInOrder` is about the
bound: whoever may still ask finds a pair. The server's steps are handled by the
relation `Grows`: pairs are added, sessions and access tokens end. All this is
`Consistent`; `IInv` adds that a logout on its way carries a pair that was issued.

For `SignIn`, `EntriesWait` says that the entry of a provider in `sessionStorage` is that of
the flow started last, unhandled, with the consent it was started with, and `PhasesFit` that the
page shown fits the flow it belongs to; a callback that finds its own state has
therefore found its own verifier. `DialogWaits` says that a pending action
has not begun and is not dropped, and that every tick the dialog holds was
given to the version shown, or to one that it has replaced while the dialog was open.

For `AccessGuards`, the claim about arrival has to survive every change between the
queries. `Pending` says what a handler's remaining tests depend on: if the request
still stands (`Standing`), it was good
on arrival. It is inductive because changes only take standing away: no session is
opened under an id a token already names, sessions end and narrow, users are
deactivated, tokens and sessions expire. Only a restart could give it back, and it ends
the requests. The theorem about refusals is an action property: each test that fails is
a conjunct of `Good`, or `Outgrown`.

For `DelegatedAccess`, three parties hold a view of one session: the server's row, the
answer on its way, and the token the application holds. `HeldIsLast` says that the token held is
the live one, or that an answer is on its way that replaces it, unless the
session is late, revoked or astray; `AnswerHolds` that an answer under way still says the truth
of the row; `Made` that requests in the network name tokens that exist; `RefreshesKnown` that what was
given up is known to have been. The server's steps are handled by one relation:
the lemmas `...Ages` show that each only ages the rows (tokens grow, scopes narrow,
states move forward, nothing disappears), which is all that the claims of the others
need. `OfflineAccessOnly` follows because a narrowing that removes the scope also withholds
the token, which leaves the one held a spent one. The theorem about `invalid_grant` reads off
`HeldIsLast` what a refused refresh can have presented. `CallbacksAreRead` needs only
`RowsOfFlows`: a callback carries the URI and state of the flow its code was issued for.

The theorems about `ProviderSignIn` are about single requests, for every configuration; the first
item that `_github` looks for exists because the natural numbers are well-founded.
`GitHubAddressIsListed` assumes that a verified item carries an address: where it does not,
`_github` falls back on the profile's own (`providers.py`:146) and calls that verified. Of Google and
Yandex no theorem speaks: the one's `verified` is a claim of the reply, the other's is a
constant of the code.

Only model-checked: liveness (`RequestsEnd`, `CallsEnd`), which needs fairness and
ENABLED and is outside the prover. `WebSocketTickets` promises nothing that overlap
leaves standing; its run is the violation.

## 6. What is left out, and the plan

Not modelled, and staying so:

* the layout of React views and translations; logging; the encoding of
  tokens, hashes and headers;
* table creation and migrations, which run once before the program; password hashing and mail
  delivery, which are calls of libraries and ports; configuration, contracts and
  errors, which are data without behaviour and appear as CONSTANTS and records;
* `safeRedirectPath`: one test on the path that `safeInternalPath` returns, a function of a
  dependency whose source is not in the repository, and which does the work;
* the query cache of `react/src/provider.tsx`: its order of events is decided inside the
  cache library, so a model of it would be a model of that library;
* the metadata routes, which read the configuration only; the syntax checks the client makes of
  endpoints and of token responses, which the server of this repository never fails.

Products supply the commit, the user model, `AuthHttpApplication` and the OAuth
application; the models take every behaviour of the first three the services allow, and
of the last what `core/README.md` tells it to do.

Next: tickets that are consumed in turn implement `OneTimeGrant`, as codes do
`RecoveryCode`; and theorems of the promises themselves (`SessionFamily`, `RecoveryCode`,
`OneTimeGrant`), so that what a caller may rely on follows from each promise alone.
