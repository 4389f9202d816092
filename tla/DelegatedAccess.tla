-------------------------- MODULE DelegatedAccess --------------------------
(***************************************************************************)
(* An application that gets its access through OAuth2Grants, with the      *)
(* functions of core/src/public-client.ts: the browser that carries its    *)
(* authorization requests and callbacks, the network in between, and the   *)
(* one refresh token it keeps.                                             *)
(*                                                                         *)
(* The application is the product's.  It keeps the flow it started last,   *)
(* gives up requests that take long, and keeps the refresh token of the    *)
(* last answer that brought one.                                           *)
(***************************************************************************)
EXTENDS OAuth2Grants, FiniteSets

CONSTANTS
    Wishes,    \* authorization requests the application makes
    Scoped,    \* what its refreshes have for a scope
    MaxStray,  \* bound on the requests it has given up and that are not served yet
    NoFlow, NoToken, NoRequest, NoAnswer

ASSUME WishAssumption == Wishes \subseteq [uri : Uri, scope : SUBSET Scopes]
ASSUME ScopedAssumption == Scoped \subseteq {NoScope} \cup SUBSET Scopes
ASSUME StrayAssumption == MaxStray \in Nat
Held == [code : Codes, token : 1..MaxTokens]

ASSUME SentinelAssumption ==
    /\ NoFlow \notin Flows /\ NoToken \notin Held
    /\ NoRequest \notin Request /\ NoAnswer \notin Answer

VARIABLES
    flow,      \* the URI and scope of each flow started, a function
    pending,   \* the flow whose callback is awaited
    held,      \* the refresh token in the application's store
    request,   \* its token request under way
    answer,    \* the server's answer to it
    stray,     \* requests it gave up, not served yet
    astray,    \* history: sessions of which it missed or misread an answer
    signedOut  \* history: sessions whose revocation it was confirmed

appVars == <<flow, pending, held, request, answer, stray, astray, signedOut>>
vars == <<grantVars, appVars>>

Init ==
    /\ GrantsInit
    /\ flow = [f \in {} |-> 0]
    /\ pending = NoFlow
    /\ held = NoToken
    /\ request = NoRequest
    /\ answer = NoAnswer
    /\ stray = {}
    /\ astray = {} /\ signedOut = {}

-----------------------------------------------------------------------------
(* The authorization round trip *)

\* A random value that has not been used before; one is as good as another
Fresh(values, used) == CHOOSE x \in values \ used : TRUE

\* createOAuthAuthorizationRequest; the one pending before is forgotten
Start(wish) ==
    LET f == Fresh(Flows, DOMAIN flow) IN
    /\ Flows # DOMAIN flow
    /\ flow' = Extended(flow, f, wish)
    /\ pending' = f
    /\ UNCHANGED <<held, request, answer, stray, astray, signedOut>>
    /\ UNCHANGED grantVars

\* The user agrees on a page that shows flow f, maybe an old one, and the browser is
\* sent back.
Approve(f) ==
    /\ f \in DOMAIN flow /\ Codes # DOMAIN row
    /\ Authorize(Fresh(Codes, DOMAIN row), f, flow[f].uri, flow[f].scope)
    /\ UNCHANGED appVars

\* The callback addresses the browser has been sent to
Pages == {Redirect(row[k].uri, k, row[k].flow) : k \in DOMAIN row}

ExchangeOf(f, k) == [kind |-> "exchange", code |-> k, uri |-> flow[f].uri, flow |-> f]

\* Variant of Accepts: the state is not compared.
AcceptsAny(page, e) == Parses(page, page.state, e)

Accepts(page, e) == Parses(page, pending, e)

\* What it may pass as expectedRedirectUri
Expecteds == IF pending = NoFlow THEN {} ELSE Expectations(flow[pending].uri)

\* Any callback page may be opened again.
Return(page, e) ==
    /\ request = NoRequest
    /\ e \in Expecteds
    /\ Accepts(page, e)
    /\ request' = ExchangeOf(pending, page.code)
    /\ pending' = NoFlow
    /\ UNCHANGED <<flow, held, answer, stray, astray, signedOut>>
    /\ UNCHANGED grantVars

\* parseOAuthCallback throws; the application goes on waiting or forgets the flow
ReturnInVain(page, e) ==
    /\ request = NoRequest
    /\ e \in Expecteds
    /\ ~Accepts(page, e)
    /\ pending' = NoFlow
    /\ UNCHANGED <<flow, held, request, answer, stray, astray, signedOut>>
    /\ UNCHANGED grantVars

-----------------------------------------------------------------------------
(* Token requests *)

\* OAuthTokenClient.refreshToken (bound: a number is left for the successor)
AskRefresh(scope) ==
    /\ held # NoToken /\ request = NoRequest
    /\ held.token < MaxTokens
    /\ request' = [kind |-> "refresh", code |-> held.code, token |-> held.token,
                   scope |-> scope]
    /\ UNCHANGED <<flow, pending, held, answer, stray, astray, signedOut>>
    /\ UNCHANGED grantVars

AskRevoke ==
    /\ held # NoToken /\ request = NoRequest
    /\ request' = [kind |-> "revoke", code |-> held.code, token |-> held.token]
    /\ UNCHANGED <<flow, pending, held, answer, stray, astray, signedOut>>
    /\ UNCHANGED grantVars

Serve ==
    /\ request # NoRequest /\ answer = NoAnswer
    /\ Token(request) /\ answer' = AnswerTo(request)
    /\ UNCHANGED <<flow, pending, held, request, stray, astray, signedOut>>

ServeStray(r) ==
    /\ Token(r)
    /\ stray' = stray \ {r}
    /\ UNCHANGED <<flow, pending, held, request, answer, astray, signedOut>>

\* The application stops waiting: the request may still be served, or its answer is lost
GiveUp(lost) ==
    /\ request # NoRequest
    /\ IF lost THEN stray' = stray
       ELSE /\ answer = NoAnswer /\ Cardinality(stray) < MaxStray
            /\ stray' = stray \cup {request}
    /\ request' = NoRequest /\ answer' = NoAnswer
    /\ astray' = astray \cup {request.code}
    /\ UNCHANGED <<flow, pending, held, signedOut>>
    /\ UNCHANGED grantVars

Done ==
    /\ request # NoRequest /\ answer # NoAnswer
    /\ request' = NoRequest /\ answer' = NoAnswer
    /\ UNCHANGED <<flow, pending, stray>>
    /\ UNCHANGED grantVars

\* requestToken resolves: the refresh token of the answer replaces the one held
Receive ==
    /\ Done /\ answer.result = "granted" /\ answer.token # 0
    /\ held' = [code |-> request.code, token |-> answer.token]
    /\ UNCHANGED <<astray, signedOut>>

\* There is none in it: the application forgets the one it has, or goes on with it
ReceiveNone ==
    /\ Done /\ answer.result = "granted" /\ answer.token = 0
    /\ \/ held' = NoToken /\ UNCHANGED astray
       \/ held' = held /\ astray' = astray \cup {request.code}
    /\ UNCHANGED signedOut

ReceiveRevoked ==
    /\ Done /\ answer = Revoked
    /\ held' = NoToken
    /\ signedOut' = signedOut \cup {request.code}
    /\ UNCHANGED astray

\* requestToken throws; after invalid_grant there is nothing to keep
ReceiveError ==
    /\ Done /\ answer.result \in {"client", "grant", "scope"}
    /\ held' = IF answer.result = "grant" /\ request.kind = "refresh" THEN NoToken ELSE held
    /\ UNCHANGED <<astray, signedOut>>

Application ==
    \/ \E wish \in Wishes : Start(wish)
    \/ \E page \in Pages, e \in Expecteds : Return(page, e) \/ ReturnInVain(page, e)
    \/ \E scope \in Scoped : AskRefresh(scope)
    \/ AskRevoke
    \/ Receive \/ ReceiveNone \/ ReceiveRevoked \/ ReceiveError

Next ==
    \/ Application
    \/ \E f \in Flows : Approve(f)
    \/ Serve \/ \E r \in stray : ServeStray(r)
    \/ \E lost \in BOOLEAN : GiveUp(lost)
    \/ World /\ UNCHANGED appVars

Spec == Init /\ [][Next]_vars

-----------------------------------------------------------------------------
(* Properties *)

\* A request in the network: one that the application can have made
Made(r) ==
    /\ r \in Request
    /\ r.kind = "exchange" =>
         /\ r.code \in DOMAIN row
         /\ row[r.code].flow = r.flow /\ row[r.code].uri = r.uri
    /\ r.kind # "exchange" => r.code \in DOMAIN session /\ r.token <= session[r.code].token
    /\ r.kind = "refresh" => r.token < MaxTokens

TypeOK ==
    /\ GrantsTypeOK
    /\ DOMAIN flow \subseteq Flows
    /\ \A f \in DOMAIN flow : flow[f] \in Wishes
    /\ pending \in DOMAIN flow \cup {NoFlow}
    /\ held \in Held \cup {NoToken}
    /\ request # NoRequest => Made(request)
    /\ answer \in Answer \cup {NoAnswer}
    /\ \A r \in stray : Made(r)
    /\ astray \subseteq Codes /\ signedOut \subseteq DOMAIN session

\* A code carries the URI and the scope of the flow it was issued for.
RowsOfFlows ==
    \A k \in DOMAIN row :
        /\ row[k].flow \in DOMAIN flow
        /\ row[k].uri = flow[row[k].flow].uri /\ row[k].scope = flow[row[k].flow].scope

\* What an answer that has not been read yet says of the session now
AnswerHolds ==
    /\ request # NoRequest
    /\ answer.result = "granted" =>
         /\ request.kind # "revoke"
         /\ request.code \in DOMAIN session
         /\ answer.token <= session[request.code].token
         /\ request.kind = "refresh" => request.token < session[request.code].token
         /\ session[request.code].state = "live" /\ request.code \notin astray =>
              answer.token \in {0, session[request.code].token}
    /\ answer.result # "granted" => answer.token = 0
    /\ answer.result = "revoked" =>
         request.code \in DOMAIN session /\ session[request.code].state = "revoked"

\* The token held is the last one of a live session, or about to be replaced, as
\* long as the application has missed no answer.
HeldIsLast ==
    held # NoToken =>
        LET k == held.code IN
        /\ k \in DOMAIN session /\ held.token <= session[k].token
        /\ session[k].state = "live" /\ k \notin astray =>
             \/ held.token = session[k].token
             \/ /\ request # NoRequest /\ request.kind = "refresh" /\ request.code = k
                /\ answer # NoAnswer /\ answer.result = "granted"

\* A refresh that waits for its answer presents the token held, and one that was
\* given up is known to have been.
RefreshesKnown ==
    /\ request # NoRequest /\ request.kind = "refresh" =>
         held = [code |-> request.code, token |-> request.token]
    /\ \A r \in stray : r.code \in astray

\* The refresh token that the application has in its hands is the present one of k
CanContinue(k) ==
    \/ held = [code |-> k, token |-> session[k].token]
    \/ /\ request # NoRequest /\ request.code = k
       /\ answer # NoAnswer /\ answer.token = session[k].token

\* "offline_access" decides who may go on without the user (_token_response): the
\* application can continue a live session only while its scope holds it, though a
\* narrowing takes it away from a session that had it, and answers get lost.
OfflineAccessOnly ==
    \A k \in DOMAIN session :
        session[k].state = "live" /\ CanContinue(k) => Offline \in session[k].scope

\* invalid_grant is no accident of the protocol: it meets a code or session that is
\* spent or late, a user or redirect URI withdrawn since, or an application that has
\* missed an answer.  No answered request, refused or granted, costs it a session.
InvalidGrantIsFounded ==
    [][answer = NoAnswer /\ answer' = Refused("grant") =>
         LET k == request.code IN
         \/ ~active
         \/ /\ request.kind = "exchange"
            /\ row[k].state # "open" \/ row[k].uri \notin registry.uris
         \/ /\ request.kind = "refresh"
            /\ session[k].state # "live" \/ k \in astray]_vars

\* A revocation that was confirmed holds for ever (revoke), though the application
\* may have asked for it with a spent token, while a refresh it had given up was
\* served first, or will be.
SignedOutForGood == \A k \in signedOut : session[k].state = "revoked"

\* What every step preserves
IInv ==
    /\ TypeOK /\ RowsOfFlows /\ HeldIsLast /\ RefreshesKnown
    /\ answer # NoAnswer => AnswerHolds
    /\ OfflineAccessOnly /\ SignedOutForGood

\* "Always pass expectedRedirectUri when parsing a full callback URL" (core/README.md:
\* 125): a callback is accepted by the flow it answers and by no other, as long as the
\* registered query leaves code, state and error alone; a URI with a query has to be
\* expected without it (_authorization_redirect, parseOAuthCallback).
CallbacksAreRead ==
    \A page \in Pages, f \in DOMAIN flow :
        LET uri == flow[f].uri
            mine == page.state = f /\ uri.query \cap {"code", "state", "error"} = {} IN
        /\ Parses(page, f, ExpectingPlace(uri)) <=> mine
        /\ Parses(page, f, Expecting(uri)) <=> mine /\ uri.query = {} /\ uri.marks = {}
=============================================================================
