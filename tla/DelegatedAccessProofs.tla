------------------------ MODULE DelegatedAccessProofs ------------------------
(***************************************************************************)
(* Proofs about DelegatedAccess, for any flows, codes, scopes, URIs and    *)
(* configurations.  The rows of the server only age (Ages); with that, the *)
(* application's side of each step preserves the inductive invariant IInv. *)
(***************************************************************************)
EXTENDS DelegatedAccess, TLAPS

USE EntriesAssumption, ScopeAssumption, TokensAssumption

\* What no step takes back
Ages ==
    /\ \A k \in DOMAIN row :
         /\ k \in DOMAIN row'
         /\ row'[k].flow = row[k].flow /\ row'[k].uri = row[k].uri
         /\ row'[k].scope = row[k].scope
    /\ \A k \in DOMAIN session :
         /\ k \in DOMAIN session'
         /\ session[k].token <= session'[k].token
         /\ session[k].token = session'[k].token => session'[k].scope = session[k].scope
         /\ session'[k].state = "live" => session[k].state = "live"
         /\ session[k].state = "revoked" => session'[k].state = "revoked"

\* The server keeps its types, and its rows only age, when the user agrees to a flow.
LEMMA AuthorizeAges ==
    ASSUME GrantsTypeOK, NEW k \in Codes, NEW f \in Flows, NEW u \in Uri,
           NEW s \in SUBSET Scopes, Authorize(k, f, u, s)
    PROVE  GrantsTypeOK' /\ Ages
<1> DEFINE new == [flow |-> f, uri |-> u, scope |-> s, state |-> "open"]
<1>1. /\ registry' = registry /\ active' = active /\ session' = session
      /\ k \notin DOMAIN row
      /\ row' = Extended(row, k, new)
  BY DEF Authorize
<1>2. /\ DOMAIN row' = DOMAIN row \cup {k}
      /\ row'[k] = new
      /\ \A j \in DOMAIN row : row'[j] = row[j]
  BY <1>1 DEF Extended
<1>3. new \in Row
  BY DEF Row
<1>4. \A j \in DOMAIN session : session[j] \in Session
  BY DEF GrantsTypeOK
<1>5. GrantsTypeOK'
  BY <1>1, <1>2, <1>3 DEF GrantsTypeOK
<1>6. Ages
  BY <1>1, <1>2, <1>4 DEF Ages, Session
<1> QED BY <1>5, <1>6

\* What the errors of an exchange mean (_exchange_authorization_code).
LEMMA ExchangeErrors ==
    ASSUME NEW r
    PROVE  /\ ExchangeError(r) \in {"client", "grant", "scope", "none"}
           /\ ExchangeError(r) = "none" => Exchangeable(r)
           /\ ExchangeError(r) = "grant" => ~Exchangeable(r) \/ ~active
  BY DEF ExchangeError

\* What the errors of a refresh mean (_exchange_refresh_token, rotate).
LEMMA RefreshErrors ==
    ASSUME NEW r
    PROVE  /\ RefreshError(r) \in {"client", "grant", "scope", "tooWide", "none"}
           /\ RefreshError(r) = "grant" => Fatal(r)
           /\ RefreshError(r) = "none" =>
                ~Fatal(r) /\ Within(r, session[r.code].scope)
  BY DEF RefreshError

\* An exchange gives a session to a code that had none.
LEMMA ExchangeAges ==
    ASSUME GrantsTypeOK, NEW r, Made(r), Exchange(r)
    PROVE  GrantsTypeOK' /\ Ages
<1>1. CASE ExchangeError(r) # "none"
  <2>1. UNCHANGED grantVars
    BY <1>1 DEF Exchange, grantVars
  <2>2. \A j \in DOMAIN session : session[j] \in Session
    BY DEF GrantsTypeOK
  <2>3. GrantsTypeOK'
    BY <2>1 DEF GrantsTypeOK, grantVars
  <2> QED BY <2>1, <2>2, <2>3 DEF Ages, grantVars, Session
<1>2. CASE ExchangeError(r) = "none"
  <2> DEFINE k == r.code
             new == [state |-> "live", scope |-> row[k].scope, token |-> 1]
  <2>1. k \in DOMAIN row /\ row[k].state = "open"
    BY <1>2, ExchangeErrors DEF Exchangeable
  <2>2. /\ row[k] \in Row /\ k \in Codes
        /\ \A j \in DOMAIN row : row[j] \in Row
        /\ \A j \in DOMAIN session : session[j] \in Session
        /\ k \notin DOMAIN session
    BY <2>1 DEF GrantsTypeOK
  <2>3. /\ row' = [row EXCEPT ![k].state = "spent"]
        /\ session' = Extended(session, k, new)
        /\ registry' = registry /\ active' = active
    BY <1>2 DEF Exchange
  <2>4. /\ DOMAIN row' = DOMAIN row
        /\ row'[k] = [row[k] EXCEPT !.state = "spent"]
        /\ \A j \in DOMAIN row : j # k => row'[j] = row[j]
    BY <2>1, <2>3
  <2>5. /\ row'[k] \in Row /\ row'[k].state = "spent"
        /\ row'[k].flow = row[k].flow /\ row'[k].uri = row[k].uri
        /\ row'[k].scope = row[k].scope
    BY <2>2, <2>4 DEF Row
  <2>6. /\ DOMAIN session' = DOMAIN session \cup {k}
        /\ session'[k] = new
        /\ \A j \in DOMAIN session : session'[j] = session[j]
    BY <2>2, <2>3 DEF Extended
  <2>7. new \in Session
    BY <2>2 DEF Row, Session
  <2>8. DOMAIN session' = {j \in DOMAIN row' : row'[j].state = "spent"}
    BY <2>1, <2>4, <2>5, <2>6 DEF GrantsTypeOK
  <2>9. GrantsTypeOK'
    BY <2>2, <2>3, <2>4, <2>5, <2>6, <2>7, <2>8 DEF GrantsTypeOK
  <2>10. \A j \in DOMAIN row :
           /\ j \in DOMAIN row'
           /\ row'[j].flow = row[j].flow /\ row'[j].uri = row[j].uri
           /\ row'[j].scope = row[j].scope
    BY <2>4, <2>5
  <2>11. \A j \in DOMAIN session : session[j].token <= session[j].token
    BY <2>2 DEF Session
  <2>12. Ages
    BY <2>6, <2>10, <2>11 DEF Ages
  <2> QED BY <2>9, <2>12
<1> QED BY <1>1, <1>2

\* A change of one session that keeps its type and only lets it age.
LEMMA OneSessionAges ==
    ASSUME GrantsTypeOK, UNCHANGED <<registry, active, row>>,
           NEW k \in DOMAIN session, NEW s \in Session,
           session' = [session EXCEPT ![k] = s],
           session[k].token <= s.token,
           session[k].token = s.token => s.scope = session[k].scope,
           s.state = "live" => session[k].state = "live",
           session[k].state = "revoked" => s.state = "revoked"
    PROVE  GrantsTypeOK' /\ Ages
<1>1. \A j \in DOMAIN session : session[j] \in Session
  BY DEF GrantsTypeOK
<1>2. /\ DOMAIN session' = DOMAIN session
      /\ session'[k] = s
      /\ \A j \in DOMAIN session : j # k => session'[j] = session[j]
  OBVIOUS
<1>3. GrantsTypeOK'
  BY <1>1, <1>2 DEF GrantsTypeOK
<1>4. Ages
  BY <1>1, <1>2 DEF Ages, Session
<1> QED BY <1>3, <1>4

\* So does an end of it (_revoke_session).
LEMMA RevokeAges ==
    ASSUME GrantsTypeOK, UNCHANGED <<registry, active, row>>,
           NEW k \in DOMAIN session, Revoke(k)
    PROVE  GrantsTypeOK' /\ Ages
<1> DEFINE s == [session[k] EXCEPT !.state = "revoked"]
<1>1. session[k] \in Session
  BY DEF GrantsTypeOK
<1>2. /\ s \in Session /\ s.token = session[k].token
      /\ s.scope = session[k].scope /\ s.state = "revoked"
  BY <1>1 DEF Session
<1>3. session' = [session EXCEPT ![k] = s]
  BY DEF Revoke
<1>4. session[k].token <= s.token
  BY <1>1, <1>2 DEF Session
<1> HIDE DEF s
<1> QED BY <1>2, <1>3, <1>4, OneSessionAges

\* A refresh continues a session, ends it, or leaves it alone.
LEMMA RefreshAges ==
    ASSUME GrantsTypeOK, NEW r, Made(r), Refresh(r)
    PROVE  GrantsTypeOK' /\ Ages
<1> DEFINE k == r.code
<1>1. /\ k \in DOMAIN session /\ session[k] \in Session
      /\ r.scope \in {NoScope} \cup SUBSET Scopes
      /\ r.token \in 1..MaxTokens /\ r.token < MaxTokens
  BY DEF Made, Refresh, Request, GrantsTypeOK
<1>2. UNCHANGED <<registry, active, row>>
  BY DEF Refresh
<1>3. CASE RefreshError(r) = "none"
  <2> DEFINE s == [session[k] EXCEPT !.scope = ScopeAfter(r), !.token = @ + 1]
  <2>1. session' = [session EXCEPT ![k] = s]
    <3>1. session' = [session EXCEPT ![k].scope = ScopeAfter(r), ![k].token = @ + 1]
      BY <1>3 DEF Refresh
    <3> QED BY <3>1, <1>1
  <2>2. session[k].state = "live" /\ session[k].token = r.token
    BY <1>3, RefreshErrors DEF Fatal
  <2>3. s.state = "live" /\ s.scope = ScopeAfter(r)
    BY <1>1, <2>2 DEF Session
  <2>4. s.token = r.token + 1
    BY <1>1, <2>2 DEF Session
  <2>5. ScopeAfter(r) \in SUBSET Scopes
    BY <1>1 DEF ScopeAfter, Session
  <2>6. r.token + 1 \in 1..MaxTokens
    BY <1>1
  <2>7. s \in Session
    BY <1>1, <2>2, <2>5, <2>6 DEF Session
  <2>8. /\ session[k].token <= s.token
        /\ session[k].token # s.token
        /\ session[k].state # "revoked"
    BY <1>1, <2>2, <2>4
  <2> HIDE DEF s
  <2> QED BY <1>1, <1>2, <2>1, <2>2, <2>7, <2>8, OneSessionAges
<1>4. CASE RefreshError(r) = "grant"
  <2>1. Revoke(k)
    BY <1>4 DEF Refresh
  <2> QED BY <1>1, <1>2, <2>1, RevokeAges
<1>5. CASE RefreshError(r) \in {"tooWide", "client", "scope"}
  <2>1. session' = session
    BY <1>5 DEF Refresh, RefuseTooWide
  <2>2. \A j \in DOMAIN session : session[j].token <= session[j].token
    BY DEF GrantsTypeOK, Session
  <2>3. GrantsTypeOK'
    BY <1>2, <2>1 DEF GrantsTypeOK
  <2> QED BY <1>2, <2>1, <2>2, <2>3 DEF Ages
<1> QED BY <1>3, <1>4, <1>5, RefreshErrors

\* The tokens endpoint, as a whole.
LEMMA TokenAges ==
    ASSUME GrantsTypeOK, NEW r, Made(r), Token(r)
    PROVE  GrantsTypeOK' /\ Ages
<1>1. CASE RevokeToken(r)
  <2>1. UNCHANGED <<registry, active, row>> /\ r.code \in DOMAIN session
    BY <1>1 DEF RevokeToken, Made
  <2>2. CASE Revoke(r.code)
    BY <2>1, <2>2, RevokeAges
  <2>3. CASE UNCHANGED session
    <3>1. \A j \in DOMAIN session : session[j].token <= session[j].token
      BY DEF GrantsTypeOK, Session
    <3>2. GrantsTypeOK'
      BY <2>1, <2>3 DEF GrantsTypeOK
    <3> QED BY <2>1, <2>3, <3>1, <3>2 DEF Ages
  <2> QED BY <1>1, <2>2, <2>3 DEF RevokeToken
<1> QED BY <1>1, ExchangeAges, RefreshAges DEF Token

\* Time, the user and the configuration.
LEMMA WorldAges ==
    ASSUME GrantsTypeOK, World
    PROVE  GrantsTypeOK' /\ Ages
<1>1. \A j \in DOMAIN session : session[j] \in Session /\ session[j].token <= session[j].token
  <2>1. \A j \in DOMAIN session : session[j] \in Session
    BY DEF GrantsTypeOK
  <2> QED BY <2>1 DEF Session
<1>2. ASSUME NEW k \in DOMAIN row, CodeLate(k)
      PROVE  GrantsTypeOK' /\ Ages
  <2>1. row[k] \in Row /\ \A j \in DOMAIN row : row[j] \in Row
    BY DEF GrantsTypeOK
  <2>2. /\ DOMAIN row' = DOMAIN row
        /\ row[k].state = "open" /\ row'[k] = [row[k] EXCEPT !.state = "late"]
        /\ \A j \in DOMAIN row : j # k => row'[j] = row[j]
        /\ UNCHANGED <<registry, active, session>>
    BY <1>2 DEF CodeLate
  <2>3. /\ row'[k] \in Row /\ row'[k].state = "late"
        /\ row'[k].flow = row[k].flow /\ row'[k].uri = row[k].uri
        /\ row'[k].scope = row[k].scope
    BY <2>1, <2>2 DEF Row
  <2>4. {j \in DOMAIN row' : row'[j].state = "spent"} = {j \in DOMAIN row : row[j].state = "spent"}
    <3>1. \A j \in DOMAIN row : row'[j].state = "spent" <=> row[j].state = "spent"
      BY <2>2, <2>3
    <3> QED BY <2>2, <3>1
  <2>5. GrantsTypeOK'
    BY <2>1, <2>2, <2>3, <2>4 DEF GrantsTypeOK
  <2> QED BY <1>1, <2>2, <2>3, <2>5 DEF Ages
<1>3. ASSUME NEW k \in DOMAIN session, SessionLate(k)
      PROVE  GrantsTypeOK' /\ Ages
  <2> DEFINE s == [session[k] EXCEPT !.state = "late"]
  <2>1. /\ s \in Session /\ s.token = session[k].token
        /\ s.scope = session[k].scope /\ s.state = "late"
    BY <1>1 DEF Session
  <2>2. /\ session[k].state = "live" /\ session' = [session EXCEPT ![k] = s]
        /\ UNCHANGED <<registry, active, row>>
    BY <1>3 DEF SessionLate
  <2> HIDE DEF s
  <2> QED BY <1>1, <2>1, <2>2, OneSessionAges
<1>4. ASSUME Deactivate \/ \E entry \in Entries : Restart(entry)
      PROVE  GrantsTypeOK' /\ Ages
  <2>1. /\ UNCHANGED <<row, session>>
        /\ registry' \in Entries /\ active' \in BOOLEAN
    BY <1>4 DEF Deactivate, Restart, GrantsTypeOK
  <2>2. GrantsTypeOK'
    BY <2>1 DEF GrantsTypeOK
  <2> QED BY <1>1, <2>1, <2>2 DEF Ages
<1> QED BY <1>2, <1>3, <1>4 DEF World

-----------------------------------------------------------------------------
(* The inductive invariant *)

USE SentinelAssumption, WishAssumption

LEMMA InitHolds == Init => IInv
<1> SUFFICES ASSUME Init PROVE IInv
  OBVIOUS
<1>1. /\ DOMAIN row = {} /\ DOMAIN session = {} /\ DOMAIN flow = {}
      /\ registry \in Entries /\ active = TRUE
  BY DEF Init, GrantsInit
<1>2. TypeOK
  BY <1>1 DEF Init, TypeOK, GrantsTypeOK
<1>3. RowsOfFlows /\ HeldIsLast /\ RefreshesKnown /\ OfflineAccessOnly /\ SignedOutForGood
  BY <1>1 DEF Init, RowsOfFlows, HeldIsLast, RefreshesKnown, OfflineAccessOnly, SignedOutForGood
<1> QED BY <1>2, <1>3 DEF Init, IInv

\* What the types say of single sessions, tokens and answers.
LEMMA Typed ==
    ASSUME IInv
    PROVE  /\ \A k \in DOMAIN session : session[k] \in Session
           /\ \A k \in DOMAIN session : session[k].token \in Nat /\ session[k].token >= 1
           /\ held # NoToken => held \in Held /\ held.token \in Nat
           /\ answer # NoAnswer => answer \in Answer /\ answer.token \in Nat
<1>1. \A k \in DOMAIN session : session[k] \in Session
  BY DEF IInv, TypeOK, GrantsTypeOK
<1>2. held # NoToken => held \in Held
  BY DEF IInv, TypeOK
<1>3. answer # NoAnswer => answer \in Answer
  BY DEF IInv, TypeOK
<1> QED BY <1>1, <1>2, <1>3 DEF Session, Held, Answer

\* A request stays one that can have been made while rows age.
LEMMA MadeStays ==
    ASSUME IInv, GrantsTypeOK', Ages, NEW r, Made(r)
    PROVE  Made(r)'
<1>1. r.kind # "exchange" => r.token \in Nat
  BY DEF Made, Request
<1>2. \A k \in DOMAIN session' : session'[k].token \in Nat
  BY DEF GrantsTypeOK, Session
<1> QED BY <1>1, <1>2, Typed DEF Made, Ages

\* The token held is of a session whose scope has not changed since, if it is still
\* the session's token.
LEMMA HeldStays ==
    ASSUME IInv, GrantsTypeOK', Ages, held # NoToken,
           held.token = session'[held.code].token
    PROVE  /\ held.code \in DOMAIN session
           /\ held.token = session[held.code].token
           /\ session'[held.code].scope = session[held.code].scope
<1>1. held.code \in DOMAIN session /\ held.token <= session[held.code].token
  BY DEF IInv, HeldIsLast
<1>2. /\ session[held.code].token <= session'[held.code].token
      /\ session[held.code].token = session'[held.code].token =>
           session'[held.code].scope = session[held.code].scope
  BY <1>1 DEF Ages
<1> QED BY <1>1, <1>2, Typed

\* A step of the server that concerns no request under way: time, the user, the
\* configuration, an approval, or a request that was given up.
LEMMA BackgroundKeeps ==
    ASSUME IInv, GrantsTypeOK', Ages, RowsOfFlows',
           \A k \in DOMAIN session : session'[k].token = session[k].token \/ k \in astray,
           UNCHANGED <<flow, pending, held, request, answer, astray, signedOut>>,
           stray' \subseteq stray
    PROVE  IInv'
<1>1. TypeOK'
  <2>1. (request # NoRequest => Made(request))' /\ \A r \in stray' : Made(r)'
    BY MadeStays DEF IInv, TypeOK
  <2>2. signedOut' \subseteq DOMAIN session'
    BY DEF IInv, TypeOK, Ages
  <2> QED BY <2>1, <2>2 DEF IInv, TypeOK
<1>2. HeldIsLast'
  <2> SUFFICES ASSUME held # NoToken PROVE HeldIsLast'
    BY DEF HeldIsLast
  <2> DEFINE k == held.code
  <2>1. HeldIsLast
    BY DEF IInv
  <2>2. k \in DOMAIN session' /\ held.token <= session'[k].token
    <3>1. session'[k].token \in Nat
      BY <2>1 DEF HeldIsLast, Ages, GrantsTypeOK, Session
    <3> QED BY <2>1, <3>1, Typed DEF HeldIsLast, Ages
  <2>3. session'[k].state = "live" /\ k \notin astray =>
          session[k].state = "live" /\ session'[k].token = session[k].token
    BY <2>1 DEF HeldIsLast, Ages
  <2> QED BY <2>1, <2>2, <2>3 DEF HeldIsLast
<1>3. RefreshesKnown'
  BY DEF IInv, RefreshesKnown
<1>4. ASSUME answer' # NoAnswer PROVE AnswerHolds'
  <2>1. AnswerHolds /\ answer \in Answer
    BY <1>4, Typed DEF IInv
  <2>2. request # NoRequest => request \in Request
    BY DEF IInv, TypeOK, Made
  <2>3. request # NoRequest /\ request.kind = "refresh" => request.token \in Nat
    BY <2>2 DEF Request
  <2>4. \A k \in DOMAIN session' : session'[k].token \in Nat
    BY DEF GrantsTypeOK, Session
  <2> QED BY <1>4, <2>1, <2>3, <2>4, Typed DEF AnswerHolds, Ages
<1>5. OfflineAccessOnly'
  <2> SUFFICES ASSUME NEW k \in DOMAIN session', session'[k].state = "live", CanContinue(k)'
               PROVE  Offline \in session'[k].scope
    BY DEF OfflineAccessOnly
  <2>1. CASE held = [code |-> k, token |-> session'[k].token]
    <3>1. held # NoToken
      BY <2>1 DEF IInv, TypeOK, GrantsTypeOK, Session, Held
    <3>2. /\ k \in DOMAIN session /\ held.token = session[k].token /\ held.code = k
          /\ session'[k].scope = session[k].scope
      BY <2>1, <3>1, HeldStays
    <3>3. CanContinue(k) /\ session[k].state = "live"
      BY <2>1, <3>2 DEF CanContinue, Ages
    <3> QED BY <3>2, <3>3 DEF IInv, OfflineAccessOnly
  <2>2. CASE /\ request # NoRequest /\ request.code = k
             /\ answer # NoAnswer /\ answer.token = session'[k].token
    <3>1. session'[k].token >= 1 /\ session'[k].token \in Nat
      BY DEF GrantsTypeOK, Session
    <3>2. k \in DOMAIN session /\ answer.token <= session[k].token
      BY <2>2, <3>1 DEF IInv, AnswerHolds
    <3>3. /\ answer.token = session[k].token
          /\ session'[k].scope = session[k].scope
          /\ session[k].state = "live"
      BY <2>2, <3>1, <3>2, Typed DEF Ages
    <3>4. CanContinue(k)
      BY <2>2, <3>3 DEF CanContinue
    <3> QED BY <3>2, <3>3, <3>4 DEF IInv, OfflineAccessOnly
  <2> QED BY <2>1, <2>2 DEF CanContinue
<1>6. SignedOutForGood'
  BY DEF IInv, TypeOK, SignedOutForGood, Ages
<1> QED BY <1>1, <1>2, <1>3, <1>4, <1>5, <1>6 DEF IInv

\* A token request issues no code and reaches no other session than its own.
LEMMA TokenTouches ==
    ASSUME GrantsTypeOK, NEW r, Made(r), Token(r)
    PROVE  /\ DOMAIN row' = DOMAIN row
           /\ \A k \in DOMAIN session : k # r.code => session'[k] = session[k]
<1>1. CASE Exchange(r)
  BY <1>1 DEF Exchange, Extended
<1>2. CASE Refresh(r)
  BY <1>2, RefreshErrors DEF Refresh, RefuseTooWide, Revoke
<1>3. CASE RevokeToken(r)
  BY <1>3 DEF RevokeToken, Revoke
<1> QED BY <1>1, <1>2, <1>3 DEF Token

LEMMA RowsKeepFlows ==
    ASSUME IInv, Ages, DOMAIN row' = DOMAIN row, UNCHANGED flow
    PROVE  RowsOfFlows'
  BY DEF IInv, RowsOfFlows, Ages

LEMMA StrayKeeps ==
    ASSUME IInv, NEW r \in stray, ServeStray(r)
    PROVE  IInv'
<1>1. Made(r) /\ GrantsTypeOK /\ Token(r) /\ r.code \in astray
  BY DEF IInv, TypeOK, RefreshesKnown, ServeStray
<1>2. GrantsTypeOK' /\ Ages
  BY <1>1, TokenAges
<1>3. \A k \in DOMAIN session : session'[k].token = session[k].token \/ k \in astray
  BY <1>1, TokenTouches
<1>4. RowsOfFlows'
  BY <1>1, <1>2, TokenTouches, RowsKeepFlows DEF ServeStray
<1> QED BY <1>2, <1>3, <1>4, BackgroundKeeps DEF ServeStray

LEMMA WorldKeeps ==
    ASSUME IInv, World, UNCHANGED appVars
    PROVE  IInv'
<1>1. GrantsTypeOK' /\ Ages
  BY WorldAges DEF IInv, TypeOK
<1>2. /\ DOMAIN row' = DOMAIN row
      /\ \A k \in DOMAIN session : session'[k].token = session[k].token
  <2>1. \A k \in DOMAIN session : session[k] \in Session
    BY Typed
  <2> QED BY <2>1 DEF World, CodeLate, SessionLate, Deactivate, Restart, Session
<1>3. RowsOfFlows'
  BY <1>1, <1>2, RowsKeepFlows DEF appVars
<1> QED BY <1>1, <1>2, <1>3, BackgroundKeeps DEF appVars

LEMMA ApproveKeeps ==
    ASSUME IInv, NEW f \in Flows, Approve(f)
    PROVE  IInv'
<1> DEFINE k == Fresh(Codes, DOMAIN row)
<1>1. /\ f \in DOMAIN flow /\ DOMAIN row \subseteq Codes /\ Codes # DOMAIN row
      /\ flow[f] \in [uri : Uri, scope : SUBSET Scopes]
      /\ Authorize(k, f, flow[f].uri, flow[f].scope)
      /\ UNCHANGED appVars
  BY DEF Approve, IInv, TypeOK, GrantsTypeOK
<1>2. k \in Codes
  BY <1>1 DEF Fresh
<1>3. flow[f].uri \in Uri /\ flow[f].scope \in SUBSET Scopes
  BY <1>1
<1> HIDE DEF k
<1>4. GrantsTypeOK' /\ Ages
  BY <1>1, <1>2, <1>3, AuthorizeAges DEF IInv, TypeOK
<1>5. /\ session' = session /\ DOMAIN row' = DOMAIN row \cup {k}
      /\ row'[k].flow = f /\ row'[k].uri = flow[f].uri /\ row'[k].scope = flow[f].scope
  BY <1>1 DEF Authorize, Extended
<1>6. RowsOfFlows'
  BY <1>1, <1>4, <1>5 DEF IInv, RowsOfFlows, Ages, appVars
<1> QED BY <1>1, <1>4, <1>5, <1>6, BackgroundKeeps DEF appVars

-----------------------------------------------------------------------------
(* The server answers *)

\* What the server has done and answers to a request.
LEMMA ServeAnswers ==
    ASSUME IInv, NEW r, Made(r), Token(r)
    PROVE  LET a == AnswerTo(r) IN
           /\ a \in Answer
           /\ a.result = "granted" =>
                /\ r.kind # "revoke" /\ r.code \in DOMAIN session'
                /\ a.token \in {0, session'[r.code].token}
                /\ a.token # 0 => Offline \in session'[r.code].scope
                /\ r.kind = "refresh" => r.token < session'[r.code].token
           /\ a.result # "granted" => a.token = 0
           /\ a.result = "revoked" =>
                r.code \in DOMAIN session' /\ session'[r.code].state = "revoked"
           /\ r.code \in DOMAIN session /\ ~(r.kind = "refresh" /\ a.result = "granted") =>
                session'[r.code].token = session[r.code].token
<1>1. CASE Exchange(r)
  <2>1. CASE ExchangeError(r) = "none"
    <3>1. /\ r.code \in DOMAIN row /\ row[r.code].state = "open"
          /\ row[r.code] \in Row /\ r.code \notin DOMAIN session
      BY <2>1, ExchangeErrors DEF Exchangeable, IInv, TypeOK, GrantsTypeOK
    <3>2. /\ r.code \in DOMAIN session'
          /\ session'[r.code] = [state |-> "live", token |-> 1, scope |-> row[r.code].scope]
      BY <1>1, <2>1 DEF Exchange, Extended
    <3>3. AnswerTo(r) = Granted(row[r.code].scope, TokenOf(r.code, 1, row[r.code].scope))
      BY <1>1, <2>1 DEF AnswerTo, Exchange
    <3> QED BY <1>1, <3>1, <3>2, <3>3 DEF Granted, TokenOf, Answer, Row, Exchange
  <2>2. CASE ExchangeError(r) # "none"
    <3>1. AnswerTo(r) = Refused(ExchangeError(r)) /\ session' = session
      BY <1>1, <2>2 DEF AnswerTo, Exchange
    <3> QED BY <2>2, <3>1, ExchangeErrors DEF Refused, Answer
  <2> QED BY <2>1, <2>2
<1>2. CASE Refresh(r)
  <2>1. /\ r.kind = "refresh" /\ r.code \in DOMAIN session /\ session[r.code] \in Session
        /\ r.scope \in {NoScope} \cup SUBSET Scopes
        /\ r.token \in 1..MaxTokens /\ r.token < MaxTokens
    BY <1>2, Typed DEF Refresh, Made, Request
  <2>2. CASE RefreshError(r) = "none"
    <3>1. session[r.code].token = r.token
      BY <2>2, RefreshErrors DEF Fatal
    <3>2. session'[r.code] = [session[r.code] EXCEPT !.scope = ScopeAfter(r), !.token = @ + 1]
      BY <1>2, <2>1, <2>2 DEF Refresh
    <3>3. /\ session'[r.code].token = r.token + 1
          /\ session'[r.code].scope = ScopeAfter(r)
      BY <2>1, <3>1, <3>2 DEF Session
    <3>4. ScopeAfter(r) \in SUBSET Scopes
      BY <2>1 DEF ScopeAfter, Session
    <3>5. AnswerTo(r) = Granted(ScopeAfter(r), TokenOf(r.code, r.token + 1, ScopeAfter(r)))
      BY <2>1, <2>2 DEF AnswerTo
    <3>6. DOMAIN session' = DOMAIN session
      BY <1>2, <2>2 DEF Refresh
    <3> QED BY <2>1, <3>3, <3>4, <3>5, <3>6 DEF Granted, TokenOf, Answer
  <2>3. CASE RefreshError(r) # "none"
    <3>1. AnswerTo(r) \in {Refused("client"), Refused("grant"), Refused("scope")}
      BY <2>1, <2>3, RefreshErrors DEF AnswerTo
    <3>2. session'[r.code].token = session[r.code].token
      BY <1>2, <2>1, <2>3, RefreshErrors DEF Refresh, Revoke, RefuseTooWide, Session
    <3> QED BY <3>1, <3>2 DEF Refused, Answer
  <2> QED BY <2>2, <2>3
<1>3. CASE RevokeToken(r)
  <2>1. /\ r.kind = "revoke" /\ r.code \in DOMAIN session /\ session[r.code] \in Session
        /\ AnswerTo(r) = IF Usable THEN Revoked ELSE Refused("client")
    BY <1>3, Typed DEF RevokeToken, Made, AnswerTo
  <2>2. CASE Usable
    <3>1. session' = [session EXCEPT ![r.code].state = "revoked"]
      BY <1>3, <2>2 DEF RevokeToken, Revocable, Revoke
    <3>2. /\ DOMAIN session' = DOMAIN session /\ session'[r.code].state = "revoked"
          /\ session'[r.code].token = session[r.code].token
      BY <2>1, <3>1 DEF Session
    <3> QED BY <2>1, <2>2, <3>2 DEF Revoked, Refused, Answer
  <2>3. CASE ~Usable
    BY <1>3, <2>1, <2>3 DEF RevokeToken, Refused, Answer
  <2> QED BY <2>2, <2>3
<1> QED BY <1>1, <1>2, <1>3 DEF Token

LEMMA ServeKeeps ==
    ASSUME IInv, Serve
    PROVE  IInv'
<1> DEFINE r == request
<1>1. /\ r # NoRequest /\ answer = NoAnswer /\ Made(r) /\ Token(r)
      /\ answer' = AnswerTo(r) /\ GrantsTypeOK
      /\ UNCHANGED <<flow, pending, held, request, stray, astray, signedOut>>
  BY DEF Serve, IInv, TypeOK
<1>2. GrantsTypeOK' /\ Ages
  BY <1>1, TokenAges
<1>3. RowsOfFlows'
  BY <1>1, <1>2, TokenTouches, RowsKeepFlows
<1>4. /\ answer' \in Answer
      /\ answer'.result = "granted" =>
           /\ r.kind # "revoke" /\ r.code \in DOMAIN session'
           /\ answer'.token \in {0, session'[r.code].token}
           /\ answer'.token # 0 => Offline \in session'[r.code].scope
           /\ r.kind = "refresh" => r.token < session'[r.code].token
      /\ answer'.result # "granted" => answer'.token = 0
      /\ answer'.result = "revoked" =>
           r.code \in DOMAIN session' /\ session'[r.code].state = "revoked"
      /\ r.code \in DOMAIN session /\ ~(r.kind = "refresh" /\ answer'.result = "granted") =>
           session'[r.code].token = session[r.code].token
  BY <1>1, ServeAnswers
<1>5. answer' # NoAnswer
  BY <1>4
<1>6. \A k \in DOMAIN session' : session'[k].token \in Nat /\ session'[k].token >= 1
  BY <1>2 DEF GrantsTypeOK, Session
<1>7. TypeOK'
  <2>1. (request # NoRequest => Made(request))' /\ \A q \in stray' : Made(q)'
    BY <1>1, <1>2, MadeStays DEF IInv, TypeOK
  <2>2. signedOut' \subseteq DOMAIN session'
    BY <1>1, <1>2 DEF IInv, TypeOK, Ages
  <2> QED BY <1>1, <1>2, <1>4, <2>1, <2>2 DEF IInv, TypeOK
<1>8. HeldIsLast'
  <2> SUFFICES ASSUME held # NoToken PROVE HeldIsLast'
    BY <1>1 DEF HeldIsLast
  <2> DEFINE k == held.code
  <2>1. /\ k \in DOMAIN session /\ held.token <= session[k].token
        /\ session[k].state = "live" /\ k \notin astray => held.token = session[k].token
    BY <1>1 DEF IInv, HeldIsLast
  <2>2. k \in DOMAIN session' /\ held.token <= session'[k].token
    BY <1>2, <1>6, <2>1, Typed DEF Ages
  <2>3. CASE r.kind = "refresh" /\ r.code = k /\ answer'.result = "granted"
    BY <1>1, <1>5, <2>2, <2>3 DEF HeldIsLast
  <2>4. CASE ~(r.kind = "refresh" /\ r.code = k /\ answer'.result = "granted")
    <3>1. session'[k].token = session[k].token
      BY <1>1, <1>4, <2>1, <2>4, TokenTouches
    <3>2. session'[k].state = "live" => session[k].state = "live"
      BY <1>2, <2>1 DEF Ages
    <3> QED BY <1>1, <2>1, <2>2, <3>1, <3>2 DEF HeldIsLast
  <2> QED BY <2>3, <2>4
<1>9. RefreshesKnown'
  BY <1>1 DEF IInv, RefreshesKnown
<1>10. AnswerHolds'
  BY <1>1, <1>4, <1>6 DEF AnswerHolds
<1>11. OfflineAccessOnly'
  <2> SUFFICES ASSUME NEW k \in DOMAIN session', session'[k].state = "live", CanContinue(k)'
               PROVE  Offline \in session'[k].scope
    BY DEF OfflineAccessOnly
  <2>1. CASE held = [code |-> k, token |-> session'[k].token]
    <3>1. held # NoToken
      BY <1>2, <2>1 DEF GrantsTypeOK, Session, Held
    <3>2. /\ k \in DOMAIN session /\ held.token = session[k].token /\ held.code = k
          /\ session'[k].scope = session[k].scope
      BY <1>2, <2>1, <3>1, HeldStays
    <3>3. CanContinue(k) /\ session[k].state = "live"
      BY <1>2, <2>1, <3>2 DEF CanContinue, Ages
    <3> QED BY <3>2, <3>3 DEF IInv, OfflineAccessOnly
  <2>2. CASE r.code = k /\ answer'.token = session'[k].token
    BY <1>4, <1>6, <2>2
  <2> QED BY <1>1, <2>1, <2>2 DEF CanContinue
<1>12. SignedOutForGood'
  BY <1>1, <1>2 DEF IInv, TypeOK, SignedOutForGood, Ages
<1> QED BY <1>3, <1>7, <1>8, <1>9, <1>10, <1>11, <1>12 DEF IInv

-----------------------------------------------------------------------------
(* The application goes on, and the server stays as it is *)

LEMMA StartKeeps ==
    ASSUME IInv, NEW wish \in Wishes, Start(wish)
    PROVE  IInv'
<1> DEFINE f == Fresh(Flows, DOMAIN flow)
<1>1. f \in Flows \ DOMAIN flow
  BY DEF Start, Fresh, IInv, TypeOK
<1>2. /\ flow' = Extended(flow, f, wish) /\ pending' = f
      /\ UNCHANGED <<held, request, answer, stray, astray, signedOut, grantVars>>
  BY DEF Start
<1> HIDE DEF f
<1>3. /\ DOMAIN flow' = DOMAIN flow \cup {f} /\ flow'[f] = wish
      /\ \A g \in DOMAIN flow : flow'[g] = flow[g]
  BY <1>1, <1>2 DEF Extended
<1>4. TypeOK'
  <2>1. GrantsTypeOK' /\ \A q : Made(q)' <=> Made(q)
    BY <1>2 DEF IInv, TypeOK, GrantsTypeOK, grantVars, Made
  <2>2. flow'[f] \in Wishes /\ \A g \in DOMAIN flow : flow'[g] \in Wishes
    BY <1>3 DEF IInv, TypeOK
  <2> QED BY <1>1, <1>2, <1>3, <2>1, <2>2 DEF IInv, TypeOK, grantVars
<1>5. RowsOfFlows'
  BY <1>2, <1>3 DEF IInv, RowsOfFlows, grantVars
<1> QED BY <1>2, <1>4, <1>5 DEF IInv, HeldIsLast, RefreshesKnown, AnswerHolds,
             OfflineAccessOnly, CanContinue, SignedOutForGood, grantVars

\* Every other step of the application leaves its flows, and what the types say of
\* the server, alone.
LEMMA AppTypes ==
    ASSUME IInv, UNCHANGED <<grantVars, flow>>,
           pending' \in {pending, NoFlow},
           held' \in Held \cup {NoToken},
           request' # NoRequest => Made(request'),
           answer' \in {answer, NoAnswer},
           \A r \in stray' : Made(r),
           astray' \subseteq Codes, signedOut' \subseteq DOMAIN session
    PROVE  TypeOK' /\ RowsOfFlows'
<1>1. GrantsTypeOK' /\ \A q : Made(q)' <=> Made(q)
  BY DEF IInv, TypeOK, GrantsTypeOK, grantVars, Made
<1>2. (request # NoRequest => Made(request))'
  BY DEF Made, grantVars
<1>3. \A r \in stray' : Made(r)'
  BY DEF Made, grantVars
<1>4. TypeOK'
  BY <1>1, <1>2, <1>3 DEF IInv, TypeOK, grantVars
<1>5. RowsOfFlows'
  BY DEF IInv, RowsOfFlows, grantVars
<1> QED BY <1>4, <1>5

\* No request is under way: there is no answer either.
LEMMA NoneUnderWay ==
    ASSUME IInv, request = NoRequest
    PROVE  answer = NoAnswer
  BY DEF IInv, AnswerHolds

LEMMA ReturnKeeps ==
    ASSUME IInv, NEW page \in Pages, NEW e \in Expecteds, Return(page, e)
    PROVE  IInv'
<1> DEFINE r == ExchangeOf(pending, page.code)
<1>1. /\ request = NoRequest /\ request' = r /\ pending' = NoFlow
      /\ UNCHANGED <<flow, held, answer, stray, astray, signedOut, grantVars>>
      /\ answer = NoAnswer
  BY NoneUnderWay DEF Return
<1>2. page.state = pending /\ pending # NoFlow
  BY DEF Return, Accepts, Parses, Expecteds
<1>3. PICK k \in DOMAIN row : page = Redirect(row[k].uri, k, row[k].flow)
  BY DEF Pages
<1>4. page.code = k /\ row[k].flow = pending /\ k \in Codes
  BY <1>2, <1>3 DEF Redirect, IInv, TypeOK, GrantsTypeOK
<1>5. /\ pending \in DOMAIN flow /\ row[k].uri = flow[pending].uri
      /\ row[k] \in Row
  BY <1>4 DEF IInv, RowsOfFlows, TypeOK, GrantsTypeOK
<1>6. Made(r)
  <2>1. r = [kind |-> "exchange", code |-> k, uri |-> row[k].uri, flow |-> row[k].flow]
    BY <1>4, <1>5 DEF ExchangeOf
  <2>2. r \in Request /\ r.kind = "exchange" /\ r.code = k /\ r.uri = row[k].uri
        /\ r.flow = row[k].flow
    BY <1>4, <1>5, <2>1 DEF Request, Row
  <2> HIDE DEF r
  <2> QED BY <2>2 DEF Made
<1>7. r.kind = "exchange"
  BY DEF ExchangeOf
<1> HIDE DEF r
<1>8. TypeOK' /\ RowsOfFlows'
  BY <1>1, <1>6, AppTypes DEF IInv, TypeOK, grantVars
<1>9. HeldIsLast'
  BY <1>1 DEF IInv, HeldIsLast, grantVars
<1>10. RefreshesKnown'
  BY <1>1, <1>7 DEF IInv, RefreshesKnown
<1>11. OfflineAccessOnly' /\ SignedOutForGood'
  BY <1>1 DEF IInv, OfflineAccessOnly, CanContinue, SignedOutForGood, grantVars
<1> QED BY <1>1, <1>8, <1>9, <1>10, <1>11 DEF IInv

LEMMA ReturnInVainKeeps ==
    ASSUME IInv, NEW page, NEW e, ReturnInVain(page, e)
    PROVE  IInv'
<1>1. /\ pending' = NoFlow
      /\ UNCHANGED <<flow, held, request, answer, stray, astray, signedOut, grantVars>>
  BY DEF ReturnInVain
<1>2. TypeOK' /\ RowsOfFlows'
  BY <1>1, AppTypes DEF IInv, TypeOK, grantVars
<1>3. HeldIsLast' /\ RefreshesKnown'
  BY <1>1 DEF IInv, HeldIsLast, RefreshesKnown, grantVars
<1>4. (answer # NoAnswer => AnswerHolds)'
  BY <1>1 DEF IInv, AnswerHolds, grantVars
<1>5. OfflineAccessOnly' /\ SignedOutForGood'
  BY <1>1 DEF IInv, OfflineAccessOnly, CanContinue, SignedOutForGood, grantVars
<1> QED BY <1>2, <1>3, <1>4, <1>5 DEF IInv

\* A request about the session of the token held.
LEMMA AskKeeps ==
    ASSUME IInv, request = NoRequest, held # NoToken,
           NEW r \in Request, request' = r, r.kind \in {"refresh", "revoke"},
           r.code = held.code, r.token = held.token,
           r.kind = "refresh" => r.token < MaxTokens,
           UNCHANGED <<flow, pending, held, answer, stray, astray, signedOut, grantVars>>
    PROVE  IInv'
<1>1. answer = NoAnswer
  BY NoneUnderWay
<1>2. held \in Held /\ held = [code |-> r.code, token |-> r.token]
  BY Typed DEF Held
<1>3. Made(r)
  BY DEF IInv, HeldIsLast, Made
<1>4. TypeOK' /\ RowsOfFlows'
  BY <1>3, AppTypes DEF IInv, TypeOK, grantVars
<1>5. HeldIsLast' /\ RefreshesKnown'
  BY <1>1, <1>2 DEF IInv, HeldIsLast, RefreshesKnown, grantVars
<1>6. OfflineAccessOnly' /\ SignedOutForGood'
  BY <1>1 DEF IInv, OfflineAccessOnly, CanContinue, SignedOutForGood, grantVars
<1> QED BY <1>1, <1>4, <1>5, <1>6 DEF IInv

LEMMA AskRefreshKeeps ==
    ASSUME IInv, NEW scope \in Scoped, AskRefresh(scope)
    PROVE  IInv'
<1> DEFINE r == [kind |-> "refresh", code |-> held.code, token |-> held.token, scope |-> scope]
<1>1. /\ held # NoToken /\ request = NoRequest /\ request' = r /\ held.token < MaxTokens
      /\ UNCHANGED <<flow, pending, held, answer, stray, astray, signedOut, grantVars>>
  BY DEF AskRefresh
<1>2. scope \in {NoScope} \cup SUBSET Scopes
  BY ScopedAssumption
<1>3. r \in Request
  BY <1>1, <1>2, Typed DEF Request, Held
<1>4. r.kind = "refresh" /\ r.code = held.code /\ r.token = held.token
  OBVIOUS
<1> HIDE DEF r
<1> QED BY <1>1, <1>3, <1>4, AskKeeps

LEMMA AskRevokeKeeps ==
    ASSUME IInv, AskRevoke
    PROVE  IInv'
<1> DEFINE r == [kind |-> "revoke", code |-> held.code, token |-> held.token]
<1>1. /\ held # NoToken /\ request = NoRequest /\ request' = r
      /\ UNCHANGED <<flow, pending, held, answer, stray, astray, signedOut, grantVars>>
  BY DEF AskRevoke
<1>2. r \in Request
  BY <1>1, Typed DEF Request, Held
<1>3. r.kind = "revoke" /\ r.code = held.code /\ r.token = held.token
  OBVIOUS
<1> HIDE DEF r
<1> QED BY <1>1, <1>2, <1>3, AskKeeps

LEMMA GiveUpKeeps ==
    ASSUME IInv, NEW lost \in BOOLEAN, GiveUp(lost)
    PROVE  IInv'
<1>1. /\ request # NoRequest /\ request' = NoRequest /\ answer' = NoAnswer
      /\ stray' \subseteq stray \cup {request}
      /\ astray' = astray \cup {request.code}
      /\ UNCHANGED <<flow, pending, held, signedOut, grantVars>>
  BY DEF GiveUp
<1>2. Made(request) /\ request.code \in Codes
  BY <1>1 DEF IInv, TypeOK, Made, Request
<1>3. TypeOK' /\ RowsOfFlows'
  BY <1>1, <1>2, AppTypes DEF IInv, TypeOK, grantVars
<1>4. HeldIsLast' /\ RefreshesKnown'
  BY <1>1 DEF IInv, HeldIsLast, RefreshesKnown, grantVars
<1>5. OfflineAccessOnly' /\ SignedOutForGood'
  BY <1>1 DEF IInv, OfflineAccessOnly, CanContinue, SignedOutForGood, grantVars
<1> QED BY <1>1, <1>3, <1>4, <1>5 DEF IInv

\* An answer is read: what the new token held and the histories have to satisfy.
LEMMA ReadKeeps ==
    ASSUME IInv, Done,
           held' \in Held \cup {NoToken}, HeldIsLast',
           held' # held /\ held' # NoToken =>
               held' = [code |-> request.code, token |-> answer.token],
           astray \subseteq astray', astray' \subseteq astray \cup {request.code},
           SignedOutForGood', signedOut' \subseteq DOMAIN session
    PROVE  IInv'
<1>1. /\ request # NoRequest /\ answer # NoAnswer
      /\ request' = NoRequest /\ answer' = NoAnswer
      /\ UNCHANGED <<flow, pending, stray, grantVars>>
  BY DEF Done
<1>2. Made(request) /\ request.code \in Codes
  BY <1>1 DEF IInv, TypeOK, Made, Request
<1>3. TypeOK' /\ RowsOfFlows'
  BY <1>1, <1>2, AppTypes DEF IInv, TypeOK, grantVars
<1>4. RefreshesKnown'
  BY <1>1 DEF IInv, RefreshesKnown
<1>5. OfflineAccessOnly'
  <2> SUFFICES ASSUME NEW k \in DOMAIN session, session[k].state = "live",
                      held' = [code |-> k, token |-> session[k].token]
               PROVE  Offline \in session[k].scope
    BY <1>1 DEF OfflineAccessOnly, CanContinue, grantVars
  <2>1. held' # NoToken
    BY DEF IInv, TypeOK, GrantsTypeOK, Session, Held
  <2>2. CanContinue(k)
    BY <1>1, <2>1 DEF CanContinue
  <2> QED BY <2>2 DEF IInv, OfflineAccessOnly
<1> QED BY <1>1, <1>3, <1>4, <1>5 DEF IInv

LEMMA ReceiveKeeps ==
    ASSUME IInv, Receive
    PROVE  IInv'
<1>1. /\ Done /\ answer.result = "granted" /\ answer.token # 0
      /\ held' = [code |-> request.code, token |-> answer.token]
      /\ astray' = astray /\ signedOut' = signedOut
      /\ request # NoRequest /\ answer # NoAnswer
      /\ UNCHANGED grantVars
  BY DEF Receive, Done
<1>2. /\ request.code \in DOMAIN session /\ answer.token <= session[request.code].token
      /\ session[request.code].state = "live" /\ request.code \notin astray =>
           answer.token \in {0, session[request.code].token}
  BY <1>1 DEF IInv, AnswerHolds
<1>3. held' \in Held
  BY <1>1, <1>2 DEF IInv, TypeOK, GrantsTypeOK, Held, Answer
<1>4. HeldIsLast'
  BY <1>1, <1>2 DEF HeldIsLast, grantVars
<1>5. SignedOutForGood' /\ signedOut' \subseteq DOMAIN session
  BY <1>1 DEF IInv, TypeOK, SignedOutForGood, grantVars
<1> QED BY <1>1, <1>3, <1>4, <1>5, ReadKeeps

LEMMA ReceiveNoneKeeps ==
    ASSUME IInv, ReceiveNone
    PROVE  IInv'
<1>1. /\ Done /\ answer.result = "granted" /\ signedOut' = signedOut
      /\ \/ held' = NoToken /\ astray' = astray
         \/ held' = held /\ astray' = astray \cup {request.code}
      /\ request # NoRequest /\ answer # NoAnswer
      /\ UNCHANGED grantVars
  <2>1. \/ held' = NoToken /\ astray' = astray
        \/ held' = held /\ astray' = astray \cup {request.code}
    BY Zenon DEF ReceiveNone
  <2> QED BY <2>1, Zenon DEF ReceiveNone, Done
<1>2. HeldIsLast'
  <2>1. CASE held' = NoToken
    BY <2>1 DEF HeldIsLast
  <2>2. CASE held' = held /\ astray' = astray \cup {request.code}
    BY <1>1, <2>2 DEF IInv, HeldIsLast, grantVars
  <2> QED BY <1>1, <2>1, <2>2
<1>3. held' \in Held \cup {NoToken}
  BY <1>1, Typed
<1>4. SignedOutForGood' /\ signedOut' \subseteq DOMAIN session
  BY <1>1 DEF IInv, TypeOK, SignedOutForGood, grantVars
<1> QED BY <1>1, <1>2, <1>3, <1>4, ReadKeeps

LEMMA ReceiveRevokedKeeps ==
    ASSUME IInv, ReceiveRevoked
    PROVE  IInv'
<1>1. /\ Done /\ answer.result = "revoked" /\ held' = NoToken
      /\ signedOut' = signedOut \cup {request.code} /\ astray' = astray
      /\ request # NoRequest /\ answer # NoAnswer
      /\ UNCHANGED grantVars
  BY DEF ReceiveRevoked, Done, Revoked, Refused
<1>2. request.code \in DOMAIN session /\ session[request.code].state = "revoked"
  BY <1>1 DEF IInv, AnswerHolds
<1>3. HeldIsLast'
  BY <1>1 DEF HeldIsLast
<1>4. SignedOutForGood' /\ signedOut' \subseteq DOMAIN session
  BY <1>1, <1>2 DEF IInv, TypeOK, SignedOutForGood, grantVars
<1> QED BY <1>1, <1>3, <1>4, ReadKeeps

LEMMA ReceiveErrorKeeps ==
    ASSUME IInv, ReceiveError
    PROVE  IInv'
<1>1. /\ Done /\ answer.result # "granted" /\ held' \in {held, NoToken}
      /\ signedOut' = signedOut /\ astray' = astray
      /\ request # NoRequest /\ answer # NoAnswer
      /\ UNCHANGED grantVars
  BY DEF ReceiveError, Done
<1>2. HeldIsLast'
  <2>1. CASE held' = NoToken
    BY <2>1 DEF HeldIsLast
  <2>2. CASE held' = held
    BY <1>1, <2>2 DEF IInv, HeldIsLast, grantVars
  <2> QED BY <1>1, <2>1, <2>2
<1>3. held' \in Held \cup {NoToken}
  BY <1>1, Typed
<1>4. SignedOutForGood' /\ signedOut' \subseteq DOMAIN session
  BY <1>1 DEF IInv, TypeOK, SignedOutForGood, grantVars
<1> QED BY <1>1, <1>2, <1>3, <1>4, ReadKeeps

LEMMA NextKeeps ==
    ASSUME IInv, [Next]_vars
    PROVE  IInv'
<1>1. CASE Application
  BY <1>1, StartKeeps, ReturnKeeps, ReturnInVainKeeps, AskRefreshKeeps, AskRevokeKeeps,
     ReceiveKeeps, ReceiveNoneKeeps, ReceiveRevokedKeeps, ReceiveErrorKeeps DEF Application
<1>2. CASE UNCHANGED vars
  <2>1. UNCHANGED <<grantVars, flow, pending, held, request, answer, stray, astray, signedOut>>
    BY <1>2 DEF vars, appVars
  <2>2. TypeOK' /\ RowsOfFlows'
    BY <2>1, AppTypes DEF IInv, TypeOK, grantVars
  <2> QED BY <2>1, <2>2 DEF IInv, HeldIsLast, RefreshesKnown, AnswerHolds, OfflineAccessOnly,
               CanContinue, SignedOutForGood, grantVars
<1> QED BY <1>1, <1>2, ServeKeeps, StrayKeeps, GiveUpKeeps, ApproveKeeps, WorldKeeps DEF Next

\* Every state the application and the server reach together satisfies IInv.
THEOREM Invariance == Spec => []IInv
<1>1. Init => IInv
  BY InitHolds
<1>2. IInv /\ [Next]_vars => IInv'
  BY NextKeeps
<1> QED BY <1>1, <1>2, PTL DEF Spec

\* An application goes on with a session only if its scope holds offline_access.
THEOREM OfflineAccessOnlyAlways == Spec => []OfflineAccessOnly
<1>1. IInv => OfflineAccessOnly
  BY DEF IInv
<1> QED BY <1>1, Invariance, PTL

\* A revocation that was confirmed is never undone.
THEOREM SignedOutForGoodAlways == Spec => []SignedOutForGood
<1>1. IInv => SignedOutForGood
  BY DEF IInv
<1> QED BY <1>1, Invariance, PTL

\* The callbacks the server builds are read by the flows they answer, and no others,
\* for every redirect URI that leaves code, state and error alone.
THEOREM CallbacksAreReadAlways == Spec => []CallbacksAreRead
<1>1. ASSUME IInv PROVE CallbacksAreRead
  <2> SUFFICES ASSUME NEW page \in Pages, NEW f \in DOMAIN flow
               PROVE  LET uri == flow[f].uri
                          mine == page.state = f /\ uri.query \cap {"code", "state", "error"} = {} IN
                      /\ Parses(page, f, ExpectingPlace(uri)) <=> mine
                      /\ Parses(page, f, Expecting(uri)) <=>
                           mine /\ uri.query = {} /\ uri.marks = {}
    BY DEF CallbacksAreRead
  <2>1. PICK k \in DOMAIN row : page = Redirect(row[k].uri, k, row[k].flow)
    BY DEF Pages
  <2>2. page.state = row[k].flow /\ page.query = row[k].uri.query /\ page.place = Place(row[k].uri)
    BY <2>1 DEF Redirect
  <2>3. CASE page.state = f
    <3>1. row[k].uri = flow[f].uri
      BY <1>1, <2>2, <2>3 DEF IInv, RowsOfFlows
    <3> QED BY <2>2, <2>3, <3>1 DEF Parses, AsExpected, Single, Expecting, ExpectingPlace
  <2>4. CASE page.state # f
    BY <2>4 DEF Parses
  <2> QED BY <2>3, <2>4
<1> QED BY <1>1, Invariance, PTL

\* Where invalid_grant comes from.
LEMMA GrantErrors ==
    ASSUME IInv, [Next]_vars, answer = NoAnswer, answer' = Refused("grant")
    PROVE  LET k == request.code IN
           \/ ~active
           \/ /\ request.kind = "exchange"
              /\ row[k].state # "open" \/ row[k].uri \notin registry.uris
           \/ /\ request.kind = "refresh"
              /\ session[k].state # "live" \/ k \in astray
<1> DEFINE r == request
<1>1. answer' # NoAnswer
  BY DEF Refused, Answer
<1>2. Serve
  BY <1>1 DEF Next, Application, Start, Return, ReturnInVain, AskRefresh, AskRevoke, Receive,
              ReceiveNone, ReceiveRevoked, ReceiveError, Done, Approve, ServeStray, GiveUp,
              appVars, vars
<1>3. r # NoRequest /\ Made(r) /\ Token(r) /\ AnswerTo(r) = Refused("grant")
  BY <1>2 DEF Serve, IInv, TypeOK
<1>4. AnswerTo(r).result = "grant"
  BY <1>3 DEF Refused
<1>5. CASE Exchange(r)
  <2>1. r.kind = "exchange" /\ r.code \in DOMAIN row /\ row[r.code].flow = r.flow
        /\ row[r.code].uri = r.uri
    BY <1>3, <1>5 DEF Exchange, Made
  <2>2. ExchangeError(r) = "grant"
    BY <1>4, <2>1, ExchangeErrors DEF AnswerTo, Granted, Refused
  <2> QED BY <2>1, <2>2, ExchangeErrors DEF Exchangeable
<1>6. CASE Refresh(r)
  <2>1. r.kind = "refresh" /\ held = [code |-> r.code, token |-> r.token]
    BY <1>3, <1>6 DEF Refresh, IInv, RefreshesKnown
  <2>2. RefreshError(r) = "grant"
    BY <1>4, <2>1, RefreshErrors DEF AnswerTo, Granted, Refused
  <2>3. Fatal(r)
    BY <2>2, RefreshErrors
  <2>4. held # NoToken
    BY <1>3, <2>1 DEF Made, Request, Held
  <2>5. session[r.code].state = "live" /\ r.code \notin astray => r.token = session[r.code].token
    BY <2>1, <2>4 DEF IInv, HeldIsLast
  <2> QED BY <2>1, <2>3, <2>5 DEF Fatal
<1>7. CASE RevokeToken(r)
  BY <1>4, <1>7 DEF RevokeToken, AnswerTo, Revoked, Refused
<1> QED BY <1>3, <1>5, <1>6, <1>7 DEF Token

\* invalid_grant meets only what is spent, late or withdrawn, or an application that
\* has missed an answer.
THEOREM InvalidGrantIsFoundedAlways == Spec => InvalidGrantIsFounded
<1>1. IInv /\ [Next]_vars =>
        [answer = NoAnswer /\ answer' = Refused("grant") =>
           LET k == request.code IN
           \/ ~active
           \/ /\ request.kind = "exchange"
              /\ row[k].state # "open" \/ row[k].uri \notin registry.uris
           \/ /\ request.kind = "refresh"
              /\ session[k].state # "live" \/ k \in astray]_vars
  BY GrantErrors
<1> QED BY <1>1, Invariance, PTL DEF Spec, InvalidGrantIsFounded
=============================================================================
