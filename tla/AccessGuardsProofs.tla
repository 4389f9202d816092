-------------------------- MODULE AccessGuardsProofs --------------------------
(***************************************************************************)
(* The guards of AccessGuards admit only requests that deserved it when    *)
(* they arrived, and refuse none that still does, for any number of        *)
(* handlers, users, clients, scopes and sessions.                          *)
(***************************************************************************)
EXTENDS AccessGuards, TLAPS

\* The busy handlers have requests.
LEMMA BusyRequest ==
    ASSUME TypeOK, NEW w \in Workers, pc[w] # "idle"
    PROVE  /\ job[w] \in Request /\ job[w].claims \in Payload
           /\ job[w].guard \in {"user", "optional", "scopes"}
           /\ job[w].via \in {"bearer", "cookie", "none"}
  BY InputAssumption DEF TypeOK, Request

\* The initial state, without sessions and requests, satisfies the invariant.
LEMMA InitInv == Init => IInv
  BY ClockAssumption DEF Init, IInv, TypeOK, Row, MaybeClient, MaybeScope

\* A step of one handler that changes no rows preserves the invariant, if it
\* leaves that handler well typed and its request pending.
LEMMA OneHandler ==
    ASSUME IInv, NEW w \in Workers, UNCHANGED rows, TypeOK',
           \A v \in Workers \ {w} : /\ pc'[v] = pc[v] /\ job'[v] = job[v]
                                    /\ wasGood'[v] = wasGood[v],
           pc'[w] # "idle" => Pending(w)'
    PROVE  IInv'
  <1> SUFFICES ASSUME NEW v \in Workers, v # w, pc'[v] # "idle"
               PROVE  Pending(v)'
    BY DEF IInv
  <1>1. Pending(v)
    BY DEF IInv
  <1> QED
    BY <1>1 DEF Pending, Good, Standing, Delegated, FirstParty, CsrfSafe, rows

\* A request that arrives is as good as it is, so its history agrees.
LEMMA ArriveStep ==
    ASSUME IInv, NEW w \in Workers, NEW q \in Request, Arrive(w, q)
    PROVE  IInv'
  <1>1. /\ pc' = [pc EXCEPT ![w] = "arrived"] /\ job' = [job EXCEPT ![w] = q]
        /\ wasGood' = [wasGood EXCEPT ![w] = Good(q)] /\ UNCHANGED rows
        /\ q.claims.sid # NoSession => session[q.claims.sid].state # "none"
    BY DEF Arrive
  <1>2. Good(q) \in BOOLEAN
    BY DEF Good
  <1>3. TypeOK'
    BY <1>1, <1>2, SentinelAssumption DEF IInv, TypeOK, rows
  <1>4. Pending(w)'
    BY <1>1 DEF IInv, TypeOK, Pending, Good, Standing, Delegated, FirstParty, rows
  <1>5. \A v \in Workers \ {w} : /\ pc'[v] = pc[v] /\ job'[v] = job[v]
                                 /\ wasGood'[v] = wasGood[v]
    BY <1>1 DEF IInv, TypeOK
  <1> QED
    BY <1>1, <1>3, <1>4, <1>5, OneHandler

\* A test of a guard preserves the invariant, if success leaves the request pending.
LEMMA CheckStep ==
    ASSUME IInv, NEW w \in Workers, pc[w] # "idle",
           NEW test \in BOOLEAN, NEW next \in {"session", "user", "admitted", "visitor"},
           Check(w, test, next),
           test /\ pc'[w] = next => Pending(w)'
    PROVE  IInv'
  <1>1. /\ pc' = [pc EXCEPT ![w] = IF test THEN next ELSE "refused"]
        /\ UNCHANGED <<job, wasGood, rows>>
    BY DEF Check
  <1>2. TypeOK'
    BY <1>1 DEF IInv, TypeOK, rows, Final
  <1>3. \A v \in Workers \ {w} : /\ pc'[v] = pc[v] /\ job'[v] = job[v]
                                 /\ wasGood'[v] = wasGood[v]
    BY <1>1 DEF IInv, TypeOK
  <1>4. pc'[w] = IF test THEN next ELSE "refused"
    BY <1>1 DEF IInv, TypeOK
  <1>5. ~test => Pending(w)'
    BY <1>1, <1>4 DEF IInv, Pending, rows
  <1> QED
    BY <1>1, <1>2, <1>3, <1>4, <1>5, OneHandler

\* The guard of first parties: each test that passes keeps the request pending.
LEMMA ResolveStep ==
    ASSUME IInv, NEW w \in Workers,
           ResolveVisitor(w) \/ ResolveToken(w) \/ ResolveSession(w)
    PROVE  IInv'
  <1> DEFINE q == job[w]  c == job[w].claims
  <1>1. CASE ResolveVisitor(w)
    <2> DEFINE test == q.guard = "optional" /\ ~q.refresh
    <2>1. pc[w] = "arrived" /\ Check(w, test, "visitor")
      BY <1>1 DEF ResolveVisitor
    <2>2. pc'[w] = "visitor" => Pending(w)'
      BY <2>1 DEF IInv, Pending, Check, rows
    <2> QED
      BY <2>1, <2>2, CheckStep
  <1>2. CASE ResolveToken(w)
    <2> DEFINE test == /\ CsrfSafe(q) /\ Decodes(c)
                       /\ c.sid = NoSession => c.client = NoClient /\ c.scope = NoScope
               next == IF c.sid = NoSession THEN "user" ELSE "session"
    <2>1. /\ pc[w] = "arrived" /\ q.guard # "scopes" /\ q.via # "none"
          /\ Check(w, test, next)
      BY <1>2 DEF ResolveToken
    <2>2. Pending(w) /\ q \in Request
      BY <2>1, BusyRequest DEF IInv
    <2>3. test /\ Standing(q) => wasGood[w]
      BY <2>1, <2>2 DEF Pending, Good, Decodes
    <2>4. test /\ c.sid = NoSession /\ c.sub \in active => Standing(q)
      BY <2>1 DEF Standing, FirstParty, CsrfSafe
    <2>5. test /\ pc'[w] = next => Pending(w)'
      <3>1. UNCHANGED <<job, wasGood, registry, active, session, now>>
        BY <2>1 DEF Check, rows
      <3>2. CASE c.sid = NoSession
        BY <2>2, <2>3, <2>4, <3>1, <3>2 DEF Pending
      <3>3. CASE c.sid # NoSession
        <4>1. Standing(q)' = Standing(q)
          BY <3>1 DEF Standing, Delegated, FirstParty
        <4> QED
          BY <2>1, <2>2, <2>3, <3>1, <3>3, <4>1 DEF Pending, CsrfSafe
      <3> QED
        BY <3>2, <3>3
    <2>6. test \in BOOLEAN
      BY DEF CsrfSafe, Decodes
    <2> HIDE DEF test
    <2> QED
      BY <2>1, <2>5, <2>6, CheckStep
  <1>3. CASE ResolveSession(w)
    <2> DEFINE test == LiveSession(c) /\ ~OAuthMetadata(c)
    <2>1. pc[w] = "session" /\ q.guard # "scopes" /\ Check(w, test, "user")
      BY <1>3 DEF ResolveSession
    <2>2. Pending(w)
      BY <2>1 DEF IInv
    <2>3. test /\ c.sub \in active => Standing(q)
      BY <2>1, <2>2 DEF Pending, Standing, FirstParty, CsrfSafe, LiveSession, OAuthMetadata
    <2>4. test /\ pc'[w] = "user" => Pending(w)'
      BY <2>1, <2>2, <2>3 DEF Pending, Check, rows
    <2>5. test \in BOOLEAN
      BY DEF LiveSession, OAuthMetadata
    <2> HIDE DEF test
    <2> QED
      BY <2>1, <2>4, <2>5, CheckStep
  <1> QED
    BY <1>1, <1>2, <1>3

\* The guard of OAuth clients, likewise.
LEMMA PrincipalStep ==
    ASSUME IInv, NEW w \in Workers, PrincipalToken(w) \/ PrincipalSession(w)
    PROVE  IInv'
  <1> DEFINE q == job[w]  c == job[w].claims
  <1>1. CASE PrincipalToken(w)
    <2> DEFINE test == /\ q.via = "bearer" /\ Decodes(c)
                       /\ c.sid # NoSession /\ c.client # NoClient /\ c.scope # NoScope
                       /\ registry[c.client].enabled
    <2>1. pc[w] = "arrived" /\ q.guard = "scopes" /\ Check(w, test, "session")
      BY <1>1 DEF PrincipalToken
    <2>2. Pending(w)
      BY <2>1 DEF IInv
    <2>3. test /\ Standing(q) => wasGood[w]
      BY <2>1, <2>2 DEF Pending, Good, Decodes
    <2>4. UNCHANGED <<job, wasGood, registry, active, session, now>>
      BY <2>1 DEF Check, rows
    <2>5. Standing(q)' = Standing(q)
      BY <2>4 DEF Standing, Delegated, FirstParty
    <2>6. test /\ pc'[w] = "session" => Pending(w)'
      BY <2>1, <2>2, <2>3, <2>4, <2>5 DEF Pending
    <2>7. test \in BOOLEAN
      <3> SUFFICES ASSUME c.client # NoClient PROVE registry[c.client].enabled \in BOOLEAN
        BY DEF Decodes
      <3> QED
        BY <2>1, BusyRequest, InputAssumption
        DEF IInv, TypeOK, Payload, MaybeClient, Entry
    <2> HIDE DEF test
    <2> QED
      BY <2>1, <2>6, <2>7, CheckStep
  <1>2. CASE PrincipalSession(w)
    <2> DEFINE test == /\ LiveSession(c)
                       /\ session[c.sid].client = c.client
                       /\ session[c.sid].scope # NoScope
                       /\ WithinGrant(c)
    <2>1. pc[w] = "session" /\ q.guard = "scopes" /\ Check(w, test, "user")
      BY <1>2 DEF PrincipalSession
    <2>2. Pending(w)
      BY <2>1 DEF IInv
    <2>3. test /\ c.sub \in active => Standing(q)
      BY <2>1, <2>2 DEF Pending, Standing, Delegated, LiveSession, WithinGrant
    <2>4. test /\ pc'[w] = "user" => Pending(w)'
      BY <2>1, <2>2, <2>3 DEF Pending, Check, rows
    <2>5. test \in BOOLEAN
      BY DEF LiveSession, WithinGrant
    <2> HIDE DEF test
    <2> QED
      BY <2>1, <2>4, <2>5, CheckStep
  <1> QED
    BY <1>1, <1>2

\* The query of the user, which ends both guards.
LEMMA LoadUserStep == ASSUME IInv, NEW w \in Workers, LoadUser(w) PROVE IInv'
  <1> DEFINE test == job[w].claims.sub \in active
  <1>1. pc[w] = "user" /\ Check(w, test, "admitted")
    BY DEF LoadUser
  <1>2. test /\ pc'[w] = "admitted" => Pending(w)'
    BY <1>1 DEF IInv, Pending, Check, rows
  <1>3. test \in BOOLEAN
    OBVIOUS
  <1> HIDE DEF test
  <1> QED
    BY <1>1, <1>2, <1>3, CheckStep

LEMMA EndStep == ASSUME IInv, NEW w \in Workers, End(w) PROVE IInv'
  <1>1. /\ UNCHANGED rows /\ pc' = [pc EXCEPT ![w] = "idle"]
        /\ job' = [job EXCEPT ![w] = NoRequest] /\ wasGood' = [wasGood EXCEPT ![w] = FALSE]
    BY DEF End
  <1>2. TypeOK' /\ pc'[w] = "idle"
    BY <1>1 DEF IInv, TypeOK, rows
  <1>3. \A v \in Workers \ {w} : /\ pc'[v] = pc[v] /\ job'[v] = job[v]
                                 /\ wasGood'[v] = wasGood[v]
    BY <1>1 DEF IInv, TypeOK
  <1> QED
    BY <1>1, <1>2, <1>3, OneHandler

\* Sessions that only end and narrow, users that only become inactive and a clock
\* that only advances never make a pending request better.
LEMMA EnvironmentStep ==
    ASSUME IInv, TypeOK', UNCHANGED <<registry, pc, job, wasGood>>,
           active' \subseteq active, now <= now',
           \A s \in Sessions : session[s].state # "none" =>
             /\ session'[s].state # "none"
             /\ session'[s].state = "live" => session[s].state = "live"
             /\ session'[s].user = session[s].user
             /\ session'[s].client = session[s].client
             /\ session'[s].expires = session[s].expires
             /\ \/ session'[s].scope = session[s].scope
                \/ /\ session[s].scope # NoScope
                   /\ session'[s].scope \subseteq session[s].scope
    PROVE  IInv'
  <1> SUFFICES ASSUME NEW w \in Workers, pc[w] # "idle" PROVE Pending(w)'
    BY DEF IInv
  <1> DEFINE q == job[w]  c == q.claims  s == c.sid
  <1>1. Pending(w)
    BY DEF IInv
  <1>2. q \in Request /\ c \in Payload /\ c.exp \in Nat /\ (s # NoSession => s \in Sessions)
    BY BusyRequest DEF IInv, Payload
  <1>3. now \in Nat /\ now' \in Nat /\ \A x \in Sessions : session[x].expires \in Nat
    BY DEF IInv, TypeOK, Row
  <1>4. s # NoSession => session[s].state # "none" /\ session'[s].state # "none"
    BY <1>1, <1>2 DEF Pending
  <1>5. Standing(q)' => Standing(q)
    <2> SUFFICES ASSUME Standing(q)' PROVE Standing(q)
      OBVIOUS
    <2>1. c.sub \in active
      BY DEF Standing
    <2>2. s # NoSession => /\ session[s].state = "live" /\ session[s].user = c.sub
                           /\ now < session[s].expires
      BY <1>2, <1>3, <1>4 DEF Standing
    <2>3. q.guard = "scopes" => Delegated(q)
      BY <1>2, <1>4 DEF Standing, Delegated
    <2>4. q.guard # "scopes" => FirstParty(q)
      <3>1. q.guard # "scopes" => FirstParty(q)'
        BY DEF Standing
      <3>2. ~(NoScope \subseteq session[s].scope) \/ session[s].scope = NoScope \/ s = NoSession
        BY <1>2, SentinelAssumption DEF IInv, TypeOK, Row, MaybeScope, NoScope
      <3> QED
        BY <1>2, <1>4, <3>1, <3>2 DEF FirstParty
    <2> QED
      BY <2>1, <2>2, <2>3, <2>4 DEF Standing
  <1>6. Good(q)' => Good(q)
    BY <1>2, <1>3, <1>5 DEF Good
  <1>7. CsrfSafe(q)' = CsrfSafe(q)
    BY DEF CsrfSafe
  <1>8. c.sub \in active' => c.sub \in active
    OBVIOUS
  <1> HIDE DEF q, c, s
  <1> QED
    BY <1>1, <1>4, <1>5, <1>6, <1>7, <1>8 DEF Pending, q, c, s

\* A new session is one that no request under way can name.
LEMMA OpenStep ==
    ASSUME IInv, NEW s \in Sessions, NEW u \in Users, NEW c \in MaybeClient,
           NEW scope \in MaybeScope, Open(s, u, c, scope)
    PROVE  IInv'
  <1> DEFINE r == [state |-> "live", user |-> u, client |-> c, scope |-> scope,
                   expires |-> now + SessionLife]
  <1>1. /\ session[s].state = "none" /\ session' = [session EXCEPT ![s] = r]
        /\ UNCHANGED <<registry, active, now, pc, job, wasGood>>
    BY DEF Open, quiet
  <1>2. r \in Row
    BY ClockAssumption DEF IInv, TypeOK, Row
  <1> HIDE DEF r
  <1>3. TypeOK'
    BY <1>1, <1>2 DEF IInv, TypeOK
  <1>4. \A x \in Sessions : x # s => session'[x] = session[x]
    BY <1>1 DEF IInv, TypeOK
  <1>5. now <= now'
    BY <1>1 DEF IInv, TypeOK
  <1> QED
    BY <1>1, <1>3, <1>4, <1>5, EnvironmentStep

\* The other changes of the rows, and the restart that ends all requests.
LEMMA OtherSteps == ASSUME IInv, Environment PROVE IInv'
  <1>1. CASE \E s \in Sessions, u \in Users, c \in MaybeClient, scope \in MaybeScope :
               Open(s, u, c, scope)
    BY <1>1, OpenStep
  <1>2. CASE \E s \in Sessions, scope \in SUBSET Scopes : Narrow(s, scope)
    <2> PICK s \in Sessions, scope \in SUBSET Scopes : Narrow(s, scope)
      BY <1>2
    <2>1. /\ session[s].state = "live" /\ session[s].scope # NoScope
          /\ scope \subseteq session[s].scope
          /\ session' = [session EXCEPT ![s].scope = scope]
          /\ UNCHANGED <<registry, active, now, pc, job, wasGood>>
      BY DEF Narrow, quiet
    <2>2. TypeOK'
      BY <2>1 DEF IInv, TypeOK, Row, MaybeScope
    <2>3. \A x \in Sessions :
            /\ session'[x].state = session[x].state /\ session'[x].user = session[x].user
            /\ session'[x].client = session[x].client
            /\ session'[x].expires = session[x].expires
            /\ session'[x].scope = IF x = s THEN scope ELSE session[x].scope
      BY <2>1 DEF IInv, TypeOK, Row
    <2>4. now <= now'
      BY <2>1 DEF IInv, TypeOK
    <2> QED
      BY <2>1, <2>2, <2>3, <2>4, EnvironmentStep
  <1>3. CASE \E s \in Sessions : Revoke(s)
    <2> PICK s \in Sessions, state \in {"revoked", "deleted"} :
               /\ session[s].state = "live"
               /\ session' = [session EXCEPT ![s].state = state]
               /\ UNCHANGED <<registry, active, now, pc, job, wasGood>>
      BY <1>3 DEF Revoke, quiet
    <2>1. TypeOK'
      BY DEF IInv, TypeOK, Row
    <2>2. \A x \in Sessions :
            /\ session'[x].state = IF x = s THEN state ELSE session[x].state
            /\ session'[x].user = session[x].user /\ session'[x].client = session[x].client
            /\ session'[x].expires = session[x].expires /\ session'[x].scope = session[x].scope
      BY DEF IInv, TypeOK, Row
    <2>3. now <= now'
      BY DEF IInv, TypeOK
    <2> QED
      BY <2>1, <2>2, <2>3, EnvironmentStep
  <1>4. CASE \E u \in Users : Deactivate(u)
    <2>1. /\ active' \subseteq active
          /\ UNCHANGED <<registry, session, now, pc, job, wasGood>>
      BY <1>4 DEF Deactivate, quiet
    <2>2. TypeOK' /\ now <= now'
      BY <2>1 DEF IInv, TypeOK
    <2> QED
      BY <2>1, <2>2, EnvironmentStep
  <1>5. CASE Restart
    BY <1>5 DEF Restart, IInv, TypeOK
  <1>6. CASE Tick
    <2>1. TypeOK' /\ now <= now'
      BY <1>6 DEF Tick, quiet, IInv, TypeOK
    <2> QED
      BY <1>6, <2>1, EnvironmentStep DEF Tick, quiet
  <1> QED
    BY <1>1, <1>2, <1>3, <1>4, <1>5, <1>6 DEF Environment

\* The guards keep the invariant.
THEOREM Invariance == Spec => []IInv
  <1>1. ASSUME IInv, [Next]_vars PROVE IInv'
    <2>1. ASSUME NEW w \in Workers, Guard(w) PROVE IInv'
      BY <1>1, <2>1, ArriveStep, ResolveStep, PrincipalStep, LoadUserStep, EndStep DEF Guard
    <2>2. CASE Environment
      BY <1>1, <2>2, OtherSteps
    <2>3. CASE UNCHANGED vars
      BY <1>1, <2>3 DEF vars, IInv, TypeOK, Pending, Good, Standing, Delegated, FirstParty,
         CsrfSafe
    <2> QED
      BY <1>1, <2>1, <2>2, <2>3 DEF Next
  <1> QED
    BY InitInv, <1>1, PTL DEF Spec

\* A logout, a narrowing, a deactivation or a withdrawn registration that is
\* committed holds for every request that arrives later (dependencies.py resolve and
\* require_oauth2_scopes), however their queries interleave with other changes.
THEOREM AdmittedWereGoodAlways == Spec => []AdmittedWereGood
  <1>1. IInv => AdmittedWereGood
    BY DEF IInv, Pending, AdmittedWereGood
  <1> QED
    BY <1>1, Invariance, PTL

\* The tests of a guard hold of a request that is good, unless its session keeps a
\* scope that the client has lost.
LEMMA RefusalStep ==
    ASSUME IInv, NEW w \in Workers, Guard(w), pc[w] # "refused", pc'[w] = "refused",
           job[w].via # "none"
    PROVE  ~Good(job[w]) \/ Outgrown(job[w])
  <1> DEFINE q == job[w]  c == q.claims
  <1> SUFFICES ASSUME Good(q), ~Outgrown(q) PROVE FALSE
    OBVIOUS
  <1>0. pc \in [Workers -> {"idle", "arrived", "session", "user"} \cup Final]
    BY DEF IInv, TypeOK
  <1>1. ASSUME NEW test \in BOOLEAN, NEW next \in {"session", "user", "admitted", "visitor"},
               Check(w, test, next)
        PROVE  ~test
    BY <1>0, <1>1 DEF Check
  <1>2. CASE \E r \in Request : Arrive(w, r)
    BY <1>0, <1>2 DEF Arrive
  <1>3. CASE ResolveVisitor(w)
    BY <1>3 DEF ResolveVisitor
  <1>4. CASE ResolveToken(w)
    <2> DEFINE test == /\ CsrfSafe(q) /\ Decodes(c)
                       /\ c.sid = NoSession => c.client = NoClient /\ c.scope = NoScope
    <2>1. test
      BY <1>4 DEF ResolveToken, Good, Standing, FirstParty, CsrfSafe, Decodes
    <2>2. Check(w, test, IF c.sid = NoSession THEN "user" ELSE "session")
      BY <1>4 DEF ResolveToken
    <2>3. test \in BOOLEAN
      BY DEF CsrfSafe, Decodes
    <2> HIDE DEF test
    <2> QED
      BY <1>1, <2>1, <2>2, <2>3
  <1>5. CASE ResolveSession(w)
    <2> DEFINE test == LiveSession(c) /\ ~OAuthMetadata(c)
    <2>1. pc[w] = "session" /\ q.guard # "scopes" /\ Check(w, test, "user")
      BY <1>5 DEF ResolveSession
    <2>2. test
      BY <2>1 DEF IInv, Pending, Good, Standing, FirstParty, LiveSession, OAuthMetadata
    <2>3. test \in BOOLEAN
      BY DEF LiveSession, OAuthMetadata
    <2> HIDE DEF test
    <2> QED
      BY <1>1, <2>1, <2>2, <2>3
  <1>6. CASE PrincipalToken(w)
    <2> DEFINE test == /\ q.via = "bearer" /\ Decodes(c)
                       /\ c.sid # NoSession /\ c.client # NoClient /\ c.scope # NoScope
                       /\ registry[c.client].enabled
    <2>1. test
      BY <1>6 DEF PrincipalToken, Good, Standing, Delegated, Decodes
    <2>2. Check(w, test, "session")
      BY <1>6 DEF PrincipalToken
    <2>3. test \in BOOLEAN
      BY <2>1
    <2> HIDE DEF test
    <2> QED
      BY <1>1, <2>1, <2>2, <2>3
  <1>7. CASE PrincipalSession(w)
    <2> DEFINE test == /\ LiveSession(c)
                       /\ session[c.sid].client = c.client
                       /\ session[c.sid].scope # NoScope
                       /\ WithinGrant(c)
    <2>1. pc[w] = "session" /\ q.guard = "scopes" /\ Check(w, test, "user")
      BY <1>7 DEF PrincipalSession
    <2>2. test
      BY <2>1 DEF IInv, Pending, Good, Standing, Delegated, Outgrown, LiveSession, WithinGrant
    <2>3. test \in BOOLEAN
      BY <2>2
    <2> HIDE DEF test
    <2> QED
      BY <1>1, <2>1, <2>2, <2>3
  <1>8. CASE LoadUser(w)
    <2>1. c.sub \in active
      BY DEF Good, Standing
    <2> QED
      BY <1>0, <1>8, <2>1 DEF LoadUser, Check
  <1>9. CASE End(w)
    BY <1>0, <1>9 DEF End
  <1> QED
    BY <1>2, <1>3, <1>4, <1>5, <1>6, <1>7, <1>8, <1>9 DEF Guard

\* The guards refuse no request that still deserves admission when they answer
\* (dependencies.py 92-205), but for sessions that have outgrown their client.
THEOREM RefusedAreNotGoodAlways == Spec => RefusedAreNotGood
  <1> DEFINE Fair(w) == pc[w] # "refused" /\ pc'[w] = "refused" /\ job[w].via # "none"
                          => ~Good(job[w]) \/ Outgrown(job[w])
  <1>1. ASSUME IInv, Next, NEW w \in Workers PROVE Fair(w)
    <2>1. CASE Guard(w)
      BY <1>1, <2>1, RefusalStep
    <2>2. ASSUME NEW v \in Workers, v # w, Guard(v) PROVE pc'[w] = pc[w]
      BY <1>1, <2>2 DEF Guard, Arrive, ResolveVisitor, ResolveToken, ResolveSession,
         PrincipalToken, PrincipalSession, LoadUser, End, Check, IInv, TypeOK
    <2>3. CASE Environment
      BY <2>3 DEF Environment, Open, Narrow, Revoke, Deactivate, Restart, Tick, quiet
    <2> QED
      BY <1>1, <2>1, <2>2, <2>3 DEF Next
  <1>2. IInv /\ [Next]_vars => [\A w \in Workers : Fair(w)]_vars
    BY <1>1
  <1> QED
    BY <1>2, Invariance, PTL DEF Spec, RefusedAreNotGood
===============================================================================
