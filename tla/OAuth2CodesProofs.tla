-------------------------- MODULE OAuth2CodesProofs --------------------------
(***************************************************************************)
(* OAuth2Codes keeps IInv, grants what was approved and is still allowed,  *)
(* and implements OneTimeGrant, for any number of handlers, clients, codes *)
(* and sessions.                                                           *)
(***************************************************************************)
EXTENDS OAuth2Codes, TLAPS

\* Finish frees the locks of its handler and no other, and makes it idle.
LEMMA FinishEffect ==
    ASSUME TypeOK, NEW w \in Workers, Finish(w)
    PROVE  /\ pc' \in [Workers -> {"idle", "lock", "consume", "commit"}]
           /\ job' \in [Workers -> Request \cup {NoRequest}]
           /\ codeLock' \in [Codes -> Workers \cup {NoWorker}]
           /\ pc'[w] = "idle"
           /\ \A v \in Workers : v # w => pc'[v] = pc[v] /\ job'[v] = job[v]
           /\ \A k \in Codes : codeLock[k] # w => codeLock'[k] = codeLock[k]
  BY DEF Finish, TypeOK

\* The initial state, with no codes and no sessions, satisfies the invariant.
LEMMA InitInv == Init => CodeInv
  BY EntriesAssumption, SentinelAssumption, ClockAssumption
  DEF Init, CodeInv, TypeOK, HoldsItsCode, SessionsHaveCodes, SpentIffGranted

\* A transaction that ends without writing preserves the invariant.
LEMMA FinishOnly ==
    ASSUME CodeInv, NEW w \in Workers, Finish(w),
           UNCHANGED <<registry, active, row, session, now>>
    PROVE  CodeInv'
  <1>1. TypeOK'
    BY FinishEffect DEF CodeInv, TypeOK
  <1>2. HoldsItsCode'
    <2> SUFFICES ASSUME NEW v \in Workers, pc'[v] # "idle"
                 PROVE  /\ job'[v] \in Request
                        /\ pc'[v] \in {"consume", "commit"} =>
                             /\ job'[v].code \in DOMAIN row
                             /\ codeLock'[job'[v].code] = v
                             /\ ~row[job'[v].code].used
      BY DEF HoldsItsCode
    <2>1. v # w /\ pc'[v] = pc[v] /\ job'[v] = job[v]
      BY FinishEffect DEF CodeInv
    <2>2. job[v] \in Request
      BY <2>1 DEF CodeInv, HoldsItsCode
    <2>3. job[v].code \in Codes
      BY <2>2 DEF Request
    <2> QED
      BY <2>1, <2>2, <2>3, FinishEffect DEF CodeInv, HoldsItsCode
  <1>3. SessionsHaveCodes' /\ SpentIffGranted'
    BY DEF CodeInv, SessionsHaveCodes, SpentIffGranted
  <1> QED
    BY <1>1, <1>2, <1>3 DEF CodeInv

\* A step that takes the lock of an unspent code for its handler, and moves the
\* handler on, preserves the invariant (LockCode and ConsumeCode).
LEMMA LockingStep ==
    ASSUME CodeInv, NEW w \in Workers, NEW step \in {"consume", "commit"},
           pc[w] # "idle", job[w].code \in DOMAIN row, Unspent(job[w]),
           LockFree(job[w].code, w),
           codeLock' = [codeLock EXCEPT ![job[w].code] = w],
           pc' = [pc EXCEPT ![w] = step],
           UNCHANGED <<registry, active, row, session, job, now>>
    PROVE  CodeInv'
  <1>1. job[w] \in Request /\ job[w].code \in Codes
    BY DEF CodeInv, HoldsItsCode, Request
  <1>2. TypeOK'
    BY <1>1 DEF CodeInv, TypeOK
  <1>3. HoldsItsCode'
    <2> SUFFICES ASSUME NEW v \in Workers, pc'[v] # "idle"
                 PROVE  /\ job[v] \in Request
                        /\ pc'[v] \in {"consume", "commit"} =>
                             /\ job[v].code \in DOMAIN row
                             /\ codeLock'[job[v].code] = v
                             /\ ~row[job[v].code].used
      BY DEF HoldsItsCode
    <2>1. CASE v = w
      BY <2>1, <1>1 DEF CodeInv, TypeOK, Unspent
    <2>2. CASE v # w
      <3>1. pc'[v] = pc[v] /\ job[v] \in Request
        BY <2>2 DEF CodeInv, TypeOK, HoldsItsCode
      <3>2. pc[v] \in {"consume", "commit"} => job[v].code # job[w].code
        BY <2>2, SentinelAssumption DEF CodeInv, HoldsItsCode, LockFree
      <3> QED
        BY <3>1, <3>2 DEF CodeInv, TypeOK, HoldsItsCode, Request
    <2> QED
      BY <2>1, <2>2
  <1>4. SessionsHaveCodes' /\ SpentIffGranted'
    BY DEF CodeInv, SessionsHaveCodes, SpentIffGranted
  <1> QED
    BY <1>2, <1>3, <1>4 DEF CodeInv

\* A new code is unspent, and no request can have been working on it.
LEMMA AuthorizeStep ==
    ASSUME CodeInv, NEW u \in Users, NEW c \in Clients, NEW uri \in Uris,
           NEW scope \in SUBSET Scopes, NEW challenge \in Verifiers, NEW k \in Codes,
           Authorize(u, c, uri, scope, challenge, k)
    PROVE  CodeInv'
  <1> DEFINE r == [user |-> u, client |-> c, uri |-> uri, scope |-> scope,
                   challenge |-> challenge, expires |-> now + Lifetime,
                   used |-> FALSE]
  <1>1. /\ k \notin DOMAIN row
        /\ row' = Extend(row, k, r)
        /\ UNCHANGED <<registry, active, codeLock, session, pc, job, now>>
    BY DEF Authorize
  <1>2. /\ DOMAIN row' = DOMAIN row \cup {k}
        /\ row'[k] = r
        /\ \A y \in DOMAIN row : row'[y] = row[y]
    <2> HIDE DEF r
    <2> QED BY <1>1 DEF Extend
  <1>3. r \in Row /\ ~r.used
    BY ClockAssumption DEF CodeInv, TypeOK, Row
  <1> HIDE DEF r
  <1>4. TypeOK'
    BY <1>1, <1>2, <1>3 DEF CodeInv, TypeOK
  <1>5. HoldsItsCode'
    BY <1>1, <1>2 DEF CodeInv, HoldsItsCode
  <1>6. SessionsHaveCodes' /\ SpentIffGranted'
    BY <1>1, <1>2, <1>3 DEF CodeInv, SessionsHaveCodes, SpentIffGranted
  <1> QED
    BY <1>4, <1>5, <1>6 DEF CodeInv

\* The rows and sessions after the commit of an exchange.
LEMMA CommitEffect ==
    ASSUME CodeInv, NEW w \in Workers, NEW s \in Sessions, CommitGrant(w, s)
    PROVE  LET k == job[w].code IN
           /\ k \in Codes /\ k \in DOMAIN row /\ codeLock[k] = w /\ ~row[k].used
           /\ s \notin DOMAIN session
           /\ DOMAIN row' = DOMAIN row
           /\ row'[k].used
           /\ \A y \in DOMAIN row : row'[y] \in Row /\ (y # k => row'[y] = row[y])
           /\ DOMAIN session' = DOMAIN session \cup {s}
           /\ session'[s] \in Session /\ session'[s].code = k
           /\ \A x \in DOMAIN session : session'[x] = session[x]
           /\ Finish(w) /\ UNCHANGED <<registry, active, now>>
  <1> DEFINE k == job[w].code
             new == [code |-> k, user |-> row[k].user, client |-> job[w].client,
                     scope |-> row[k].scope]
  <1>1. /\ pc[w] = "commit" /\ s \notin DOMAIN session
        /\ row' = [row EXCEPT ![k].used = TRUE]
        /\ session' = Extend(session, s, new)
        /\ Finish(w) /\ UNCHANGED <<registry, active, now>>
    BY DEF CommitGrant
  <1>2. /\ job[w] \in Request /\ k \in Codes
        /\ k \in DOMAIN row /\ codeLock[k] = w /\ ~row[k].used /\ row[k] \in Row
    BY <1>1 DEF CodeInv, TypeOK, HoldsItsCode, Request
  <1>3. new \in Session /\ new.code = k
    BY <1>2 DEF Session, Row, Request
  <1>4. /\ DOMAIN row' = DOMAIN row
        /\ row'[k] = [row[k] EXCEPT !.used = TRUE]
        /\ \A y \in DOMAIN row : y # k => row'[y] = row[y]
    BY <1>1, <1>2
  <1>5. row'[k] \in Row /\ row'[k].used
    BY <1>2, <1>4 DEF Row
  <1>6. \A y \in DOMAIN row : row[y] \in Row
    BY DEF CodeInv, TypeOK
  <1> HIDE DEF new
  <1>7. /\ DOMAIN session' = DOMAIN session \cup {s}
        /\ session'[s] = new
        /\ \A x \in DOMAIN session : session'[x] = session[x]
    BY <1>1 DEF Extend
  <1> QED
    BY <1>1, <1>2, <1>3, <1>4, <1>5, <1>6, <1>7

\* The commit of an exchange spends the code and creates its only session.
LEMMA CommitStep ==
    ASSUME CodeInv, NEW w \in Workers, NEW s \in Sessions, CommitGrant(w, s)
    PROVE  CodeInv'
  <1> DEFINE k == job[w].code
  <1>1. /\ k \in Codes /\ k \in DOMAIN row /\ codeLock[k] = w /\ ~row[k].used
        /\ s \notin DOMAIN session
        /\ DOMAIN row' = DOMAIN row
        /\ row'[k].used
        /\ \A y \in DOMAIN row : row'[y] \in Row /\ (y # k => row'[y] = row[y])
        /\ DOMAIN session' = DOMAIN session \cup {s}
        /\ session'[s] \in Session /\ session'[s].code = k
        /\ \A x \in DOMAIN session : session'[x] = session[x]
        /\ Finish(w) /\ UNCHANGED <<registry, active, now>>
    BY CommitEffect
  <1>2. TypeOK'
    <2>1. \A x \in DOMAIN session' : session'[x] \in Session
      BY <1>1 DEF CodeInv, TypeOK
    <2>2. DOMAIN session' \subseteq Sessions
      BY <1>1 DEF CodeInv, TypeOK
    <2> QED
      BY <1>1, <2>1, <2>2, FinishEffect DEF CodeInv, TypeOK
  <1>3. HoldsItsCode'
    <2> SUFFICES ASSUME NEW v \in Workers, pc'[v] # "idle"
                 PROVE  /\ job'[v] \in Request
                        /\ pc'[v] \in {"consume", "commit"} =>
                             /\ job'[v].code \in DOMAIN row'
                             /\ codeLock'[job'[v].code] = v
                             /\ ~row'[job'[v].code].used
      BY DEF HoldsItsCode
    <2>1. v # w /\ pc'[v] = pc[v] /\ job'[v] = job[v]
      BY <1>1, FinishEffect DEF CodeInv
    <2>2. job[v] \in Request /\ job[v].code \in Codes
      BY <2>1 DEF CodeInv, HoldsItsCode, Request
    <2>3. ASSUME pc[v] \in {"consume", "commit"}
          PROVE  /\ job[v].code \in DOMAIN row /\ ~row[job[v].code].used
                 /\ codeLock[job[v].code] = v /\ job[v].code # k
      BY <2>1, <2>3, <1>1 DEF CodeInv, HoldsItsCode
    <2> QED
      BY <1>1, <2>1, <2>2, <2>3, FinishEffect DEF CodeInv
  <1>4. SessionsHaveCodes'
    BY <1>1 DEF CodeInv, SessionsHaveCodes
  <1>5. SpentIffGranted'
    BY <1>1 DEF CodeInv, SpentIffGranted
  <1> QED
    BY <1>2, <1>3, <1>4, <1>5 DEF CodeInv

LEMMA CodeInvStep == CodeInv /\ [Next]_vars => CodeInv'
  <1> SUFFICES ASSUME CodeInv, [Next]_vars PROVE CodeInv'
    OBVIOUS
  <1>1. CASE UNCHANGED vars
    BY <1>1 DEF vars, CodeInv, TypeOK, HoldsItsCode, SessionsHaveCodes, SpentIffGranted
  <1>2. ASSUME NEW u \in Users, NEW c \in Clients, NEW uri \in Uris,
               NEW scope \in SUBSET Scopes, NEW challenge \in Verifiers,
               NEW k \in Codes, Authorize(u, c, uri, scope, challenge, k)
        PROVE  CodeInv'
    BY <1>2, AuthorizeStep
  <1>3. ASSUME NEW w \in Workers, Exchange(w) PROVE CodeInv'
    <2>1. ASSUME NEW r \in Request, BeginExchange(w, r) PROVE CodeInv'
      BY <2>1 DEF BeginExchange, CodeInv, TypeOK, HoldsItsCode, SessionsHaveCodes,
                  SpentIffGranted
    <2>2. CASE LockCode(w)
      BY <2>2, LockingStep DEF LockCode, Acceptable
    <2>3. CASE InvalidGrant(w)
      BY <2>3, FinishOnly DEF InvalidGrant
    <2>4. CASE ConsumeCode(w)
      <3>1. job[w].code \in DOMAIN row
        BY <2>4 DEF ConsumeCode, CodeInv, HoldsItsCode
      <3> QED
        BY <2>4, <3>1, LockingStep DEF ConsumeCode
    <2>5. CASE RefuseUser(w)
      BY <2>5, FinishOnly DEF RefuseUser
    <2>6. ASSUME NEW s \in Sessions, CommitGrant(w, s) PROVE CodeInv'
      BY <2>6, CommitStep
    <2>7. CASE Crash(w)
      BY <2>7, FinishOnly DEF Crash
    <2> QED
      BY <1>3, <2>1, <2>2, <2>3, <2>4, <2>5, <2>6, <2>7 DEF Exchange
  <1>4. ASSUME NEW c \in Clients, NEW entry \in Entries, Restart(c, entry)
        PROVE  CodeInv'
    BY <1>4 DEF Restart, CodeInv, TypeOK, HoldsItsCode, SessionsHaveCodes,
                SpentIffGranted
  <1>5. ASSUME NEW u \in Users, Deactivate(u) PROVE CodeInv'
    BY <1>5 DEF Deactivate, CodeInv, TypeOK, HoldsItsCode, SessionsHaveCodes,
                SpentIffGranted
  <1>6. CASE Tick
    BY <1>6, ClockAssumption DEF Tick, CodeInv, TypeOK, HoldsItsCode,
                SessionsHaveCodes, SpentIffGranted
  <1> QED
    BY <1>1, <1>2, <1>3, <1>4, <1>5, <1>6 DEF Next, Environment

\* Types, locks and the match of spent codes and sessions always hold.
THEOREM CodeInvariance == Spec => []CodeInv
  BY InitInv, CodeInvStep, PTL DEF Spec

\* No crash or interleaving spends a code without a session, or the reverse.
THEOREM SpentIffGrantedAlways == Spec => []SpentIffGranted
  BY CodeInvariance, PTL DEF CodeInv

-----------------------------------------------------------------------------
(* The tests an exchange has passed, at its commit *)

\* The rows of codes keep all but used_at, and the configuration stays.
LEMMA TestsFrame ==
    ASSUME CodeInv, TestsStillHold, UNCHANGED registry, NEW v \in Workers,
           pc'[v] = pc[v], job'[v] = job[v],
           \A k \in DOMAIN row :
             /\ row'[k].client = row[k].client /\ row'[k].uri = row[k].uri
             /\ row'[k].challenge = row[k].challenge /\ row'[k].scope = row[k].scope
    PROVE  /\ pc'[v] # "idle" => Usable(job[v].client)'
           /\ pc'[v] \in {"consume", "commit"} =>
                SameClient(job[v])' /\ SameUri(job[v])' /\ KnowsVerifier(job[v])'
                /\ StillRegistered(job[v])'
  <1>1. pc[v] \in {"consume", "commit"} => job[v].code \in DOMAIN row
    BY DEF CodeInv, HoldsItsCode
  <1> QED
    BY <1>1 DEF TestsStillHold, Usable, SameClient, SameUri, KnowsVerifier,
                StillRegistered, Registered

\* A handler that waits for nothing has passed no test that could lapse.
LEMMA TestsOfOthers ==
    ASSUME CodeInv, TestsStillHold, UNCHANGED registry, NEW w \in Workers,
           pc'[w] = "idle",
           \A v \in Workers : v # w => pc'[v] = pc[v] /\ job'[v] = job[v],
           \A k \in DOMAIN row :
             /\ row'[k].client = row[k].client /\ row'[k].uri = row[k].uri
             /\ row'[k].challenge = row[k].challenge /\ row'[k].scope = row[k].scope
    PROVE  TestsStillHold'
  BY TestsFrame DEF TestsStillHold

LEMMA TestsStep ==
    ASSUME CodeInv, TestsStillHold, [Next]_vars
    PROVE  TestsStillHold'
  <1>1. TypeOK
    BY DEF CodeInv
  <1>2. CASE UNCHANGED vars
    BY <1>2 DEF vars, TestsStillHold, Usable, SameClient, SameUri, KnowsVerifier,
                StillRegistered, Registered
  <1>3. ASSUME NEW u \in Users, NEW c \in Clients, NEW uri \in Uris,
               NEW scope \in SUBSET Scopes, NEW challenge \in Verifiers,
               NEW k \in Codes, Authorize(u, c, uri, scope, challenge, k)
        PROVE  TestsStillHold'
    <2>1. /\ \A y \in DOMAIN row : row'[y] = row[y]
          /\ UNCHANGED <<registry, pc, job>>
      BY <1>3 DEF Authorize, Extend
    <2> QED
      BY <2>1, TestsFrame DEF TestsStillHold
  <1>4. ASSUME NEW w \in Workers, Exchange(w) PROVE TestsStillHold'
    <2>1. ASSUME NEW r \in Request, BeginExchange(w, r) PROVE TestsStillHold'
      <3>1. /\ pc'[w] = "lock" /\ job'[w] = r /\ Usable(r.client)
            /\ UNCHANGED <<registry, row>>
            /\ \A v \in Workers : v # w => pc'[v] = pc[v] /\ job'[v] = job[v]
        BY <1>1, <2>1 DEF BeginExchange, TypeOK
      <3> QED
        BY <3>1, TestsFrame DEF TestsStillHold, Usable
    <2>2. CASE LockCode(w) \/ ConsumeCode(w)
      <3>1. /\ pc'[w] \in {"consume", "commit"} /\ pc[w] \in {"lock", "consume"}
            /\ UNCHANGED <<registry, row, job>>
            /\ \A v \in Workers : v # w => pc'[v] = pc[v]
        BY <1>1, <2>2 DEF LockCode, ConsumeCode, TypeOK
      <3>2. SameClient(job[w]) /\ SameUri(job[w]) /\ KnowsVerifier(job[w])
            /\ StillRegistered(job[w]) /\ Usable(job[w].client)
        BY <2>2 DEF LockCode, ConsumeCode, Acceptable, TestsStillHold
      <3>3. SameClient(job[w])' /\ SameUri(job[w])' /\ KnowsVerifier(job[w])'
            /\ StillRegistered(job[w])' /\ Usable(job[w].client)'
        BY <3>1, <3>2 DEF SameClient, SameUri, KnowsVerifier, StillRegistered, Registered,
                          Usable
      <3> QED
        BY <3>1, <3>3, TestsFrame DEF TestsStillHold
    <2>3. CASE InvalidGrant(w) \/ RefuseUser(w) \/ Crash(w)
      <3>1. Finish(w) /\ UNCHANGED <<registry, row>>
        BY <2>3 DEF InvalidGrant, RefuseUser, Crash
      <3> QED
        BY <1>1, <3>1, FinishEffect, TestsOfOthers
    <2>4. ASSUME NEW s \in Sessions, CommitGrant(w, s) PROVE TestsStillHold'
      <3>1. Finish(w) /\ UNCHANGED registry
            /\ row' = [row EXCEPT ![job[w].code].used = TRUE]
        BY <2>4 DEF CommitGrant
      <3>2. \A k \in DOMAIN row :
              /\ row'[k].client = row[k].client /\ row'[k].uri = row[k].uri
              /\ row'[k].challenge = row[k].challenge /\ row'[k].scope = row[k].scope
        BY <1>1, <3>1 DEF TypeOK, Row
      <3> QED
        BY <1>1, <3>1, <3>2, FinishEffect, TestsOfOthers
    <2> QED
      BY <1>4, <2>1, <2>2, <2>3, <2>4 DEF Exchange
  <1>5. CASE \E c \in Clients, entry \in Entries : Restart(c, entry)
    BY <1>5 DEF Restart, TestsStillHold
  <1>6. CASE Tick \/ \E u \in Users : Deactivate(u)
    <2>1. UNCHANGED <<registry, row, pc, job>>
      BY <1>6 DEF Tick, Deactivate
    <2> QED
      BY <2>1, TestsFrame DEF TestsStillHold
  <1> QED
    BY <1>2, <1>3, <1>4, <1>5, <1>6 DEF Next, Environment

\* Besides the locks and the spent codes, the tests passed by an exchange still
\* hold when it commits, whatever happened since (_exchange_authorization_code).
THEOREM Invariance == Spec => []IInv
  <1>1. Init => IInv
    BY InitInv DEF Init, IInv, TestsStillHold
  <1>2. IInv /\ [Next]_vars => IInv'
    BY CodeInvStep, TestsStep DEF IInv
  <1> QED
    BY <1>1, <1>2, PTL DEF Spec

\* What the session of a commit says, in terms of the approved code.
LEMMA NewSession ==
    ASSUME IInv, [Next]_vars, NEW s \in DOMAIN session' \ DOMAIN session
    PROVE  \E w \in Workers :
             LET r == job[w]
                 k == r.code
             IN
             /\ pc[w] = "commit" /\ r \in Request /\ k \in DOMAIN row
             /\ SameClient(r) /\ SameUri(r) /\ KnowsVerifier(r) /\ StillRegistered(r)
             /\ Usable(r.client)
             /\ session'[s] = [code |-> k, user |-> row[k].user, client |-> row[k].client,
                               scope |-> row[k].scope]
             /\ UNCHANGED registry
  <1>1. PICK w \in Workers, x \in Sessions : CommitGrant(w, x)
    BY DEF Next, Authorize, Exchange, BeginExchange, LockCode, InvalidGrant, ConsumeCode,
           RefuseUser, Crash, Environment, Restart, Deactivate, Tick, vars
  <1>2. DOMAIN session' = DOMAIN session \cup {x}
    BY <1>1, CommitEffect DEF IInv
  <1>3. /\ pc[w] = "commit" /\ job[w] \in Request /\ job[w].code \in DOMAIN row
        /\ SameClient(job[w]) /\ SameUri(job[w]) /\ KnowsVerifier(job[w])
        /\ StillRegistered(job[w]) /\ Usable(job[w].client)
    BY <1>1 DEF CommitGrant, IInv, CodeInv, HoldsItsCode, TestsStillHold
  <1>4. session'[s] = [code |-> job[w].code, user |-> row[job[w].code].user,
                       client |-> job[w].client, scope |-> row[job[w].code].scope]
    BY <1>1, <1>2 DEF CommitGrant, Extend
  <1>5. UNCHANGED registry /\ job[w].client = row[job[w].code].client
    BY <1>1, <1>3 DEF CommitGrant, SameClient
  <1> QED
    BY <1>3, <1>4, <1>5

\* Every session bought with a code is the one its user approved, bought by a
\* request with the client, URI and verifier of that approval.
THEOREM GrantMatchesConsentAlways == Spec => GrantMatchesConsent
  <1> DEFINE Matches ==
        \A s \in DOMAIN session' \ DOMAIN session :
          LET k == session'[s].code IN
          /\ k \in DOMAIN row
          /\ session'[s] = [code |-> k, user |-> row[k].user, client |-> row[k].client,
                            scope |-> row[k].scope]
          /\ \E w \in Workers :
               job[w] = [client |-> row[k].client, code |-> k, uri |-> row[k].uri,
                         verifier |-> row[k].challenge]
  <1>1. ASSUME IInv, [Next]_vars PROVE Matches
    <2> SUFFICES ASSUME NEW s \in DOMAIN session' \ DOMAIN session
                 PROVE  LET k == session'[s].code IN
                        /\ k \in DOMAIN row
                        /\ session'[s] = [code |-> k, user |-> row[k].user,
                                          client |-> row[k].client, scope |-> row[k].scope]
                        /\ \E w \in Workers :
                             job[w] = [client |-> row[k].client, code |-> k,
                                       uri |-> row[k].uri, verifier |-> row[k].challenge]
      OBVIOUS
    <2>1. PICK w \in Workers :
            LET r == job[w]
                k == r.code
            IN
            /\ r \in Request /\ k \in DOMAIN row
            /\ SameClient(r) /\ SameUri(r) /\ KnowsVerifier(r)
            /\ session'[s] = [code |-> k, user |-> row[k].user, client |-> row[k].client,
                              scope |-> row[k].scope]
      BY <1>1, NewSession
    <2>2. session'[s].code = job[w].code
      BY <2>1
    <2>3. job[w] = [client |-> row[job[w].code].client, code |-> job[w].code,
                    uri |-> row[job[w].code].uri, verifier |-> row[job[w].code].challenge]
      BY <2>1 DEF Request, SameClient, SameUri, KnowsVerifier
    <2> QED
      BY <2>1, <2>2, <2>3
  <1>2. Spec => [][Matches]_vars
    BY <1>1, Invariance, PTL DEF Spec
  <1> QED
    BY <1>2 DEF GrantMatchesConsent

\* Whatever was approved before a restart, a code buys only what the running
\* configuration registers for its client (the tests of token and of _exchange_authorization_code).
THEOREM GrantHonoursRegistryAlways == Spec => GrantHonoursRegistry
  <1> DEFINE Honours ==
        \A s \in DOMAIN session' \ DOMAIN session :
          LET k == session'[s].code IN
          /\ Usable(session'[s].client)
          /\ Registered(session'[s].client, row[k].uri, session'[s].scope)
  <1>1. ASSUME IInv, [Next]_vars PROVE Honours
    BY <1>1, NewSession DEF StillRegistered, SameClient
  <1>2. Spec => [][Honours]_vars
    BY <1>1, Invariance, PTL DEF Spec
  <1> QED
    BY <1>2 DEF GrantHonoursRegistry

-----------------------------------------------------------------------------

\* Without a change of the codes issued and the sessions, no promise changes.
LEMMA RowsUnchanged ==
    ASSUME UNCHANGED <<DOMAIN row, session>>
    PROVE  UNCHANGED <<DOMAIN row,
                       [k \in Codes |-> {s \in DOMAIN session : session[s].code = k}]>>
  OBVIOUS

\* The commit of an exchange redeems its code, once.
LEMMA CommitIsRedeem ==
    ASSUME CodeInv, NEW w \in Workers, NEW s \in Sessions, CommitGrant(w, s)
    PROVE  Promise!Redeem(job[w].code, s)
  <1> DEFINE k == job[w].code
             bought == [c \in Codes |-> {x \in DOMAIN session : session[x].code = c}]
  <1>1. /\ k \in Codes /\ k \in DOMAIN row /\ ~row[k].used
        /\ s \notin DOMAIN session /\ DOMAIN row' = DOMAIN row
        /\ DOMAIN session' = DOMAIN session \cup {s}
        /\ session'[s].code = k
        /\ \A x \in DOMAIN session : session'[x] = session[x]
    BY CommitEffect
  <1>2. {x \in DOMAIN session : session[x].code = k} = {}
    BY <1>1 DEF CodeInv, SpentIffGranted
  <1>3. \A c \in Codes : {x \in DOMAIN session' : session'[x].code = c}
            = IF c = k THEN {s} ELSE {x \in DOMAIN session : session[x].code = c}
    BY <1>1, <1>2
  <1>4. [c \in Codes |-> {x \in DOMAIN session' : session'[x].code = c}]
            = [bought EXCEPT ![k] = {s}]
    BY <1>1, <1>3
  <1>5. \A c \in Codes : s \notin bought[c]
    BY <1>1
  <1> QED
    BY <1>1, <1>2, <1>4, <1>5 DEF Promise!Redeem

\* A step of OAuth2Codes is a step of OneTimeGrant, or changes no promise.
LEMMA StepKeepsPromise ==
    ASSUME CodeInv, [Next]_vars
    PROVE  [Promise!Next]_<<DOMAIN row,
             [k \in Codes |-> {s \in DOMAIN session : session[s].code = k}]>>
  <1> SUFFICES Promise!Next \/ UNCHANGED <<DOMAIN row, session>>
    BY RowsUnchanged
  <1>2. ASSUME NEW u \in Users, NEW c \in Clients, NEW uri \in Uris,
               NEW scope \in SUBSET Scopes, NEW challenge \in Verifiers,
               NEW k \in Codes, Authorize(u, c, uri, scope, challenge, k)
        PROVE  Promise!Next
    <2>1. k \notin DOMAIN row /\ DOMAIN row' = DOMAIN row \cup {k} /\ session' = session
      BY <1>2 DEF Authorize, Extend
    <2> QED
      BY <2>1 DEF Promise!Next, Promise!Issue
  <1>3. ASSUME NEW w \in Workers, NEW s \in Sessions, CommitGrant(w, s)
        PROVE  Promise!Next
    <2>1. job[w].code \in Codes /\ Promise!Redeem(job[w].code, s)
      BY <1>3, CommitEffect, CommitIsRedeem
    <2> QED
      BY <2>1 DEF Promise!Next, Promise!Redeem
  <1>4. ASSUME NEW w \in Workers, Exchange(w),
               \A s \in Sessions : ~CommitGrant(w, s)
        PROVE  UNCHANGED <<DOMAIN row, session>>
    BY <1>4 DEF Exchange, BeginExchange, LockCode, InvalidGrant, ConsumeCode,
                RefuseUser, Crash
  <1>5. CASE Environment
    BY <1>5 DEF Environment, Restart, Deactivate, Tick
  <1>6. CASE UNCHANGED vars
    BY <1>6 DEF vars
  <1>7. CASE \E w \in Workers : Exchange(w)
    BY <1>3, <1>4, <1>7
  <1>8. CASE \E u \in Users, c \in Clients, uri \in Uris, scope \in SUBSET Scopes,
               challenge \in Verifiers, k \in Codes :
                 Authorize(u, c, uri, scope, challenge, k)
    BY <1>2, <1>8
  <1> QED
    BY <1>5, <1>6, <1>7, <1>8 DEF Next

\* The service keeps the promise of a one-time code: each code issued once, and
\* exchanged for one session at most.
THEOREM OneTimeCodes == Spec => CodesAreOneTime
  <1>1. Init => Promise!Init
    BY DEF Init, Promise!Init
  <1>2. CodeInv /\ [Next]_vars => [Promise!Next]_<<DOMAIN row,
             [k \in Codes |-> {s \in DOMAIN session : session[s].code = k}]>>
    BY StepKeepsPromise
  <1> QED
    BY <1>1, <1>2, CodeInvariance, PTL DEF Spec, CodesAreOneTime, Promise!Spec
=============================================================================
