------------------------ MODULE AuthSessionsRefinement ------------------------
(***************************************************************************)
(* What a step of AuthSessions may do, for every value of the constants:   *)
(* its committed rows only age, one request ends one family, its answers   *)
(* are true of the step that sends them, and it implements SessionFamily.  *)
(***************************************************************************)
EXTENDS AuthSessionsProofs

-----------------------------------------------------------------------------
(* What each commit writes, given the invariant *)

LEMMA CreateEffect ==
    ASSUME LockInv, NEW w \in Workers, CommitCreate(w)
    PROVE  /\ job[w].sid \in Sessions /\ session[job[w].sid].state = "absent"
           /\ job[w].next \in Tokens /\ token[job[w].next].sid = NoSession
           /\ session'[job[w].sid].state = "live"
           /\ \A s \in Sessions \ {job[w].sid} : session'[s] = session[s]
           /\ token'[job[w].next].sid = job[w].sid
           /\ ~token'[job[w].next].used /\ ~token'[job[w].next].revoked
           /\ \A t \in Tokens \ {job[w].next} : token'[t] = token[t]
<1>1. TypeOK /\ CreatePending(w)
  BY DEF LockInv, LocksProtectReads, WorkerInv
<1> QED
  BY <1>1 DEF CommitCreate, CreatePending, NewToken, TypeOK

LEMMA RotateEffect ==
    ASSUME LockInv, NEW w \in Workers, CommitRotate(w)
    PROVE  /\ job[w].sid \in Sessions /\ session[job[w].sid].state = "live"
           /\ job[w].raw \in Tokens /\ token[job[w].raw].sid = job[w].sid
           /\ Live(job[w].raw)
           /\ job[w].next \in Tokens /\ token[job[w].next].sid = NoSession
           /\ job[w].next # job[w].raw
           /\ job[w].scope \subseteq session[job[w].sid].scope
           /\ session'[job[w].sid].state = "live"
           /\ session'[job[w].sid].scope = job[w].scope
           /\ session'[job[w].sid].expires = session[job[w].sid].expires
           /\ session'[job[w].sid].client = session[job[w].sid].client
           /\ session'[job[w].sid].user = session[job[w].sid].user
           /\ \A s \in Sessions \ {job[w].sid} : session'[s] = session[s]
           /\ token'[job[w].next].sid = job[w].sid
           /\ ~token'[job[w].next].used /\ ~token'[job[w].next].revoked
           /\ token'[job[w].raw].sid = job[w].sid
           /\ token'[job[w].raw].used /\ ~token'[job[w].raw].revoked
           /\ \A t \in Tokens \ {job[w].raw, job[w].next} : token'[t] = token[t]
<1>1. TypeOK /\ RotatePending(w) /\ TokenOwned(w)
  BY DEF LockInv, LocksProtectReads, WorkerInv
<1>2. pc[w] = "commitRotate"
  BY DEF CommitRotate
<1>3. /\ job[w].sid \in Sessions /\ session[job[w].sid].state = "live"
      /\ job[w].raw \in Tokens /\ token[job[w].raw].sid = job[w].sid
      /\ Live(job[w].raw)
      /\ job[w].next \in Tokens /\ token[job[w].next].sid = NoSession
      /\ job[w].scope \subseteq session[job[w].sid].scope
  BY <1>1, <1>2 DEF RotatePending, TokenOwned
<1>4. job[w].next # job[w].raw
  BY <1>3, SentinelAssumption
<1>5. session[job[w].sid] \in SessionRow /\ token[job[w].raw] \in TokenRow
  BY <1>1, <1>3 DEF TypeOK
<1>6. /\ session' = [session EXCEPT ![job[w].sid] =
                       [session[job[w].sid] EXCEPT !.scope = job[w].scope]]
      /\ token' = [[token EXCEPT ![job[w].raw] =
                        [[token[job[w].raw] EXCEPT !.used = TRUE] EXCEPT !.usedAt = job[w].usedAt]]
                     EXCEPT ![job[w].next] = NewToken(w)]
  BY <1>1 DEF CommitRotate, TypeOK
<1>7. /\ session'[job[w].sid] = [session[job[w].sid] EXCEPT !.scope = job[w].scope]
      /\ \A s \in Sessions \ {job[w].sid} : session'[s] = session[s]
      /\ token'[job[w].next] = NewToken(w)
      /\ token'[job[w].raw] =
            [[token[job[w].raw] EXCEPT !.used = TRUE] EXCEPT !.usedAt = job[w].usedAt]
      /\ \A t \in Tokens \ {job[w].raw, job[w].next} : token'[t] = token[t]
  BY <1>1, <1>3, <1>4, <1>6 DEF TypeOK
<1>8. /\ token'[job[w].next].sid = job[w].sid
      /\ ~token'[job[w].next].used /\ ~token'[job[w].next].revoked
      /\ token'[job[w].raw].sid = job[w].sid
      /\ token'[job[w].raw].used /\ ~token'[job[w].raw].revoked
  BY <1>3, <1>5, <1>7 DEF NewToken, TokenRow, Live
<1>9. /\ session'[job[w].sid].state = "live"
      /\ session'[job[w].sid].scope = job[w].scope
      /\ session'[job[w].sid].expires = session[job[w].sid].expires
      /\ session'[job[w].sid].client = session[job[w].sid].client
      /\ session'[job[w].sid].user = session[job[w].sid].user
  BY <1>3, <1>5, <1>7 DEF SessionRow
<1> QED
  BY <1>3, <1>4, <1>7, <1>8, <1>9

LEMMA RevokeEffect ==
    ASSUME LockInv, NEW w \in Workers, CommitRevoke(w)
    PROVE  /\ job[w].ends \subseteq Sessions
           /\ \A s \in job[w].ends : session[s].state = "live"
           /\ \A s \in Sessions :
                /\ session'[s].state = IF s \in job[w].ends THEN "revoked" ELSE session[s].state
                /\ session'[s].scope = session[s].scope
                /\ session'[s].expires = session[s].expires
                /\ session'[s].client = session[s].client
                /\ session'[s].user = session[s].user
           /\ \A t \in Tokens :
                /\ token'[t].sid = token[t].sid
                /\ token'[t].used = token[t].used
                /\ token'[t].revoked <=> token[t].revoked \/ t \in job[w].kills
           /\ \A t \in Tokens : token[t].sid \in job[w].ends
                                  => token[t].revoked \/ t \in job[w].kills
           /\ \A t \in job[w].kills : \/ token[t].sid \in job[w].ends
                                      \/ session[token[t].sid].state = "revoked"
           /\ \A t \in job[w].kills : token[t].sid # NoSession
<1>1. TypeOK /\ EndsOwned(w) /\ KillsOwned(w) /\ job[w] \in Job
  BY DEF LockInv, LocksProtectReads, WorkerInv, TypeOK
<1>2. pc[w] = "endTokens" /\ job[w].targets = {}
  BY DEF CommitRevoke
<1>3. job[w].ends \subseteq Sessions /\ job[w].kills \subseteq Tokens
  BY <1>1 DEF Job
<1>4. \A t \in Tokens : token[t].sid \in job[w].ends
                          => token[t].revoked \/ t \in job[w].kills
  BY <1>1, <1>2 DEF EndsOwned, TokensOf
<1>5. \A s \in Sessions :
        /\ session'[s].state = IF s \in job[w].ends THEN "revoked" ELSE session[s].state
        /\ session'[s].scope = session[s].scope
        /\ session'[s].expires = session[s].expires
        /\ session'[s].client = session[s].client
        /\ session'[s].user = session[s].user
  BY <1>1 DEF CommitRevoke, TypeOK, SessionRow
<1>6. \A t \in Tokens :
        /\ token'[t].sid = token[t].sid
        /\ token'[t].used = token[t].used
        /\ token'[t].revoked <=> token[t].revoked \/ t \in job[w].kills
  BY <1>1 DEF CommitRevoke, TypeOK, TokenRow
<1> QED
  BY <1>1, <1>3, <1>4, <1>5, <1>6 DEF EndsOwned, KillsOwned

\* Every other step leaves the committed rows as they are.
LEMMA OnlyCommitsWrite ==
    ASSUME [Next]_vars
    PROVE  \/ \E w \in Workers : CommitCreate(w) \/ CommitRotate(w) \/ CommitRevoke(w)
           \/ UNCHANGED <<session, token>>
<1>1. ASSUME NEW w \in Workers, Requests(w)
      PROVE  UNCHANGED <<session, token>>
  BY <1>1 DEF Requests, BeginCreate, BeginRotate, BeginRevoke, BeginRevokeUser, Start
<1>2. ASSUME NEW w \in Workers, LockStep(w)
      PROVE  UNCHANGED <<session, token>>
  BY <1>2 DEF LockStep, LockToken, RotateWrongClient, RotateReplayed, RotateExpired,
              RotateInactive, RotateTooWide, RotateGrant, EndSession, EndToken,
              FailRotation, Reject
<1>3. ASSUME NEW w \in Workers, FreeStep(w)
      PROVE  \/ CommitCreate(w) \/ CommitRotate(w) \/ CommitRevoke(w)
             \/ UNCHANGED <<session, token>>
  BY <1>3 DEF FreeStep, RevokeFound, RevokeNotFound, SelectUserSessions, RevokeNext,
              SelectTokens, Reject
<1>4. ASSUME NEW w \in Workers, AbortDeadlock(w) \/ Crash(w)
      PROVE  UNCHANGED <<session, token>>
  BY <1>4 DEF AbortDeadlock, Crash, Reject
<1>5. CASE Environment \/ UNCHANGED vars
  BY <1>5 DEF Environment, Tick, Deactivate, vars
<1> QED
  BY <1>1, <1>2, <1>3, <1>4, <1>5 DEF Next, WorkerStep

-----------------------------------------------------------------------------
(* Rows age *)

\* One step of RowsOnlyAge
RowsAge ==
    /\ \A s \in Sessions : session[s].state # "absent" =>
         /\ session'[s].state # "absent"
         /\ session[s].state = "revoked" => session'[s].state = "revoked"
         /\ session'[s].expires = session[s].expires
         /\ session'[s].client = session[s].client
         /\ session'[s].user = session[s].user
         /\ session'[s].scope \subseteq session[s].scope
    /\ \A t \in Tokens : token[t].sid # NoSession =>
         /\ token'[t].sid = token[t].sid
         /\ token[t].used => token'[t].used
         /\ token[t].revoked => token'[t].revoked

LEMMA RowsAgeStep ==
    ASSUME LockInv, [Next]_vars
    PROVE  RowsAge
<1>1. ASSUME NEW w \in Workers, CommitCreate(w) PROVE RowsAge
  <2>1. /\ session[job[w].sid].state = "absent" /\ token[job[w].next].sid = NoSession
        /\ \A s \in Sessions \ {job[w].sid} : session'[s] = session[s]
        /\ \A t \in Tokens \ {job[w].next} : token'[t] = token[t]
    BY <1>1, CreateEffect
  <2> QED
    BY <2>1 DEF RowsAge
<1>2. ASSUME NEW w \in Workers, CommitRotate(w) PROVE RowsAge
  <2> DEFINE sid == job[w].sid
             raw == job[w].raw
             next == job[w].next
  <2>1. /\ session[sid].state = "live" /\ session'[sid].state = "live"
        /\ session'[sid].scope \subseteq session[sid].scope
        /\ session'[sid].expires = session[sid].expires
        /\ session'[sid].client = session[sid].client
        /\ session'[sid].user = session[sid].user
        /\ \A s \in Sessions \ {sid} : session'[s] = session[s]
        /\ token[next].sid = NoSession
        /\ token'[raw].sid = sid /\ token[raw].sid = sid
        /\ token'[raw].used /\ Live(raw)
        /\ \A t \in Tokens \ {raw, next} : token'[t] = token[t]
    BY <1>2, RotateEffect
  <2> HIDE DEF sid, raw, next
  <2>2. \A s \in Sessions : session[s].state # "absent" =>
          /\ session'[s].state # "absent"
          /\ session[s].state = "revoked" => session'[s].state = "revoked"
          /\ session'[s].expires = session[s].expires
          /\ session'[s].client = session[s].client
          /\ session'[s].user = session[s].user
          /\ session'[s].scope \subseteq session[s].scope
    BY <2>1
  <2>3. \A t \in Tokens : token[t].sid # NoSession =>
          /\ token'[t].sid = token[t].sid
          /\ token[t].used => token'[t].used
          /\ token[t].revoked => token'[t].revoked
    BY <2>1 DEF Live
  <2> QED
    BY <2>2, <2>3 DEF RowsAge
<1>3. ASSUME NEW w \in Workers, CommitRevoke(w) PROVE RowsAge
  <2>1. /\ \A s \in job[w].ends : session[s].state = "live"
        /\ \A s \in Sessions :
             /\ session'[s].state = IF s \in job[w].ends THEN "revoked" ELSE session[s].state
             /\ session'[s].scope = session[s].scope
             /\ session'[s].expires = session[s].expires
             /\ session'[s].client = session[s].client
             /\ session'[s].user = session[s].user
        /\ \A t \in Tokens :
             /\ token'[t].sid = token[t].sid
             /\ token'[t].used = token[t].used
             /\ token'[t].revoked <=> token[t].revoked \/ t \in job[w].kills
    BY <1>3, RevokeEffect
  <2> QED
    BY <2>1 DEF RowsAge
<1>4. CASE UNCHANGED <<session, token>>
  BY <1>4 DEF RowsAge
<1> QED
  BY <1>1, <1>2, <1>3, <1>4, OnlyCommitsWrite

\* A committed session or token never comes back, changes hands or widens, and
\* used and revoked are final, in every step of any number of requests
\* (create, rotate, _revoke_session).
THEOREM RowsOnlyAgeAlways == Spec => RowsOnlyAge
<1>1. LockInv /\ [Next]_vars => [RowsAge]_vars
  BY RowsAgeStep
<1>2. Spec => [][RowsAge]_vars
  BY <1>1, LockInvariance, PTL DEF Spec
<1> QED
  BY <1>2 DEF RowsOnlyAge, RowsAge

-----------------------------------------------------------------------------
(* One family per request *)

\* A step of one worker leaves the statements, jobs and answers of the others.
LEMMA OnlyItsWorker ==
    ASSUME TypeOK, NEW w \in Workers, WorkerStep(w) \/ Crash(w), NEW v \in Workers, v # w
    PROVE  pc'[v] = pc[v] /\ job'[v] = job[v] /\ outcome'[v] = outcome[v]
<1>1. ASSUME NEW step, NEW request, Start(w, step, request)
      PROVE  pc'[v] = pc[v] /\ job'[v] = job[v] /\ outcome'[v] = outcome[v]
  BY <1>1 DEF Start, TypeOK
<1>2. ASSUME NEW answer, NEW sid, Finish(w, answer, sid)
      PROVE  pc'[v] = pc[v] /\ job'[v] = job[v] /\ outcome'[v] = outcome[v]
  BY <1>2 DEF Finish, TypeOK
<1>3. CASE Requests(w)
  BY <1>1, <1>3 DEF Requests, BeginCreate, BeginRotate, BeginRevoke, BeginRevokeUser
<1>4. CASE LockStep(w)
  BY <1>2, <1>4 DEF LockStep, LockToken, RotateWrongClient, RotateReplayed, RotateExpired,
        RotateInactive, RotateTooWide, RotateGrant, EndSession, EndToken, FailRotation,
        Reject, Goto, TypeOK
<1>5. CASE FreeStep(w)
  BY <1>2, <1>5 DEF FreeStep, CommitCreate, CommitRotate, CommitRevoke, RevokeFound,
        RevokeNotFound, SelectUserSessions, RevokeNext, SelectTokens, Reject, Goto, TypeOK
<1>6. CASE AbortDeadlock(w) \/ Crash(w)
  BY <1>2, <1>6 DEF AbortDeadlock, Crash, Reject
<1> QED
  BY <1>3, <1>4, <1>5, <1>6 DEF WorkerStep

\* A session that a request has tested for its client is a committed row.
LEMMA InHandExists ==
    ASSUME LockInv, NEW w \in Workers, ForClient(w),
           pc[w] \in {"commitRotate", "endSession", "selectTokens", "endTokens"}
    PROVE  job[w].sid \in Sessions /\ session[job[w].sid].state # "absent"
<1>1. /\ TokenOwned(w) /\ RotatePending(w) /\ RevokeTargets(w) /\ EndsOwned(w)
  BY DEF LockInv, LocksProtectReads, WorkerInv
<1>2. CASE pc[w] = "commitRotate"
  BY <1>1, <1>2 DEF TokenOwned, RotatePending
<1>3. CASE pc[w] # "commitRotate"
  BY <1>1, <1>3 DEF RevokeTargets, EndsOwned, ForClient
<1> QED
  BY <1>2, <1>3

\* OneFamily speaks of a worker's own state and of rows that only age.
LEMMA OneFamilyFrame ==
    ASSUME LockInv, RowsAge, NEW v \in Workers, OneFamily(v),
           pc'[v] = pc[v], job'[v] = job[v]
    PROVE  OneFamily(v)'
<1>1. /\ job[v].kills \cup job[v].targets \subseteq Tokens
      /\ \A t \in job[v].kills \cup job[v].targets : token[t].sid # NoSession
  BY DEF LockInv, LocksProtectReads, WorkerInv, KillsOwned, TypeOK, Job
<1>2. ForClient(v)' <=> ForClient(v)
  BY DEF ForClient
<1>3. pc[v] \in {"commitRotate", "endSession", "selectTokens", "endTokens"} /\ ForClient(v)
        => session'[job[v].sid].client = job[v].client
  BY InHandExists DEF OneFamily, RowsAge
<1>4. job[v].op # "revokeUser" =>
        job[v].kills \cup job[v].targets \subseteq TokensOf(job[v].sid)'
  BY <1>1 DEF OneFamily, RowsAge, TokensOf
<1> QED
  BY <1>2, <1>3, <1>4 DEF OneFamily

\* A worker that has nothing pending, and no session in hand for a client.
LEMMA NothingInHand ==
    ASSUME NEW w \in Workers,
           job'[w].ends = {}, job'[w].kills = {}, job'[w].targets = {},
           pc'[w] \in {"idle", "commitCreate", "lockToken", "lockSession", "selectUser"}
    PROVE  OneFamily(w)'
  BY DEF OneFamily

LEMMA FinishOneFamily ==
    ASSUME LockInv, NEW w \in Workers, NEW answer, NEW sid, Finish(w, answer, sid)
    PROVE  OneFamily(w)'
<1>1. pc'[w] = "idle" /\ job'[w] = NoJob
  BY DEF LockInv, TypeOK, Finish
<1> QED
  BY <1>1, NothingInHand DEF NoJob

LEMMA RequestsOneFamily ==
    ASSUME LockInv, NEW w \in Workers, Requests(w)
    PROVE  OneFamily(w)'
<1>1. TypeOK
  BY DEF LockInv
<1>2. ASSUME NEW u \in Users, NEW c \in Clients \cup {NoClient}, NEW scope \in SUBSET Scopes,
             NEW s \in Sessions, NEW t \in Tokens, BeginCreate(w, u, c, scope, s, t)
      PROVE  OneFamily(w)'
  <2>1. /\ pc'[w] = "commitCreate" /\ job'[w].ends = {} /\ job'[w].kills = {}
        /\ job'[w].targets = {}
    BY <1>1, <1>2 DEF BeginCreate, Start, NoJob, TypeOK
  <2> QED
    BY <2>1, NothingInHand
<1>3. ASSUME NEW t \in Tokens, NEW c \in Clients \cup {NoClient},
             NEW want \in {{}} \cup {{x} : x \in SUBSET Scopes}, BeginRotate(w, t, c, want)
      PROVE  OneFamily(w)'
  <2>1. /\ pc'[w] = "lockToken" /\ job'[w].ends = {} /\ job'[w].kills = {}
        /\ job'[w].targets = {}
    BY <1>1, <1>3 DEF BeginRotate, Start, NoJob, TypeOK
  <2> QED
    BY <2>1, NothingInHand
<1>4. ASSUME NEW t \in Tokens \cup {NoToken}, NEW c \in Clients \cup {NoClient},
             NEW s \in Sessions \cup {NoSession}, BeginRevoke(w, t, c, s)
      PROVE  OneFamily(w)'
  <2>1. /\ pc'[w] = "findSession" /\ job'[w].ends = {} /\ job'[w].kills = {}
        /\ job'[w].targets = {} /\ job'[w].client = c /\ job'[w].sid = s
        /\ c # NoClient => s = NoSession
    BY <1>1, <1>4 DEF BeginRevoke, Start, NoJob, TypeOK
  <2> QED
    BY <2>1 DEF OneFamily
<1>5. ASSUME NEW u \in Users, BeginRevokeUser(w, u)
      PROVE  OneFamily(w)'
  <2>1. /\ pc'[w] = "selectUser" /\ job'[w].ends = {} /\ job'[w].kills = {}
        /\ job'[w].targets = {}
    BY <1>1, <1>5 DEF BeginRevokeUser, Start, NoJob, TypeOK
  <2> QED
    BY <2>1, NothingInHand
<1> QED
  BY <1>2, <1>3, <1>4, <1>5 DEF Requests

LEMMA LockStepOneFamily ==
    ASSUME LockInv, NEW w \in Workers, OneFamily(w), LockStep(w)
    PROVE  OneFamily(w)'
<1>1. /\ TypeOK /\ TokenOwned(w) /\ RevokeTargets(w) /\ job[w] \in Job
  BY DEF LockInv, LocksProtectReads, WorkerInv, TypeOK
<1>2. CASE LockToken(w)
  <2>1. /\ pc[w] = "lockToken" /\ pc'[w] = "lockSession"
        /\ job'[w].ends = job[w].ends /\ job'[w].kills = job[w].kills
        /\ job'[w].targets = job[w].targets
    BY <1>1, <1>2 DEF LockToken, Goto, TypeOK, Job
  <2> QED
    BY <1>1, <2>1, NothingInHand DEF RevokeTargets
<1>3. CASE RotateWrongClient(w) \/ RotateTooWide(w)
  BY <1>3, FinishOneFamily DEF RotateWrongClient, RotateTooWide, Reject
<1>4. ASSUME NEW answer, FailRotation(w, answer), TakeSession(w), ~WrongClient(w)
      PROVE  OneFamily(w)'
  <2>1. /\ pc[w] = "lockSession" /\ pc'[w] = "endSession"
        /\ session' = session /\ token' = token
        /\ job'[w].ends = job[w].ends /\ job'[w].kills = job[w].kills
        /\ job'[w].targets = job[w].targets
        /\ job'[w].sid = job[w].sid /\ job'[w].client = job[w].client
        /\ session[job[w].sid].client = job[w].client
    BY <1>1, <1>4 DEF FailRotation, TakeSession, WrongClient, Goto, TypeOK, Job
  <2> QED
    BY <1>1, <2>1 DEF RevokeTargets, OneFamily
<1>5. CASE RotateReplayed(w) \/ RotateExpired(w) \/ RotateInactive(w)
  BY <1>4, <1>5 DEF RotateReplayed, RotateExpired, RotateInactive, Unspent
<1>6. ASSUME NEW t \in Tokens, RotateGrant(w, t)
      PROVE  OneFamily(w)'
  <2>1. /\ pc[w] = "lockSession" /\ pc'[w] = "commitRotate"
        /\ session' = session /\ token' = token
        /\ job'[w].ends = job[w].ends /\ job'[w].kills = job[w].kills
        /\ job'[w].targets = job[w].targets
        /\ job'[w].sid = job[w].sid /\ job'[w].client = job[w].client
        /\ session[job[w].sid].client = job[w].client
    BY <1>1, <1>6 DEF RotateGrant, Rotatable, Unspent, TakeSession, WrongClient, Goto,
                      TypeOK, Job
  <2> QED
    BY <1>1, <2>1 DEF RevokeTargets, OneFamily
<1>7. CASE EndSession(w)
  <2>1. /\ pc[w] = "endSession" /\ pc'[w] = "selectTokens"
        /\ session' = session /\ token' = token
        /\ job'[w].ends \subseteq job[w].ends \cup {job[w].sid}
        /\ job'[w].kills = job[w].kills /\ job'[w].targets = job[w].targets
        /\ job'[w].sid = job[w].sid /\ job'[w].client = job[w].client
        /\ job'[w].op = job[w].op
    BY <1>1, <1>7 DEF EndSession, Goto, TypeOK, Job
  <2> QED
    BY <2>1 DEF OneFamily, ForClient, TokensOf
<1>8. ASSUME NEW t \in Tokens, EndToken(w, t)
      PROVE  OneFamily(w)'
  <2>1. /\ pc[w] = "endTokens" /\ pc'[w] = pc[w]
        /\ session' = session /\ token' = token
        /\ job'[w].ends = job[w].ends
        /\ job'[w].kills \cup job'[w].targets \subseteq job[w].kills \cup job[w].targets
        /\ job'[w].sid = job[w].sid /\ job'[w].client = job[w].client
        /\ job'[w].op = job[w].op
    BY <1>1, <1>8 DEF EndToken, TypeOK, Job
  <2> QED
    BY <2>1 DEF OneFamily, ForClient, TokensOf
<1> QED
  BY <1>2, <1>3, <1>5, <1>6, <1>7, <1>8 DEF LockStep

LEMMA FreeStepOneFamily ==
    ASSUME LockInv, NEW w \in Workers, OneFamily(w), FreeStep(w)
    PROVE  OneFamily(w)'
<1>1. /\ TypeOK /\ RevokeTargets(w) /\ TodoChosen(w) /\ job[w] \in Job
  BY DEF LockInv, LocksProtectReads, WorkerInv, TypeOK
<1>2. CASE CommitCreate(w) \/ CommitRotate(w) \/ CommitRevoke(w) \/ RevokeNotFound(w)
  BY <1>2, FinishOneFamily DEF CommitCreate, CommitRotate, CommitRevoke, RevokeNotFound, Reject
<1>3. ASSUME NEW s \in Sessions, RevokeFound(w, s)
      PROVE  OneFamily(w)'
  <2>1. /\ pc[w] = "findSession" /\ pc'[w] = "endSession"
        /\ session' = session /\ token' = token
        /\ job'[w].ends = job[w].ends /\ job'[w].kills = job[w].kills
        /\ job'[w].targets = job[w].targets
        /\ job'[w].sid = s /\ job'[w].client = job[w].client
        /\ job'[w].op = job[w].op
    BY <1>1, <1>3 DEF RevokeFound, Goto, TypeOK, Job
  <2>2. session[s].client = job[w].client \/ (s = job[w].sid /\ s # NoSession)
    BY <1>3 DEF RevokeFound, FoundByToken
  <2> QED
    BY <1>1, <2>1, <2>2 DEF RevokeTargets, OneFamily, ForClient
<1>4. CASE SelectUserSessions(w)
  <2>1. /\ pc[w] = "selectUser" /\ job'[w].op = job[w].op /\ pc'[w] = "endTokens"
    BY <1>1, <1>4 DEF SelectUserSessions, Goto, TypeOK, Job
  <2> QED
    BY <1>1, <2>1 DEF RevokeTargets, OneFamily, ForClient
<1>5. ASSUME NEW s \in Sessions, RevokeNext(w, s)
      PROVE  OneFamily(w)'
  <2>1. job'[w].op = job[w].op /\ job[w].chosen # {} /\ pc'[w] = "endSession"
    BY <1>1, <1>5 DEF RevokeNext, Goto, TodoChosen, TypeOK, Job
  <2> QED
    BY <1>1, <2>1 DEF RevokeTargets, OneFamily, ForClient
<1>6. CASE SelectTokens(w)
  <2>1. /\ pc[w] = "selectTokens" /\ pc'[w] = "endTokens"
        /\ session' = session /\ token' = token
        /\ job'[w].ends = job[w].ends /\ job'[w].kills = job[w].kills
        /\ job'[w].targets \subseteq TokensOf(job[w].sid)
        /\ job'[w].sid = job[w].sid /\ job'[w].client = job[w].client
        /\ job'[w].op = job[w].op
    BY <1>1, <1>6 DEF SelectTokens, Goto, TypeOK, Job
  <2> QED
    BY <2>1 DEF OneFamily, ForClient, TokensOf
<1> QED
  BY <1>2, <1>3, <1>4, <1>5, <1>6 DEF FreeStep

LEMMA IInvNext == IInv /\ [Next]_vars => IInv'
<1> SUFFICES ASSUME IInv, [Next]_vars PROVE IInv'
  OBVIOUS
<1>1. LockInv /\ TypeOK /\ LockInv' /\ RowsAge /\ \A v \in Workers : OneFamily(v)
  BY NextLemma, RowsAgeStep DEF IInv, LockInv
<1> SUFFICES ASSUME NEW v \in Workers PROVE OneFamily(v)'
  BY <1>1 DEF IInv
<1>2. ASSUME NEW w \in Workers, WorkerStep(w) \/ Crash(w)
      PROVE  IF w = v THEN OneFamily(v)' ELSE pc'[v] = pc[v] /\ job'[v] = job[v]
  <2>1. CASE w = v
    BY <1>1, <1>2, <2>1, RequestsOneFamily, LockStepOneFamily, FreeStepOneFamily,
       FinishOneFamily DEF WorkerStep, AbortDeadlock, Crash, Reject
  <2>2. CASE w # v
    BY <1>1, <1>2, <2>2, OnlyItsWorker
  <2> QED
    BY <2>1, <2>2
<1>3. CASE Environment \/ UNCHANGED vars
  BY <1>1, <1>3, OneFamilyFrame DEF Environment, Tick, Deactivate, vars
<1> QED
  BY <1>1, <1>2, <1>3, OneFamilyFrame DEF Next

\* Every reachable state satisfies the whole inductive invariant: the locks
\* protect what was read, and a request ends one family, of the client it named.
THEOREM Invariance == Spec => []IInv
<1>1. Init => IInv
  BY InitLemma DEF Init, NoJob, IInv, OneFamily
<1> QED
  BY <1>1, IInvNext, PTL DEF Spec

-----------------------------------------------------------------------------
(* Answers are true of the step that sends them *)

\* A committed row changes, and an answer is sent, only by a step of the worker
\* whose request ends; "revoked" and "userRevoked" are answers of CommitRevoke.
LEMMA AnswerStep ==
    ASSUME IInv, [Next]_vars, NEW w \in Workers,
           outcome'[w].answer \in {"revoked", "userRevoked"},
           outcome'[w].answer # outcome[w].answer
    PROVE  CommitRevoke(w) /\ outcome'[w] = [answer |-> RevokeAnswer(w), sid |-> job[w].sid]
<1>1. TypeOK
  BY DEF IInv, LockInv
<1>2. PICK v \in Workers : WorkerStep(v) \/ Crash(v)
  BY DEF Next, Environment, Tick, Deactivate, vars
<1>3. v = w
  BY <1>1, <1>2, OnlyItsWorker
<1>4. ASSUME NEW answer, NEW sid, Finish(w, answer, sid),
             answer \notin {"revoked", "userRevoked"}
      PROVE  FALSE
  BY <1>1, <1>4 DEF Finish, TypeOK
<1>5. ASSUME Requests(w) PROVE FALSE
  <2>1. ASSUME NEW step, NEW request, Start(w, step, request) PROVE FALSE
    BY <1>1, <2>1 DEF Start, TypeOK
  <2> QED
    BY <1>5, <2>1 DEF Requests, BeginCreate, BeginRotate, BeginRevoke, BeginRevokeUser
<1>6. ASSUME LockStep(w) PROVE FALSE
  <2>1. ~RotateWrongClient(w) /\ ~RotateTooWide(w)
    BY <1>4 DEF RotateWrongClient, RotateTooWide, Reject
  <2>2. outcome' # outcome
    OBVIOUS
  <2> QED
    BY <1>6, <2>1, <2>2 DEF LockStep, LockToken, RotateReplayed, RotateExpired,
       RotateInactive, RotateGrant, EndSession, EndToken, FailRotation
<1>7. ASSUME FreeStep(w), ~CommitRevoke(w) PROVE FALSE
  <2>1. ~CommitCreate(w) /\ ~CommitRotate(w) /\ ~RevokeNotFound(w)
    BY <1>4 DEF CommitCreate, CommitRotate, RevokeNotFound, Reject
  <2>2. outcome' # outcome
    OBVIOUS
  <2> QED
    BY <1>7, <2>1, <2>2 DEF FreeStep, RevokeFound, SelectUserSessions, RevokeNext, SelectTokens
<1>8. ASSUME AbortDeadlock(w) \/ Crash(w) PROVE FALSE
  BY <1>4, <1>8 DEF AbortDeadlock, Crash, Reject
<1>9. CommitRevoke(w)
  BY <1>2, <1>3, <1>5, <1>6, <1>7, <1>8 DEF WorkerStep
<1> QED
  BY <1>1, <1>9 DEF CommitRevoke, Finish, TypeOK

\* revoke() is True for the request whose own commit ended a live session, so
\* for exactly one of any number of logouts of it (the UPDATE's row count).
THEOREM RevokeTrueOnceAlways == Spec => RevokeTrueOnce
<1> DEFINE TrueOnce ==
      \A w \in Workers :
        outcome'[w].answer = "revoked" /\ outcome[w].answer # "revoked"
          => session[outcome'[w].sid].state = "live"
             /\ session'[outcome'[w].sid].state = "revoked"
<1>1. ASSUME IInv, [Next]_vars PROVE TrueOnce
  <2> SUFFICES ASSUME NEW w \in Workers,
                      outcome'[w].answer = "revoked", outcome[w].answer # "revoked"
               PROVE  session[outcome'[w].sid].state = "live"
                      /\ session'[outcome'[w].sid].state = "revoked"
    OBVIOUS
  <2>1. CommitRevoke(w) /\ outcome'[w] = [answer |-> RevokeAnswer(w), sid |-> job[w].sid]
    BY <1>1, AnswerStep
  <2>2. job[w] \in Job /\ OneFamily(w)
    BY <1>1 DEF IInv, LockInv, TypeOK
  <2>3. job[w].op # "revokeUser" /\ job[w].ends # {}
    BY <2>1, <2>2 DEF RevokeAnswer, Job
  <2>4. job[w].sid \in job[w].ends
    BY <2>2, <2>3 DEF OneFamily
  <2> QED
    BY <1>1, <2>1, <2>4, RevokeEffect DEF IInv
<1>2. Spec => [][TrueOnce]_vars
  BY <1>1, Invariance, PTL DEF Spec
<1> QED
  BY <1>2 DEF RevokeTrueOnce

\* Once revoke_user_sessions has answered, every session it had found live is
\* revoked, by it or by a request that committed while it ran.
THEOREM UserRevocationIsCompleteAlways == Spec => UserRevocationIsComplete
<1> DEFINE Complete ==
      \A w \in Workers :
        outcome'[w].answer = "userRevoked" /\ outcome[w].answer # "userRevoked"
          => \A s \in job[w].chosen : session'[s].state = "revoked"
<1>1. ASSUME IInv, [Next]_vars PROVE Complete
  <2> SUFFICES ASSUME NEW w \in Workers, outcome'[w].answer = "userRevoked",
                      outcome[w].answer # "userRevoked", NEW s \in job[w].chosen
               PROVE  session'[s].state = "revoked"
    OBVIOUS
  <2>1. CommitRevoke(w)
    BY <1>1, AnswerStep
  <2>2. s \in Sessions /\ ChosenCovered(w)
    BY <1>1 DEF IInv, LockInv, LocksProtectReads, WorkerInv, TypeOK, Job
  <2>3. s \in job[w].ends \/ session[s].state = "revoked"
    BY <2>1, <2>2 DEF CommitRevoke, ChosenCovered
  <2> QED
    BY <1>1, <2>1, <2>2, <2>3, RevokeEffect DEF IInv
<1>2. Spec => [][Complete]_vars
  BY <1>1, Invariance, PTL DEF Spec
<1> QED
  BY <1>2 DEF UserRevocationIsComplete

\* A request that names a client writes nothing to a session of another client,
\* nor to its tokens, even with a genuine token (the client tests of rotate, revoke).
THEOREM ClientIsolationAlways == Spec => ClientIsolation
<1> DEFINE Isolated ==
             \A w \in Workers, s \in Sessions :
               /\ pc[w] # "idle" /\ pc'[w] = "idle"
               /\ job[w].op = "rotate" \/ (job[w].op = "revoke" /\ job[w].client # NoClient)
               /\ session[s].client # job[w].client
               => /\ session'[s] = session[s]
                  /\ \A t \in TokensOf(s) : token'[t] = token[t]
<1>1. ASSUME IInv, [Next]_vars PROVE Isolated
  <2> SUFFICES ASSUME NEW w \in Workers, NEW s \in Sessions,
                      pc[w] # "idle", pc'[w] = "idle", ForClient(w),
                      session[s].client # job[w].client
               PROVE  /\ session'[s] = session[s]
                      /\ \A t \in TokensOf(s) : token'[t] = token[t]
    BY DEF ForClient
  <2>1. LockInv /\ TypeOK /\ OneFamily(w) /\ RevokeTargets(w) /\ s # NoSession
    BY <1>1, SentinelAssumption DEF IInv, LockInv, LocksProtectReads, WorkerInv
  <2>2. CASE UNCHANGED <<session, token>>
    BY <2>2
  <2>3. ASSUME NEW v \in Workers, CommitCreate(v) \/ CommitRotate(v) \/ CommitRevoke(v)
        PROVE  v = w
    BY <2>1, <2>3 DEF CommitCreate, CommitRotate, CommitRevoke, Finish, TypeOK
  <2>4. CASE CommitCreate(w)
    BY <2>1, <2>4 DEF CommitCreate, RevokeTargets, ForClient
  <2>5. CASE CommitRotate(w)
    <3>1. s # job[w].sid
      BY <2>1, <2>5 DEF CommitRotate, OneFamily
    <3> QED
      BY <2>1, <2>5, <3>1, RotateEffect DEF TokensOf
  <2>6. CASE CommitRevoke(w)
    <3>1. s # job[w].sid
      BY <2>1, <2>6 DEF CommitRevoke, OneFamily
    <3>2. s \notin job[w].ends /\ \A t \in TokensOf(s) : t \notin job[w].kills
      BY <2>1, <3>1 DEF OneFamily, ForClient, TokensOf
    <3> QED
      BY <2>6, <3>2 DEF CommitRevoke, TokensOf
  <2> QED
    BY <1>1, <2>1, <2>2, <2>3, <2>4, <2>5, <2>6, OnlyCommitsWrite
<1>2. Spec => [][Isolated]_vars
  BY <1>1, Invariance, PTL DEF Spec
<1> QED
  BY <1>2 DEF ClientIsolation

-----------------------------------------------------------------------------
(* Refinement of SessionFamily *)

LEMMA CreateIsOpen ==
    ASSUME LockInv, NEW w \in Workers, CommitCreate(w)
    PROVE  Family!Open(job[w].sid, job[w].next)
<1> USE SentinelAssumption
<1> DEFINE sid == job[w].sid
           next == job[w].next
<1>1. /\ TypeOK /\ RowsAgree
      /\ \A t \in Tokens : token[t].sid \in Sessions \cup {NoSession}
  BY DEF LockInv, LocksProtectReads, TypeOK, TokenRow
<1>2. /\ sid \in Sessions /\ session[sid].state = "absent"
      /\ next \in Tokens /\ token[next].sid = NoSession
      /\ session'[sid].state = "live"
      /\ \A s \in Sessions \ {sid} : session'[s] = session[s]
      /\ token'[next].sid = sid /\ ~token'[next].used /\ ~token'[next].revoked
      /\ \A t \in Tokens \ {next} : token'[t] = token[t]
  BY CreateEffect
<1> HIDE DEF sid, next
<1>3. \A t \in Tokens : token[t].sid # sid
  BY <1>1, <1>2 DEF RowsAgree
<1>4. [s \in Sessions |-> session'[s].state]
        = [[s \in Sessions |-> session[s].state] EXCEPT ![sid] = "live"]
  BY <1>2
<1>5. \A t \in Tokens : Live(t)' <=> IF t = next THEN TRUE ELSE Live(t)
  BY <1>2 DEF Live
<1>6. [s \in Sessions |-> {t \in TokensOf(s) : Live(t)}]'
        = [[s \in Sessions |-> {t \in TokensOf(s) : Live(t)}] EXCEPT ![sid] = {next}]
  <2>1. \A s \in Sessions : {t \in TokensOf(s) : Live(t)}'
          = IF s = sid THEN {next} ELSE {t \in TokensOf(s) : Live(t)}
    BY <1>2, <1>3, <1>5 DEF TokensOf
  <2> QED
    BY <1>2, <2>1
<1>7. [s \in Sessions |-> {t \in TokensOf(s) : ~Live(t)}]'
        = [s \in Sessions |-> {t \in TokensOf(s) : ~Live(t)}]
  <2>1. \A s \in Sessions : {t \in TokensOf(s) : ~Live(t)}' = {t \in TokensOf(s) : ~Live(t)}
    BY <1>2, <1>3, <1>5 DEF TokensOf
  <2> QED
    BY <2>1
<1>8. Family!Fresh(next)
  BY <1>2, SentinelAssumption DEF Family!Fresh, TokensOf
<1> QED
  BY <1>2, <1>4, <1>6, <1>7, <1>8 DEF Family!Open, sid, next

LEMMA RotateIsRotate ==
    ASSUME LockInv, NEW w \in Workers, CommitRotate(w)
    PROVE  Family!Rotate(job[w].sid, job[w].next)
<1> DEFINE sid == job[w].sid
           raw == job[w].raw
           next == job[w].next
<1>1. OneLiveToken /\ \A t \in Tokens : token[t].sid \in Sessions \cup {NoSession}
  BY DEF LockInv, LocksProtectReads, TypeOK, TokenRow
<1>2. /\ sid \in Sessions /\ sid # NoSession /\ session[sid].state = "live"
      /\ raw \in Tokens /\ token[raw].sid = sid /\ Live(raw)
      /\ next \in Tokens /\ token[next].sid = NoSession /\ next # raw
      /\ session'[sid].state = "live"
      /\ \A s \in Sessions \ {sid} : session'[s] = session[s]
      /\ token'[next].sid = sid /\ ~token'[next].used /\ ~token'[next].revoked
      /\ token'[raw].sid = sid /\ token'[raw].used
      /\ \A t \in Tokens \ {raw, next} : token'[t] = token[t]
  BY RotateEffect, SentinelAssumption
<1> HIDE DEF sid, raw, next
<1>3. [s \in Sessions |-> session[s].state]' = [s \in Sessions |-> session[s].state]
  BY <1>2
<1>4. \A t \in Tokens : Live(t)' <=> IF t = next THEN TRUE
                                     ELSE IF t = raw THEN FALSE ELSE Live(t)
  BY <1>2 DEF Live
<1>5. \A t \in Tokens : token[t].sid = sid /\ Live(t) => t = raw
  BY <1>1, <1>2 DEF OneLiveToken
<1>6. [s \in Sessions |-> {t \in TokensOf(s) : Live(t)}]'
        = [[s \in Sessions |-> {t \in TokensOf(s) : Live(t)}] EXCEPT ![sid] = {next}]
  <2>1. \A s \in Sessions : {t \in TokensOf(s) : Live(t)}'
          = IF s = sid THEN {next} ELSE {t \in TokensOf(s) : Live(t)}
    BY <1>2, <1>4, <1>5, SentinelAssumption DEF TokensOf
  <2> QED
    BY <1>2, <2>1
<1>7. [s \in Sessions |-> {t \in TokensOf(s) : ~Live(t)}]'
        = [[s \in Sessions |-> {t \in TokensOf(s) : ~Live(t)}] EXCEPT
             ![sid] = @ \cup [s \in Sessions |-> {t \in TokensOf(s) : Live(t)}][sid]]
  <2>1. \A s \in Sessions : {t \in TokensOf(s) : ~Live(t)}'
          = IF s = sid THEN {t \in TokensOf(s) : ~Live(t)} \cup {t \in TokensOf(s) : Live(t)}
            ELSE {t \in TokensOf(s) : ~Live(t)}
    BY <1>2, <1>4, <1>5, SentinelAssumption DEF TokensOf
  <2> QED
    BY <1>2, <2>1
<1>8. Family!Fresh(next)
  BY <1>2, SentinelAssumption DEF Family!Fresh, TokensOf
<1> QED
  BY <1>2, <1>3, <1>6, <1>7, <1>8 DEF Family!Rotate, sid, next

LEMMA RevokeIsClose ==
    ASSUME LockInv, NEW w \in Workers, CommitRevoke(w)
    PROVE  Family!Close(job[w].ends)
<1> DEFINE ends == job[w].ends
           kills == job[w].kills
<1>1. RevokedFamilyIsDead /\ \A t \in Tokens : token[t].sid \in Sessions \cup {NoSession}
  BY DEF LockInv, LocksProtectReads, TypeOK, TokenRow
<1>2. /\ ends \subseteq Sessions /\ \A s \in ends : session[s].state = "live"
      /\ \A s \in Sessions : session'[s].state = IF s \in ends THEN "revoked"
                                                 ELSE session[s].state
      /\ \A t \in Tokens : /\ token'[t].sid = token[t].sid
                           /\ token'[t].used = token[t].used
                           /\ token'[t].revoked <=> token[t].revoked \/ t \in kills
      /\ \A t \in Tokens : token[t].sid \in ends => token[t].revoked \/ t \in kills
      /\ \A t \in kills : \/ token[t].sid \in ends
                          \/ session[token[t].sid].state = "revoked"
      /\ \A t \in kills : token[t].sid # NoSession
  BY RevokeEffect
<1> HIDE DEF ends, kills
<1>3. \A t \in Tokens : token[t].sid \in Sessions =>
        (Live(t)' <=> IF token[t].sid \in ends THEN FALSE ELSE Live(t))
  BY <1>1, <1>2 DEF Live, RevokedFamilyIsDead
<1>4. [s \in Sessions |-> session[s].state]'
        = [s \in Sessions |-> IF s \in ends THEN "revoked"
                              ELSE [x \in Sessions |-> session[x].state][s]]
  BY <1>2
<1>5. [s \in Sessions |-> {t \in TokensOf(s) : Live(t)}]'
        = [s \in Sessions |-> IF s \in ends THEN {}
             ELSE [x \in Sessions |-> {t \in TokensOf(x) : Live(t)}][s]]
  <2>1. \A s \in Sessions : {t \in TokensOf(s) : Live(t)}'
          = IF s \in ends THEN {} ELSE {t \in TokensOf(s) : Live(t)}
    BY <1>2, <1>3 DEF TokensOf
  <2> QED
    BY <2>1
<1>6. [s \in Sessions |-> {t \in TokensOf(s) : ~Live(t)}]'
        = [s \in Sessions |-> IF s \in ends
             THEN [x \in Sessions |-> {t \in TokensOf(x) : ~Live(t)}][s]
                    \cup [x \in Sessions |-> {t \in TokensOf(x) : Live(t)}][s]
             ELSE [x \in Sessions |-> {t \in TokensOf(x) : ~Live(t)}][s]]
  <2>1. \A s \in Sessions : {t \in TokensOf(s) : ~Live(t)}'
          = IF s \in ends THEN {t \in TokensOf(s) : ~Live(t)} \cup {t \in TokensOf(s) : Live(t)}
            ELSE {t \in TokensOf(s) : ~Live(t)}
    BY <1>2, <1>3 DEF TokensOf
  <2> QED
    BY <2>1
<1> QED
  BY <1>2, <1>4, <1>5, <1>6 DEF Family!Close, ends

LEMMA StepImplementsFamily ==
    ASSUME LockInv, [Next]_vars
    PROVE  [Family!Next]_(Family!vars)
<1>1. ASSUME NEW w \in Workers, CommitCreate(w)
      PROVE  Family!Next
  <2>1. job[w].sid \in Sessions /\ job[w].next \in Tokens
    BY <1>1, CreateEffect
  <2>2. Family!Open(job[w].sid, job[w].next)
    BY <1>1, CreateIsOpen
  <2> QED
    BY <2>1, <2>2 DEF Family!Next, Family!Open
<1>2. ASSUME NEW w \in Workers, CommitRotate(w)
      PROVE  Family!Next
  <2>1. job[w].sid \in Sessions /\ job[w].next \in Tokens
    BY <1>2, RotateEffect
  <2>2. Family!Rotate(job[w].sid, job[w].next)
    BY <1>2, RotateIsRotate
  <2> QED
    BY <2>1, <2>2 DEF Family!Next
<1>3. ASSUME NEW w \in Workers, CommitRevoke(w)
      PROVE  Family!Next
  <2>1. job[w].ends \in SUBSET Sessions
    BY <1>3, RevokeEffect
  <2>2. Family!Close(job[w].ends)
    BY <1>3, RevokeIsClose
  <2> QED
    BY <2>1, <2>2 DEF Family!Next, Family!Close
<1>4. CASE UNCHANGED <<session, token>>
  <2>1. /\ [s \in Sessions |-> session[s].state]' = [s \in Sessions |-> session[s].state]
        /\ [s \in Sessions |-> {t \in TokensOf(s) : Live(t)}]'
             = [s \in Sessions |-> {t \in TokensOf(s) : Live(t)}]
        /\ [s \in Sessions |-> {t \in TokensOf(s) : ~Live(t)}]'
             = [s \in Sessions |-> {t \in TokensOf(s) : ~Live(t)}]
    BY <1>4 DEF TokensOf, Live
  <2> QED
    BY <2>1 DEF Family!vars
<1> QED
  BY <1>1, <1>2, <1>3, <1>4, OnlyCommitsWrite

LEMMA InitImplementsFamily == Init => Family!Init
  BY SentinelAssumption DEF Init, Family!Init, TokensOf, AbsentToken, AbsentSession

\* The transactional service is a set of atomic session families: whatever its
\* statements interleave, each commit opens, rotates or closes families at once.
THEOREM Refinement == Spec => ImplementsFamily
<1>1. Spec => [][Family!Next]_(Family!vars)
  BY LockInvariance, StepImplementsFamily, PTL DEF Spec
<1> QED
  BY <1>1, InitImplementsFamily, PTL DEF Spec, ImplementsFamily, Family!Spec
=============================================================================
