-------------------------- MODULE AuthSessionsProofs --------------------------
(***************************************************************************)
(* Proofs, for every set of workers, sessions, tokens, users, clients and  *)
(* scopes, of the safety properties of AuthSessions.  They all follow from *)
(* LockInv (AuthSessionsInv), shown inductive by one step per action.      *)
(***************************************************************************)
EXTENDS AuthSessionsInv, TLAPS

-----------------------------------------------------------------------------
(* What a step of one worker leaves alone in the others *)

\* A step keeps what worker v relies on: its own state and locks, the rows it
\* has locked, the rows it is about to insert, and the age of all rows.
Kept(v) ==
    /\ pc'[v] = pc[v] /\ job'[v] = job[v] /\ outcome'[v] = outcome[v]
    /\ \A s \in Sessions : sessionLock[s] = v =>
         /\ sessionLock'[s] = v
         /\ session'[s] = session[s]
         /\ \A t \in Tokens : token'[t].sid = s => token[t].sid = s
    /\ \A t \in Tokens : tokenLock[t] = v => tokenLock'[t] = v /\ token'[t] = token[t]
    /\ pc[v] = "commitCreate" => session'[job[v].sid].state = "absent"
    /\ job[v].next \in Tokens /\ token[job[v].next].sid = NoSession
         => token'[job[v].next].sid = NoSession

\* Committed rows only age, and so does the clock.
Aging ==
    /\ \A s \in Sessions :
         /\ session[s].state # "absent" => session'[s].state # "absent"
         /\ session[s].state = "revoked" => session'[s].state = "revoked"
    /\ \A t \in Tokens :
         token[t].sid # NoSession =>
           /\ token'[t].sid = token[t].sid
           /\ token[t].revoked => token'[t].revoked
    /\ now <= now'

\* The invariant of a worker holds after a step that keeps what it relies on.
LEMMA FrameLemma ==
    ASSUME LockInv, TypeOK', Aging, NEW v \in Workers, Kept(v)
    PROVE  WorkerInv(v)'
<1> USE SentinelAssumption, TimeAssumption
<1>1. TypeOK /\ WorkerInv(v)
  BY DEF LockInv, LocksProtectReads
<1>2. /\ job[v] \in Job /\ pc[v] \in Steps /\ outcome[v] \in Outcome
      /\ \A s \in Sessions : session[s] \in SessionRow /\ session'[s] \in SessionRow
      /\ \A t \in Tokens : token[t] \in TokenRow /\ token'[t] \in TokenRow
      /\ now \in Nat /\ now' \in Nat
  BY <1>1 DEF TypeOK
<1>3. CreatePending(v)'
  BY <1>1, <1>2 DEF WorkerInv, CreatePending, Kept, Aging, Job
<1>4. TokenOwned(v)'
  BY <1>1, <1>2 DEF WorkerInv, TokenOwned, Kept, Aging
<1>5. RotatePending(v)'
  BY <1>1, <1>2 DEF WorkerInv, RotatePending, TokenOwned, Kept, Aging, Live
<1>6. RevokeTargets(v)'
  BY <1>1, <1>2 DEF WorkerInv, RevokeTargets, Kept, Aging, Job
<1>7. ChosenCovered(v)' /\ TodoChosen(v)'
  BY <1>1, <1>2 DEF WorkerInv, ChosenCovered, TodoChosen, Kept, Aging, Job
<1>8. EndsOwned(v)'
  BY <1>1, <1>2 DEF WorkerInv, EndsOwned, Kept, Aging, TokensOf, Job
<1>9. KillsOwned(v)'
  BY <1>1, <1>2 DEF WorkerInv, KillsOwned, Kept, Aging, Job, TokenRow
<1>10. AnswerTrue(v)'
  BY <1>1, <1>2 DEF WorkerInv, AnswerTrue, Kept, Aging
<1> QED
  BY <1>3, <1>4, <1>5, <1>6, <1>7, <1>8, <1>9, <1>10 DEF WorkerInv

\* A step of w that commits nothing: it writes no row and takes no lock that
\* another worker holds; a key it reserves is unused.
Quiet(w) ==
    /\ UNCHANGED <<session, token, now>>
    /\ \A v \in Workers \ {w} :
         /\ pc'[v] = pc[v] /\ job'[v] = job[v] /\ outcome'[v] = outcome[v]
         /\ \A s \in Sessions : sessionLock[s] = v => sessionLock'[s] = v
         /\ \A t \in Tokens : tokenLock[t] = v => tokenLock'[t] = v
    /\ \A s \in Sessions : \/ sessionLock'[s] \in {NoWorker, sessionLock[s]}
                           \/ session[s].state # "absent"
    /\ \A t \in Tokens : \/ tokenLock'[t] \in {NoWorker, tokenLock[t]}
                         \/ token[t].sid # NoSession
    /\ \/ job'[w].next \in {NoToken, job[w].next}
       \/ UnusedToken(job'[w].next)
    /\ pc'[w] = "commitCreate" => UnusedSession(job'[w].sid)

\* Such a step preserves the invariant if it establishes that of its own worker.
LEMMA QuietLemma ==
    ASSUME LockInv, TypeOK', NEW w \in Workers, Quiet(w), WorkerInv(w)'
    PROVE  LockInv'
<1> USE SentinelAssumption
<1>1. TypeOK /\ LocksProtectReads
  BY DEF LockInv
<1>2. Aging
  BY <1>1 DEF Quiet, Aging, TypeOK
<1>3. ASSUME NEW v \in Workers \ {w} PROVE Kept(v)
  <2>1. CreatePending(v)
    BY <1>1, <1>3 DEF LocksProtectReads, WorkerInv
  <2> QED
    BY <2>1, <1>3 DEF Quiet, Kept, CreatePending
<1>4. \A v \in Workers : WorkerInv(v)'
  BY <1>2, <1>3, FrameLemma
<1>5. PendingRowsDiffer'
  <2> SUFFICES ASSUME NEW x \in Workers, NEW y \in Workers, x # y
               PROVE  /\ pc'[x] = "commitCreate" /\ pc'[y] = "commitCreate"
                           => job'[x].sid # job'[y].sid
                      /\ job'[x].next \in Tokens => job'[x].next # job'[y].next
    BY DEF PendingRowsDiffer
  <2>1. PendingRowsDiffer
    BY <1>1 DEF LocksProtectReads
  <2>2. CASE x # w /\ y # w
    BY <2>1, <2>2 DEF Quiet, PendingRowsDiffer
  <2>3. CASE x = w
    BY <2>1, <2>3, <1>1 DEF Quiet, PendingRowsDiffer, UnusedToken, UnusedSession
  <2>4. CASE y = w
    BY <2>1, <2>4, <1>1 DEF Quiet, PendingRowsDiffer, UnusedToken, UnusedSession
  <2> QED
    BY <2>2, <2>3, <2>4
<1>6. /\ RowsAgree' /\ RevokedFamilyIsDead' /\ OneLiveToken' /\ LiveSessionHasLiveToken'
      /\ \A t \in Tokens : token'[t].sid # NoSession => token'[t].expires <= now' + Lifetime
  BY <1>1 DEF Quiet, LocksProtectReads, RowsAgree, RevokedFamilyIsDead, OneLiveToken,
              LiveSessionHasLiveToken, TokensOf, Live
<1>7. LockedRowsExist'
  BY <1>1 DEF Quiet, LocksProtectReads, LockedRowsExist
<1> QED
  BY <1>4, <1>5, <1>6, <1>7 DEF LockInv, LocksProtectReads

-----------------------------------------------------------------------------
(* The initial states *)

LEMMA InitLemma == Init => LockInv
<1> USE SentinelAssumption, TimeAssumption
<1> SUFFICES ASSUME Init PROVE LockInv
  OBVIOUS
<1>1. TypeOK
  <2>1. AbsentSession \in SessionRow /\ AbsentToken \in TokenRow
    BY DEF AbsentSession, SessionRow, AbsentToken, TokenRow
  <2>2. NoJob \in Job
    BY <2>1 DEF NoJob, Job
  <2>3. [answer |-> "none", sid |-> NoSession] \in Outcome
    BY DEF Outcome, Answers
  <2> QED
    BY <2>1, <2>2, <2>3 DEF Init, TypeOK, Steps
<1>2. /\ RowsAgree /\ RevokedFamilyIsDead /\ OneLiveToken /\ LiveSessionHasLiveToken
      /\ \A t \in Tokens : token[t].sid # NoSession => token[t].expires <= now + Lifetime
      /\ LockedRowsExist
  BY DEF Init, AbsentToken, AbsentSession, RowsAgree, RevokedFamilyIsDead,
         OneLiveToken, LiveSessionHasLiveToken, LockedRowsExist
<1>3. PendingRowsDiffer
  BY DEF Init, NoJob, PendingRowsDiffer
<1>4. ASSUME NEW w \in Workers PROVE WorkerInv(w)
  BY <1>4 DEF Init, NoJob, WorkerInv, CreatePending, TokenOwned, RotatePending,
              RevokeTargets, ChosenCovered, TodoChosen, EndsOwned, KillsOwned, AnswerTrue
<1> QED
  BY <1>1, <1>2, <1>3, <1>4 DEF LockInv, LocksProtectReads

-----------------------------------------------------------------------------
(* Requests begin *)

LEMMA StartLemma ==
    ASSUME LockInv, NEW w \in Workers, NEW step \in Steps, NEW request \in Job,
           Start(w, step, request),
           request.next = NoToken \/ UnusedToken(request.next),
           step = "commitCreate" => UnusedSession(request.sid)
    PROVE  /\ TypeOK' /\ Quiet(w)
           /\ pc[w] = "idle" /\ pc'[w] = step /\ job'[w] = request
           /\ AnswerTrue(w)'
<1>1. TypeOK
  BY DEF LockInv
<1>2. pc[w] = "idle" /\ pc'[w] = step /\ job'[w] = request
  BY <1>1 DEF Start, TypeOK
<1>3. TypeOK'
  <2>1. [answer |-> "none", sid |-> NoSession] \in Outcome
    BY DEF Outcome, Answers
  <2> QED
    BY <1>1, <2>1 DEF Start, TypeOK
<1>4. Quiet(w)
  BY <1>1, <1>2 DEF Start, Quiet, TypeOK
<1>5. AnswerTrue(w)'
  BY <1>1 DEF Start, AnswerTrue, TypeOK
<1> QED
  BY <1>2, <1>3, <1>4, <1>5

LEMMA NoJobType == NoJob \in Job
<1> USE SentinelAssumption
<1>1. AbsentToken \in TokenRow
  BY DEF AbsentToken, TokenRow
<1> QED
  BY <1>1 DEF NoJob, Job

LEMMA BeginCreateStep ==
    ASSUME LockInv, NEW w \in Workers, NEW u \in Users, NEW c \in Clients \cup {NoClient},
           NEW scope \in SUBSET Scopes, NEW s \in Sessions, NEW t \in Tokens,
           BeginCreate(w, u, c, scope, s, t)
    PROVE  LockInv'
<1> USE SentinelAssumption, TimeAssumption
<1> DEFINE request == [NoJob EXCEPT !.op = "create", !.user = u, !.client = c,
                                    !.scope = scope, !.sid = s, !.next = t,
                                    !.expires = now + Lifetime]
<1>1. TypeOK /\ now \in Nat /\ now + Lifetime \in Nat
  BY DEF LockInv, TypeOK
<1>2. request \in Job
  <2>1. [NoJob EXCEPT !.op = "create", !.user = u, !.client = c] \in Job
    BY NoJobType DEF Job
  <2>2. [NoJob EXCEPT !.op = "create", !.user = u, !.client = c,
                      !.scope = scope, !.sid = s] \in Job
    BY <2>1 DEF Job
  <2> QED
    BY <1>1, <2>2 DEF Job
<1>3. /\ request.op = "create" /\ request.sid = s /\ request.next = t
      /\ request.expires = now + Lifetime /\ request.chosen = {} /\ request.todo = {}
      /\ request.targets = {} /\ request.ends = {} /\ request.kills = {}
      /\ request.answer = "none"
  BY DEF NoJob
<1>4. Start(w, "commitCreate", request) /\ UnusedToken(t) /\ UnusedSession(s)
  BY DEF BeginCreate
<1> HIDE DEF request
<1>5. /\ TypeOK' /\ Quiet(w) /\ AnswerTrue(w)'
      /\ pc'[w] = "commitCreate" /\ job'[w] = request
  BY <1>2, <1>3, <1>4, StartLemma DEF Steps
<1>6. WorkerInv(w)'
  BY <1>1, <1>3, <1>4, <1>5
     DEF Quiet, WorkerInv, CreatePending, TokenOwned, RotatePending, RevokeTargets,
         ChosenCovered, TodoChosen, EndsOwned, KillsOwned, UnusedSession, UnusedToken
<1> QED
  BY <1>5, <1>6, QuietLemma

LEMMA BeginRotateStep ==
    ASSUME LockInv, NEW w \in Workers, NEW t \in Tokens, NEW c \in Clients \cup {NoClient},
           NEW want \in {{}} \cup {{x} : x \in SUBSET Scopes},
           BeginRotate(w, t, c, want)
    PROVE  LockInv'
<1> USE SentinelAssumption
<1> DEFINE request == [NoJob EXCEPT !.op = "rotate", !.raw = t, !.client = c,
                                    !.want = want]
<1>1. TypeOK
  BY DEF LockInv
<1>2. request \in Job
  <2>1. want \in SUBSET SUBSET Scopes
    OBVIOUS
  <2> QED
    BY <2>1, NoJobType DEF Job
<1>3. /\ request.op = "rotate" /\ request.raw = t /\ request.next = NoToken
      /\ request.chosen = {} /\ request.todo = {}
      /\ request.targets = {} /\ request.ends = {} /\ request.kills = {}
      /\ request.answer = "none"
  BY DEF NoJob
<1>4. Start(w, "lockToken", request) /\ token[t].sid # NoSession
  BY DEF BeginRotate
<1> HIDE DEF request
<1>5. /\ TypeOK' /\ Quiet(w) /\ AnswerTrue(w)'
      /\ pc'[w] = "lockToken" /\ job'[w] = request
  BY <1>2, <1>3, <1>4, StartLemma DEF Steps
<1>6. WorkerInv(w)'
  BY <1>3, <1>4, <1>5
     DEF Quiet, WorkerInv, CreatePending, TokenOwned, RotatePending, RevokeTargets,
         ChosenCovered, TodoChosen, EndsOwned, KillsOwned
<1> QED
  BY <1>5, <1>6, QuietLemma

LEMMA BeginRevokeStep ==
    ASSUME LockInv, NEW w \in Workers, NEW t \in Tokens \cup {NoToken},
           NEW c \in Clients \cup {NoClient}, NEW s \in Sessions \cup {NoSession},
           BeginRevoke(w, t, c, s)
    PROVE  LockInv'
<1> USE SentinelAssumption
<1> DEFINE request == [NoJob EXCEPT !.op = "revoke", !.raw = t, !.client = c, !.sid = s]
<1>1. TypeOK
  BY DEF LockInv
<1>2. request \in Job
  BY NoJobType DEF Job
<1>3. /\ request.op = "revoke" /\ request.raw = t /\ request.sid = s
      /\ request.next = NoToken /\ request.chosen = {} /\ request.todo = {}
      /\ request.targets = {} /\ request.ends = {} /\ request.kills = {}
      /\ request.answer = "none"
  BY DEF NoJob
<1>4. Start(w, "findSession", request) /\ (s # NoSession => session[s].state # "absent")
  BY DEF BeginRevoke
<1> HIDE DEF request
<1>5. /\ TypeOK' /\ Quiet(w) /\ AnswerTrue(w)'
      /\ pc'[w] = "findSession" /\ job'[w] = request
  BY <1>2, <1>3, <1>4, StartLemma DEF Steps
<1>6. WorkerInv(w)'
  BY <1>3, <1>4, <1>5
     DEF Quiet, WorkerInv, CreatePending, TokenOwned, RotatePending, RevokeTargets,
         ChosenCovered, TodoChosen, EndsOwned, KillsOwned
<1> QED
  BY <1>5, <1>6, QuietLemma

LEMMA BeginRevokeUserStep ==
    ASSUME LockInv, NEW w \in Workers, NEW u \in Users, BeginRevokeUser(w, u)
    PROVE  LockInv'
<1> USE SentinelAssumption
<1> DEFINE request == [NoJob EXCEPT !.op = "revokeUser", !.user = u]
<1>1. TypeOK
  BY DEF LockInv
<1>2. request \in Job
  BY NoJobType DEF Job
<1>3. /\ request.op = "revokeUser" /\ request.next = NoToken
      /\ request.chosen = {} /\ request.todo = {}
      /\ request.targets = {} /\ request.ends = {} /\ request.kills = {}
      /\ request.answer = "none"
  BY DEF NoJob
<1>4. Start(w, "selectUser", request)
  BY DEF BeginRevokeUser
<1> HIDE DEF request
<1>5. /\ TypeOK' /\ Quiet(w) /\ AnswerTrue(w)'
      /\ pc'[w] = "selectUser" /\ job'[w] = request
  BY <1>2, <1>3, <1>4, StartLemma DEF Steps
<1>6. WorkerInv(w)'
  BY <1>3, <1>4, <1>5
     DEF Quiet, WorkerInv, CreatePending, TokenOwned, RotatePending, RevokeTargets,
         ChosenCovered, TodoChosen, EndsOwned, KillsOwned
<1> QED
  BY <1>5, <1>6, QuietLemma

-----------------------------------------------------------------------------
(* Requests that end without a commit *)

\* Finish frees the locks of w and of nobody else.
LEMMA FinishLemma ==
    ASSUME TypeOK, NEW w \in Workers, NEW answer, NEW sid, Finish(w, answer, sid)
    PROVE  /\ pc'[w] = "idle" /\ job'[w] = NoJob
           /\ outcome'[w] = [answer |-> answer, sid |-> sid]
           /\ \A v \in Workers \ {w} :
                /\ pc'[v] = pc[v] /\ job'[v] = job[v] /\ outcome'[v] = outcome[v]
                /\ \A s \in Sessions : sessionLock[s] = v => sessionLock'[s] = v
                /\ \A t \in Tokens : tokenLock[t] = v => tokenLock'[t] = v
  BY DEF Finish, TypeOK

LEMMA FinishType ==
    ASSUME TypeOK, NEW w \in Workers, NEW answer \in Answers,
           NEW sid \in Sessions \cup {NoSession}, Finish(w, answer, sid)
    PROVE  /\ pc' \in [Workers -> Steps]
           /\ job' \in [Workers -> Job]
           /\ outcome' \in [Workers -> Outcome]
           /\ sessionLock' \in [Sessions -> Workers \cup {NoWorker}]
           /\ tokenLock' \in [Tokens -> Workers \cup {NoWorker}]
<1>1. [answer |-> answer, sid |-> sid] \in Outcome
  BY DEF Outcome
<1>2. outcome' \in [Workers -> Outcome] /\ job' \in [Workers -> Job]
  BY <1>1, NoJobType DEF Finish, TypeOK
<1> QED
  BY <1>2 DEF Finish, TypeOK, Steps

\* The part of the invariant that speaks of an idle worker.
LEMMA IdleLemma ==
    ASSUME NEW w \in Workers, pc'[w] = "idle", job'[w] = NoJob, AnswerTrue(w)'
    PROVE  WorkerInv(w)'
  BY DEF NoJob, WorkerInv, CreatePending, TokenOwned, RotatePending, RevokeTargets,
         ChosenCovered, TodoChosen, EndsOwned, KillsOwned

LEMMA RejectLemma ==
    ASSUME LockInv, NEW w \in Workers, Reject(w, "invalid") \/ Reject(w, "scopeInvalid")
             \/ Reject(w, "notRevoked") \/ Reject(w, "rolledBack"),
           UNCHANGED <<active, now>>
    PROVE  LockInv'
<1> USE SentinelAssumption
<1>1. TypeOK /\ job[w].sid \in Sessions \cup {NoSession}
  BY DEF LockInv, TypeOK, Job
<1>2. PICK answer \in {"invalid", "scopeInvalid", "notRevoked", "rolledBack"} :
        Finish(w, answer, job[w].sid) /\ UNCHANGED <<session, token>>
  BY DEF Reject
<1>3. answer \in Answers
  BY DEF Answers
<1>4. TypeOK'
  BY <1>1, <1>2, <1>3, FinishType DEF TypeOK
<1>5. pc'[w] = "idle" /\ job'[w] = NoJob /\ outcome'[w].answer = answer
  BY <1>1, <1>2 DEF Finish, TypeOK
<1>6. Quiet(w)
  <2>1. job'[w].next = NoToken /\ pc'[w] # "commitCreate"
    BY <1>5 DEF NoJob
  <2> QED
    BY <1>1, <1>2, <2>1 DEF Finish, Quiet, TypeOK
<1>7. AnswerTrue(w)'
  BY <1>5 DEF AnswerTrue
<1> QED
  BY <1>4, <1>5, <1>6, <1>7, IdleLemma, QuietLemma

-----------------------------------------------------------------------------
(* Statements that read and lock *)

LEMMA LockTokenStep ==
    ASSUME LockInv, NEW w \in Workers, LockToken(w)
    PROVE  LockInv'
<1> USE SentinelAssumption
<1>1. TypeOK /\ WorkerInv(w) /\ job[w] \in Job
  BY DEF LockInv, LocksProtectReads, TypeOK
<1>2. /\ job[w].op = "rotate" /\ job[w].raw \in Tokens
      /\ token[job[w].raw] \in TokenRow /\ token[job[w].raw].sid \in Sessions
  BY <1>1 DEF LockToken, WorkerInv, TokenOwned, TypeOK, TokenRow
<1>3. /\ pc'[w] = "lockSession" /\ job'[w].op = "rotate" /\ job'[w].raw = job[w].raw
      /\ job'[w].read = token[job[w].raw] /\ job'[w].sid = token[job[w].raw].sid
      /\ job'[w].next = job[w].next /\ job'[w].chosen = job[w].chosen
      /\ job'[w].todo = job[w].todo /\ job'[w].targets = job[w].targets
      /\ job'[w].ends = job[w].ends /\ job'[w].kills = job[w].kills
      /\ job'[w].answer = job[w].answer
      /\ tokenLock'[job[w].raw] = w
  BY <1>1, <1>2 DEF LockToken, Goto, TypeOK, Job
<1>4. TypeOK'
  <2>1. [[job[w] EXCEPT !.read = token[job[w].raw]] EXCEPT
            !.sid = token[job[w].raw].sid] \in Job
    BY <1>1, <1>2 DEF Job
  <2>2. job' = [job EXCEPT ![w] = [[job[w] EXCEPT !.read = token[job[w].raw]] EXCEPT
                                     !.sid = token[job[w].raw].sid]]
    BY <1>1 DEF LockToken, TypeOK
  <2>3. job' \in [Workers -> Job]
    BY <1>1, <2>1, <2>2 DEF TypeOK
  <2> QED
    BY <1>1, <2>3 DEF LockToken, Goto, TypeOK, Steps
<1>5. Quiet(w)
  BY <1>1, <1>2, <1>3 DEF LockToken, Goto, Quiet, TypeOK, TokenFree
<1>6. WorkerInv(w)'
  BY <1>1, <1>2, <1>3
     DEF LockToken, WorkerInv, CreatePending, TokenOwned, RotatePending, RevokeTargets,
         ChosenCovered, TodoChosen, EndsOwned, KillsOwned, AnswerTrue
<1> QED
  BY <1>4, <1>5, <1>6, QuietLemma

\* A rotation that fails goes on to revoke the family under its two locks.
LEMMA FailRotationStep ==
    ASSUME LockInv, NEW w \in Workers, TakeSession(w),
           NEW answer \in {"reused", "expired", "inactive"}, FailRotation(w, answer)
    PROVE  LockInv'
<1> USE SentinelAssumption
<1>1. TypeOK /\ WorkerInv(w) /\ job[w] \in Job /\ pc[w] = "lockSession" /\ RowsAgree
  BY DEF LockInv, LocksProtectReads, TypeOK, TakeSession
<1>2. /\ job[w].op = "rotate" /\ job[w].raw \in Tokens /\ job[w].sid \in Sessions
      /\ job[w].sid = token[job[w].raw].sid /\ session[job[w].sid].state # "absent"
  BY <1>1 DEF WorkerInv, TokenOwned, RowsAgree
<1>3. /\ pc'[w] = "endSession" /\ job'[w] = [job[w] EXCEPT !.answer = answer]
      /\ \A v \in Workers \ {w} : pc'[v] = pc[v] /\ job'[v] = job[v]
  BY <1>1 DEF FailRotation, Goto, TypeOK
<1>4. TypeOK'
  <2>1. job'[w] \in Job
    BY <1>1, <1>3 DEF Job
  <2>2. job' \in [Workers -> Job]
    BY <1>1, <1>3, <2>1 DEF FailRotation, TypeOK
  <2> QED
    BY <1>1, <2>2 DEF FailRotation, Goto, TypeOK, Steps
<1>5. /\ job'[w].op = job[w].op /\ job'[w].raw = job[w].raw /\ job'[w].sid = job[w].sid
      /\ job'[w].read = job[w].read
      /\ job'[w].next = job[w].next /\ job'[w].chosen = job[w].chosen
      /\ job'[w].todo = job[w].todo /\ job'[w].targets = job[w].targets
      /\ job'[w].ends = job[w].ends /\ job'[w].kills = job[w].kills
  BY <1>1, <1>3 DEF Job
<1>6. Quiet(w)
  BY <1>1, <1>2, <1>3, <1>5 DEF FailRotation, Quiet, TypeOK, TakeSession, SessionFree
<1>7. WorkerInv(w)'
  BY <1>1, <1>2, <1>3, <1>5
     DEF FailRotation, WorkerInv, CreatePending, TokenOwned, RotatePending, RevokeTargets,
         ChosenCovered, TodoChosen, EndsOwned, KillsOwned, AnswerTrue
<1> QED
  BY <1>4, <1>6, <1>7, QuietLemma

LEMMA RotateGrantStep ==
    ASSUME LockInv, NEW w \in Workers, NEW t \in Tokens, RotateGrant(w, t)
    PROVE  LockInv'
<1> USE SentinelAssumption
<1>1. /\ TypeOK /\ WorkerInv(w) /\ job[w] \in Job /\ pc[w] = "lockSession" /\ RowsAgree
      /\ UnusedToken(t)
  BY DEF LockInv, LocksProtectReads, TypeOK, RotateGrant, Rotatable, Unspent, TakeSession
<1>2. /\ job[w].op = "rotate" /\ job[w].raw \in Tokens /\ job[w].sid \in Sessions
      /\ job[w].read = token[job[w].raw] /\ tokenLock[job[w].raw] = w
      /\ job[w].sid = token[job[w].raw].sid /\ session[job[w].sid].state # "absent"
      /\ session[job[w].sid] \in SessionRow
  BY <1>1 DEF WorkerInv, TokenOwned, RowsAgree, TypeOK
<1>3. /\ session[job[w].sid].state = "live" /\ Live(job[w].raw)
      /\ UNION job[w].want \subseteq session[job[w].sid].scope
  BY <1>1, <1>2 DEF RotateGrant, Rotatable, Unspent, OutOfDate, Replayed, Live, TooWide,
                    SessionRow
<1>10. now \in Nat /\ now < session[job[w].sid].expires
  <2>1. now \in Nat /\ session[job[w].sid].expires \in Nat
    BY <1>1, <1>2, TimeAssumption DEF TypeOK, SessionRow
  <2>2. ~OutOfDate(w)
    BY DEF RotateGrant, Rotatable
  <2> QED
    BY <2>1, <2>2 DEF OutOfDate
<1> DEFINE sc == IF job[w].want = {} THEN session[job[w].sid].scope ELSE UNION job[w].want
<1>4. sc \in SUBSET Scopes /\ sc \subseteq session[job[w].sid].scope
  BY <1>2, <1>3 DEF SessionRow
<1>5. /\ pc'[w] = "commitRotate"
      /\ job'[w] = [[[[job[w] EXCEPT !.next = t] EXCEPT
                        !.expires = session[job[w].sid].expires] EXCEPT !.usedAt = now]
                      EXCEPT !.scope = sc]
      /\ \A v \in Workers \ {w} : pc'[v] = pc[v] /\ job'[v] = job[v]
  BY <1>1 DEF RotateGrant, Goto, TypeOK
<1> HIDE DEF sc
<1>6. /\ job'[w].op = job[w].op /\ job'[w].raw = job[w].raw /\ job'[w].sid = job[w].sid
      /\ job'[w].read = job[w].read /\ job'[w].answer = job[w].answer
      /\ job'[w].next = t /\ job'[w].chosen = job[w].chosen
      /\ job'[w].todo = job[w].todo /\ job'[w].targets = job[w].targets
      /\ job'[w].ends = job[w].ends /\ job'[w].kills = job[w].kills
      /\ job'[w].expires = session[job[w].sid].expires /\ job'[w].scope = sc
      /\ job'[w].usedAt = now
  BY <1>1, <1>5 DEF Job
<1>7. TypeOK'
  <2>1. session[job[w].sid].expires \in Nat
    BY <1>2 DEF SessionRow
  <2>2. job'[w] \in Job
    <3>1. [job[w] EXCEPT !.next = t] \in Job
      BY <1>1 DEF Job
    <3>5. \A j \in Job, n \in Nat : [j EXCEPT !.expires = n] \in Job
                                    /\ [j EXCEPT !.usedAt = n] \in Job
      BY DEF Job
    <3> DEFINE mid == [[[job[w] EXCEPT !.next = t] EXCEPT
                          !.expires = session[job[w].sid].expires] EXCEPT !.usedAt = now]
    <3>2. mid \in Job
      BY <1>10, <2>1, <3>1, <3>5
    <3>3. job'[w] = [mid EXCEPT !.scope = sc]
      BY <1>5
    <3> HIDE DEF mid
    <3>4. [mid EXCEPT !.scope = sc] \in Job
      BY <1>4, <3>2 DEF Job
    <3> QED
      BY <3>3, <3>4
  <2>3. job' \in [Workers -> Job]
    BY <1>1, <1>5, <2>2 DEF RotateGrant, TypeOK
  <2> QED
    BY <1>1, <2>3 DEF RotateGrant, Goto, TypeOK, Steps
<1>8. Quiet(w)
  <2>1. /\ sessionLock[job[w].sid] \in {NoWorker, w}
        /\ sessionLock' = [sessionLock EXCEPT ![job[w].sid] = w]
        /\ UNCHANGED <<session, token, now, tokenLock, outcome>>
    BY DEF RotateGrant, Rotatable, Unspent, TakeSession, SessionFree
  <2>2. \A s \in Sessions : s # job[w].sid => sessionLock'[s] = sessionLock[s]
    BY <1>1, <2>1 DEF TypeOK
  <2> QED
    BY <1>1, <1>2, <1>5, <1>6, <2>1, <2>2 DEF Quiet
<1>9. WorkerInv(w)'
  <2>1. /\ sessionLock' = [sessionLock EXCEPT ![job[w].sid] = w]
        /\ UNCHANGED <<session, token, now, tokenLock, outcome>>
    BY DEF RotateGrant, TakeSession
  <2>2. /\ sessionLock'[job[w].sid] = w
        /\ \A s \in Sessions : sessionLock[s] = w => sessionLock'[s] = w
    BY <1>1, <1>2, <2>1 DEF TypeOK
  <2>3. CreatePending(w)'
    BY <1>5 DEF CreatePending
  <2>4. TokenOwned(w)'
    BY <1>2, <1>5, <1>6, <2>1 DEF TokenOwned
  <2>5. RotatePending(w)'
    BY <1>1, <1>2, <1>3, <1>4, <1>5, <1>6, <1>10, <2>1, <2>2
       DEF RotatePending, UnusedToken, Live
  <2>6. RevokeTargets(w)'
    BY <1>1, <1>2, <1>5, <1>6 DEF WorkerInv, RevokeTargets
  <2>7. ChosenCovered(w)' /\ TodoChosen(w)'
    BY <1>1, <1>5, <1>6, <2>1 DEF WorkerInv, ChosenCovered, TodoChosen
  <2>8. EndsOwned(w)'
    <3>1. job[w].ends \subseteq Sessions
      BY <1>1 DEF Job
    <3> QED
      BY <1>1, <1>5, <1>6, <2>1, <2>2, <3>1 DEF WorkerInv, EndsOwned, TokensOf
  <2>9. KillsOwned(w)'
    BY <1>1, <1>6, <2>1 DEF WorkerInv, KillsOwned
  <2>10. AnswerTrue(w)'
    BY <1>1, <2>1 DEF WorkerInv, AnswerTrue
  <2> QED
    BY <2>3, <2>4, <2>5, <2>6, <2>7, <2>8, <2>9, <2>10 DEF WorkerInv
<1> QED
  BY <1>7, <1>8, <1>9, QuietLemma

-----------------------------------------------------------------------------
(* Revocations *)

LEMMA RevokeFoundStep ==
    ASSUME LockInv, NEW w \in Workers, NEW s \in Sessions, RevokeFound(w, s)
    PROVE  LockInv'
<1> USE SentinelAssumption
<1>1. /\ TypeOK /\ WorkerInv(w) /\ job[w] \in Job /\ pc[w] = "findSession" /\ RowsAgree
      /\ job[w].op = "revoke"
  BY DEF LockInv, LocksProtectReads, TypeOK, RevokeFound, WorkerInv, RevokeTargets
<1>2. session[s].state # "absent"
  BY <1>1 DEF RevokeFound, FoundByToken, WorkerInv, RevokeTargets, RowsAgree, Job
<1>3. /\ pc'[w] = "endSession" /\ job'[w] = [job[w] EXCEPT !.sid = s]
      /\ \A v \in Workers \ {w} : pc'[v] = pc[v] /\ job'[v] = job[v]
  BY <1>1 DEF RevokeFound, Goto, TypeOK
<1>4. TypeOK'
  <2>1. [job[w] EXCEPT !.sid = s] \in Job
    BY <1>1 DEF Job
  <2>2. job' \in [Workers -> Job]
    BY <1>1, <2>1 DEF RevokeFound, TypeOK
  <2> QED
    BY <1>1, <2>2 DEF RevokeFound, Goto, TypeOK, Steps
<1>5. /\ job'[w].op = job[w].op /\ job'[w].raw = job[w].raw /\ job'[w].sid = s
      /\ job'[w].next = job[w].next /\ job'[w].chosen = job[w].chosen
      /\ job'[w].todo = job[w].todo /\ job'[w].targets = job[w].targets
      /\ job'[w].ends = job[w].ends /\ job'[w].kills = job[w].kills
      /\ job'[w].answer = job[w].answer
  BY <1>1, <1>3 DEF Job
<1>6. Quiet(w)
  BY <1>1, <1>3, <1>5 DEF RevokeFound, Quiet, TypeOK
<1>7. WorkerInv(w)'
  BY <1>1, <1>2, <1>3, <1>5
     DEF RevokeFound, WorkerInv, CreatePending, TokenOwned, RotatePending, RevokeTargets,
         ChosenCovered, TodoChosen, EndsOwned, KillsOwned, AnswerTrue
<1> QED
  BY <1>4, <1>6, <1>7, QuietLemma

LEMMA SelectUserSessionsStep ==
    ASSUME LockInv, NEW w \in Workers, SelectUserSessions(w)
    PROVE  LockInv'
<1> USE SentinelAssumption
<1> DEFINE ids == {s \in Sessions : session[s].state = "live"
                                      /\ session[s].user = job[w].user}
<1>1. /\ TypeOK /\ WorkerInv(w) /\ job[w] \in Job /\ pc[w] = "selectUser"
      /\ job[w].op = "revokeUser"
  BY DEF LockInv, LocksProtectReads, TypeOK, SelectUserSessions, WorkerInv, RevokeTargets
<1>2. /\ pc'[w] = "endTokens"
      /\ job'[w] = [[job[w] EXCEPT !.chosen = ids] EXCEPT !.todo = ids]
      /\ \A v \in Workers \ {w} : pc'[v] = pc[v] /\ job'[v] = job[v]
  BY <1>1 DEF SelectUserSessions, Goto, TypeOK
<1>3. ids \in SUBSET Sessions /\ \A s \in ids : session[s].state # "absent"
  OBVIOUS
<1> HIDE DEF ids
<1>4. TypeOK'
  <2>1. job'[w] \in Job
    BY <1>1, <1>2, <1>3 DEF Job
  <2>2. job' \in [Workers -> Job]
    BY <1>1, <1>2, <2>1 DEF SelectUserSessions, TypeOK
  <2> QED
    BY <1>1, <2>2 DEF SelectUserSessions, Goto, TypeOK, Steps
<1>5. /\ job'[w].op = job[w].op /\ job'[w].raw = job[w].raw /\ job'[w].sid = job[w].sid
      /\ job'[w].next = job[w].next /\ job'[w].chosen = ids
      /\ job'[w].todo = ids /\ job'[w].targets = job[w].targets
      /\ job'[w].ends = job[w].ends /\ job'[w].kills = job[w].kills
      /\ job'[w].answer = job[w].answer
  BY <1>1, <1>2 DEF Job
<1>6. Quiet(w)
  BY <1>1, <1>2, <1>5 DEF SelectUserSessions, Quiet, TypeOK
<1>7. job'[w].ends = {} /\ job'[w].kills = {} /\ job'[w].targets = {}
      /\ job'[w].answer = "none" /\ job'[w].op = "revokeUser"
  BY <1>1, <1>5 DEF WorkerInv, RevokeTargets
<1>8. UNCHANGED <<session, token, outcome>>
  BY DEF SelectUserSessions
<1>9. ChosenCovered(w)' /\ TodoChosen(w)'
  BY <1>3, <1>5, <1>8 DEF ChosenCovered, TodoChosen
<1>10. WorkerInv(w)'
  BY <1>1, <1>2, <1>7, <1>8, <1>9
     DEF WorkerInv, CreatePending, TokenOwned, RotatePending,
         RevokeTargets, EndsOwned, KillsOwned, AnswerTrue
<1> QED
  BY <1>4, <1>6, <1>10, QuietLemma

LEMMA RevokeNextStep ==
    ASSUME LockInv, NEW w \in Workers, NEW s \in Sessions, RevokeNext(w, s)
    PROVE  LockInv'
<1> USE SentinelAssumption
<1>1. /\ TypeOK /\ WorkerInv(w) /\ job[w] \in Job /\ pc[w] = "endTokens"
      /\ job[w].targets = {} /\ s \in job[w].todo
  BY DEF LockInv, LocksProtectReads, TypeOK, RevokeNext
<1>2. session[s].state # "absent"
  BY <1>1 DEF WorkerInv, ChosenCovered, TodoChosen
<1>3. /\ pc'[w] = "endSession"
      /\ job'[w] = [[job[w] EXCEPT !.sid = s] EXCEPT !.todo = job[w].todo \ {s}]
      /\ \A v \in Workers \ {w} : pc'[v] = pc[v] /\ job'[v] = job[v]
  BY <1>1 DEF RevokeNext, Goto, TypeOK, Job
<1>4. TypeOK'
  <2>1. job'[w] \in Job
    <3>1. [job[w] EXCEPT !.sid = s] \in Job
      BY <1>1 DEF Job
    <3>2. job[w].todo \ {s} \in SUBSET Sessions
      BY <1>1 DEF Job
    <3>3. \A j \in Job, x \in SUBSET Sessions : [j EXCEPT !.todo = x] \in Job
      BY DEF Job
    <3> QED
      BY <1>3, <3>1, <3>2, <3>3
  <2>2. job' \in [Workers -> Job]
    BY <1>1, <1>3, <2>1 DEF RevokeNext, TypeOK
  <2> QED
    BY <1>1, <2>2 DEF RevokeNext, Goto, TypeOK, Steps
<1>5. /\ job'[w].op = job[w].op /\ job'[w].raw = job[w].raw /\ job'[w].sid = s
      /\ job'[w].next = job[w].next /\ job'[w].chosen = job[w].chosen
      /\ job'[w].todo = job[w].todo \ {s} /\ job'[w].targets = {}
      /\ job'[w].ends = job[w].ends /\ job'[w].kills = job[w].kills
      /\ job'[w].answer = job[w].answer /\ job'[w].read = job[w].read
  BY <1>1, <1>3 DEF Job
<1>6. Quiet(w)
  BY <1>1, <1>3, <1>5 DEF RevokeNext, Quiet, TypeOK
<1>7. job[w].op = "revokeUser" /\ job[w].answer = "none"
  BY <1>1 DEF WorkerInv, RevokeTargets, TodoChosen
<1>8. UNCHANGED <<session, token, outcome, sessionLock, tokenLock>>
  BY DEF RevokeNext
<1>9. ChosenCovered(w)' /\ TodoChosen(w)'
  BY <1>1, <1>3, <1>5, <1>8 DEF WorkerInv, ChosenCovered, TodoChosen
<1>10. EndsOwned(w)' /\ KillsOwned(w)'
  BY <1>1, <1>3, <1>5, <1>8 DEF WorkerInv, EndsOwned, KillsOwned, TokensOf
<1>11. RevokeTargets(w)'
  BY <1>2, <1>3, <1>5, <1>7, <1>8 DEF RevokeTargets
<1>12. WorkerInv(w)'
  BY <1>1, <1>3, <1>5, <1>7, <1>8, <1>9, <1>10, <1>11
     DEF WorkerInv, CreatePending, TokenOwned, RotatePending, AnswerTrue
<1> QED
  BY <1>4, <1>6, <1>12, QuietLemma

LEMMA EndSessionStep ==
    ASSUME LockInv, NEW w \in Workers, EndSession(w)
    PROVE  LockInv'
<1> USE SentinelAssumption
<1>1. /\ TypeOK /\ WorkerInv(w) /\ job[w] \in Job /\ pc[w] = "endSession"
      /\ job[w].sid \in Sessions /\ session[job[w].sid].state # "absent"
      /\ session[job[w].sid] \in SessionRow /\ job[w].targets = {}
  BY DEF LockInv, LocksProtectReads, TypeOK, EndSession, WorkerInv, RevokeTargets
<1> DEFINE ended == IF session[job[w].sid].state = "live"
                    THEN job[w].ends \cup {job[w].sid} ELSE job[w].ends
<1>2. ended \in SUBSET Sessions /\ job[w].ends \subseteq ended
  BY <1>1 DEF Job
<1>3. /\ pc'[w] = "selectTokens"
      /\ job'[w] = [job[w] EXCEPT !.ends = ended]
      /\ \A v \in Workers \ {w} : pc'[v] = pc[v] /\ job'[v] = job[v]
  BY <1>1 DEF EndSession, Goto, TypeOK, Job
<1>4. /\ ended # job[w].ends => session[job[w].sid].state = "live"
      /\ \A s \in ended : s \in job[w].ends \/ s = job[w].sid
      /\ session[job[w].sid].state = "live" => sessionLock'[job[w].sid] = w
      /\ session[job[w].sid].state = "live" => job[w].sid \in ended
  BY <1>1 DEF EndSession, TypeOK
<1> HIDE DEF ended
<1>5. TypeOK'
  <2>1. job'[w] \in Job
    BY <1>1, <1>2, <1>3 DEF Job
  <2>2. job' \in [Workers -> Job]
    BY <1>1, <1>3, <2>1 DEF EndSession, TypeOK
  <2> QED
    BY <1>1, <2>2 DEF EndSession, Goto, TypeOK, Steps
<1>6. /\ job'[w].op = job[w].op /\ job'[w].raw = job[w].raw /\ job'[w].sid = job[w].sid
      /\ job'[w].next = job[w].next /\ job'[w].chosen = job[w].chosen
      /\ job'[w].todo = job[w].todo /\ job'[w].targets = {}
      /\ job'[w].ends = ended /\ job'[w].kills = job[w].kills
      /\ job'[w].answer = job[w].answer /\ job'[w].read = job[w].read
  BY <1>1, <1>3 DEF Job
<1>7. /\ UNCHANGED <<session, token, outcome, tokenLock>>
      /\ \A s \in Sessions : sessionLock'[s] = sessionLock[s] \/
            (sessionLock[s] \in {NoWorker, w} /\ sessionLock'[s] = w)
  BY <1>1 DEF EndSession, SessionFree, TypeOK
<1>8. Quiet(w)
  BY <1>1, <1>3, <1>6, <1>7 DEF EndSession, Quiet, TypeOK
<1>9. ChosenCovered(w)' /\ TodoChosen(w)'
  <2>1. session[job[w].sid].state \in {"live", "revoked"}
    BY <1>1 DEF SessionRow
  <2> QED
    BY <1>1, <1>2, <1>3, <1>4, <1>6, <1>7, <2>1 DEF WorkerInv, ChosenCovered, TodoChosen
<1>10. EndsOwned(w)'
  BY <1>1, <1>3, <1>4, <1>6, <1>7 DEF WorkerInv, EndsOwned, TokensOf, Job
<1>11. KillsOwned(w)'
  BY <1>1, <1>2, <1>3, <1>6, <1>7 DEF WorkerInv, KillsOwned
<1>12. RevokeTargets(w)'
  <2>1. job[w].sid \in ended \/ session[job[w].sid].state = "revoked"
    BY <1>1, <1>4 DEF SessionRow
  <2> QED
    BY <1>1, <1>3, <1>6, <1>7, <2>1 DEF WorkerInv, RevokeTargets
<1>13. WorkerInv(w)'
  BY <1>1, <1>3, <1>6, <1>7, <1>9, <1>10, <1>11, <1>12
     DEF WorkerInv, CreatePending, TokenOwned, RotatePending, AnswerTrue
<1> QED
  BY <1>5, <1>8, <1>13, QuietLemma

LEMMA SelectTokensStep ==
    ASSUME LockInv, NEW w \in Workers, SelectTokens(w)
    PROVE  LockInv'
<1> USE SentinelAssumption
<1> DEFINE found == {t \in TokensOf(job[w].sid) : ~token[t].revoked}
<1>1. /\ TypeOK /\ WorkerInv(w) /\ job[w] \in Job /\ pc[w] = "selectTokens"
      /\ job[w].sid \in Sessions /\ job[w].targets = {}
      /\ job[w].sid \in job[w].ends \/ session[job[w].sid].state = "revoked"
  BY DEF LockInv, LocksProtectReads, TypeOK, SelectTokens, WorkerInv, RevokeTargets
<1>2. /\ found \in SUBSET Tokens
      /\ \A t \in found : token[t].sid = job[w].sid
      /\ \A t \in TokensOf(job[w].sid) : token[t].revoked \/ t \in found
  BY DEF TokensOf
<1>3. /\ pc'[w] = "endTokens"
      /\ job'[w] = [job[w] EXCEPT !.targets = found]
      /\ \A v \in Workers \ {w} : pc'[v] = pc[v] /\ job'[v] = job[v]
  BY <1>1 DEF SelectTokens, Goto, TypeOK
<1> HIDE DEF found
<1>4. TypeOK'
  <2>1. job'[w] \in Job
    BY <1>1, <1>2, <1>3 DEF Job
  <2>2. job' \in [Workers -> Job]
    BY <1>1, <1>3, <2>1 DEF SelectTokens, TypeOK
  <2> QED
    BY <1>1, <2>2 DEF SelectTokens, Goto, TypeOK, Steps
<1>5. /\ job'[w].op = job[w].op /\ job'[w].raw = job[w].raw /\ job'[w].sid = job[w].sid
      /\ job'[w].next = job[w].next /\ job'[w].chosen = job[w].chosen
      /\ job'[w].todo = job[w].todo /\ job'[w].targets = found
      /\ job'[w].ends = job[w].ends /\ job'[w].kills = job[w].kills
      /\ job'[w].answer = job[w].answer /\ job'[w].read = job[w].read
  BY <1>1, <1>3 DEF Job
<1>6. UNCHANGED <<session, token, outcome, sessionLock, tokenLock>>
  BY DEF SelectTokens
<1>7. Quiet(w)
  BY <1>1, <1>3, <1>5 DEF SelectTokens, Quiet, TypeOK
<1>8. ChosenCovered(w)' /\ TodoChosen(w)'
  BY <1>1, <1>3, <1>5, <1>6 DEF WorkerInv, ChosenCovered, TodoChosen
<1>9. EndsOwned(w)'
  BY <1>1, <1>2, <1>3, <1>5, <1>6 DEF WorkerInv, EndsOwned, TokensOf
<1>10. KillsOwned(w)'
  BY <1>1, <1>2, <1>3, <1>5, <1>6 DEF WorkerInv, KillsOwned
<1>11. RevokeTargets(w)'
  BY <1>1, <1>3, <1>5, <1>6 DEF WorkerInv, RevokeTargets
<1>12. WorkerInv(w)'
  BY <1>1, <1>3, <1>5, <1>6, <1>8, <1>9, <1>10, <1>11
     DEF WorkerInv, CreatePending, TokenOwned, RotatePending, AnswerTrue
<1> QED
  BY <1>4, <1>7, <1>12, QuietLemma

LEMMA EndTokenStep ==
    ASSUME LockInv, NEW w \in Workers, NEW t \in Tokens, EndToken(w, t)
    PROVE  LockInv'
<1> USE SentinelAssumption
<1> DEFINE killed == IF token[t].revoked THEN job[w].kills ELSE job[w].kills \cup {t}
<1>1. /\ TypeOK /\ WorkerInv(w) /\ job[w] \in Job /\ pc[w] = "endTokens"
      /\ t \in job[w].targets
  BY DEF LockInv, LocksProtectReads, TypeOK, EndToken
<1>2. /\ killed \in SUBSET Tokens
      /\ job[w].kills \subseteq killed /\ killed \subseteq job[w].kills \cup {t}
      /\ token[t].revoked \/ t \in killed
  BY <1>1 DEF Job
<1>3. /\ pc'[w] = "endTokens"
      /\ job'[w] = [[job[w] EXCEPT !.targets = job[w].targets \ {t}] EXCEPT !.kills = killed]
      /\ \A v \in Workers \ {w} : pc'[v] = pc[v] /\ job'[v] = job[v]
  BY <1>1 DEF EndToken, TypeOK, Job
<1> HIDE DEF killed
<1>4. TypeOK'
  <2>1. [job[w] EXCEPT !.targets = job[w].targets \ {t}] \in Job
    <3>1. job[w].targets \ {t} \in SUBSET Tokens
      BY <1>1 DEF Job
    <3> QED
      BY <1>1, <3>1 DEF Job
  <2>2. job'[w] \in Job
    BY <1>2, <1>3, <2>1 DEF Job
  <2>3. job' \in [Workers -> Job]
    BY <1>1, <1>3, <2>2 DEF EndToken, TypeOK
  <2> QED
    BY <1>1, <2>3 DEF EndToken, TypeOK
<1>5. /\ job'[w].op = job[w].op /\ job'[w].raw = job[w].raw /\ job'[w].sid = job[w].sid
      /\ job'[w].next = job[w].next /\ job'[w].chosen = job[w].chosen
      /\ job'[w].todo = job[w].todo /\ job'[w].targets = job[w].targets \ {t}
      /\ job'[w].ends = job[w].ends /\ job'[w].kills = killed
      /\ job'[w].answer = job[w].answer /\ job'[w].read = job[w].read
  BY <1>1, <1>3 DEF Job
<1>6. /\ UNCHANGED <<session, token, outcome, sessionLock>>
      /\ tokenLock'[t] = w /\ tokenLock[t] \in {NoWorker, w}
      /\ \A u \in Tokens \ {t} : tokenLock'[u] = tokenLock[u]
  BY <1>1 DEF EndToken, TokenFree, TypeOK
<1>7. Quiet(w)
  <2>1. token[t].sid # NoSession
    BY <1>1 DEF WorkerInv, KillsOwned
  <2> QED
    BY <1>1, <1>3, <1>5, <1>6, <2>1 DEF EndToken, Quiet, TypeOK
<1>8. ChosenCovered(w)' /\ TodoChosen(w)'
  BY <1>1, <1>3, <1>5, <1>6 DEF WorkerInv, ChosenCovered, TodoChosen
<1>9. EndsOwned(w)'
  BY <1>1, <1>2, <1>3, <1>5, <1>6 DEF WorkerInv, EndsOwned, TokensOf
<1>10. KillsOwned(w)'
  BY <1>1, <1>2, <1>3, <1>5, <1>6 DEF WorkerInv, KillsOwned, Job
<1>11. RevokeTargets(w)'
  BY <1>1, <1>3, <1>5, <1>6 DEF WorkerInv, RevokeTargets
<1>12. TokenOwned(w)'
  BY <1>1, <1>3, <1>5, <1>6 DEF WorkerInv, TokenOwned
<1>13. WorkerInv(w)'
  BY <1>1, <1>3, <1>5, <1>6, <1>8, <1>9, <1>10, <1>11, <1>12
     DEF WorkerInv, CreatePending, RotatePending, AnswerTrue
<1> QED
  BY <1>4, <1>7, <1>13, QuietLemma

-----------------------------------------------------------------------------
(* Commits *)

\* What every commit of w has to show, besides the rows it writes.
LEMMA CommitLemma ==
    ASSUME LockInv, TypeOK', Aging, NEW w \in Workers,
           pc'[w] = "idle", job'[w] = NoJob, AnswerTrue(w)',
           \A v \in Workers \ {w} : Kept(v),
           RowsAgree', LockedRowsExist',
           RevokedFamilyIsDead', OneLiveToken', LiveSessionHasLiveToken',
           \A t \in Tokens : token'[t].sid # NoSession => token'[t].expires <= now' + Lifetime
    PROVE  LockInv'
<1> USE SentinelAssumption
<1>1. \A v \in Workers : WorkerInv(v)'
  BY FrameLemma, IdleLemma
<1>2. PendingRowsDiffer'
  <2>1. PendingRowsDiffer /\ job'[w].next = NoToken
    BY DEF LockInv, LocksProtectReads, NoJob
  <2> QED
    BY <2>1 DEF PendingRowsDiffer, Kept
<1> QED
  BY <1>1, <1>2 DEF LockInv, LocksProtectReads

LEMMA CommitCreateStep ==
    ASSUME LockInv, NEW w \in Workers, CommitCreate(w)
    PROVE  LockInv'
<1> USE SentinelAssumption, TimeAssumption
<1> DEFINE sid == job[w].sid
           next == job[w].next
           row == [state |-> "live", user |-> job[w].user, client |-> job[w].client,
                   scope |-> job[w].scope, expires |-> job[w].expires]
           new == [sid |-> job[w].sid, used |-> FALSE, usedAt |-> 0,
                   revoked |-> FALSE, expires |-> job[w].expires]
<1>1. /\ TypeOK /\ WorkerInv(w) /\ job[w] \in Job /\ pc[w] = "commitCreate" /\ RowsAgree
      /\ LockedRowsExist /\ PendingRowsDiffer
      /\ RevokedFamilyIsDead /\ OneLiveToken /\ LiveSessionHasLiveToken
      /\ \A t \in Tokens : token[t].sid # NoSession => token[t].expires <= now + Lifetime
      /\ UNCHANGED now
  BY DEF LockInv, LocksProtectReads, TypeOK, CommitCreate
<1>2. /\ sid \in Sessions /\ session[sid].state = "absent" /\ next \in Tokens
      /\ token[next].sid = NoSession /\ job[w].expires <= now + Lifetime
  BY <1>1 DEF WorkerInv, CreatePending
<1>3. row \in SessionRow /\ new \in TokenRow
  BY <1>1 DEF Job, SessionRow, TokenRow
<1>4. /\ session' = [session EXCEPT ![sid] = row]
      /\ token' = [token EXCEPT ![next] = new]
      /\ Finish(w, "created", sid)
  BY DEF CommitCreate, NewToken
<1>5. /\ session'[sid] = row /\ \A s \in Sessions \ {sid} : session'[s] = session[s]
      /\ token'[next] = new /\ \A t \in Tokens \ {next} : token'[t] = token[t]
  BY <1>1, <1>2, <1>4 DEF TypeOK
<1>6. /\ row.state = "live" /\ row.expires = job[w].expires
      /\ new.sid = sid /\ new.expires = job[w].expires /\ ~new.used /\ ~new.revoked
  OBVIOUS
<1> HIDE DEF row, new
<1>7. TypeOK'
  <2>1. session' \in [Sessions -> SessionRow] /\ token' \in [Tokens -> TokenRow]
    BY <1>1, <1>3, <1>4 DEF TypeOK
  <2>2. "created" \in Answers /\ sid \in Sessions \cup {NoSession}
    BY <1>2 DEF Answers
  <2> QED
    BY <1>1, <1>4, <2>1, <2>2, FinishType DEF TypeOK, CommitCreate
<1>8. Aging
  <2>1. now <= now'
    BY <1>1 DEF TypeOK
  <2>2. \A s \in Sessions : session[s].state # "absent" => session'[s] = session[s]
    BY <1>2, <1>5
  <2>3. \A t \in Tokens : t # next => token'[t] = token[t]
    BY <1>5
  <2> QED
    BY <1>2, <1>5, <2>1, <2>2, <2>3 DEF Aging
<1>9. /\ pc'[w] = "idle" /\ job'[w] = NoJob /\ outcome'[w].answer = "created"
      /\ \A v \in Workers \ {w} :
           /\ pc'[v] = pc[v] /\ job'[v] = job[v] /\ outcome'[v] = outcome[v]
           /\ \A s \in Sessions : sessionLock[s] = v => sessionLock'[s] = v
           /\ \A t \in Tokens : tokenLock[t] = v => tokenLock'[t] = v
  BY <1>1, <1>4 DEF Finish, TypeOK
<1>10. AnswerTrue(w)'
  BY <1>9 DEF AnswerTrue
<1>11. ASSUME NEW v \in Workers \ {w} PROVE Kept(v)
  \* the locks of v are on rows that were there before
  <2> USE <1>11
  <2>1. WorkerInv(v) /\ v # w
    BY DEF LockInv, LocksProtectReads
  <2>2. pc[v] = "commitCreate" => session'[job[v].sid].state = "absent"
    BY <1>1, <1>2, <1>5, <2>1 DEF WorkerInv, CreatePending, PendingRowsDiffer
  <2>3. job[v].next \in Tokens /\ token[job[v].next].sid = NoSession
          => token'[job[v].next].sid = NoSession
    BY <1>1, <1>5, <2>1 DEF PendingRowsDiffer
  <2>4. \A s \in Sessions : sessionLock[s] = v => s # sid
    BY <1>1, <1>2 DEF LockedRowsExist
  <2>5. \A t \in Tokens : tokenLock[t] = v => t # next
    BY <1>1, <1>2 DEF LockedRowsExist
  <2> QED
    BY <1>2, <1>5, <1>6, <1>9, <2>2, <2>3, <2>4, <2>5 DEF Kept
<1>12. RowsAgree' /\ LockedRowsExist'
  <2>1. RowsAgree'
    BY <1>1, <1>2, <1>5, <1>6 DEF RowsAgree, TypeOK, TokenRow
  <2>2. /\ \A s \in Sessions : sessionLock'[s] \in {NoWorker, sessionLock[s]}
        /\ \A t \in Tokens : tokenLock'[t] \in {NoWorker, tokenLock[t]}
    BY <1>1, <1>4 DEF Finish, TypeOK
  <2> QED
    BY <1>1, <1>8, <2>1, <2>2 DEF LockedRowsExist, Aging, TypeOK, TokenRow
<1>13. \A t \in Tokens : token[t].sid # sid
  BY <1>1, <1>2 DEF RowsAgree
<1>14. RevokedFamilyIsDead' /\ OneLiveToken'
  BY <1>1, <1>2, <1>5, <1>6, <1>13 DEF RevokedFamilyIsDead, OneLiveToken, Live, TypeOK, TokenRow
<1>15. LiveSessionHasLiveToken'
  <2> SUFFICES ASSUME NEW s \in Sessions, session'[s].state = "live"
               PROVE  \E t \in Tokens : token'[t].sid = s /\ Live(t)'
    BY DEF LiveSessionHasLiveToken, TokensOf
  <2>1. CASE s = sid
    BY <1>2, <1>5, <1>6, <2>1 DEF Live
  <2>2. CASE s # sid
    <3>1. PICK t \in Tokens : token[t].sid = s /\ Live(t)
      BY <1>1, <1>5, <2>2 DEF LiveSessionHasLiveToken, TokensOf
    <3> QED
      BY <1>2, <1>5, <2>2, <3>1 DEF Live
  <2> QED
    BY <2>1, <2>2
<1>16. \A t \in Tokens : token'[t].sid # NoSession => token'[t].expires <= now' + Lifetime
  BY <1>1, <1>2, <1>5, <1>6
<1> QED
  BY <1>7, <1>8, <1>9, <1>10, <1>11, <1>12, <1>14, <1>15, <1>16, CommitLemma

\* The rotation's session row, locked since it was read, is live; its new token
\* takes the place of the token it spends.
LEMMA CommitRotateStep ==
    ASSUME LockInv, NEW w \in Workers, CommitRotate(w)
    PROVE  LockInv'
<1> USE SentinelAssumption, TimeAssumption
<1> DEFINE sid == job[w].sid
           raw == job[w].raw
           next == job[w].next
           row == [session[sid] EXCEPT !.scope = job[w].scope]
           old == [[token[raw] EXCEPT !.used = TRUE] EXCEPT !.usedAt = job[w].usedAt]
           new == [sid |-> job[w].sid, used |-> FALSE, usedAt |-> 0,
                   revoked |-> FALSE, expires |-> job[w].expires]
<1>1. /\ TypeOK /\ WorkerInv(w) /\ job[w] \in Job /\ pc[w] = "commitRotate" /\ RowsAgree
      /\ LockedRowsExist /\ PendingRowsDiffer
      /\ RevokedFamilyIsDead /\ OneLiveToken /\ LiveSessionHasLiveToken
      /\ \A t \in Tokens : token[t].sid # NoSession => token[t].expires <= now + Lifetime
      /\ UNCHANGED now /\ now \in Nat
  BY DEF LockInv, LocksProtectReads, TypeOK, CommitRotate
<1>2. /\ raw \in Tokens /\ tokenLock[raw] = w /\ sid \in Sessions /\ token[raw].sid = sid
      /\ sessionLock[sid] = w /\ session[sid].state = "live" /\ Live(raw)
      /\ next \in Tokens /\ token[next].sid = NoSession /\ next # raw
      /\ job[w].expires = session[sid].expires /\ job[w].usedAt < session[sid].expires
  BY <1>1 DEF WorkerInv, TokenOwned, RotatePending
<1>3. /\ row \in SessionRow /\ old \in TokenRow /\ new \in TokenRow
      /\ session[sid] \in SessionRow /\ token[raw] \in TokenRow
  <2>1. session[sid] \in SessionRow /\ token[raw] \in TokenRow
    BY <1>1, <1>2 DEF TypeOK
  <2> QED
    BY <1>1, <1>2, <2>1 DEF Job, SessionRow, TokenRow
<1>4. /\ session' = [session EXCEPT ![sid] = row]
      /\ token' = [[token EXCEPT ![raw] = old] EXCEPT ![next] = new]
      /\ Finish(w, "rotated", sid)
  BY <1>1 DEF CommitRotate, NewToken, TypeOK
<1>5. /\ session'[sid] = row /\ \A s \in Sessions \ {sid} : session'[s] = session[s]
      /\ token'[raw] = old /\ token'[next] = new
      /\ \A t \in Tokens \ {raw, next} : token'[t] = token[t]
  BY <1>1, <1>2, <1>4 DEF TypeOK
<1>6. /\ row.state = "live" /\ row.expires = session[sid].expires
      /\ old.sid = sid /\ old.used /\ ~old.revoked /\ old.expires = token[raw].expires
      /\ old.usedAt = job[w].usedAt
      /\ new.sid = sid /\ new.expires = session[sid].expires /\ ~new.used /\ ~new.revoked
  BY <1>2, <1>3 DEF SessionRow, TokenRow, Live
<1> HIDE DEF row, old, new
<1>7. TypeOK'
  <2>1. session' \in [Sessions -> SessionRow]
    BY <1>1, <1>3, <1>4 DEF TypeOK
  <2>2. token' \in [Tokens -> TokenRow]
    BY <1>1, <1>3, <1>4 DEF TypeOK
  <2>3. "rotated" \in Answers /\ sid \in Sessions \cup {NoSession}
    BY <1>2 DEF Answers
  <2> QED
    BY <1>1, <1>4, <2>1, <2>2, <2>3, FinishType DEF TypeOK, CommitRotate
<1>8. Aging
  <2>1. now <= now'
    BY <1>1
  <2>2. \A s \in Sessions : session'[s].state = session[s].state
    BY <1>2, <1>5, <1>6
  <2>3. \A t \in Tokens : t # next => /\ token'[t].sid = token[t].sid
                                      /\ token[t].revoked => token'[t].revoked
    BY <1>2, <1>5, <1>6 DEF Live
  <2> QED
    BY <1>2, <2>1, <2>2, <2>3 DEF Aging
<1>9. /\ pc'[w] = "idle" /\ job'[w] = NoJob /\ outcome'[w].answer = "rotated"
      /\ \A v \in Workers \ {w} :
           /\ pc'[v] = pc[v] /\ job'[v] = job[v] /\ outcome'[v] = outcome[v]
           /\ \A s \in Sessions : sessionLock[s] = v => sessionLock'[s] = v
           /\ \A t \in Tokens : tokenLock[t] = v => tokenLock'[t] = v
  BY <1>1, <1>4 DEF Finish, TypeOK
<1>10. AnswerTrue(w)'
  BY <1>9 DEF AnswerTrue
<1>11. ASSUME NEW v \in Workers \ {w} PROVE Kept(v)
  <2> USE <1>11
  <2>1. WorkerInv(v) /\ v # w
    BY DEF LockInv, LocksProtectReads
  <2>2. pc[v] = "commitCreate" => session'[job[v].sid].state = "absent"
    BY <1>1, <1>2, <1>5, <2>1 DEF WorkerInv, CreatePending
  <2>3. job[v].next \in Tokens /\ token[job[v].next].sid = NoSession
          => token'[job[v].next].sid = NoSession
    BY <1>1, <1>2, <1>5, <2>1 DEF PendingRowsDiffer
  <2>4. \A s \in Sessions : sessionLock[s] = v => s # sid
    BY <1>2
  <2>5. \A t \in Tokens : tokenLock[t] = v => t # next /\ t # raw
    BY <1>1, <1>2 DEF LockedRowsExist
  <2>6. \A s \in Sessions : s # sid =>
          \A t \in Tokens : token'[t].sid = s => token[t].sid = s
    BY <1>2, <1>5, <1>6
  <2> QED
    BY <1>5, <1>9, <2>2, <2>3, <2>4, <2>5, <2>6 DEF Kept
<1>12. RowsAgree' /\ LockedRowsExist'
  <2>1. RowsAgree'
    <3>1. ASSUME NEW t \in Tokens, t # raw, t # next, token[t].sid # NoSession
          PROVE  /\ session'[token[t].sid].state # "absent"
                 /\ token[t].expires = session'[token[t].sid].expires
                 /\ token[t].used => token[t].usedAt < token[t].expires
      BY <1>1, <1>2, <1>5, <1>6, <3>1 DEF RowsAgree, TypeOK, TokenRow
    <3>2. old.expires = session[sid].expires
      BY <1>1, <1>2, <1>6 DEF RowsAgree
    <3> QED
      BY <1>1, <1>2, <1>5, <1>6, <3>1, <3>2 DEF RowsAgree
  <2>2. /\ \A s \in Sessions : sessionLock'[s] \in {NoWorker, sessionLock[s]}
        /\ \A t \in Tokens : tokenLock'[t] \in {NoWorker, tokenLock[t]}
    BY <1>1, <1>4 DEF Finish, TypeOK
  <2> QED
    BY <1>1, <1>8, <2>1, <2>2 DEF LockedRowsExist, Aging, TypeOK, TokenRow
<1>13. RevokedFamilyIsDead'
  <2> SUFFICES ASSUME NEW t \in Tokens, token'[t].sid # NoSession,
                      session'[token'[t].sid].state = "revoked"
               PROVE  token'[t].revoked
    BY DEF RevokedFamilyIsDead
  <2>1. token'[t].sid \in Sessions /\ token'[t].sid # sid
    BY <1>5, <1>6, <1>7 DEF TypeOK, TokenRow
  <2>2. t \notin {raw, next} /\ token'[t] = token[t]
    BY <1>5, <1>6, <2>1
  <2> QED
    BY <1>1, <1>5, <2>1, <2>2 DEF RevokedFamilyIsDead
<1>14. OneLiveToken'
  BY <1>1, <1>2, <1>5, <1>6 DEF OneLiveToken, Live, TypeOK, TokenRow
<1>15. LiveSessionHasLiveToken'
  <2> SUFFICES ASSUME NEW s \in Sessions, session'[s].state = "live"
               PROVE  \E t \in Tokens : token'[t].sid = s /\ Live(t)'
    BY DEF LiveSessionHasLiveToken, TokensOf
  <2>1. CASE s = sid
    BY <1>2, <1>5, <1>6, <2>1 DEF Live
  <2>2. CASE s # sid
    <3>1. PICK t \in Tokens : token[t].sid = s /\ Live(t)
      BY <1>1, <1>5, <2>2 DEF LiveSessionHasLiveToken, TokensOf
    <3> QED
      BY <1>2, <1>5, <2>2, <3>1 DEF Live
  <2> QED
    BY <2>1, <2>2
<1>16. \A t \in Tokens : token'[t].sid # NoSession => token'[t].expires <= now' + Lifetime
  BY <1>1, <1>2, <1>5, <1>6 DEF RowsAgree
<1> QED
  BY <1>7, <1>8, <1>9, <1>10, <1>11, <1>12, <1>13, <1>14, <1>15, <1>16, CommitLemma

\* A session that ends takes with it every token it has, for the locks it holds
\* keep others from adding one.
LEMMA CommitRevokeStep ==
    ASSUME LockInv, NEW w \in Workers, CommitRevoke(w)
    PROVE  LockInv'
<1> USE SentinelAssumption, TimeAssumption
<1>1. /\ TypeOK /\ WorkerInv(w) /\ job[w] \in Job /\ pc[w] = "endTokens" /\ RowsAgree
      /\ LockedRowsExist /\ PendingRowsDiffer
      /\ RevokedFamilyIsDead /\ OneLiveToken /\ LiveSessionHasLiveToken
      /\ \A t \in Tokens : token[t].sid # NoSession => token[t].expires <= now + Lifetime
      /\ UNCHANGED now /\ now \in Nat /\ job[w].targets = {}
      /\ job[w].ends \subseteq Sessions /\ job[w].kills \subseteq Tokens
  BY DEF LockInv, LocksProtectReads, TypeOK, CommitRevoke, Job
<1>2. /\ session' = [s \in Sessions |->
                       IF s \in job[w].ends
                       THEN [session[s] EXCEPT !.state = "revoked"] ELSE session[s]]
      /\ token' = [t \in Tokens |->
                     IF t \in job[w].kills
                     THEN [token[t] EXCEPT !.revoked = TRUE] ELSE token[t]]
      /\ Finish(w, RevokeAnswer(w), job[w].sid)
  BY DEF CommitRevoke
<1>3. /\ \A s \in Sessions : session[s] \in SessionRow
      /\ \A t \in Tokens : token[t] \in TokenRow
  BY <1>1 DEF TypeOK
<1>4. /\ \A s \in Sessions :
           /\ s \in job[w].ends => session'[s].state = "revoked"
           /\ s \notin job[w].ends => session'[s] = session[s]
           /\ session'[s].expires = session[s].expires
      /\ \A t \in Tokens :
           /\ t \in job[w].kills => token'[t].revoked
           /\ t \notin job[w].kills => token'[t] = token[t]
           /\ token'[t].sid = token[t].sid /\ token'[t].used = token[t].used
           /\ token'[t].expires = token[t].expires /\ token'[t].usedAt = token[t].usedAt
  BY <1>2, <1>3 DEF SessionRow, TokenRow
<1>5. \A t \in Tokens : token[t].revoked => token'[t].revoked
  BY <1>4
<1>6. RevokeAnswer(w) \in {"none", "reused", "expired", "inactive", "userRevoked",
                           "revoked", "notRevoked"}
  BY <1>1 DEF RevokeAnswer, Job
<1>7. TypeOK'
  <2>1. session' \in [Sessions -> SessionRow]
    BY <1>2, <1>3 DEF SessionRow
  <2>2. token' \in [Tokens -> TokenRow]
    BY <1>2, <1>3 DEF TokenRow
  <2>3. RevokeAnswer(w) \in Answers /\ job[w].sid \in Sessions \cup {NoSession}
    BY <1>1, <1>6 DEF Answers, Job
  <2> QED
    BY <1>1, <1>2, <2>1, <2>2, <2>3, FinishType DEF TypeOK, CommitRevoke
<1>8. Aging
  <2>1. now <= now'
    BY <1>1
  <2>2. \A s \in Sessions : session[s].state # "absent" => session'[s].state # "absent"
    BY <1>4
  <2>3. \A s \in Sessions : session[s].state = "revoked" => session'[s].state = "revoked"
    BY <1>4
  <2> QED
    BY <1>4, <1>5, <2>1, <2>2, <2>3 DEF Aging
<1>9. /\ pc'[w] = "idle" /\ job'[w] = NoJob
      /\ outcome'[w] = [answer |-> RevokeAnswer(w), sid |-> job[w].sid]
      /\ \A v \in Workers \ {w} :
           /\ pc'[v] = pc[v] /\ job'[v] = job[v] /\ outcome'[v] = outcome[v]
           /\ \A s \in Sessions : sessionLock[s] = v => sessionLock'[s] = v
           /\ \A t \in Tokens : tokenLock[t] = v => tokenLock'[t] = v
  BY <1>1, <1>2 DEF Finish, TypeOK
<1>10. AnswerTrue(w)'
  <2>1. CASE job[w].op = "revokeUser"
    BY <1>9, <2>1 DEF AnswerTrue, RevokeAnswer
  <2>2. CASE job[w].op # "revokeUser"
    <3>1. job[w].sid \in Sessions
            /\ (job[w].sid \in job[w].ends \/ session[job[w].sid].state = "revoked")
      BY <1>1, <2>2 DEF WorkerInv, RevokeTargets
    <3> QED
      BY <1>4, <1>8, <1>9, <3>1 DEF AnswerTrue, Aging
  <2> QED
    BY <2>1, <2>2
<1>11. /\ \A s \in job[w].ends : sessionLock[s] = w /\ session[s].state = "live"
       /\ \A t \in job[w].kills : tokenLock[t] = w
       /\ \A s \in job[w].ends, t \in Tokens :
            token[t].sid = s => token[t].revoked \/ t \in job[w].kills
       /\ \A t \in job[w].kills : \/ token[t].sid \in job[w].ends
                                  \/ session[token[t].sid].state = "revoked"
  BY <1>1 DEF WorkerInv, EndsOwned, KillsOwned, TokensOf
<1>12. ASSUME NEW v \in Workers \ {w} PROVE Kept(v)
  <2> USE <1>12
  <2>1. WorkerInv(v) /\ v # w
    BY DEF LockInv, LocksProtectReads
  <2>2. pc[v] = "commitCreate" => session'[job[v].sid].state = "absent"
    BY <1>4, <1>11, <2>1 DEF WorkerInv, CreatePending
  <2> QED
    BY <1>4, <1>9, <1>11, <2>2 DEF Kept
<1>13. RowsAgree' /\ LockedRowsExist'
  <2>1. RowsAgree'
    BY <1>1, <1>3, <1>4, <1>8 DEF RowsAgree, Aging, TokenRow
  <2>2. /\ \A s \in Sessions : sessionLock'[s] \in {NoWorker, sessionLock[s]}
        /\ \A t \in Tokens : tokenLock'[t] \in {NoWorker, tokenLock[t]}
    BY <1>1, <1>2 DEF Finish, TypeOK
  <2> QED
    BY <1>1, <1>3, <1>8, <2>1, <2>2 DEF LockedRowsExist, Aging, TokenRow
<1>14. RevokedFamilyIsDead'
  <2> SUFFICES ASSUME NEW t \in Tokens, token'[t].sid # NoSession,
                      session'[token'[t].sid].state = "revoked"
               PROVE  token'[t].revoked
    BY DEF RevokedFamilyIsDead
  <2>1. token'[t].sid = token[t].sid /\ token[t].sid \in Sessions
    BY <1>3, <1>4 DEF TokenRow
  <2>2. token[t].sid \in job[w].ends \/ session[token[t].sid].state = "revoked"
    BY <1>4, <2>1
  <2> QED
    BY <1>1, <1>4, <1>5, <1>11, <2>1, <2>2 DEF RevokedFamilyIsDead
<1>15. OneLiveToken'
  BY <1>1, <1>4, <1>5 DEF OneLiveToken, Live
<1>16. LiveSessionHasLiveToken'
  <2> SUFFICES ASSUME NEW s \in Sessions, session'[s].state = "live"
               PROVE  \E t \in Tokens : token'[t].sid = s /\ Live(t)'
    BY DEF LiveSessionHasLiveToken, TokensOf
  <2>1. s \notin job[w].ends /\ session[s].state = "live"
    BY <1>4
  <2>2. PICK t \in Tokens : token[t].sid = s /\ Live(t)
    BY <1>1, <2>1 DEF LiveSessionHasLiveToken, TokensOf
  <2>3. t \notin job[w].kills
    BY <1>11, <2>1, <2>2
  <2> QED
    BY <1>4, <2>2, <2>3 DEF Live
<1>17. \A t \in Tokens : token'[t].sid # NoSession => token'[t].expires <= now' + Lifetime
  BY <1>1, <1>4
<1> QED
  BY <1>7, <1>8, <1>9, <1>10, <1>12, <1>13, <1>14, <1>15, <1>16, <1>17, CommitLemma

-----------------------------------------------------------------------------
(* The clock and the users *)

LEMMA EnvironmentStep ==
    ASSUME LockInv, Environment \/ UNCHANGED vars
    PROVE  LockInv'
<1> USE SentinelAssumption, TimeAssumption
<1>1. TypeOK /\ LocksProtectReads
  BY DEF LockInv
<1>2. /\ UNCHANGED <<session, token, sessionLock, tokenLock, pc, job, outcome>>
      /\ now' \in 0..MaxTime /\ now <= now' /\ active' \subseteq Users
      /\ now \in Nat /\ now' \in Nat
  BY <1>1 DEF Environment, Tick, Deactivate, vars, TypeOK
<1>3. TypeOK' /\ Aging
  BY <1>1, <1>2 DEF TypeOK, Aging
<1>4. ASSUME NEW v \in Workers PROVE WorkerInv(v)'
  <2>1. CreatePending(v)
    BY <1>1, <1>4 DEF LocksProtectReads, WorkerInv
  <2>2. Kept(v)
    BY <1>2, <1>4, <2>1 DEF Kept, CreatePending
  <2> QED
    BY <1>3, <1>4, <2>2, FrameLemma
<1>5. /\ PendingRowsDiffer' /\ RowsAgree' /\ LockedRowsExist'
      /\ RevokedFamilyIsDead' /\ OneLiveToken' /\ LiveSessionHasLiveToken'
  BY <1>1, <1>2 DEF LocksProtectReads, PendingRowsDiffer, RowsAgree, LockedRowsExist,
        RevokedFamilyIsDead, OneLiveToken, LiveSessionHasLiveToken, TokensOf, Live
<1>6. \A t \in Tokens : token'[t].sid # NoSession => token'[t].expires <= now' + Lifetime
  <2>1. \A t \in Tokens : token[t].expires \in Nat
    BY <1>1 DEF TypeOK, TokenRow
  <2> QED
    BY <1>1, <1>2, <2>1 DEF LocksProtectReads
<1> QED
  BY <1>3, <1>4, <1>5, <1>6 DEF LockInv, LocksProtectReads

-----------------------------------------------------------------------------
(* The theorems *)

LEMMA RequestsStep ==
    ASSUME LockInv, NEW w \in Workers, Requests(w)
    PROVE  LockInv'
<1>1. CASE \E u \in Users, c \in Clients \cup {NoClient}, scope \in SUBSET Scopes,
             s \in Sessions, t \in Tokens : BeginCreate(w, u, c, scope, s, t)
  BY <1>1, BeginCreateStep
<1>2. CASE \E t \in Tokens, c \in Clients \cup {NoClient},
             want \in {{}} \cup {{x} : x \in SUBSET Scopes} : BeginRotate(w, t, c, want)
  BY <1>2, BeginRotateStep
<1>3. CASE \E t \in Tokens \cup {NoToken}, c \in Clients \cup {NoClient},
             s \in Sessions \cup {NoSession} : BeginRevoke(w, t, c, s)
  BY <1>3, BeginRevokeStep
<1>4. CASE \E u \in Users : BeginRevokeUser(w, u)
  BY <1>4, BeginRevokeUserStep
<1> QED
  BY <1>1, <1>2, <1>3, <1>4 DEF Requests

LEMMA LockStepStep ==
    ASSUME LockInv, NEW w \in Workers, LockStep(w)
    PROVE  LockInv'
<1>1. CASE LockToken(w)
  BY <1>1, LockTokenStep
<1>2. CASE RotateWrongClient(w) \/ RotateTooWide(w)
  BY <1>2, RejectLemma DEF RotateWrongClient, RotateTooWide
<1>3. CASE RotateReplayed(w) \/ RotateExpired(w) \/ RotateInactive(w)
  BY <1>3, FailRotationStep DEF RotateReplayed, RotateExpired, RotateInactive, Unspent
<1>4. CASE \E t \in Tokens : RotateGrant(w, t)
  BY <1>4, RotateGrantStep
<1>5. CASE EndSession(w)
  BY <1>5, EndSessionStep
<1>6. CASE \E t \in Tokens : EndToken(w, t)
  BY <1>6, EndTokenStep
<1> QED
  BY <1>1, <1>2, <1>3, <1>4, <1>5, <1>6 DEF LockStep

LEMMA FreeStepStep ==
    ASSUME LockInv, NEW w \in Workers, FreeStep(w)
    PROVE  LockInv'
<1>1. CASE CommitCreate(w)
  BY <1>1, CommitCreateStep
<1>2. CASE CommitRotate(w)
  BY <1>2, CommitRotateStep
<1>3. CASE \E s \in Sessions : RevokeFound(w, s)
  BY <1>3, RevokeFoundStep
<1>4. CASE RevokeNotFound(w)
  BY <1>4, RejectLemma DEF RevokeNotFound
<1>5. CASE SelectUserSessions(w)
  BY <1>5, SelectUserSessionsStep
<1>6. CASE \E s \in Sessions : RevokeNext(w, s)
  BY <1>6, RevokeNextStep
<1>7. CASE SelectTokens(w)
  BY <1>7, SelectTokensStep
<1>8. CASE CommitRevoke(w)
  BY <1>8, CommitRevokeStep
<1> QED
  BY <1>1, <1>2, <1>3, <1>4, <1>5, <1>6, <1>7, <1>8 DEF FreeStep

LEMMA NextLemma == LockInv /\ [Next]_vars => LockInv'
<1> SUFFICES ASSUME LockInv, [Next]_vars PROVE LockInv'
  OBVIOUS
<1>1. ASSUME NEW w \in Workers, WorkerStep(w) \/ Crash(w) PROVE LockInv'
  BY <1>1, RequestsStep, LockStepStep, FreeStepStep, RejectLemma
     DEF WorkerStep, AbortDeadlock, Crash
<1>2. CASE Environment \/ UNCHANGED vars
  BY <1>2, EnvironmentStep
<1> QED
  BY <1>1, <1>2 DEF Next

\* Every reachable state satisfies the inductive invariant.
THEOREM LockInvariance == Spec => []LockInv
  BY InitLemma, NextLemma, PTL DEF Spec

\* The variables keep their types: every row, lock, statement and pending write
\* of the service is one the model describes.
THEOREM TypeCorrect == Spec => []TypeOK
<1>1. LockInv => TypeOK
  BY DEF LockInv
<1> QED
  BY <1>1, LockInvariance, PTL

\* No token of a revoked session is ever usable, for any number of concurrent
\* refreshes, logouts and replays (rotate and _revoke_session).
THEOREM RevokedFamilyIsDeadAlways == Spec => []RevokedFamilyIsDead
<1>1. LockInv => RevokedFamilyIsDead
  BY DEF LockInv, LocksProtectReads
<1> QED
  BY <1>1, LockInvariance, PTL

\* A session never has two refresh tokens that both still work (rotate).
THEOREM OneLiveTokenAlways == Spec => []OneLiveToken
<1>1. LockInv => OneLiveToken
  BY DEF LockInv, LocksProtectReads
<1> QED
  BY <1>1, LockInvariance, PTL

\* A live session always has a refresh token that works (create and rotate).
THEOREM LiveSessionHasLiveTokenAlways == Spec => []LiveSessionHasLiveToken
<1>1. LockInv => LiveSessionHasLiveToken
  BY DEF LockInv, LocksProtectReads
<1> QED
  BY <1>1, LockInvariance, PTL

\* A caller told "reused", "expired", "inactive" or "revoked" can rely on the
\* whole family being dead from then on (the error paths of rotate, revoke).
THEOREM RefusalEndsFamilyAlways == Spec => []RefusalEndsFamily
<1>1. LockInv => RefusalEndsFamily
  <2> SUFFICES ASSUME LockInv, NEW w \in Workers,
                      outcome[w].answer \in {"reused", "expired", "inactive", "revoked"}
               PROVE  /\ session[outcome[w].sid].state = "revoked"
                      /\ \A t \in TokensOf(outcome[w].sid) : token[t].revoked
    BY DEF RefusalEndsFamily
  <2>1. outcome[w].sid \in Sessions /\ session[outcome[w].sid].state = "revoked"
    BY DEF LockInv, LocksProtectReads, WorkerInv, AnswerTrue
  <2>2. \A t \in TokensOf(outcome[w].sid) : token[t].revoked
    BY <2>1, SentinelAssumption DEF LockInv, LocksProtectReads, RevokedFamilyIsDead, TokensOf
  <2> QED
    BY <2>1, <2>2
<1> QED
  BY <1>1, LockInvariance, PTL

\* No refresh token outlives the expiry its session was created with (rotate
\* copies auth_session.expires_at and never moves it).
THEOREM AbsoluteLifetimeAlways == Spec => []AbsoluteLifetime
<1>1. LockInv => AbsoluteLifetime
  BY DEF LockInv, LocksProtectReads, RowsAgree, AbsoluteLifetime
<1> QED
  BY <1>1, LockInvariance, PTL
=============================================================================
