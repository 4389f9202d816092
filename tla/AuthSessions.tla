----------------------------- MODULE AuthSessions -----------------------------
(***************************************************************************)
(* The refresh-token sessions of AuthSessionService (services/sessions.py) *)
(* over a relational database that runs each request in a READ COMMITTED   *)
(* transaction with row locks: what `with_for_update` asks for.            *)
(*                                                                         *)
(* `session` and `token` are the COMMITTED rows of auth_session and        *)
(* auth_refresh_token.  A worker is a request handler with one open        *)
(* transaction; `pc` names the statement it issues next and `job` holds    *)
(* its arguments, the rows it has read and the writes it has pending.  A   *)
(* statement is one action, the writes appear when the transaction         *)
(* commits, and the row locks are kept until it ends.                      *)
(***************************************************************************)
EXTENDS Naturals, FiniteSets

CONSTANTS
    Workers,     \* request handlers that may run at the same time
    Users,       \* product users
    Clients,     \* registered OAuth clients
    Scopes,      \* scope names
    Sessions,    \* primary keys of auth_session
    Tokens,      \* raw refresh tokens, one-to-one with their hashes
    NoWorker, NoUser, NoClient, NoSession, NoToken,
    Lifetime,    \* config.refresh_token_days
    MaxTime      \* bound on the clock

ASSUME SentinelAssumption ==
    /\ NoWorker \notin Workers
    /\ NoSession \notin Sessions
    /\ NoToken \notin Tokens
    /\ NoClient \notin Clients

ASSUME TimeAssumption == Lifetime \in Nat /\ MaxTime \in Nat

VARIABLES
    session,      \* committed auth_session rows
    token,        \* committed auth_refresh_token rows
    sessionLock,  \* which transaction holds the row lock of a session
    tokenLock,    \* which transaction holds the row lock of a refresh token
    pc,           \* the next statement of each worker
    job,          \* arguments, reads and pending writes of each worker
    outcome,      \* how the last request of each worker ended
    active,       \* users whose is_active holds
    now           \* the database-independent UTC clock

vars == <<session, token, sessionLock, tokenLock, pc, job, outcome, active, now>>

-----------------------------------------------------------------------------
(* Rows, jobs and outcomes *)

\* scope is the set of names; a browser session, whose scope is NULL, has {}
SessionRow == [state   : {"absent", "live", "revoked"},
               user    : Users \cup {NoUser},
               client  : Clients \cup {NoClient},
               scope   : SUBSET Scopes,
               expires : Nat]

TokenRow == [sid     : Sessions \cup {NoSession},
             used    : BOOLEAN,
             usedAt  : Nat,           \* 0 until it is used
             revoked : BOOLEAN,
             expires : Nat]

AbsentSession == [state |-> "absent", user |-> NoUser, client |-> NoClient,
                  scope |-> {}, expires |-> 0]
AbsentToken == [sid |-> NoSession, used |-> FALSE, usedAt |-> 0,
                revoked |-> FALSE, expires |-> 0]

Job == [op      : {"none", "create", "rotate", "revoke", "revokeUser"},
        user    : Users \cup {NoUser},
        client  : Clients \cup {NoClient},
        raw     : Tokens \cup {NoToken},      \* the refresh token presented
        read    : TokenRow,                   \* its row, as SELECTed
        sid     : Sessions \cup {NoSession},  \* the session worked on
        want    : SUBSET SUBSET Scopes,       \* scope argument: {} if None
        scope   : SUBSET Scopes,              \* scope to store
        expires : Nat,                        \* expires_at to store
        usedAt  : Nat,                        \* used_at to store
        next    : Tokens \cup {NoToken},      \* refresh token to insert
        chosen  : SUBSET Sessions,            \* ids read by revoke_user_sessions
        todo    : SUBSET Sessions,            \* of those, still to revoke
        targets : SUBSET Tokens,              \* rows UPDATE has still to lock
        ends    : SUBSET Sessions,            \* pending revoked_at of sessions
        kills   : SUBSET Tokens,              \* pending revoked_at of tokens
        answer  : {"none", "reused", "expired", "inactive"}]

NoJob == [op |-> "none", user |-> NoUser, client |-> NoClient,
          raw |-> NoToken, read |-> AbsentToken, sid |-> NoSession,
          want |-> {}, scope |-> {}, expires |-> 0, usedAt |-> 0, next |-> NoToken,
          chosen |-> {}, todo |-> {}, targets |-> {}, ends |-> {}, kills |-> {},
          answer |-> "none"]

Steps == {"idle", "commitCreate", "lockToken", "lockSession", "commitRotate",
          "findSession", "selectUser", "endSession", "selectTokens",
          "endTokens"}

Answers == {"none", "created", "rotated", "invalid", "scopeInvalid",
            "reused", "expired", "inactive", "revoked", "notRevoked",
            "userRevoked", "rolledBack"}

Outcome == [answer : Answers, sid : Sessions \cup {NoSession}]

Live(t) == ~token[t].used /\ ~token[t].revoked

TokensOf(s) == {t \in Tokens : token[t].sid = s}

Init ==
    /\ session = [s \in Sessions |-> AbsentSession]
    /\ token = [t \in Tokens |-> AbsentToken]
    /\ sessionLock = [s \in Sessions |-> NoWorker]
    /\ tokenLock = [t \in Tokens |-> NoWorker]
    /\ pc = [w \in Workers |-> "idle"]
    /\ job = [w \in Workers |-> NoJob]
    /\ outcome = [w \in Workers |-> [answer |-> "none", sid |-> NoSession]]
    /\ active = Users
    /\ now = 0

-----------------------------------------------------------------------------
(* Transactions *)

\* Worker w ends its transaction: locks released, answer sent to the caller.
Finish(w, answer, sid) ==
    /\ pc' = [pc EXCEPT ![w] = "idle"]
    /\ job' = [job EXCEPT ![w] = NoJob]
    /\ outcome' = [outcome EXCEPT ![w] = [answer |-> answer, sid |-> sid]]
    /\ sessionLock' = [s \in Sessions |->
                         IF sessionLock[s] = w THEN NoWorker ELSE sessionLock[s]]
    /\ tokenLock' = [t \in Tokens |->
                       IF tokenLock[t] = w THEN NoWorker ELSE tokenLock[t]]

\* An error that reaches the caller without a commit: nothing was written.
Reject(w, answer) ==
    /\ Finish(w, answer, job[w].sid)
    /\ UNCHANGED <<session, token>>

Start(w, step, request) ==
    /\ pc[w] = "idle"
    /\ pc' = [pc EXCEPT ![w] = step]
    /\ job' = [job EXCEPT ![w] = request]
    /\ outcome' = [outcome EXCEPT ![w] = [answer |-> "none", sid |-> NoSession]]
    /\ UNCHANGED <<session, token, sessionLock, tokenLock, active, now>>

Goto(w, step) == pc' = [pc EXCEPT ![w] = step]

SessionFree(s, w) == sessionLock[s] \in {NoWorker, w}
TokenFree(t, w) == tokenLock[t] \in {NoWorker, w}

\* uuid4() and token_urlsafe(48) never return a value that is in use
UnusedSession(s) == session[s].state = "absent" /\ \A w \in Workers : job[w].sid # s
UnusedToken(t) == token[t].sid = NoSession /\ \A w \in Workers : job[w].next # t

\* Bound: the finite set Tokens must not run out in the middle of a rotation.
\* Each live token that is being rotated can be followed by one spare token.
Rotating == {t \in Tokens : Live(t) /\ \E w \in Workers :
                                job[w].op = "rotate" /\ job[w].raw = t}
Spare == {t \in Tokens : /\ token[t].sid = NoSession
                         /\ \A w \in Workers : ~(job[w].op = "create" /\ job[w].next = t)}

-----------------------------------------------------------------------------
(* create: a login, a registration, or the exchange of an OAuth code.  The  *)
(* two flushed INSERTs are visible to nobody before the caller's commit.    *)

BeginCreate(w, u, c, scope, s, t) ==
    /\ u \in active
    /\ c = NoClient => scope = {}
    /\ UnusedSession(s)
    /\ UnusedToken(t)
    /\ Cardinality(Rotating) < Cardinality(Spare)
    /\ Start(w, "commitCreate",
             [NoJob EXCEPT !.op = "create", !.user = u, !.client = c,
                           !.scope = scope, !.sid = s, !.next = t,
                           !.expires = now + Lifetime])

\* Variant of NewToken: every token gets a full lifetime of its own.
SlidingToken(w) == [sid |-> job[w].sid, used |-> FALSE, usedAt |-> 0,
                    revoked |-> FALSE, expires |-> now + Lifetime]

NewToken(w) == [sid |-> job[w].sid, used |-> FALSE, usedAt |-> 0,
                revoked |-> FALSE, expires |-> job[w].expires]

CommitCreate(w) ==
    /\ pc[w] = "commitCreate"
    /\ session' = [session EXCEPT ![job[w].sid] =
                     [state |-> "live", user |-> job[w].user,
                      client |-> job[w].client, scope |-> job[w].scope,
                      expires |-> job[w].expires]]
    /\ token' = [token EXCEPT ![job[w].next] = NewToken(w)]
    /\ Finish(w, "created", job[w].sid)
    /\ UNCHANGED <<active, now>>

-----------------------------------------------------------------------------
(* rotate *)

\* A browser passes its refresh cookie; an OAuth client names itself and may
\* ask for a scope.  Any token ever handed out can be presented, again and
\* again, by anybody who holds a copy.
BeginRotate(w, t, c, want) ==
    /\ token[t].sid # NoSession
    /\ c = NoClient => want = {}
    /\ Live(t) => Cardinality(Rotating \cup {t}) <= Cardinality(Spare)
    /\ Start(w, "lockToken",
             [NoJob EXCEPT !.op = "rotate", !.raw = t, !.client = c,
                           !.want = want])

\* Variant of LockToken: a plain SELECT, without FOR UPDATE.
ReadToken(w) ==
    /\ pc[w] = "lockToken"
    /\ job' = [job EXCEPT ![w].read = token[job[w].raw],
                         ![w].sid = token[job[w].raw].sid]
    /\ Goto(w, "lockSession")
    /\ UNCHANGED <<session, token, sessionLock, tokenLock, outcome, active, now>>

\* SELECT refresh_token WHERE token_hash = ... FOR UPDATE
LockToken(w) ==
    LET t == job[w].raw IN
    /\ pc[w] = "lockToken"
    /\ TokenFree(t, w)
    /\ tokenLock' = [tokenLock EXCEPT ![t] = w]
    /\ job' = [job EXCEPT ![w].read = token[t], ![w].sid = token[t].sid]
    /\ Goto(w, "lockSession")
    /\ UNCHANGED <<session, token, sessionLock, outcome, active, now>>

\* SELECT auth_session WHERE id = ... FOR UPDATE, which waits for its lock
TakeSession(w) ==
    /\ pc[w] = "lockSession"
    /\ SessionFree(job[w].sid, w)

\* Variant of each test: it is not made.
Untested(w) == FALSE

\* The tests of rotate in the order of the code; each is made on the rows as
\* the two SELECT ... FOR UPDATE returned them.
WrongClient(w) == job[w].client # session[job[w].sid].client
Replayed(w) == job[w].read.used \/ job[w].read.revoked
\* Variant of OutOfDate: expires_at itself still counts as valid.
OutOfDateLater(w) == \/ session[job[w].sid].state = "revoked"
                     \/ session[job[w].sid].expires < now
                     \/ job[w].read.expires < now
OutOfDate(w) == \/ session[job[w].sid].state = "revoked"
                \/ session[job[w].sid].expires <= now
                \/ job[w].read.expires <= now
InactiveUser(w) == session[job[w].sid].user \notin active
TooWide(w) == ~(UNION job[w].want \subseteq session[job[w].sid].scope)

RotateWrongClient(w) ==
    /\ TakeSession(w)
    /\ WrongClient(w)
    /\ Reject(w, "invalid")
    /\ UNCHANGED <<active, now>>

\* Variant of FailRotation: only the tokens are revoked, not their session.
FailTokensOnly(w, answer) ==
    /\ sessionLock' = [sessionLock EXCEPT ![job[w].sid] = w]
    /\ job' = [job EXCEPT ![w].answer = answer]
    /\ Goto(w, "selectTokens")
    /\ UNCHANGED <<session, token, tokenLock, outcome, active, now>>

\* _revoke_session starts inside the rotation, which keeps its two row locks
FailRotation(w, answer) ==
    /\ sessionLock' = [sessionLock EXCEPT ![job[w].sid] = w]
    /\ job' = [job EXCEPT ![w].answer = answer]
    /\ Goto(w, "endSession")
    /\ UNCHANGED <<session, token, tokenLock, outcome, active, now>>

\* Variant of RotateReplayed: the replay is refused and nothing is revoked.
RefuseReplay(w) ==
    /\ TakeSession(w) /\ ~WrongClient(w) /\ Replayed(w)
    /\ Reject(w, "reused")
    /\ UNCHANGED <<active, now>>

RotateReplayed(w) ==
    /\ TakeSession(w) /\ ~WrongClient(w) /\ Replayed(w)
    /\ FailRotation(w, "reused")

Unspent(w) == TakeSession(w) /\ ~WrongClient(w) /\ ~Replayed(w)

RotateExpired(w) ==
    /\ Unspent(w) /\ OutOfDate(w)
    /\ FailRotation(w, "expired")

RotateInactive(w) ==
    /\ Unspent(w) /\ ~OutOfDate(w) /\ InactiveUser(w)
    /\ FailRotation(w, "inactive")

Rotatable(w) == Unspent(w) /\ ~OutOfDate(w) /\ ~InactiveUser(w)

RotateTooWide(w) ==
    /\ Rotatable(w)
    /\ TooWide(w)
    /\ Reject(w, "scopeInvalid")
    /\ UNCHANGED <<active, now>>

\* The flushed UPDATEs and INSERT, pending until the caller commits
RotateGrant(w, t) ==
    /\ Rotatable(w)
    /\ ~TooWide(w)
    /\ UnusedToken(t)
    /\ sessionLock' = [sessionLock EXCEPT ![job[w].sid] = w]
    /\ job' = [job EXCEPT
                 ![w].next = t,
                 ![w].expires = session[job[w].sid].expires,
                 ![w].usedAt = now,
                 ![w].scope = IF job[w].want = {}
                              THEN session[job[w].sid].scope
                              ELSE UNION job[w].want]
    /\ Goto(w, "commitRotate")
    /\ UNCHANGED <<session, token, tokenLock, outcome, active, now>>

CommitRotate(w) ==
    /\ pc[w] = "commitRotate"
    /\ session' = [session EXCEPT ![job[w].sid].scope = job[w].scope]
    /\ token' = [token EXCEPT
                    ![job[w].raw] = [@ EXCEPT !.used = TRUE, !.usedAt = job[w].usedAt],
                    ![job[w].next] = NewToken(w)]
    /\ Finish(w, "rotated", job[w].sid)
    /\ UNCHANGED <<active, now>>

-----------------------------------------------------------------------------
(* revoke and revoke_user_sessions *)

\* A browser logout passes the refresh cookie and the sid claim of its access
\* cookie; the OAuth endpoint passes a token and its client.
BeginRevoke(w, t, c, s) ==
    /\ t # NoToken => token[t].sid # NoSession
    /\ s # NoSession => session[s].state # "absent" /\ c = NoClient
    /\ <<t, s>> # <<NoToken, NoSession>>
    /\ Start(w, "findSession",
             [NoJob EXCEPT !.op = "revoke", !.raw = t, !.client = c, !.sid = s])

\* The join that finds the session of a token of the same client; otherwise
\* the session_id argument stands.
FoundByToken(w) ==
    {s \in Sessions : /\ job[w].raw # NoToken
                      /\ token[job[w].raw].sid = s
                      /\ session[s].client = job[w].client}

RevokeFound(w, s) ==
    /\ pc[w] = "findSession"
    /\ s \in IF FoundByToken(w) # {} THEN FoundByToken(w)
             ELSE {job[w].sid} \ {NoSession}
    /\ job' = [job EXCEPT ![w].sid = s]
    /\ Goto(w, "endSession")
    /\ UNCHANGED <<session, token, sessionLock, tokenLock, outcome, active, now>>

RevokeNotFound(w) ==
    /\ pc[w] = "findSession"
    /\ FoundByToken(w) = {} /\ job[w].sid = NoSession
    /\ Reject(w, "notRevoked")
    /\ UNCHANGED <<active, now>>

BeginRevokeUser(w, u) ==
    Start(w, "selectUser", [NoJob EXCEPT !.op = "revokeUser", !.user = u])

\* SELECT id WHERE user_id = ... AND revoked_at IS NULL: committed rows only
SelectUserSessions(w) ==
    LET ids == {s \in Sessions : /\ session[s].state = "live"
                                 /\ session[s].user = job[w].user}
    IN
    /\ pc[w] = "selectUser"
    /\ job' = [job EXCEPT ![w].chosen = ids, ![w].todo = ids]
    /\ Goto(w, "endTokens")
    /\ UNCHANGED <<session, token, sessionLock, tokenLock, outcome, active, now>>

\* Variant of RevokeNext: the loop ends with the first session.
RevokeOnly(w, s) ==
    /\ pc[w] = "endTokens"
    /\ job[w].targets = {}
    /\ s \in job[w].todo
    /\ job' = [job EXCEPT ![w].sid = s, ![w].todo = {}]
    /\ Goto(w, "endSession")
    /\ UNCHANGED <<session, token, sessionLock, tokenLock, outcome, active, now>>

\* Variant of RevokeNext: the loop does not advance.
RevokeAgain(w, s) ==
    /\ pc[w] = "endTokens"
    /\ job[w].targets = {}
    /\ s \in job[w].todo
    /\ job' = [job EXCEPT ![w].sid = s]
    /\ Goto(w, "endSession")
    /\ UNCHANGED <<session, token, sessionLock, tokenLock, outcome, active, now>>

RevokeNext(w, s) ==
    /\ pc[w] = "endTokens"
    /\ job[w].targets = {}
    /\ s \in job[w].todo
    /\ job' = [job EXCEPT ![w].sid = s, ![w].todo = @ \ {s}]
    /\ Goto(w, "endSession")
    /\ UNCHANGED <<session, token, sessionLock, tokenLock, outcome, active, now>>

\* Variant of EndSession: the tokens are revoked before the session is locked.
EndSessionUnlocked(w) ==
    /\ pc[w] = "endSession"
    /\ job' = [job EXCEPT ![w].ends = @ \cup {job[w].sid}]
    /\ Goto(w, "selectTokens")
    /\ UNCHANGED <<session, token, sessionLock, tokenLock, outcome, active, now>>

\* UPDATE auth_session SET revoked_at WHERE id = ... AND revoked_at IS NULL:
\* waits for the row lock of a matching row, matches nothing once it is set
EndSession(w) ==
    LET s == job[w].sid IN
    /\ pc[w] = "endSession"
    /\ IF session[s].state = "live"
       THEN /\ SessionFree(s, w)
            /\ sessionLock' = [sessionLock EXCEPT ![s] = w]
            /\ job' = [job EXCEPT ![w].ends = @ \cup {s}]
       ELSE UNCHANGED <<sessionLock, job>>
    /\ Goto(w, "selectTokens")
    /\ UNCHANGED <<session, token, tokenLock, outcome, active, now>>

\* UPDATE auth_refresh_token SET revoked_at WHERE session_id = ... AND
\* revoked_at IS NULL: its snapshot fixes the rows, which it then locks one
\* at a time, testing each again once the lock is granted
SelectTokens(w) ==
    /\ pc[w] = "selectTokens"
    /\ job' = [job EXCEPT ![w].targets =
                 {t \in TokensOf(job[w].sid) : ~token[t].revoked}]
    /\ Goto(w, "endTokens")
    /\ UNCHANGED <<session, token, sessionLock, tokenLock, outcome, active, now>>

EndToken(w, t) ==
    /\ pc[w] = "endTokens"
    /\ t \in job[w].targets
    /\ TokenFree(t, w)
    /\ tokenLock' = [tokenLock EXCEPT ![t] = w]
    /\ job' = [job EXCEPT ![w].targets = @ \ {t},
                          ![w].kills = IF token[t].revoked THEN @ ELSE @ \cup {t}]
    /\ UNCHANGED <<session, token, sessionLock, pc, outcome, active, now>>

\* Variant of RevokeAnswer: revoke() does not look at the UPDATE's row count.
AlwaysRevoked(w) ==
    CASE job[w].op = "rotate" -> job[w].answer
      [] job[w].op = "revokeUser" -> "userRevoked"
      [] OTHER -> "revoked"

RevokeAnswer(w) ==
    CASE job[w].op = "rotate" -> job[w].answer
      [] job[w].op = "revokeUser" -> "userRevoked"
      [] OTHER -> IF job[w].ends = {} THEN "notRevoked" ELSE "revoked"

CommitRevoke(w) ==
    /\ pc[w] = "endTokens"
    /\ job[w].targets = {} /\ job[w].todo = {}
    /\ session' = [s \in Sessions |->
                     IF s \in job[w].ends
                     THEN [session[s] EXCEPT !.state = "revoked"]
                     ELSE session[s]]
    /\ token' = [t \in Tokens |->
                   IF t \in job[w].kills
                   THEN [token[t] EXCEPT !.revoked = TRUE]
                   ELSE token[t]]
    /\ Finish(w, RevokeAnswer(w), job[w].sid)
    /\ UNCHANGED <<active, now>>

-----------------------------------------------------------------------------
(* Rollbacks, the clock and the users *)

\* Row locks worker v waits for, held by worker w
WaitsForSession(v) ==
    {s \in {job[v].sid} : \/ pc[v] = "lockSession"
                          \/ pc[v] = "endSession" /\ session[s].state = "live"}
WaitsForToken(v) ==
    IF pc[v] = "lockToken" THEN {job[v].raw}
    ELSE IF pc[v] = "endTokens" THEN job[v].targets ELSE {}
Blocks(w, v) ==
    /\ w # v
    /\ \/ \E s \in WaitsForSession(v) : sessionLock[s] = w
       \/ \E t \in WaitsForToken(v) : tokenLock[t] = w

Deadlocked(w) ==
    \E C \in SUBSET Workers :
        /\ w \in C
        /\ \A v \in C : /\ \E x \in C : Blocks(x, v)
                        /\ \E x \in C : Blocks(v, x)

\* The database breaks a cycle of waits by aborting one of its transactions
AbortDeadlock(w) ==
    /\ Deadlocked(w)
    /\ Reject(w, "rolledBack")
    /\ UNCHANGED <<active, now>>

\* A cancelled request, a lost connection or a crashed process
Crash(w) ==
    /\ pc[w] # "idle"
    /\ Reject(w, "rolledBack")
    /\ UNCHANGED <<active, now>>

Tick ==
    /\ now < MaxTime
    /\ now' = now + 1
    /\ UNCHANGED <<session, token, sessionLock, tokenLock, pc, job, outcome, active>>

Deactivate(u) ==
    /\ u \in active
    /\ active' = active \ {u}
    /\ UNCHANGED <<session, token, sessionLock, tokenLock, pc, job, outcome, now>>

-----------------------------------------------------------------------------

Requests(w) ==
    \/ \E u \in Users, c \in Clients \cup {NoClient}, scope \in SUBSET Scopes,
          s \in Sessions, t \in Tokens : BeginCreate(w, u, c, scope, s, t)
    \/ \E t \in Tokens, c \in Clients \cup {NoClient},
          want \in {{}} \cup {{x} : x \in SUBSET Scopes} : BeginRotate(w, t, c, want)
    \/ \E t \in Tokens \cup {NoToken}, c \in Clients \cup {NoClient},
          s \in Sessions \cup {NoSession} : BeginRevoke(w, t, c, s)
    \/ \E u \in Users : BeginRevokeUser(w, u)

\* Steps that wait for a row lock
LockStep(w) ==
    \/ LockToken(w)
    \/ RotateWrongClient(w)
    \/ RotateReplayed(w)
    \/ RotateExpired(w)
    \/ RotateInactive(w)
    \/ RotateTooWide(w)
    \/ \E t \in Tokens : RotateGrant(w, t)
    \/ EndSession(w)
    \/ \E t \in Tokens : EndToken(w, t)

FreeStep(w) ==
    \/ CommitCreate(w)
    \/ CommitRotate(w)
    \/ \E s \in Sessions : RevokeFound(w, s)
    \/ RevokeNotFound(w)
    \/ SelectUserSessions(w)
    \/ \E s \in Sessions : RevokeNext(w, s)
    \/ SelectTokens(w)
    \/ CommitRevoke(w)

WorkerStep(w) == Requests(w) \/ LockStep(w) \/ FreeStep(w) \/ AbortDeadlock(w)

Environment == Tick \/ \E u \in Users : Deactivate(u)

Next ==
    \/ \E w \in Workers : WorkerStep(w) \/ Crash(w)
    \/ Environment

Spec == Init /\ [][Next]_vars

\* No handler is cancelled or crashes: only the database rolls back
SteadySpec == Init /\ [][(\E w \in Workers : WorkerStep(w)) \/ Environment]_vars

\* The event loop runs every ready handler; the database grants a row lock in
\* the order of its waiters, so a handler that finds it free again and again
\* is granted it, and aborts a transaction of every deadlock.
Fairness == \A w \in Workers : /\ WF_vars(FreeStep(w))
                               /\ SF_vars(LockStep(w))
                               /\ WF_vars(AbortDeadlock(w))

FairSpec == Spec /\ Fairness
FairSteadySpec == SteadySpec /\ Fairness

-----------------------------------------------------------------------------
(* Properties *)

TypeOK ==
    /\ session \in [Sessions -> SessionRow]
    /\ token \in [Tokens -> TokenRow]
    /\ sessionLock \in [Sessions -> Workers \cup {NoWorker}]
    /\ tokenLock \in [Tokens -> Workers \cup {NoWorker}]
    /\ pc \in [Workers -> Steps]
    /\ job \in [Workers -> Job]
    /\ outcome \in [Workers -> Outcome]
    /\ active \subseteq Users
    /\ now \in 0..MaxTime

\* No refresh token outlives its family: in every committed state the tokens
\* of a revoked session are all revoked, whatever rotation was under way when
\* the logout or the replay revoked it (_revoke_session, rotate).
RevokedFamilyIsDead ==
    \A t \in Tokens :
        token[t].sid # NoSession /\ session[token[t].sid].state = "revoked"
            => token[t].revoked

\* Rotation is a chain and never a tree: two requests that present the same
\* refresh token cannot both leave a successor (rotate's two row locks).
OneLiveToken ==
    \A t1, t2 \in Tokens :
        token[t1].sid # NoSession /\ token[t1].sid = token[t2].sid
            /\ Live(t1) /\ Live(t2) => t1 = t2

\* While a session is live it can be continued: exactly one of its tokens is
\* live, so neither a crash nor a deadlock victim loses or strands the chain.
LiveSessionHasLiveToken ==
    \A s \in Sessions :
        session[s].state = "live" => \E t \in TokensOf(s) : Live(t)

\* A caller told that its token was reused, expired, or its user disabled, was
\* told so after the whole family had been revoked, and it stays revoked.
RefusalEndsFamily ==
    \A w \in Workers :
        outcome[w].answer \in {"reused", "expired", "inactive", "revoked"}
            => /\ session[outcome[w].sid].state = "revoked"
               /\ \A t \in TokensOf(outcome[w].sid) : token[t].revoked

\* Rotation does not prolong a login: every token of a family expires with the
\* session row, whose expires_at was fixed when it was created, and none was spent
\* at expires_at or later, however late its rotation commits (rotate).
AbsoluteLifetime ==
    \A t \in Tokens : token[t].sid # NoSession
        => /\ token[t].expires = session[token[t].sid].expires
           /\ token[t].expires <= now + Lifetime
           /\ token[t].used => token[t].usedAt < session[token[t].sid].expires

\* revoke() is True for exactly one caller of a session: the answer "revoked"
\* comes with the very step that turned the committed row from live to revoked.
RevokeTrueOnce ==
    [][\A w \in Workers :
         outcome'[w].answer = "revoked" /\ outcome[w].answer # "revoked"
            => LET s == outcome'[w].sid IN
               session[s].state = "live" /\ session'[s].state = "revoked"]_vars

\* A committed session or token never comes back: revoked and used are final, the
\* session's expiry, owner and client never change, and its scope only narrows,
\* however refreshes with and without a scope argument interleave.
RowsOnlyAge ==
    [][/\ \A s \in Sessions : session[s].state # "absent" =>
            /\ session'[s].state # "absent"
            /\ session[s].state = "revoked" => session'[s].state = "revoked"
            /\ session'[s].expires = session[s].expires
            /\ session'[s].client = session[s].client
            /\ session'[s].user = session[s].user
            /\ session'[s].scope \subseteq session[s].scope
       /\ \A t \in Tokens : token[t].sid # NoSession =>
            /\ token'[t].sid = token[t].sid
            /\ token[t].used => token'[t].used
            /\ token[t].revoked => token'[t].revoked]_vars

\* A refresh or revoke request that names another client than the session's
\* leaves the session and its tokens alone, even when the token is genuine.
ClientIsolation ==
    [][\A w \in Workers, s \in Sessions :
         /\ pc[w] # "idle" /\ pc'[w] = "idle"
         /\ job[w].op = "rotate" \/ (job[w].op = "revoke" /\ job[w].client # NoClient)
         /\ session[s].client # job[w].client
         => /\ session'[s] = session[s]
            /\ \A t \in TokensOf(s) : token'[t] = token[t]]_vars

\* revoke_user_sessions leaves none of the sessions it had found live, even
\* when logouts and rotations of them committed while it ran.
UserRevocationIsComplete ==
    [][\A w \in Workers :
         outcome'[w].answer = "userRevoked" /\ outcome[w].answer # "userRevoked"
            => \A s \in job[w].chosen : session'[s].state = "revoked"]_vars

\* "Reuse of an old refresh token revokes its complete server-side session
\* family" (docs/security/invariants.md:19): once a rotation has found its token
\* used or revoked the session ends up revoked, as long as nothing crashes.
ReuseRevokesFamily ==
    \A s \in Sessions :
        (\E w \in Workers : job[w].answer = "reused" /\ job[w].sid = s)
            ~> session[s].state = "revoked"

\* Every request ends: waits for row locks never last for ever, though a
\* rotation locks a token before its session and a logout after it.
RequestsEnd ==
    \A w \in Workers : pc[w] # "idle" ~> pc[w] = "idle"

-----------------------------------------------------------------------------
(* The committed rows implement families that open, rotate and close in one *)
(* step each, whatever statements the requests behind them interleave.      *)

Family == INSTANCE SessionFamily WITH
    state   <- [s \in Sessions |-> session[s].state],
    current <- [s \in Sessions |-> {t \in TokensOf(s) : Live(t)}],
    spent   <- [s \in Sessions |-> {t \in TokensOf(s) : ~Live(t)}]

\* Every behaviour of the service is a behaviour of SessionFamily: a commit is
\* one Open, one Rotate or one Close, and every other step changes no family.
ImplementsFamily == Family!Spec
=============================================================================
