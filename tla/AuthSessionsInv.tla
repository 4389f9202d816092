--------------------------- MODULE AuthSessionsInv ---------------------------
(***************************************************************************)
(* The inductive invariant behind the safety properties of AuthSessions:   *)
(* what the row locks guarantee to a transaction between the statement     *)
(* that read a row and the commit that relies on it.                       *)
(***************************************************************************)
EXTENDS AuthSessions

\* Rows refer to rows: a refresh token belongs to a session that exists, shares
\* its expires_at and was spent before, if it was.
RowsAgree ==
    \A t \in Tokens : token[t].sid # NoSession =>
        /\ session[token[t].sid].state # "absent"
        /\ token[t].expires = session[token[t].sid].expires
        /\ token[t].used => token[t].usedAt < token[t].expires

\* Only committed rows can be locked by a SELECT or an UPDATE.
LockedRowsExist ==
    /\ \A s \in Sessions : sessionLock[s] # NoWorker => session[s].state # "absent"
    /\ \A t \in Tokens : tokenLock[t] # NoWorker => token[t].sid # NoSession

\* A pending creation owns its two primary keys.
CreatePending(w) ==
    pc[w] = "commitCreate" =>
        /\ job[w].sid \in Sessions
        /\ session[job[w].sid].state = "absent"
        /\ job[w].next \in Tokens
        /\ token[job[w].next].sid = NoSession
        /\ job[w].expires <= now + Lifetime

\* No two pending transactions insert the same row.
PendingRowsDiffer ==
    \A v, w \in Workers : v # w =>
        /\ pc[v] = "commitCreate" /\ pc[w] = "commitCreate"
             => job[v].sid # job[w].sid
        /\ job[v].next \in Tokens => job[v].next # job[w].next

\* From LockToken on, a rotation owns the row of the token it was given, and
\* the row is still the one it read.
TokenOwned(w) ==
    /\ pc[w] = "lockToken" =>
        /\ job[w].op = "rotate"
        /\ job[w].raw \in Tokens
        /\ token[job[w].raw].sid # NoSession
    /\ pc[w] \in {"lockSession", "commitRotate"} => job[w].op = "rotate"
    /\ job[w].op = "rotate" /\ pc[w] # "lockToken" =>
        /\ job[w].raw \in Tokens
        /\ tokenLock[job[w].raw] = w
        /\ job[w].read = token[job[w].raw]
        /\ job[w].sid \in Sessions
        /\ job[w].sid = token[job[w].raw].sid

\* A granted rotation also owns its session, which stays live until it commits.
RotatePending(w) ==
    pc[w] = "commitRotate" =>
        /\ sessionLock[job[w].sid] = w
        /\ session[job[w].sid].state = "live"
        /\ Live(job[w].raw)
        /\ job[w].next \in Tokens
        /\ token[job[w].next].sid = NoSession
        /\ job[w].expires = session[job[w].sid].expires
        /\ job[w].usedAt < job[w].expires
        /\ job[w].scope \subseteq session[job[w].sid].scope

\* A revocation names existing sessions; from its UPDATE of the session on,
\* the session is ended by it or was ended before.
RevokeTargets(w) ==
    /\ pc[w] = "idle" <=> job[w].op = "none"
    /\ pc[w] = "commitCreate" => job[w].op = "create"
    /\ pc[w] = "findSession" =>
        /\ job[w].op = "revoke"
        /\ job[w].raw # NoToken => job[w].raw \in Tokens
        /\ job[w].sid # NoSession => session[job[w].sid].state # "absent"
    /\ pc[w] = "selectUser" => job[w].op = "revokeUser"
    /\ pc[w] \in {"endSession", "selectTokens", "endTokens"}
        => job[w].op \in {"rotate", "revoke", "revokeUser"}
    /\ pc[w] = "endSession" =>
        job[w].sid \in Sessions /\ session[job[w].sid].state # "absent"
    /\ pc[w] = "selectTokens" \/ (pc[w] = "endTokens" /\ job[w].op # "revokeUser")
        => /\ job[w].sid \in Sessions
           /\ \/ job[w].sid \in job[w].ends
              \/ session[job[w].sid].state = "revoked"
    /\ pc[w] # "endTokens" => job[w].targets = {}
    /\ pc[w] \notin {"endSession", "selectTokens", "endTokens"}
        => job[w].ends = {} /\ job[w].kills = {} /\ job[w].answer = "none"
    /\ job[w].op # "rotate" => job[w].answer = "none"
    /\ job[w].op # "revokeUser" => job[w].chosen = {}

\* Every session that revoke_user_sessions has read is still to do, in hand,
\* or ended.
ChosenCovered(w) ==
    \A s \in job[w].chosen :
        /\ session[s].state # "absent"
        /\ \/ s \in job[w].todo
           \/ pc[w] = "endSession" /\ s = job[w].sid
           \/ s \in job[w].ends
           \/ session[s].state = "revoked"

TodoChosen(w) == job[w].todo \subseteq job[w].chosen

\* The lock on a session it is ending keeps that session live and its family
\* closed to new tokens, so the rows the UPDATE locked are the whole family.
EndsOwned(w) ==
    \A s \in job[w].ends :
        /\ sessionLock[s] = w
        /\ session[s].state = "live"
        /\ \/ pc[w] = "selectTokens" /\ s = job[w].sid
           \/ \A t \in TokensOf(s) :
                 token[t].revoked \/ t \in job[w].kills \cup job[w].targets

\* The tokens it revokes are locked and belong to families that are ending.
KillsOwned(w) ==
    \A t \in job[w].kills \cup job[w].targets :
        /\ t \in job[w].kills => tokenLock[t] = w
        /\ token[t].sid # NoSession
        /\ \/ token[t].sid \in job[w].ends
           \/ session[token[t].sid].state = "revoked"

\* A kept answer names a session that has been ended.
AnswerTrue(w) ==
    outcome[w].answer \in {"reused", "expired", "inactive", "revoked"}
        => /\ outcome[w].sid \in Sessions
           /\ session[outcome[w].sid].state = "revoked"

WorkerInv(w) ==
    /\ CreatePending(w)
    /\ TokenOwned(w)
    /\ RotatePending(w)
    /\ RevokeTargets(w)
    /\ ChosenCovered(w)
    /\ TodoChosen(w)
    /\ EndsOwned(w)
    /\ KillsOwned(w)
    /\ AnswerTrue(w)

\* The part about locks: a committed row that a transaction has read under its
\* locks is what it was when the transaction writes.
LocksProtectReads ==
    /\ RowsAgree
    /\ LockedRowsExist
    /\ PendingRowsDiffer
    /\ \A w \in Workers : WorkerInv(w)
    /\ RevokedFamilyIsDead
    /\ OneLiveToken
    /\ LiveSessionHasLiveToken
    /\ \A t \in Tokens : token[t].sid # NoSession => token[t].expires <= now + Lifetime

LockInv == TypeOK /\ LocksProtectReads

\* Requests that write only a session whose client they have named
ForClient(w) ==
    job[w].op = "rotate" \/ (job[w].op = "revoke" /\ job[w].client # NoClient)

\* One family per request: from the test of its client on, a refresh or a logout
\* has in hand the session it has found, of the client it named, and ends no
\* other session and no token of another one.
OneFamily(w) ==
    /\ pc[w] = "findSession" /\ job[w].client # NoClient => job[w].sid = NoSession
    /\ pc[w] \in {"commitRotate", "endSession", "selectTokens", "endTokens"} /\ ForClient(w)
         => session[job[w].sid].client = job[w].client
    /\ job[w].op # "revokeUser" =>
         /\ job[w].ends \subseteq {job[w].sid}
         /\ job[w].kills \cup job[w].targets \subseteq TokensOf(job[w].sid)

\* The inductive invariant
IInv == LockInv /\ \A w \in Workers : OneFamily(w)
=============================================================================
