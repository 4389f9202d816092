---------------------------- MODULE OAuth2Codes ----------------------------
(***************************************************************************)
(* The authorization codes of OAuth2AuthorizationService                   *)
(* (services/oauth2.py): a user approves a client, and the client          *)
(* exchanges the code and its PKCE verifier for a session.                 *)
(*                                                                         *)
(* `row`, `codeLock` and `session` are the database, as in AuthSessions,   *)
(* which models what becomes of the sessions created here.  A verifier     *)
(* also stands for its S256 challenge: the digest is one-to-one.           *)
(***************************************************************************)
EXTENDS Naturals

CONSTANTS
    Workers,    \* request handlers
    Users, Clients, Uris, Scopes, Verifiers,
    Codes,      \* raw codes, one-to-one with their hashes
    Sessions,   \* primary keys of auth_session
    Entries,    \* what the configuration may say of a client
    NoWorker, NoRequest,
    Lifetime,   \* oauth2_authorization_code_seconds
    MaxTime     \* bound on the clock

\* usable: enabled, pkce_required and every registered URI valid (_client)
Entry == [usable : BOOLEAN, uris : SUBSET Uris, scopes : SUBSET Scopes]

\* A token request with grant_type=authorization_code, once its form is parsed
Request == [client : Clients, code : Codes, uri : Uris, verifier : Verifiers]

ASSUME EntriesAssumption == Entries \subseteq Entry
ASSUME SentinelAssumption == NoWorker \notin Workers /\ NoRequest \notin Request
ASSUME ClockAssumption == Lifetime \in Nat /\ MaxTime \in Nat

VARIABLES
    registry,  \* oauth2_clients of the running configuration
    active,    \* users whose is_active holds
    row,       \* committed authorization codes, a function on those issued
    codeLock,  \* row locks
    session,   \* committed sessions, a function on those created
    pc, job,   \* next statement and request of each handler
    now

vars == <<registry, active, row, codeLock, session, pc, job, now>>

Row == [user : Users, client : Clients, uri : Uris, scope : SUBSET Scopes,
        challenge : Verifiers, expires : Nat, used : BOOLEAN]

\* code is not a column: it tells which exchange created the session
Session == [code : Codes, user : Users, client : Clients, scope : SUBSET Scopes]

Extend(f, x, value) == [y \in DOMAIN f \cup {x} |-> IF y = x THEN value ELSE f[y]]

Init ==
    /\ registry \in [Clients -> Entries]
    /\ active = Users
    /\ row = [k \in {} |-> 0]
    /\ codeLock = [k \in Codes |-> NoWorker]
    /\ session = [s \in {} |-> 0]
    /\ pc = [w \in Workers |-> "idle"]
    /\ job = [w \in Workers |-> NoRequest]
    /\ now = 0

\* The transaction of handler w ends: committed, or with nothing written
Finish(w) ==
    /\ pc' = [pc EXCEPT ![w] = "idle"]
    /\ job' = [job EXCEPT ![w] = NoRequest]
    /\ codeLock' = [k \in Codes |-> IF codeLock[k] = w THEN NoWorker ELSE codeLock[k]]

LockFree(k, w) == codeLock[k] \in {NoWorker, w}

-----------------------------------------------------------------------------
(* authorize *)

\* _client and context: a known client asks for a registered URI and scopes
Usable(c) == registry[c].usable /\ registry[c].uris # {}
Registered(c, uri, scope) ==
    uri \in registry[c].uris /\ scope \subseteq registry[c].scopes

\* authorize, its INSERT and the commit of the route
Authorize(u, c, uri, scope, challenge, k) ==
    /\ Usable(c) /\ Registered(c, uri, scope)
    /\ u \in active
    /\ k \notin DOMAIN row
    /\ row' = Extend(row, k, [user |-> u, client |-> c, uri |-> uri, scope |-> scope,
                              challenge |-> challenge, expires |-> now + Lifetime,
                              used |-> FALSE])
    /\ UNCHANGED <<registry, active, codeLock, session, pc, job, now>>

-----------------------------------------------------------------------------
(* token, with grant_type=authorization_code *)

\* A request ends at once when _client refuses its client
BeginExchange(w, r) ==
    /\ pc[w] = "idle"
    /\ Usable(r.client)
    /\ pc' = [pc EXCEPT ![w] = "lock"]
    /\ job' = [job EXCEPT ![w] = r]
    /\ UNCHANGED <<registry, active, row, codeLock, session, now>>

\* Variants of the tests that follow: not made.
Anything(r) == TRUE

Unspent(r) == ~row[r.code].used
SameClient(r) == row[r.code].client = r.client
SameUri(r) == row[r.code].uri = r.uri
KnowsVerifier(r) == row[r.code].challenge = r.verifier
StillRegistered(r) == Registered(r.client, row[r.code].uri, row[r.code].scope)

Acceptable(r) ==
    /\ r.code \in DOMAIN row
    /\ Unspent(r) /\ row[r.code].expires > now
    /\ SameClient(r) /\ SameUri(r) /\ KnowsVerifier(r)
    /\ StillRegistered(r)

\* Variant of LockCode: a plain SELECT.
ReadCode(w) ==
    /\ pc[w] = "lock"
    /\ Acceptable(job[w])
    /\ pc' = [pc EXCEPT ![w] = "consume"]
    /\ UNCHANGED <<registry, active, row, codeLock, session, job, now>>

\* SELECT ... FOR UPDATE of the code, and the tests on the row it returns
LockCode(w) ==
    /\ pc[w] = "lock"
    /\ LockFree(job[w].code, w)
    /\ Acceptable(job[w])
    /\ codeLock' = [codeLock EXCEPT ![job[w].code] = w]
    /\ pc' = [pc EXCEPT ![w] = "consume"]
    /\ UNCHANGED <<registry, active, row, session, job, now>>

InvalidGrant(w) ==
    /\ pc[w] = "lock"
    /\ job[w].code \in DOMAIN row => LockFree(job[w].code, w)
    /\ ~Acceptable(job[w])
    /\ Finish(w)
    /\ UNCHANGED <<registry, active, row, session, now>>

\* Variant of ConsumeCode: the UPDATE is committed on its own.
ConsumeAtOnce(w) ==
    /\ pc[w] = "consume"
    /\ row[job[w].code].user \in active
    /\ row' = [row EXCEPT ![job[w].code].used = TRUE]
    /\ pc' = [pc EXCEPT ![w] = "commit"]
    /\ UNCHANGED <<registry, active, codeLock, session, job, now>>

\* The user's row, then UPDATE ... WHERE used_at IS NULL, under its row lock
ConsumeCode(w) ==
    /\ pc[w] = "consume"
    /\ row[job[w].code].user \in active
    /\ LockFree(job[w].code, w)
    /\ Unspent(job[w])
    /\ codeLock' = [codeLock EXCEPT ![job[w].code] = w]
    /\ pc' = [pc EXCEPT ![w] = "commit"]
    /\ UNCHANGED <<registry, active, row, session, job, now>>

RefuseUser(w) ==
    /\ pc[w] = "consume"
    /\ row[job[w].code].user \notin active \/ ~Unspent(job[w])
    /\ Finish(w)
    /\ UNCHANGED <<registry, active, row, session, now>>

\* sessions.create, and the commit of the route
CommitGrant(w, s) ==
    LET r == job[w] IN
    /\ pc[w] = "commit"
    /\ s \notin DOMAIN session
    /\ row' = [row EXCEPT ![r.code].used = TRUE]
    /\ session' = Extend(session, s,
                         [code |-> r.code, user |-> row[r.code].user,
                          client |-> r.client, scope |-> row[r.code].scope])
    /\ Finish(w)
    /\ UNCHANGED <<registry, active, now>>

-----------------------------------------------------------------------------
(* Failures, the clock, the users and the configuration *)

Crash(w) ==
    /\ pc[w] # "idle"
    /\ Finish(w)
    /\ UNCHANGED <<registry, active, row, session, now>>

\* The service starts again with another entry for a client
Restart(c, entry) ==
    /\ entry # registry[c]
    /\ registry' = [registry EXCEPT ![c] = entry]
    /\ codeLock' = [k \in Codes |-> NoWorker]
    /\ pc' = [w \in Workers |-> "idle"]
    /\ job' = [w \in Workers |-> NoRequest]
    /\ UNCHANGED <<active, row, session, now>>

Deactivate(u) ==
    /\ u \in active
    /\ active' = active \ {u}
    /\ UNCHANGED <<registry, row, codeLock, session, pc, job, now>>

Tick ==
    /\ now < MaxTime
    /\ now' = now + 1
    /\ UNCHANGED <<registry, active, row, codeLock, session, pc, job>>

Environment ==
    \/ \E c \in Clients, entry \in Entries : Restart(c, entry)
    \/ \E u \in Users : Deactivate(u)
    \/ Tick

Exchange(w) ==
    \/ \E r \in Request : BeginExchange(w, r)
    \/ LockCode(w)
    \/ InvalidGrant(w)
    \/ ConsumeCode(w)
    \/ RefuseUser(w)
    \/ \E s \in Sessions : CommitGrant(w, s)
    \/ Crash(w)

Next ==
    \/ \E u \in Users, c \in Clients, uri \in Uris, scope \in SUBSET Scopes,
          challenge \in Verifiers, k \in Codes : Authorize(u, c, uri, scope, challenge, k)
    \/ \E w \in Workers : Exchange(w)
    \/ Environment

Spec == Init /\ [][Next]_vars

-----------------------------------------------------------------------------
(* Properties *)

TypeOK ==
    /\ registry \in [Clients -> Entries]
    /\ active \subseteq Users
    /\ DOMAIN row \subseteq Codes /\ \A k \in DOMAIN row : row[k] \in Row
    /\ codeLock \in [Codes -> Workers \cup {NoWorker}]
    /\ DOMAIN session \subseteq Sessions /\ \A s \in DOMAIN session : session[s] \in Session
    /\ pc \in [Workers -> {"idle", "lock", "consume", "commit"}]
    /\ job \in [Workers -> Request \cup {NoRequest}]
    /\ now \in 0..MaxTime

\* No code is lost and none is free: in every committed state a code is marked
\* used exactly when one session has been created from it, whatever crashed.
SpentIffGranted ==
    \A k \in DOMAIN row :
        row[k].used <=> \E s \in DOMAIN session : session[s].code = k

\* An exchange that goes on after its SELECT holds the lock of an unspent code.
HoldsItsCode ==
    \A w \in Workers :
        /\ pc[w] # "idle" => job[w] \in Request
        /\ pc[w] \in {"consume", "commit"} =>
             /\ job[w].code \in DOMAIN row
             /\ codeLock[job[w].code] = w
             /\ ~row[job[w].code].used

SessionsHaveCodes == \A s \in DOMAIN session : session[s].code \in DOMAIN row

CodeInv == TypeOK /\ HoldsItsCode /\ SessionsHaveCodes /\ SpentIffGranted

\* The tests an exchange has passed would pass again: no configuration changes
\* under it, and nothing but used_at of the row it has locked.
TestsStillHold ==
    \A w \in Workers :
        /\ pc[w] # "idle" => Usable(job[w].client)
        /\ pc[w] \in {"consume", "commit"} =>
             /\ SameClient(job[w]) /\ SameUri(job[w]) /\ KnowsVerifier(job[w])
             /\ StillRegistered(job[w])

\* What every step preserves: the types, the ownership of codes under exchange,
\* a session for each code that is spent, and the tests made before the lock of
\* the user's row (_exchange_authorization_code).
IInv == CodeInv /\ TestsStillHold

\* The session a code buys goes to the client the user approved, with the scope
\* approved, and only to a request with the redirect URI and the PKCE verifier
\* of that approval (_exchange_authorization_code).
GrantMatchesConsent ==
    [][\A s \in DOMAIN session' \ DOMAIN session :
         LET k == session'[s].code IN
         /\ k \in DOMAIN row
         /\ session'[s] = [code |-> k, user |-> row[k].user, client |-> row[k].client,
                           scope |-> row[k].scope]
         /\ \E w \in Workers :
              job[w] = [client |-> row[k].client, code |-> k, uri |-> row[k].uri,
                        verifier |-> row[k].challenge]]_vars

\* A code approved under an older configuration buys nothing the present one
\* does not allow: no scope, redirect URI or client that has been withdrawn.
GrantHonoursRegistry ==
    [][\A s \in DOMAIN session' \ DOMAIN session :
         LET k == session'[s].code IN
         /\ Usable(session'[s].client)
         /\ Registered(session'[s].client, row[k].uri, session'[s].scope)]_vars

Promise == INSTANCE OneTimeGrant WITH
    Grants <- Codes, Gains <- Sessions, issued <- DOMAIN row,
    bought <- [k \in Codes |-> {s \in DOMAIN session : session[s].code = k}]

\* Concurrent exchanges, crashes and restarts leave a code what OneTimeGrant
\* says: the row lock and the conditional UPDATE let one exchange through.
CodesAreOneTime == Promise!Spec
=============================================================================
