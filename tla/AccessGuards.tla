---------------------------- MODULE AccessGuards ----------------------------
(***************************************************************************)
(* The dependencies that admit requests (fastapi/dependencies.py):         *)
(* current_user, current_user_or_none and require_oauth2_scopes, over the  *)
(* access tokens of TokenCodec (tokens.py).                                *)
(*                                                                         *)
(* A guard reads a session and then a user, in two queries, while other    *)
(* requests change them; how they change is AuthSessions, which shows that *)
(* sessions only end and scopes only narrow.  A signed token may carry any *)
(* claims: products mint their own with create_access_token.               *)
(***************************************************************************)
EXTENDS Naturals

CONSTANTS
    Workers,     \* request handlers
    Users, Clients, Scopes,
    Sessions,    \* primary keys of auth_session
    Claims,      \* payloads of the access tokens of an instance
    Required,    \* scopes the guarded route asks for
    Entries,     \* what the configuration may say of a client
    Missing,     \* stands in place of the scopes where there is no scope
    NoClient, NoSession, NoRequest,
    SessionLife, \* refresh_token_days
    MaxTime      \* bound on the clock

\* A claim or column that may be missing
NoScope == {Missing}
MaybeClient == {NoClient} \cup Clients
MaybeScope == {NoScope} \cup SUBSET Scopes

\* Payload: sub, sid, client_id, scope, exp
Payload == [sub : Users, sid : {NoSession} \cup Sessions,
            client : MaybeClient, scope : MaybeScope, exp : Nat]

\* enabled: enabled and pkce_required
Entry == [enabled : BOOLEAN, scopes : SUBSET Scopes]

\* guard: the dependency of the route; via: where the token is found; refresh:
\* there is a refresh cookie, which counts where there is no token; safe: a safe method
\* or the CSRF header, which counts where the token is in a cookie
Request == [guard : {"user", "optional", "scopes"}, via : {"bearer", "cookie", "none"},
            refresh : BOOLEAN, safe : BOOLEAN, claims : Claims]

ASSUME InputAssumption ==
    Claims \subseteq Payload /\ Required \subseteq Scopes /\ Entries \subseteq Entry
ASSUME SentinelAssumption ==
    /\ NoClient \notin Clients /\ NoSession \notin Sessions
    /\ Missing \notin Scopes /\ NoRequest \notin Request
ASSUME ClockAssumption == SessionLife \in Nat /\ MaxTime \in Nat

VARIABLES
    registry,  \* oauth2_clients of the running configuration
    active,    \* users whose is_active holds
    session,   \* committed rows of auth_session
    pc, job,   \* progress and request of each handler
    wasGood,   \* history: the request deserved to be admitted when it arrived
    now

vars == <<registry, active, session, pc, job, wasGood, now>>
rows == <<registry, active, session, now>>

Row == [state : {"none", "live", "revoked", "deleted"}, user : Users,
        client : MaybeClient, scope : MaybeScope, expires : Nat]

Init ==
    /\ registry \in [Clients -> Entries]
    /\ active = Users
    /\ \E u \in Users :
         session = [s \in Sessions |-> [state |-> "none", user |-> u,
                      client |-> NoClient, scope |-> NoScope, expires |-> 0]]
    /\ pc = [w \in Workers |-> "idle"]
    /\ job = [w \in Workers |-> NoRequest]
    /\ wasGood = [w \in Workers |-> FALSE]
    /\ now = 0

-----------------------------------------------------------------------------
(* What a request deserves, as the security documents put it *)

\* A browser's or product's token: no trace of an OAuth client
FirstParty(q) ==
    /\ q.via = "cookie" => q.safe
    /\ q.claims.client = NoClient /\ q.claims.scope = NoScope
    /\ q.claims.sid # NoSession =>
         /\ session[q.claims.sid].client = NoClient
         /\ session[q.claims.sid].scope = NoScope

\* A client's token: its session is the client's, and every scope of the route is
\* in the token, the session and the registration
Delegated(q) ==
    LET c == q.claims IN
    /\ q.via = "bearer"
    /\ c.sid # NoSession /\ c.client # NoClient /\ c.scope # NoScope
    /\ session[c.sid].client = c.client /\ session[c.sid].scope # NoScope
    /\ registry[c.client].enabled
    /\ \A r \in Required : r \in c.scope
    /\ \A r \in c.scope : r \in session[c.sid].scope /\ r \in registry[c.client].scopes

\* The session keeps a scope that the client has lost: all its tokens are refused
Outgrown(q) ==
    /\ q.guard = "scopes" /\ q.claims.sid # NoSession /\ q.claims.client # NoClient
    /\ \E r \in session[q.claims.sid].scope : r \notin registry[q.claims.client].scopes

\* An active user and a live session of theirs, fit for the guard
Standing(q) ==
    /\ q.claims.sub \in active
    /\ q.claims.sid # NoSession =>
         /\ session[q.claims.sid].state = "live"
         /\ session[q.claims.sid].user = q.claims.sub
         /\ now < session[q.claims.sid].expires
    /\ IF q.guard = "scopes" THEN Delegated(q) ELSE FirstParty(q)

Good(q) == q.via # "none" /\ now <= q.claims.exp /\ Standing(q)

-----------------------------------------------------------------------------
(* A request at its guard *)

\* The ids of sessions are random: no token names a session that is still to come
Arrive(w, q) ==
    /\ pc[w] = "idle"
    /\ q.refresh => q.via = "none"
    /\ q.safe \/ q.via = "cookie"
    /\ q.claims.sid # NoSession => session[q.claims.sid].state # "none"
    /\ pc' = [pc EXCEPT ![w] = "arrived"]
    /\ job' = [job EXCEPT ![w] = q]
    /\ wasGood' = [wasGood EXCEPT ![w] = Good(q)]
    /\ UNCHANGED rows

\* The guard goes on, or raises
Check(w, test, next) ==
    /\ pc' = [pc EXCEPT ![w] = IF test THEN next ELSE "refused"]
    /\ UNCHANGED <<job, wasGood, rows>>

\* codec.decode: signature, type and expiry
Decodes(c) == now <= c.exp

CsrfSafe(q) == q.via = "cookie" => q.safe

\* resolve without a token: current_user_or_none lets a visitor through, but not one
\* with a refresh cookie, who is to refresh first
ResolveVisitor(w) ==
    /\ pc[w] = "arrived" /\ job[w].guard # "scopes" /\ job[w].via = "none"
    /\ Check(w, job[w].guard = "optional" /\ ~job[w].refresh, "visitor")

\* resolve up to the query of the session; a token without sid needs none
ResolveToken(w) ==
    LET c == job[w].claims IN
    /\ pc[w] = "arrived" /\ job[w].guard # "scopes" /\ job[w].via # "none"
    /\ Check(w, /\ CsrfSafe(job[w]) /\ Decodes(c)
                /\ c.sid = NoSession => c.client = NoClient /\ c.scope = NoScope,
             IF c.sid = NoSession THEN "user" ELSE "session")

\* Variant of LiveSession: the expiry of the session is left to the token.
UnrevokedSession(c) ==
    session[c.sid].state = "live" /\ session[c.sid].user = c.sub

LiveSession(c) ==
    /\ session[c.sid].state = "live"
    /\ session[c.sid].user = c.sub
    /\ now < session[c.sid].expires

\* _reject_oauth2_token_on_default_dependency
OAuthMetadata(c) ==
    \/ c.client # NoClient \/ c.scope # NoScope
    \/ session[c.sid].client # NoClient \/ session[c.sid].scope # NoScope

ResolveSession(w) ==
    /\ pc[w] = "session" /\ job[w].guard # "scopes"
    /\ Check(w, LiveSession(job[w].claims) /\ ~OAuthMetadata(job[w].claims), "user")

\* require_oauth2_scopes up to the query of the session
PrincipalToken(w) ==
    LET c == job[w].claims IN
    /\ pc[w] = "arrived" /\ job[w].guard = "scopes"
    /\ Check(w, /\ job[w].via = "bearer" /\ Decodes(c)
                /\ c.sid # NoSession /\ c.client # NoClient /\ c.scope # NoScope
                /\ registry[c.client].enabled,
             "session")

\* Variant of WithinGrant: the route's scopes are looked up in the session.
GrantedToSession(c) ==
    /\ session[c.sid].scope \subseteq registry[c.client].scopes
    /\ Required \subseteq session[c.sid].scope

\* Variant of WithinGrant: a narrower session must equal the token.
SameAsGrant(c) ==
    /\ c.scope = session[c.sid].scope
    /\ session[c.sid].scope \subseteq registry[c.client].scopes
    /\ Required \subseteq c.scope

WithinGrant(c) ==
    /\ c.scope \subseteq session[c.sid].scope
    /\ session[c.sid].scope \subseteq registry[c.client].scopes
    /\ Required \subseteq c.scope

PrincipalSession(w) ==
    LET c == job[w].claims IN
    /\ pc[w] = "session" /\ job[w].guard = "scopes"
    /\ Check(w, /\ LiveSession(c)
                /\ session[c.sid].client = c.client /\ session[c.sid].scope # NoScope
                /\ WithinGrant(c),
             "user")

\* The last query of both
LoadUser(w) ==
    /\ pc[w] = "user"
    /\ Check(w, job[w].claims.sub \in active, "admitted")

Final == {"admitted", "visitor", "refused"}

End(w) ==
    /\ pc[w] \in Final
    /\ pc' = [pc EXCEPT ![w] = "idle"]
    /\ job' = [job EXCEPT ![w] = NoRequest]
    /\ wasGood' = [wasGood EXCEPT ![w] = FALSE]
    /\ UNCHANGED rows

-----------------------------------------------------------------------------
(* What other requests commit meanwhile *)

quiet == <<pc, job, wasGood>>

\* A login, without client and scope, or an exchange of a registered client
Open(s, u, c, scope) ==
    /\ session[s].state = "none"
    /\ u \in active
    /\ IF c = NoClient THEN scope = NoScope
       ELSE registry[c].enabled /\ scope # NoScope /\ scope \subseteq registry[c].scopes
    /\ session' = [session EXCEPT ![s] = [state |-> "live", user |-> u, client |-> c,
                     scope |-> scope, expires |-> now + SessionLife]]
    /\ UNCHANGED <<registry, active, now, quiet>>

\* A refresh that asks for less
Narrow(s, scope) ==
    /\ session[s].state = "live" /\ session[s].scope # NoScope
    /\ scope \subseteq session[s].scope
    /\ session' = [session EXCEPT ![s].scope = scope]
    /\ UNCHANGED <<registry, active, now, quiet>>

\* A logout or a replay; the deletion of the user takes the row with it
Revoke(s) ==
    /\ session[s].state = "live"
    /\ \E state \in {"revoked", "deleted"} : session' = [session EXCEPT ![s].state = state]
    /\ UNCHANGED <<registry, active, now, quiet>>

Deactivate(u) ==
    /\ active' = active \ {u}
    /\ UNCHANGED <<registry, session, now, quiet>>

\* Another configuration; the requests under way die with the process
Restart ==
    /\ registry' \in [Clients -> Entries]
    /\ pc' = [w \in Workers |-> "idle"]
    /\ job' = [w \in Workers |-> NoRequest]
    /\ wasGood' = [w \in Workers |-> FALSE]
    /\ UNCHANGED <<active, session, now>>

Tick ==
    /\ now < MaxTime
    /\ now' = now + 1
    /\ UNCHANGED <<registry, active, session, quiet>>

Guard(w) ==
    \/ \E q \in Request : Arrive(w, q)
    \/ ResolveVisitor(w) \/ ResolveToken(w) \/ ResolveSession(w)
    \/ PrincipalToken(w) \/ PrincipalSession(w)
    \/ LoadUser(w) \/ End(w)

Environment ==
    \/ \E s \in Sessions, u \in Users, c \in MaybeClient, scope \in MaybeScope :
         Open(s, u, c, scope)
    \/ \E s \in Sessions, scope \in SUBSET Scopes : Narrow(s, scope)
    \/ \E s \in Sessions : Revoke(s)
    \/ \E u \in Users : Deactivate(u)
    \/ Restart
    \/ Tick

Next == (\E w \in Workers : Guard(w)) \/ Environment

Spec == Init /\ [][Next]_vars

-----------------------------------------------------------------------------
(* Properties *)

\* A handler has a request exactly while it is busy.
TypeOK ==
    /\ registry \in [Clients -> Entries]
    /\ active \subseteq Users
    /\ session \in [Sessions -> Row]
    /\ pc \in [Workers -> {"idle", "arrived", "session", "user"} \cup Final]
    /\ job \in [Workers -> Request \cup {NoRequest}]
    /\ \A w \in Workers : pc[w] = "idle" <=> job[w] = NoRequest
    /\ wasGood \in [Workers -> BOOLEAN]
    /\ now \in Nat

\* What the answers to come depend on, given the tests behind: the rest of what made
\* the request good, which nothing but a new registration can restore once lost.
Pending(w) ==
    LET q == job[w] IN
    /\ q.claims.sid # NoSession => session[q.claims.sid].state # "none"
    /\ pc[w] = "arrived" /\ Good(q) => wasGood[w]
    /\ pc[w] = "session" =>
         /\ q.claims.sid # NoSession
         /\ IF q.guard = "scopes"
            THEN /\ q.via = "bearer" /\ q.claims.client # NoClient
                 /\ q.claims.scope # NoScope /\ registry[q.claims.client].enabled
            ELSE CsrfSafe(q)
         /\ Standing(q) => wasGood[w]
    /\ pc[w] = "user" /\ q.claims.sub \in active => wasGood[w]
    /\ pc[w] = "admitted" => wasGood[w]

\* The inductive invariant of the proofs.
IInv == TypeOK /\ \A w \in Workers : pc[w] # "idle" => Pending(w)

\* Whatever changes between the two queries of a guard, nobody is admitted who did
\* not deserve it on arrival: a logout, a narrowing, a deactivation or a withdrawn
\* registration that is committed holds for every later request, and no token
\* serves both kinds of guard.
AdmittedWereGood == \A w \in Workers : pc[w] = "admitted" => wasGood[w]

\* Nobody is refused who still deserves admission when the guard answers, but for
\* sessions that have outgrown their client: the guards are not stricter than that.
RefusedAreNotGood ==
    [][\A w \in Workers : pc[w] # "refused" /\ pc'[w] = "refused" /\ job[w].via # "none"
         => ~Good(job[w]) \/ Outgrown(job[w])]_vars
=============================================================================
