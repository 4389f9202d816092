---------------------------- MODULE BrowserSession ----------------------------
(***************************************************************************)
(* The tabs of one browser with the routes of the server (fastapi/         *)
(* router.py, cookies.py): calls of SessionManager are answered in any     *)
(* order, and answers of different calls reach the cookie jar in any order.*)
(*                                                                         *)
(* A session is named by the first pair issued for it.  As AuthSessions    *)
(* shows, the current refresh token of a live session is exchanged for its *)
(* successor, and presenting an older one ends the session.  The product's *)
(* AuthHttpApplication calls the session service and adds refusals.        *)
(***************************************************************************)
EXTENDS SessionManager, FiniteSets

CONSTANTS
    KindsOf,     \* what each call may ask for
    NoTab,
    MaxPairs     \* bound on the cookie pairs issued

ASSUME KindAssumption == KindsOf \in [Calls -> SUBSET Kinds]
ASSUME PairAssumption == MaxPairs \in Nat \ {0}
ASSUME SetsAssumption == IsFiniteSet(Calls) /\ NoTab \notin Tabs

VARIABLES
    family,      \* the session of each pair, 0 for a pair not issued yet
    ended,       \* sessions that are revoked
    oldest,      \* oldest pair whose access token has not expired
    stray,       \* pairs in refresh requests the tab has given up, on their way
    leaving,     \* and in logouts
    owner        \* history: the tab whose refreshOnce asked for the pair

serverVars == <<family, ended, oldest, stray, leaving, owner>>
vars == <<managerVars, serverVars>>

Pairs == 1..MaxPairs
Issued == {n \in Pairs : family[n] # 0}
Current(f) == CHOOSE n \in Issued : family[n] = f /\ \A m \in Issued : family[m] = f => m <= n

\* The browser is logged in
Init ==
    /\ ManagerInit
    /\ jar = 1
    /\ family = [n \in Pairs |-> IF n = 1 THEN 1 ELSE 0]
    /\ ended = {}
    /\ oldest = 1
    /\ stray = {} /\ leaving = {}
    /\ owner = [n \in Pairs |-> NoTab]

-----------------------------------------------------------------------------
(* The routes *)

Asked(c, kinds) ==
    /\ call[c].kind \in kinds
    /\ call[c].pc \in {"first", "second"} /\ call[c].reply = "none"

Answer(c, reply) ==
    /\ call' = [call EXCEPT ![c].reply = reply]
    /\ UNCHANGED <<generation, promise, flight, jar>>

\* _start_browser_session, or clear_auth_cookies
AnswerWithCookies(c, n) ==
    /\ call' = [call EXCEPT ![c].reply = "cookies", ![c].sets = n]
    /\ UNCHANGED <<generation, promise, flight, jar>>

NewPair == Cardinality(Issued) + 1

Issue(f, tab) ==
    /\ family' = [family EXCEPT ![NewPair] = f]
    /\ owner' = [owner EXCEPT ![NewPair] = tab]
    /\ UNCHANGED <<ended, oldest, stray, leaving>>

EndFamily(f) ==
    /\ ended' = ended \cup ({f} \ {0})
    /\ UNCHANGED <<family, oldest, stray, leaving, owner>>

SessionOf(n) == IF n = 0 THEN 0 ELSE family[n]

\* Access tokens are valid until they expire or their session is revoked
Valid(n) == n # 0 /\ n >= oldest /\ SessionOf(n) \notin ended

\* The refresh token of the pair is the one rotate exchanges
Rotatable(n) == n # 0 /\ SessionOf(n) \notin ended /\ n = Current(SessionOf(n))

ServeApi(c) ==
    /\ Asked(c, {"api"})
    /\ Answer(c, IF Valid(call[c].cookie) THEN "ok" ELSE "unauthorized")
    /\ UNCHANGED serverVars

\* register, login, oauth: a session of its own, whatever cookies there are
ServeLogin(c) ==
    /\ Asked(c, {"login", "callback"})
    /\ \/ /\ AnswerWithCookies(c, NewPair)
          /\ Issue(NewPair, NoTab)
       \/ /\ Answer(c, "unauthorized")
          /\ UNCHANGED serverVars

\* Variant of Revoked: a refresh token that has been exchanged is not found.
RevokedIfCurrent(n) == IF Rotatable(n) THEN SessionOf(n) ELSE 0

\* revoke finds the session by any of its tokens
Revoked(n) == SessionOf(n)

ServeLogout(c) ==
    /\ Asked(c, {"logout"})
    /\ AnswerWithCookies(c, 0)
    /\ EndFamily(Revoked(call[c].cookie))

\* AuthClient.refresh()
ServeRefresh(c) ==
    LET n == call[c].cookie IN
    /\ Asked(c, {"refresh"})
    /\ IF Rotatable(n)
       THEN AnswerWithCookies(c, NewPair) /\ Issue(SessionOf(n), NoTab)
       ELSE Answer(c, "unauthorized") /\ EndFamily(SessionOf(n))

\* The refresh of refreshOnce
Rotate(c) ==
    LET n == flight[c].cookie IN
    /\ flight[c].state = "sent"
    /\ IF Rotatable(n)
       THEN /\ flight' = [flight EXCEPT ![c] = [state |-> "granted", cookie |-> NewPair]]
            /\ Issue(SessionOf(n), TabOf[c])
       ELSE /\ flight' = [flight EXCEPT ![c].state = "denied"]
            /\ EndFamily(SessionOf(n))
    /\ UNCHANGED <<generation, promise, call, jar>>

\* Another status: 5xx, or a refusal that is not the session service's, of which a
\* refresh tells a 403
Unavailable(c) ==
    /\ \/ Asked(c, Kinds) /\ Answer(c, "ok")
       \/ /\ flight[c].state = "sent"
          /\ \E state \in {"failed", "forbidden"} :
               flight' = [flight EXCEPT ![c].state = state]
          /\ UNCHANGED <<generation, promise, call, jar>>
    /\ UNCHANGED serverVars

Expire ==
    /\ oldest <= Cardinality(Issued)
    /\ oldest' = NewPair
    /\ UNCHANGED <<managerVars, family, ended, stray, leaving, owner>>

\* A session ends without the browser: its lifetime is over, its user is no longer
\* active, or it has been revoked elsewhere
EndElsewhere(f) ==
    /\ f \notin ended
    /\ EndFamily(f)
    /\ UNCHANGED managerVars

\* The network fails while the request is on its way to the server: a refresh of
\* refreshOnce, an explicit one, or a logout.  (A login on its way would start a session
\* whose pair nobody holds, like one whose answer is lost: LoseCall.)
Strand(c) ==
    /\ \/ /\ flight[c].state = "sent"
          /\ flight' = [flight EXCEPT ![c].state = "failed"]
          /\ stray' = stray \cup ({flight[c].cookie} \ {0})
          /\ UNCHANGED <<call, leaving>>
       \/ /\ Asked(c, {"refresh"})
          /\ stray' = stray \cup ({call[c].cookie} \ {0})
          /\ call' = [call EXCEPT ![c] = Idle]
          /\ UNCHANGED <<flight, leaving>>
       \/ /\ Asked(c, {"logout"})
          /\ leaving' = leaving \cup ({call[c].cookie} \ {0})
          /\ call' = [call EXCEPT ![c] = Idle]
          /\ UNCHANGED <<flight, stray>>
    /\ UNCHANGED <<generation, promise, jar, family, ended, oldest, owner>>

\* It arrives all the same; its answer reaches nobody
RotateLate(n) ==
    /\ stray' = stray \ {n}
    /\ IF Rotatable(n)
       THEN /\ family' = [family EXCEPT ![NewPair] = family[n]]
            /\ UNCHANGED ended
       ELSE ended' = ended \cup {family[n]} /\ UNCHANGED family
    /\ UNCHANGED <<managerVars, oldest, leaving, owner>>

RevokeLate(n) ==
    /\ leaving' = leaving \ {n}
    /\ ended' = ended \cup {Revoked(n)}
    /\ UNCHANGED <<managerVars, family, oldest, stray, owner>>

-----------------------------------------------------------------------------

\* Bound: a call may ask for a pair by itself and by a refresh, and MaxPairs are issued;
\* a logout on its way counts like a pair
Asking == {"login", "callback", "refresh"}
Renewing == {"api", "callback"}
Needs(kind) == (IF kind \in Asking THEN 1 ELSE 0) + (IF kind \in Renewing THEN 1 ELSE 0)
BusyWith(kinds) == {c \in Busy : call[c].kind \in kinds}
PairLeft(kind) ==
    Cardinality(Issued) + Cardinality(BusyWith(Asking)) + Cardinality(BusyWith(Renewing))
      + Cardinality(stray) + Cardinality(leaving) + Needs(kind) <= MaxPairs

Serve(c) ==
    \/ ServeApi(c) \/ ServeLogin(c) \/ ServeLogout(c) \/ ServeRefresh(c) \/ Rotate(c)
    \/ Unavailable(c)

Script(c) ==
    /\ Progress(c) \/ RefreshProgress(c) \/ SetCookies(c)
    /\ UNCHANGED serverVars

Lose(c) ==
    \/ (LoseCall(c) \/ LoseRefresh(c)) /\ UNCHANGED serverVars
    \/ Strand(c)

Next ==
    \/ \E c \in Calls : Script(c) \/ Serve(c) \/ Lose(c)
    \/ \E c \in Calls : \E kind \in KindsOf[c] :
         PairLeft(kind) /\ Begin(c, kind) /\ UNCHANGED serverVars
    \/ \E n \in stray : RotateLate(n)
    \/ \E n \in leaving : RevokeLate(n)
    \/ \E n \in Issued : EndElsewhere(family[n])
    \/ Expire

Spec == Init /\ [][Next]_vars

\* A fetch is answered or rejected, and the event loop runs what it settles
FairSpec == Spec /\ \A c \in Calls : WF_vars(Script(c) \/ Serve(c))

-----------------------------------------------------------------------------
(* Properties *)

\* A session is named by its first pair, and the jar holds pairs that were issued.
TypeOK ==
    /\ ManagerTypeOK
    /\ jar \in Issued \cup {0}
    /\ family \in [Pairs -> 0..MaxPairs]
    /\ \A n \in Pairs : family[n] <= n
    /\ \A n \in Issued : family[family[n]] = family[n]
    /\ ended \subseteq Issued
    /\ oldest \in 1..(Cardinality(Issued) + 1)
    /\ owner \in [Pairs -> Tabs \cup {NoTab}]

\* Neither the browser nor an answer on its way holds the pair
Lost(n) ==
    /\ jar # n
    /\ \A c \in Calls : /\ flight[c] # [state |-> "granted", cookie |-> n]
                        /\ ~(call[c].reply = "cookies" /\ call[c].sets = n)

\* Pairs are issued in order, and enough are left for what is under way.
Open(c) == call[c].pc # "idle" /\ call[c].reply \notin {"cookies", "ok"}
WillAsk == {c \in Calls : call[c].kind \in Asking /\ Open(c)}
WillRenew == {c \in Calls : \/ call[c].kind \in Renewing /\ Open(c) /\ call[c].pc = "first"
                            \/ flight[c].state = "sent"}
PairsInOrder ==
    /\ \A n \in Pairs : family[n] # 0 <=> n <= Cardinality(Issued)
    /\ \A n \in Pairs \ Issued : owner[n] = NoTab
    /\ Cardinality(Issued) + Cardinality(WillAsk) + Cardinality(WillRenew)
         + Cardinality(stray) <= MaxPairs

\* What a call holds and was told: a 401 of a route that reads cookies means that they
\* are useless, and a cleared jar that the session has ended.
AnswerHolds(c) ==
    /\ {call[c].cookie, call[c].sets} \subseteq Issued \cup {0}
    /\ call[c].sets # 0 => owner[call[c].sets] = NoTab
    /\ call[c].gen <= generation[TabOf[c]]
    /\ call[c].reply # "none" => call[c].pc \in {"first", "second"}
    /\ call[c].reply = "unauthorized" =>
         call[c].kind # "logout" /\ (call[c].kind = "api" => ~Valid(call[c].cookie))
    /\ call[c].reply = "cookies" /\ call[c].sets = 0 =>
         SessionOf(call[c].cookie) \in ended \cup {0}

\* A tab has one refresh under way, whose starter awaits it.  One that was sent holds
\* the current pair of its session, or a pair that something else has renewed.
RefreshHolds(c) ==
    LET n == flight[c].cookie
        f == SessionOf(n)
    IN  /\ flight[c].state # "none" <=> promise[TabOf[c]] = c
        /\ flight[c].state # "none" => /\ call[c].pc = "waiting" /\ call[c].awaits = c
                                       /\ call[c].kind \in Renewing
        /\ n \in Issued \cup {0}
        /\ flight[c].state = "granted" => n # 0 /\ owner[n] = TabOf[c]
        /\ flight[c].state = "denied" => f \in ended \cup {0}
        /\ flight[c].state = "sent" /\ f \notin ended \cup {0} =>
             \/ n = Current(f)
             \/ owner[Current(f)] # TabOf[c]
             \/ Lost(Current(f))

\* The jar of a first attempt has not been renewed by its own tab, unless that refresh
\* is about to count.
JarHolds(c) ==
    LET t == TabOf[c] IN
    call[c].pc = "first" /\ call[c].gen = generation[t] =>
      \/ jar \in {0, call[c].cookie}
      \/ owner[jar] # t
      \/ promise[t] # NoCall /\ flight[promise[t]].state = "landed"

\* The calls and refreshes under way agree with the sessions.
Consistent ==
    /\ TypeOK
    /\ stray \subseteq Issued
    /\ PairsInOrder
    /\ \A t \in Tabs : promise[t] # NoCall => TabOf[promise[t]] = t
    /\ \A c \in Calls : AnswerHolds(c) /\ RefreshHolds(c) /\ JarHolds(c)

\* The inductive invariant
IInv == Consistent /\ leaving \subseteq Issued

Answered(c) == call[c].reply = "none" /\ call'[c].reply # "none"
Starts(c) == flight[c].state = "none" /\ flight'[c].state = "sent"
Denied(c) == flight[c].state = "sent" /\ flight'[c].state = "denied"
Clears(c) == call[c].reply = "cookies" /\ call[c].sets = 0 /\ call'[c].reply = "ok"

\* The calls of one tab never end their own session, however many 401s they meet
\* (refreshOnce): a session ends by a logout, by an explicit AuthClient.refresh(), by
\* a refresh or logout request its tab had given up, without the browser, by a refresh
\* of a tab other than the one that refreshed last, or once its last pair is lost, by
\* the network or because a login has replaced it.
NoSelfLogout ==
    [][\A f \in ended' \ ended :
         \/ \E c \in Calls : call[c].kind \in {"logout", "refresh"} /\ Answered(c)
         \/ stray \ stray' # {} \/ leaving \ leaving' # {}
         \/ UNCHANGED <<managerVars, stray, leaving>>
         \/ \E c \in Calls : Denied(c) /\ TabOf[c] # owner[Current(f)]
         \/ Lost(Current(f))]_vars

\* "SDK and application API share one refresh, including a delayed old 401"
\* (frontend/tests/core.test.mjs:183): a call starts a refresh only while the cookies
\* of the browser are useless, never because its 401 came late, unless something other
\* than refreshOnce of its tab has renewed them.
RefreshOnlyWhenStale ==
    [][\A c \in Calls : call[c].kind = "api" /\ Starts(c)
         => ~Valid(jar) \/ TabOf[c] # owner[jar]]_vars

\* "refresh outages retain their server status and do not expire the session"
\* (core.test.mjs:211): refreshFailed is reported only of a session that has ended,
\* of no session at all, of a refresh that was forbidden, or of a pair that expired again
\* on the second attempt.
ExpiredIsTrue ==
    [][\A c \in Calls :
         call[c].kind = "api" /\ call[c].pc # "idle" /\ call'[c].pc = "idle" /\ RefreshFailed(c)
         => IF call[c].pc = "second" THEN ~Valid(call[c].cookie)
            ELSE \/ flight[call[c].awaits].state = "forbidden"
                 \/ SessionOf(flight[call[c].awaits].cookie) \in ended \cup {0}]_vars

\* "Logout revokes the server session before clearing cookies" (docs/security/
\* invariants.md:20), whichever refreshes overlap with it: the pair it takes from the
\* jar is useless, unless a login has put another session there meanwhile.
ClearedIsRevoked ==
    [][\A c \in Calls : Clears(c) /\ SessionOf(jar) = SessionOf(call[c].cookie)
         => jar = 0 \/ ~(Valid(jar) \/ Rotatable(jar))]_vars

\* Every call of request() comes to an end, with several tabs and lost answers.
CallsEnd == \A c \in Calls : call[c].pc # "idle" ~> call[c].pc = "idle"
=============================================================================
