---------------------------- MODULE SessionManager ----------------------------
(***************************************************************************)
(* AuthSessionManager (frontend core/src/session.ts) and the calls that    *)
(* AuthClient makes through it (client.ts): a call whose answer is 401 is  *)
(* repeated once after a cookie refresh, which the calls of a tab share.   *)
(*                                                                         *)
(* A tab runs JavaScript: a response that is delivered runs to completion  *)
(* with everything that awaits it.  Cookie pairs are numbered as they are  *)
(* issued; 0 stands for no cookies.  The server is in BrowserSession.      *)
(***************************************************************************)
EXTENDS Naturals

CONSTANTS
    Tabs,        \* pages with an AuthSessionManager each, one cookie jar for all
    Calls,       \* calls that may be under way together
    TabOf,       \* the tab of each call
    NoCall

ASSUME CallAssumption == TabOf \in [Calls -> Tabs] /\ NoCall \notin Calls

VARIABLES
    generation,  \* of each manager
    promise,     \* refreshPromise: the call that started the refresh, or NoCall
    call,        \* the calls of request()
    flight,      \* the refresh each call has started
    jar          \* the cookie pair in the browser

managerVars == <<generation, promise, call, flight, jar>>

\* What a call asks for.  api: a route that only reads the cookies; login: login and
\* register; callback: oauthCallback; refresh: AuthClient.refresh(), not refreshOnce
Kinds == {"api", "login", "callback", "logout", "refresh"}

\* canRefreshFor; the resets of a password are as good as a login that is refused
MayRefresh(kind) == kind \notin {"login", "refresh"}

Call == [kind    : Kinds,
         pc      : {"idle", "first", "waiting", "second"},
         gen     : Nat,                      \* generation when it began
         cookie  : Nat,                      \* pair the fetch carries
         reply   : {"none", "cookies", "ok", "unauthorized"},
         sets    : Nat,                      \* pair in a reply with cookies
         awaits  : Calls \cup {NoCall}]      \* refresh it waits for

\* denied: a 401 of the session service; forbidden: a 403 of a CSRF test or the product
Flight == [state : {"none", "sent", "granted", "landed", "denied", "forbidden", "failed"},
           cookie : Nat]

NoFlight == [state |-> "none", cookie |-> 0]
Idle == [kind |-> "api", pc |-> "idle", gen |-> 0, cookie |-> 0, reply |-> "none",
         sets |-> 0, awaits |-> NoCall]

ManagerInit ==
    /\ generation = [t \in Tabs |-> 0]
    /\ promise = [t \in Tabs |-> NoCall]
    /\ call = [c \in Calls |-> Idle]
    /\ flight = [c \in Calls |-> NoFlight]

-----------------------------------------------------------------------------
(* request() *)

Busy == {c \in Calls : call[c].pc # "idle"}

Begin(c, kind) ==
    /\ c \notin Busy
    /\ call' = [call EXCEPT ![c] = [Idle EXCEPT
                  !.kind = kind, !.pc = "first", !.gen = generation[TabOf[c]],
                  !.cookie = jar]]
    /\ UNCHANGED <<generation, promise, flight, jar>>

\* The answer is final: not a 401, or one of the second attempt, or of a call that
\* may not refresh
Settle(c) ==
    /\ \/ call[c].reply = "ok"
       \/ /\ call[c].reply = "unauthorized"
          /\ call[c].pc = "second" \/ ~MayRefresh(call[c].kind)
    /\ call' = [call EXCEPT ![c] = Idle]
    /\ UNCHANGED <<generation, promise, flight, jar>>

\* Variant of FirstUnauthorized: a second attempt is repeated as well.
AnyUnauthorized(c) ==
    /\ call[c].pc \in {"first", "second"}
    /\ call[c].reply = "unauthorized" /\ MayRefresh(call[c].kind)

FirstUnauthorized(c) ==
    call[c].pc = "first" /\ call[c].reply = "unauthorized" /\ MayRefresh(call[c].kind)

\* Variant of UpToDate: the generation is not compared.
AlwaysUpToDate(c) == TRUE

UpToDate(c) == call[c].gen = generation[TabOf[c]]

\* A slow 401: the cookies have been renewed since the call began
RetryAtOnce(c) ==
    /\ FirstUnauthorized(c)
    /\ ~UpToDate(c)
    /\ call' = [call EXCEPT ![c].pc = "second", ![c].cookie = jar, ![c].reply = "none"]
    /\ UNCHANGED <<generation, promise, flight, jar>>

\* Variant of InFlight: refreshOnce does not look for a refresh under way.
NeverInFlight(t) == FALSE

InFlight(t) == promise[t] # NoCall

\* refreshOnce
Await(c, first) ==
    call' = [call EXCEPT ![c].pc = "waiting", ![c].awaits = first,
                         ![c].cookie = 0, ![c].reply = "none", ![c].gen = 0]

ShareRefresh(c) ==
    /\ FirstUnauthorized(c) /\ UpToDate(c)
    /\ InFlight(TabOf[c])
    /\ Await(c, promise[TabOf[c]])
    /\ UNCHANGED <<generation, promise, flight, jar>>

StartRefresh(c) ==
    /\ FirstUnauthorized(c) /\ UpToDate(c)
    /\ ~InFlight(TabOf[c])
    /\ promise' = [promise EXCEPT ![TabOf[c]] = c]
    /\ flight' = [flight EXCEPT ![c] = [state |-> "sent", cookie |-> jar]]
    /\ Await(c, c)
    /\ UNCHANGED <<generation, jar>>

\* Variant of Waiters: only the call that started the refresh goes on.
FirstWaiter(c) == {c}

\* The calls that await the refresh of c
Waiters(c) == {d \in Calls : call[d].awaits = c}

\* Its promise is settled: cleared, and its waiters go on
Settled(c) ==
    /\ promise' = [promise EXCEPT ![TabOf[c]] = NoCall]
    /\ flight' = [flight EXCEPT ![c] = NoFlight]

RefreshSucceeds(c) ==
    /\ flight[c].state = "landed"
    /\ generation' = [generation EXCEPT ![TabOf[c]] = @ + 1]
    /\ Settled(c)
    /\ call' = [d \in Calls |-> IF d \in Waiters(c)
                                THEN [call[d] EXCEPT !.pc = "second", !.awaits = NoCall,
                                                     !.cookie = jar]
                                ELSE call[d]]
    /\ UNCHANGED jar

\* Variant of SaysExpired: whatever is not a success.
SaysNotOk(c) == TRUE

\* A 401 or 403 is an expired session; any other status, or a network error, is not
SaysExpired(c) == flight[c].state \in {"denied", "forbidden"}

\* refreshFailed of the result with which call c ends in a step
RefreshFailed(c) ==
    \/ call[c].pc = "waiting" /\ SaysExpired(call[c].awaits)
    \/ call[c].pc = "second" /\ call[c].reply = "unauthorized"

RefreshFails(c) ==
    /\ flight[c].state \in {"denied", "forbidden", "failed"}
    /\ Settled(c)
    /\ call' = [d \in Calls |-> IF d \in Waiters(c) THEN Idle ELSE call[d]]
    /\ UNCHANGED <<generation, jar>>

\* The headers of a response reach the browser before its JavaScript runs
SetCookies(c) ==
    \/ /\ flight[c].state = "granted"
       /\ jar' = flight[c].cookie
       /\ flight' = [flight EXCEPT ![c].state = "landed"]
       /\ UNCHANGED <<generation, promise, call>>
    \/ /\ call[c].reply = "cookies"
       /\ jar' = call[c].sets
       /\ call' = [call EXCEPT ![c].reply = "ok", ![c].sets = 0]
       /\ UNCHANGED <<generation, promise, flight>>

\* The network fails, after the server has acted or before
LoseCall(c) ==
    /\ call[c].pc \in {"first", "second"}
    /\ call' = [call EXCEPT ![c] = Idle]
    /\ UNCHANGED <<generation, promise, flight, jar>>

LoseRefresh(c) ==
    /\ flight[c].state = "granted"
    /\ flight' = [flight EXCEPT ![c].state = "failed"]
    /\ UNCHANGED <<generation, promise, call, jar>>

Progress(c) == Settle(c) \/ RetryAtOnce(c) \/ ShareRefresh(c) \/ StartRefresh(c)
RefreshProgress(c) == RefreshSucceeds(c) \/ RefreshFails(c)

-----------------------------------------------------------------------------

\* The promise of a tab and whatever a call awaits are refreshes under way.
ManagerTypeOK ==
    LET started == {c \in Calls : flight[c].state # "none"} IN
    /\ generation \in [Tabs -> Nat]
    /\ promise \in [Tabs -> started \cup {NoCall}]
    /\ call \in [Calls -> Call]
    /\ flight \in [Calls -> Flight]
    /\ \A c \in Calls : IF call[c].pc = "waiting" THEN call[c].awaits \in started
                        ELSE call[c].awaits = NoCall
    /\ jar \in Nat
=============================================================================
