-------------------------- MODULE OAuthBrowserFlow --------------------------
(***************************************************************************)
(* Signing in with a provider in one browser tab (frontend core/src/       *)
(* oauth.ts, forms/src/OAuthButtons.tsx): state and verifier wait in       *)
(* sessionStorage while the user is at the provider.                       *)
(*                                                                         *)
(* A flow stands for its state, its verifier, the challenge of that        *)
(* verifier and the code it earns, which are all different for different   *)
(* flows.  The callback page is the product's; it uses consumeOAuthState   *)
(* and consumeOAuthCodeVerifier.                                           *)
(***************************************************************************)
EXTENDS Naturals

CONSTANTS
    Attempts,   \* attempts to sign in; those with a provider are flows
    Providers,
    Consents,   \* what callbackPayload may hold
    NoAttempt, NoProvider, NoConsent,
    StateLife,  \* STATE_TTL_MS
    MaxTime     \* bound on the clock

ASSUME FlowAssumption == NoAttempt \notin Attempts /\ NoProvider \notin Providers
ASSUME ClockAssumption == StateLife \in Nat /\ MaxTime \in Nat

VARIABLES
    page,      \* what the tab shows: the form, a provider or the callback page
    target,    \* the flow whose address the tab shows, or is about to
    phase,     \* of each attempt
    provider, consent,  \* of each attempt: where it goes, what was agreed to
    state,     \* orcestr_auth_state_<provider> in sessionStorage
    verifier,  \* orcestr_auth_verifier_<provider> in sessionStorage
    post,      \* history: the request of the callback page for each flow
    latest,    \* history: the flow started last with each provider, until a callback
    now

flowVars == <<page, target, phase, provider, consent, state, verifier, post, latest, now>>

\* hashing: the digest of the verifier is awaited; assigned: location.href is set
Phases == {"idle", "posted", "hashing", "assigned", "away", "returned", "lost"}

Entry == [flow : Attempts \cup {NoAttempt}, at : Nat, consent : Consents \cup {NoConsent}]
NoEntry == [flow |-> NoAttempt, at |-> 0, consent |-> NoConsent]

Post == [count : 0..2, verifier : Attempts \cup {NoAttempt},
         consent : Consents \cup {NoConsent}, age : Nat]
NoPost == [count |-> 0, verifier |-> NoAttempt, consent |-> NoConsent, age |-> 0]

FlowInit ==
    /\ page = "form" /\ target = NoAttempt
    /\ phase = [f \in Attempts |-> "idle"]
    /\ provider = [f \in Attempts |-> NoProvider]
    /\ consent = [f \in Attempts |-> NoConsent]
    /\ state = [p \in Providers |-> NoEntry]
    /\ verifier = [p \in Providers |-> NoAttempt]
    /\ post = [f \in Attempts |-> NoPost]
    /\ latest = [p \in Providers |-> NoAttempt]
    /\ now = 0

-----------------------------------------------------------------------------
(* The page with the buttons *)

\* Variant of Store: a verifier that is there already is used again.
StoreReusing(f, p, docs) ==
    /\ state' = [state EXCEPT ![p] = [flow |-> f, at |-> now, consent |-> docs]]
    /\ verifier' = [verifier EXCEPT ![p] = IF @ = NoAttempt THEN f ELSE @]

\* createOAuthState and the verifier beside it, in one turn of the event loop
Store(f, p, docs) ==
    /\ state' = [state EXCEPT ![p] = [flow |-> f, at |-> now, consent |-> docs]]
    /\ verifier' = [verifier EXCEPT ![p] = f]

\* authorizeProvider and buildOAuthAuthorizeUrl up to the digest
Start(f, p, docs) ==
    /\ page = "form" /\ phase[f] = "idle"
    /\ Store(f, p, docs)
    /\ phase' = [phase EXCEPT ![f] = "hashing"]
    /\ provider' = [provider EXCEPT ![f] = p]
    /\ consent' = [consent EXCEPT ![f] = docs]
    /\ latest' = [latest EXCEPT ![p] = f]
    /\ UNCHANGED <<page, target, post, now>>

\* The digest: the address is assigned, and replaces one assigned before
Digest(f) ==
    /\ page = "form" /\ phase[f] = "hashing"
    /\ phase' = [phase EXCEPT ![f] = "assigned"]
    /\ target' = f
    /\ UNCHANGED <<page, provider, consent, state, verifier, post, latest, now>>

\* The page goes, and with it every script on it
Left == [f \in Attempts |-> IF phase[f] \in {"hashing", "assigned"} THEN "lost" ELSE phase[f]]

Navigate ==
    /\ page = "form" /\ target # NoAttempt
    /\ page' = "provider"
    /\ phase' = [Left EXCEPT ![target] = "away"]
    /\ UNCHANGED <<target, provider, consent, state, verifier, post, latest, now>>

-----------------------------------------------------------------------------
(* The provider and the browser's history *)

Approve ==
    /\ page = "provider"
    /\ page' = "callback"
    /\ phase' = [phase EXCEPT ![target] = "returned"]
    /\ UNCHANGED <<target, provider, consent, state, verifier, post, latest, now>>

GoBack ==
    /\ page = "provider"
    /\ page' = "form" /\ target' = NoAttempt
    /\ UNCHANGED <<phase, provider, consent, state, verifier, post, latest, now>>

\* An older provider or callback page is opened again from the history
Revisit(f) ==
    /\ page = "form" /\ phase[f] \in {"away", "returned"}
    /\ page' = IF phase[f] = "away" THEN "provider" ELSE "callback"
    /\ target' = f
    /\ phase' = Left
    /\ UNCHANGED <<provider, consent, state, verifier, post, latest, now>>

-----------------------------------------------------------------------------
(* The callback page *)

\* Variant of Acceptable: the entry ends a moment too early.
AcceptableEarly(f) ==
    LET entry == state[provider[f]] IN
    entry.flow = f /\ now - entry.at < StateLife

\* consumeOAuthState returns the entry, and its state is that of the address
Acceptable(f) ==
    LET entry == state[provider[f]] IN
    entry.flow = f /\ now - entry.at <= StateLife

\* Variant of Removed: the entry stays for another callback.
NotRemoved(p) == state

\* consumeOAuthState removes the entry, usable or not
Removed(p) == [state EXCEPT ![p] = NoEntry]

\* The page shows the destination next
Handled(p) ==
    /\ page' = "form" /\ target' = NoAttempt
    /\ state' = Removed(p)
    /\ latest' = [latest EXCEPT ![p] = NoAttempt]
    /\ UNCHANGED <<phase, provider, consent, now>>

AcceptCallback ==
    LET p == provider[target] IN
    /\ page = "callback" /\ Acceptable(target)
    /\ post[target].count < 2
    /\ post' = [post EXCEPT ![target] =
                  [count |-> @.count + 1, verifier |-> verifier[p],
                   consent |-> state[p].consent, age |-> now - state[p].at]]
    /\ verifier' = [verifier EXCEPT ![p] = NoAttempt]
    /\ Handled(p)

\* A product may drop the verifier of a flow it refuses, or leave it
RefuseCallback ==
    LET p == provider[target] IN
    /\ page = "callback" /\ ~Acceptable(target)
    /\ verifier' \in {verifier, [verifier EXCEPT ![p] = NoAttempt]}
    /\ Handled(p)
    /\ UNCHANGED post

Tick ==
    /\ now < MaxTime
    /\ now' = now + 1
    /\ UNCHANGED <<page, target, phase, provider, consent, state, verifier, post, latest>>

\* What a tab does by itself or by the user's hand, once a flow has been started
FlowStep ==
    \/ \E f \in Attempts : Digest(f) \/ Revisit(f)
    \/ Navigate \/ Approve \/ GoBack
    \/ AcceptCallback \/ RefuseCallback
    \/ Tick

-----------------------------------------------------------------------------
(* Properties *)

\* An entry of sessionStorage waits with the verifier of the same flow.
FlowTypeOK ==
    /\ page \in {"form", "provider", "callback"}
    /\ target \in Attempts \cup {NoAttempt}
    /\ page # "form" => target # NoAttempt
    /\ phase \in [Attempts -> Phases]
    /\ provider \in [Attempts -> Providers \cup {NoProvider}]
    /\ consent \in [Attempts -> Consents \cup {NoConsent}]
    /\ state \in [Providers -> Entry]
    /\ verifier \in [Providers -> Attempts \cup {NoAttempt}]
    /\ \A p \in Providers : state[p].flow # NoAttempt => verifier[p] = state[p].flow
    /\ post \in [Attempts -> Post]
    /\ latest \in [Providers -> Attempts \cup {NoAttempt}]
    /\ now \in Nat

\* The request of a callback page carries the verifier and the consent of the very
\* flow whose code it carries, within the lifetime of its state and only once, though
\* flows overwrite each other's entries and old pages come back (oauth.ts 28-88).
PostMatchesFlow ==
    \A f \in Attempts : post[f].count > 0 =>
      /\ post[f].count = 1
      /\ post[f].verifier = f
      /\ post[f].consent = consent[f]
      /\ post[f].age <= StateLife

\* An entry waits for the flow that was started last, which has not been handled.
EntriesWait ==
    \A p \in Providers :
      /\ latest[p] = state[p].flow
      /\ \A f \in Attempts : state[p].flow = f =>
           /\ provider[f] = p /\ consent[f] = state[p].consent
           /\ phase[f] # "idle" /\ post[f].count = 0
           /\ state[p].at <= now

\* What the tab shows fits how far its flow has come; flows have a provider.
PhasesFit ==
    /\ target # NoAttempt =>
         phase[target] = (CASE page = "form" -> "assigned"
                            [] page = "provider" -> "away"
                            [] page = "callback" -> "returned")
    /\ \A f \in Attempts :
         /\ phase[f] \notin {"idle", "posted"} => provider[f] \in Providers
         /\ phase[f] = "idle" => post[f].count = 0

\* What PostMatchesFlow rests on, and it
FlowInv == FlowTypeOK /\ EntriesWait /\ PhasesFit /\ PostMatchesFlow

\* A callback is refused only if it is late, or another flow has been started with
\* the provider since, or another callback has taken the entry.
RefusalIsFounded ==
    [][page = "callback" /\ page' = "form" /\ post' = post =>
         LET p == provider[target] IN
         latest[p] # target \/ now - state[p].at > StateLife]_flowVars
=============================================================================
