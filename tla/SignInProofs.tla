---------------------------- MODULE SignInProofs ----------------------------
(***************************************************************************)
(* The form and its tab keep IInv, for any number of attempts, providers   *)
(* and documents: what a callback sends fits the flow it returns from, and *)
(* what is sent as accepted has been accepted, in the version shown.  Then *)
(* what the two requests of the backend agree on, and what a verified      *)
(* address rests on, for every configuration and every reply.              *)
(***************************************************************************)
EXTENDS SignIn, ProviderSignIn, WellFoundedInduction, TLAPS

-----------------------------------------------------------------------------
(* The tab: OAuthBrowserFlow *)

LEMMA NoEntryType ==
    /\ NoEntry \in Entry /\ NoEntry.flow = NoAttempt
    /\ NoPost \in Post /\ NoPost.count = 0
  BY DEF NoEntry, Entry, NoPost, Post

LEMMA FlowInitLemma == FlowInit => FlowInv
<1> SUFFICES ASSUME FlowInit PROVE FlowInv
  OBVIOUS
<1>1. FlowTypeOK
  BY NoEntryType DEF FlowInit, FlowTypeOK, Phases
<1>2. EntriesWait /\ PhasesFit /\ PostMatchesFlow
  BY NoEntryType, FlowAssumption DEF FlowInit, EntriesWait, PhasesFit, PostMatchesFlow
<1> QED
  BY <1>1, <1>2 DEF FlowInv

\* A flow that starts overwrites the entries of its provider with its own.
LEMMA StartKeeps ==
    ASSUME FlowInv, NEW i \in Attempts, NEW p \in Providers,
           NEW docs \in Consents \cup {NoConsent}, Start(i, p, docs)
    PROVE  FlowInv'
<1> DEFINE entry == [flow |-> i, at |-> now, consent |-> docs]
<1>1. /\ FlowTypeOK /\ EntriesWait /\ PhasesFit /\ PostMatchesFlow
      /\ page = "form" /\ phase[i] = "idle" /\ i # NoAttempt /\ target # i
  BY FlowAssumption DEF FlowInv, Start, PhasesFit
<1>2. entry \in Entry /\ entry.flow = i /\ entry.at = now /\ entry.consent = docs
  BY <1>1 DEF FlowTypeOK, Entry
<1> HIDE DEF entry
<1>3. /\ state' = [state EXCEPT ![p] = entry] /\ verifier' = [verifier EXCEPT ![p] = i]
      /\ phase' = [phase EXCEPT ![i] = "hashing"] /\ provider' = [provider EXCEPT ![i] = p]
      /\ consent' = [consent EXCEPT ![i] = docs] /\ latest' = [latest EXCEPT ![p] = i]
      /\ UNCHANGED <<page, target, post, now>>
  BY DEF Start, Store, entry
<1>4. FlowTypeOK'
  BY <1>1, <1>2, <1>3 DEF FlowTypeOK, Phases
<1>5. EntriesWait'
  <2> SUFFICES ASSUME NEW q \in Providers, NEW f \in Attempts
               PROVE  /\ latest'[q] = state'[q].flow
                      /\ state'[q].flow = f =>
                           /\ provider'[f] = q /\ consent'[f] = state'[q].consent
                           /\ phase'[f] # "idle" /\ post'[f].count = 0
                           /\ state'[q].at <= now'
    BY DEF EntriesWait
  <2>1. CASE q = p
    BY <1>1, <1>2, <1>3, <2>1 DEF FlowTypeOK, PhasesFit
  <2>2. CASE q # p
    <3>1. state[q].flow # i
      BY <1>1 DEF EntriesWait
    <3> QED
      BY <1>1, <1>3, <2>2, <3>1 DEF FlowTypeOK, EntriesWait
  <2> QED
    BY <2>1, <2>2
<1>6. PhasesFit'
  BY <1>1, <1>3 DEF FlowTypeOK, PhasesFit
<1>7. PostMatchesFlow'
  BY <1>1, <1>3 DEF FlowTypeOK, PhasesFit, PostMatchesFlow
<1> QED
  BY <1>4, <1>5, <1>6, <1>7 DEF FlowInv

\* An attempt begins with the documents it was given, and no other one does.
LEMMA RunKeeps ==
    ASSUME FlowInv, NEW i \in Attempts, NEW p \in Providers \cup {NoProvider},
           NEW docs \in Consents \cup {NoConsent}, Run(i, p, docs)
    PROVE  /\ FlowInv'
           /\ phase[i] = "idle" /\ phase'[i] # "idle" /\ consent'[i] = docs
           /\ \A k \in Attempts : k # i => phase'[k] = phase[k] /\ consent'[k] = consent[k]
<1>1. /\ FlowTypeOK /\ EntriesWait /\ PhasesFit /\ PostMatchesFlow
  BY DEF FlowInv
<1>2. CASE p # NoProvider
  <2>1. p \in Providers /\ Start(i, p, docs)
    BY <1>2 DEF Run
  <2> QED
    BY <1>1, <2>1, StartKeeps DEF Start, FlowTypeOK
<1>3. CASE p = NoProvider
  <2>1. /\ phase[i] = "idle" /\ phase' = [phase EXCEPT ![i] = "posted"]
        /\ consent' = [consent EXCEPT ![i] = docs]
        /\ UNCHANGED <<page, target, provider, state, verifier, post, latest, now>>
        /\ page = "form"
    BY <1>3 DEF Run
  <2>2. \A q \in Providers : state[q].flow # i
    BY <1>1, <2>1 DEF EntriesWait
  <2>3. FlowTypeOK'
    BY <1>1, <2>1 DEF FlowTypeOK, Phases
  <2>4. EntriesWait'
    BY <1>1, <2>1, <2>2 DEF FlowTypeOK, EntriesWait
  <2>5. PhasesFit' /\ PostMatchesFlow'
    BY <1>1, <2>1 DEF FlowTypeOK, PhasesFit, PostMatchesFlow
  <2> QED
    BY <1>1, <2>1, <2>3, <2>4, <2>5 DEF FlowInv, FlowTypeOK
<1> QED
  BY <1>2, <1>3

\* An attempt that waits for consent may have a provider already.
LEMMA AskKeeps ==
    ASSUME FlowInv, NEW i \in Attempts, NEW p \in Providers \cup {NoProvider},
           phase[i] = "idle", provider' = [provider EXCEPT ![i] = p],
           UNCHANGED <<page, target, phase, consent, state, verifier, post, latest, now>>
    PROVE  FlowInv'
<1>1. /\ FlowTypeOK /\ EntriesWait /\ PhasesFit /\ PostMatchesFlow
  BY DEF FlowInv
<1>2. FlowTypeOK'
  BY <1>1 DEF FlowTypeOK
<1>3. EntriesWait'
  BY <1>1 DEF FlowTypeOK, EntriesWait
<1>4. PhasesFit' /\ PostMatchesFlow'
  BY <1>1 DEF FlowTypeOK, PhasesFit, PostMatchesFlow
<1> QED
  BY <1>2, <1>3, <1>4 DEF FlowInv

LEMMA FlowFrame ==
    ASSUME FlowInv, UNCHANGED flowVars
    PROVE  FlowInv'
  BY DEF FlowInv, flowVars, FlowTypeOK, EntriesWait, PhasesFit, PostMatchesFlow

\* The page moves on: nothing changes but what it shows and how far flows have come.
Moves == UNCHANGED <<provider, consent, state, verifier, post, latest, now>>

\* What a flow is about to do survives the page, or is lost; it does not begin again.
LEMMA LeftType ==
    ASSUME FlowTypeOK
    PROVE  /\ Left \in [Attempts -> Phases]
           /\ \A f \in Attempts : Left[f] = IF phase[f] \in {"hashing", "assigned"}
                                            THEN "lost" ELSE phase[f]
  BY DEF FlowTypeOK, Left, Phases

LEMMA MovesKeep ==
    ASSUME FlowInv, Moves, page' \in {"form", "provider", "callback"},
           phase' \in [Attempts -> Phases], target' \in Attempts \cup {NoAttempt},
           page' # "form" => target' # NoAttempt,
           target' # NoAttempt =>
             phase'[target'] = (CASE page' = "form" -> "assigned"
                                  [] page' = "provider" -> "away"
                                  [] page' = "callback" -> "returned"),
           \A f \in Attempts :
             phase'[f] \in {"idle", "posted"} \/ phase[f] \in {"idle", "posted"}
               => phase'[f] = phase[f]
    PROVE  FlowInv'
<1>1. /\ FlowTypeOK /\ EntriesWait /\ PhasesFit /\ PostMatchesFlow
  BY DEF FlowInv
<1>2. FlowTypeOK' /\ EntriesWait'
  BY <1>1 DEF Moves, FlowTypeOK, EntriesWait
<1>3. PhasesFit' /\ PostMatchesFlow'
  BY <1>1 DEF Moves, PhasesFit, PostMatchesFlow
<1> QED
  BY <1>2, <1>3 DEF FlowInv

LEMMA PageSteps ==
    ASSUME FlowInv,
           \/ \E f \in Attempts : Digest(f) \/ Revisit(f)
           \/ Navigate \/ Approve \/ GoBack
    PROVE  /\ FlowInv'
           /\ \A f \in Attempts : phase[f] = "idle" \/ phase'[f] = "idle" => phase'[f] = phase[f]
           /\ UNCHANGED <<consent, post>>
           /\ page = "callback" => page' = "callback"
<1>1. /\ FlowTypeOK /\ PhasesFit /\ phase \in [Attempts -> Phases]
      /\ target \in Attempts \cup {NoAttempt} /\ (page # "form" => target # NoAttempt)
  BY DEF FlowInv, FlowTypeOK
<1>2. ASSUME NEW f \in Attempts, Digest(f)
      PROVE  /\ phase' = [phase EXCEPT ![f] = "assigned"] /\ phase[f] = "hashing"
             /\ page = "form" /\ page' = "form" /\ target' = f /\ Moves
  BY <1>2 DEF Digest, Moves
<1>3. ASSUME NEW f \in Attempts, Revisit(f)
      PROVE  /\ phase' = Left /\ page = "form" /\ target' = f /\ Moves
             /\ \/ phase[f] = "away" /\ page' = "provider"
                \/ phase[f] = "returned" /\ page' = "callback"
  BY <1>3 DEF Revisit, Moves
<1>4. ASSUME Navigate
      PROVE  /\ phase' = [Left EXCEPT ![target] = "away"] /\ phase[target] = "assigned"
             /\ page = "form" /\ page' = "provider" /\ target' = target /\ target \in Attempts
             /\ Moves
  BY <1>1, <1>4 DEF Navigate, Moves, PhasesFit
<1>5. ASSUME Approve
      PROVE  /\ phase' = [phase EXCEPT ![target] = "returned"] /\ phase[target] = "away"
             /\ page = "provider" /\ page' = "callback" /\ target' = target /\ target \in Attempts
             /\ Moves
  BY <1>1, <1>5 DEF Approve, Moves, PhasesFit
<1>6. ASSUME GoBack
      PROVE  phase' = phase /\ page = "provider" /\ page' = "form" /\ target' = NoAttempt /\ Moves
  BY <1>6 DEF GoBack, Moves
<1>7. ASSUME NEW f \in Attempts, Digest(f) PROVE FlowInv'
  <2>1. phase' \in [Attempts -> Phases] /\ phase'[f] = "assigned"
        /\ \A k \in Attempts : k # f => phase'[k] = phase[k]
    BY <1>1, <1>2, <1>7 DEF Phases
  <2> QED
    BY <1>2, <1>7, <2>1, MovesKeep, FlowAssumption
<1>8. ASSUME NEW f \in Attempts, Revisit(f) PROVE FlowInv'
  BY <1>1, <1>3, <1>8, LeftType, MovesKeep, FlowAssumption
<1>9. CASE Navigate
  <2>1. phase' \in [Attempts -> Phases] /\ phase'[target] = "away"
        /\ \A k \in Attempts : k # target => phase'[k] = Left[k]
    BY <1>1, <1>4, <1>9, LeftType DEF Phases
  <2>2. FlowInv'
    BY <1>1, <1>4, <1>9, <2>1, LeftType, MovesKeep, FlowAssumption
  <2> QED
    BY <1>1, <1>4, <1>9, <2>1, <2>2, LeftType DEF Moves
<1>10. CASE Approve
  <2>1. phase' \in [Attempts -> Phases] /\ phase'[target] = "returned"
        /\ \A k \in Attempts : k # target => phase'[k] = phase[k]
    BY <1>1, <1>5, <1>10 DEF Phases
  <2>2. FlowInv'
    BY <1>1, <1>5, <1>10, <2>1, MovesKeep, FlowAssumption
  <2> QED
    BY <1>1, <1>5, <1>10, <2>1, <2>2 DEF Moves
<1>11. CASE GoBack
  <2>1. FlowInv'
    BY <1>1, <1>6, <1>11, MovesKeep, FlowAssumption
  <2> QED
    BY <1>6, <1>11, <2>1 DEF Moves
<1> QED
  BY <1>1, <1>2, <1>3, <1>7, <1>8, <1>9, <1>10, <1>11, LeftType DEF Moves

\* A callback page and the entries of its provider
LEMMA CallbackFlow ==
    ASSUME FlowInv, page = "callback"
    PROVE  /\ target \in Attempts /\ provider[target] \in Providers
           /\ state[provider[target]] \in Entry
  BY DEF FlowInv, FlowTypeOK, PhasesFit

\* Handling a callback takes the entry of its provider away.
LEMMA HandledKeeps ==
    ASSUME FlowInv, page = "callback", Handled(provider[target]),
           verifier' \in {verifier, [verifier EXCEPT ![provider[target]] = NoAttempt]},
           post' \in [Attempts -> Post],
           \A f \in Attempts : f # target => post'[f] = post[f],
           PostMatchesFlow'
    PROVE  FlowInv'
<1>1. /\ FlowTypeOK /\ EntriesWait /\ PhasesFit
  BY DEF FlowInv
<1>2. PICK p \in Providers : provider[target] = p
  BY CallbackFlow
<1>3. /\ page' = "form" /\ target' = NoAttempt
      /\ state' = [state EXCEPT ![p] = NoEntry]
      /\ latest' = [latest EXCEPT ![p] = NoAttempt]
      /\ UNCHANGED <<phase, provider, consent, now>>
  BY <1>2 DEF Handled, Removed
<1>4. target \in Attempts /\ phase[target] = "returned"
  BY <1>1, CallbackFlow, FlowAssumption DEF PhasesFit
<1>5. FlowTypeOK'
  BY <1>1, <1>2, <1>3, NoEntryType DEF FlowTypeOK
<1>6. EntriesWait'
  <2> SUFFICES ASSUME NEW q \in Providers, NEW f \in Attempts
               PROVE  /\ latest'[q] = state'[q].flow
                      /\ state'[q].flow = f =>
                           /\ provider'[f] = q /\ consent'[f] = state'[q].consent
                           /\ phase'[f] # "idle" /\ post'[f].count = 0
                           /\ state'[q].at <= now'
    BY <1>4 DEF EntriesWait
  <2>1. CASE q = p
    BY <1>1, <1>3, <2>1, NoEntryType, FlowAssumption DEF FlowTypeOK
  <2>2. CASE q # p
    <3>1. state'[q] = state[q] /\ latest'[q] = latest[q]
      BY <1>1, <1>3, <2>2 DEF FlowTypeOK
    <3>2. state[q].flow # target
      BY <1>1, <1>2, <1>4, <2>2 DEF EntriesWait
    <3> QED
      BY <1>1, <1>3, <3>1, <3>2 DEF EntriesWait
  <2> QED
    BY <2>1, <2>2
<1>7. PhasesFit'
  BY <1>1, <1>3, <1>4 DEF PhasesFit
<1> QED
  BY <1>5, <1>6, <1>7 DEF FlowInv

LEMMA AcceptKeeps ==
    ASSUME FlowInv, AcceptCallback
    PROVE  FlowInv' /\ UNCHANGED <<phase, consent>> /\ post' # post
<1>1. /\ FlowTypeOK /\ EntriesWait /\ PostMatchesFlow /\ page = "callback"
      /\ UNCHANGED <<phase, consent>> /\ Handled(provider[target])
  BY DEF FlowInv, AcceptCallback, Handled
<1>2. PICK p \in Providers, t \in Attempts : p = provider[target] /\ t = target
  BY <1>1, CallbackFlow
<1> DEFINE entry == state[p]
           new == [count |-> post[t].count + 1, verifier |-> verifier[p],
                   consent |-> entry.consent, age |-> now - entry.at]
<1>3. entry.flow = t /\ now - entry.at <= StateLife /\ post' = [post EXCEPT ![t] = new]
      /\ verifier' = [verifier EXCEPT ![p] = NoAttempt]
  BY <1>2 DEF AcceptCallback, Acceptable
<1>4. /\ verifier[p] = t /\ consent[t] = entry.consent /\ post[t].count = 0
      /\ entry.at <= now /\ entry \in Entry /\ now \in Nat
  BY <1>1, <1>2, <1>3, FlowAssumption DEF FlowTypeOK, EntriesWait
<1>5. new \in Post /\ new.count = 1 /\ new.verifier = t /\ new.consent = consent[t]
      /\ new.age <= StateLife
  BY <1>3, <1>4 DEF Entry, Post
<1> HIDE DEF new
<1>6. /\ post' \in [Attempts -> Post] /\ post'[t] = new
      /\ \A f \in Attempts : f # t => post'[f] = post[f]
  BY <1>1, <1>3, <1>5 DEF FlowTypeOK
<1>7. PostMatchesFlow'
  BY <1>1, <1>5, <1>6 DEF PostMatchesFlow
<1>8. FlowInv'
  BY <1>1, <1>2, <1>3, <1>6, <1>7, HandledKeeps
<1> QED
  BY <1>1, <1>4, <1>5, <1>6, <1>8

LEMMA RefuseKeeps ==
    ASSUME FlowInv, RefuseCallback
    PROVE  FlowInv' /\ UNCHANGED <<phase, consent>>
<1>1. /\ FlowTypeOK /\ page = "callback" /\ UNCHANGED <<phase, consent, post>>
      /\ Handled(provider[target])
      /\ verifier' \in {verifier, [verifier EXCEPT ![provider[target]] = NoAttempt]}
  BY DEF FlowInv, RefuseCallback, Handled
<1>2. PostMatchesFlow' /\ post' \in [Attempts -> Post]
  BY <1>1 DEF FlowInv, FlowTypeOK, PostMatchesFlow
<1> QED
  BY <1>1, <1>2, HandledKeeps

LEMMA TickKeeps ==
    ASSUME FlowInv, Tick
    PROVE  FlowInv' /\ UNCHANGED <<page, phase, consent, post>>
<1>1. /\ FlowTypeOK /\ EntriesWait /\ PhasesFit /\ PostMatchesFlow /\ now' = now + 1
      /\ UNCHANGED <<page, target, phase, provider, consent, state, verifier, post, latest>>
  BY DEF FlowInv, Tick
<1>2. FlowTypeOK' /\ PhasesFit' /\ PostMatchesFlow'
  BY <1>1 DEF FlowTypeOK, PhasesFit, PostMatchesFlow
<1>3. EntriesWait'
  <2>1. \A p \in Providers : state[p].at \in Nat /\ now \in Nat
    BY <1>1 DEF FlowTypeOK, Entry
  <2> QED
    BY <1>1, <2>1 DEF EntriesWait
<1> QED
  BY <1>1, <1>2, <1>3 DEF FlowInv

\* What a tab does by itself never begins an attempt.
LEMMA FlowStepKeeps ==
    ASSUME FlowInv, FlowStep
    PROVE  /\ FlowInv'
           /\ \A f \in Attempts : phase[f] = "idle" \/ phase'[f] = "idle" => phase'[f] = phase[f]
           /\ UNCHANGED consent
  BY PageSteps, AcceptKeeps, RefuseKeeps, TickKeeps DEF FlowStep

-----------------------------------------------------------------------------
(* The gate *)

LEMMA InitLemma == Init => IInv
<1> SUFFICES ASSUME Init PROVE IInv
  OBVIOUS
<1>1. FlowInv /\ TypeOK
  <2>1. FlowInv
    BY FlowInitLemma DEF Init
  <2>2. 1 \in 1..MaxVersion
    BY DocumentAssumption
  <2> QED
    BY <2>1, <2>2 DEF FlowInv, Init, TypeOK
<1>2. DialogWaits /\ OnlyTicked
  BY DEF Init, FlowInit, DialogWaits, OnlyTicked, Current
<1> QED
  BY <1>1, <1>2 DEF IInv

\* Documents in their current versions are something to consent to.
LEMMA CurrentType ==
    ASSUME TypeOK, NEW docs \in SUBSET Documents
    PROVE  /\ Current(docs) \in SUBSET Accepted /\ Current(docs) \in Consents
           /\ \A more \in SUBSET docs : Current(more) \subseteq Current(docs)
  BY DocumentAssumption DEF TypeOK, Current, Accepted

LEMMA RestoredAccepted == Restored \subseteq shown /\ Current(Restored) \subseteq accepted
  BY DEF Restored, Current

LEMMA MayAskGate ==
    ASSUME NEW i \in Attempts, NEW p \in Providers \cup {NoProvider}, NEW byItself \in BOOLEAN,
           MayAsk(i, p, byItself), TypeOK
    PROVE  phase[i] = "idle" /\ i # pending /\ i \notin dropped /\ auto' \in BOOLEAN
  BY DEF MayAsk, TypeOK

LEMMA GoAheadStep ==
    ASSUME IInv, NEW i \in Attempts, NEW p \in Providers \cup {NoProvider},
           NEW byItself \in BOOLEAN, GoAhead(i, p, byItself)
    PROVE  /\ IInv'
           /\ shown # {} /\ consent'[i] # NoConsent => Current(Requiring) \subseteq consent'[i]
           /\ phase[i] = "idle" /\ i \notin dropped
           /\ \A k \in Attempts : k # i => phase'[k] = phase[k]
<1>1. /\ TypeOK /\ FlowInv /\ DialogWaits /\ OnlyTicked
      /\ phase[i] = "idle" /\ i # pending /\ i \notin dropped /\ auto' \in BOOLEAN
      /\ UNCHANGED <<options, shown, version, recorded, accepted, open, selected, pending,
                     dropped, ticked, carried>>
  BY MayAskGate DEF IInv, GoAhead
<1>2. /\ Restored \in SUBSET Documents /\ Requiring \in SUBSET Documents
      /\ Current(Restored) \in Consents /\ {} \in Consents
  BY <1>1, CurrentType, DocumentAssumption DEF TypeOK, Restored, Requiring
<1>3. PICK docs \in Consents \cup {NoConsent} :
        /\ Run(i, p, docs)
        /\ docs = NoConsent \/ docs \subseteq ticked \cup carried
        /\ shown # {} /\ docs # NoConsent => Current(Requiring) \subseteq docs
  <2>1. Current(Restored) \subseteq ticked \cup carried
    BY <1>1, RestoredAccepted DEF OnlyTicked
  <2>2. AlreadyAccepted => Current(Requiring) \subseteq Current(Restored)
    BY <1>1, <1>2, CurrentType DEF AlreadyAccepted
  <2> QED
    BY <1>2, <2>1, <2>2 DEF GoAhead
<1>4. /\ FlowInv' /\ phase'[i] # "idle" /\ consent'[i] = docs
      /\ \A k \in Attempts : k # i => phase'[k] = phase[k] /\ consent'[k] = consent[k]
  BY <1>1, <1>3, RunKeeps
<1>5. TypeOK'
  BY <1>1, <1>4 DEF FlowInv, TypeOK
<1>6. DialogWaits'
  BY <1>1, <1>4 DEF DialogWaits, TypeOK, Current
<1>7. OnlyTicked'
  BY <1>1, <1>3, <1>4 DEF OnlyTicked
<1> QED
  BY <1>1, <1>3, <1>4, <1>5, <1>6, <1>7 DEF IInv

LEMMA AskStep ==
    ASSUME IInv, NEW i \in Attempts, NEW p \in Providers \cup {NoProvider},
           NEW byItself \in BOOLEAN, Ask(i, p, byItself)
    PROVE  IInv' /\ phase' = phase
<1>1. /\ TypeOK /\ FlowInv /\ DialogWaits /\ OnlyTicked
      /\ phase[i] = "idle" /\ i # pending /\ i \notin dropped /\ auto' \in BOOLEAN
      /\ pending' = i /\ provider' = [provider EXCEPT ![i] = p]
      /\ dropped' = dropped \cup ({pending} \ {NoAttempt})
      /\ selected' = Restored /\ open' = TRUE
      /\ UNCHANGED <<page, target, phase, consent, state, verifier, post, latest, now,
                     options, shown, version, recorded, accepted, ticked, carried>>
      /\ shown # {}
  BY MayAskGate DEF IInv, Ask
<1>2. FlowInv'
  BY <1>1, AskKeeps
<1>3. TypeOK'
  BY <1>1, <1>2 DEF FlowInv, TypeOK, Restored
<1>4. DialogWaits'
  <2>1. Current(shown \cap Restored) \subseteq ticked \cup carried
    BY <1>1 DEF Restored, Current, OnlyTicked
  <2>2. Current(shown \cap selected)' = Current(shown \cap Restored)
    BY <1>1 DEF Current, Restored
  <2> QED
    BY <1>1, <2>1, <2>2 DEF DialogWaits
<1>5. OnlyTicked'
  BY <1>1 DEF OnlyTicked
<1> QED
  BY <1>1, <1>2, <1>3, <1>4, <1>5 DEF IInv

LEMMA ChangeStep ==
    ASSUME IInv, NEW d \in Documents, NEW checked \in BOOLEAN, Change(d, checked)
    PROVE  IInv' /\ phase' = phase
<1>1. /\ TypeOK /\ FlowInv /\ DialogWaits /\ OnlyTicked
      /\ ticked' = ticked \cup Current(selected' \ selected)
      /\ UNCHANGED <<flowVars, options, shown, version, recorded, accepted, open, pending,
                     auto, dropped, carried>>
  BY DEF IInv, Change
<1>2. selected' \in SUBSET Documents
  BY <1>1 DEF Change, TypeOK
<1>3. Current(selected' \ selected) \subseteq Accepted
  BY <1>1, <1>2, CurrentType
<1>4. FlowInv'
  BY <1>1, FlowFrame
<1>5. TypeOK'
  BY <1>1, <1>2, <1>3, <1>4 DEF FlowInv, TypeOK
<1>6. DialogWaits'
  <2>1. Current(shown \cap selected)' \subseteq
          Current(shown \cap selected) \cup Current(selected' \ selected)
    BY <1>1 DEF Current
  <2> QED
    BY <1>1, <2>1 DEF DialogWaits, flowVars
<1>7. OnlyTicked' /\ phase' = phase
  BY <1>1 DEF OnlyTicked, flowVars
<1> QED
  BY <1>4, <1>5, <1>6, <1>7 DEF IInv

LEMMA CancelStep ==
    ASSUME IInv, Cancel
    PROVE  IInv' /\ phase' = phase
<1>1. /\ TypeOK /\ FlowInv /\ DialogWaits /\ OnlyTicked
      /\ open' = FALSE /\ pending' = NoAttempt
      /\ dropped' = dropped \cup ({pending} \ {NoAttempt})
      /\ UNCHANGED <<flowVars, options, shown, version, recorded, accepted, selected,
                     auto, ticked, carried>>
  BY DEF IInv, Cancel
<1>2. FlowInv'
  BY <1>1, FlowFrame
<1>3. TypeOK'
  BY <1>1, <1>2 DEF FlowInv, TypeOK
<1>4. DialogWaits' /\ OnlyTicked' /\ phase' = phase
  BY <1>1 DEF DialogWaits, OnlyTicked, flowVars
<1> QED
  BY <1>2, <1>3, <1>4 DEF IInv

LEMMA ConfirmStep ==
    ASSUME IInv, Confirm
    PROVE  /\ IInv'
           /\ \E i \in Attempts : /\ i \notin dropped
                                  /\ Current(Requiring) \subseteq consent'[i]
                                  /\ \A k \in Attempts : k # i => phase'[k] = phase[k]
<1> DEFINE docs == Current(shown \cap selected)
<1>1. /\ TypeOK /\ FlowInv /\ DialogWaits /\ OnlyTicked
      /\ pending # NoAttempt /\ Requiring \subseteq selected
      /\ \/ recorded' = TRUE /\ accepted' = docs
         \/ UNCHANGED <<recorded, accepted>>
      /\ pending' = NoAttempt /\ open' = FALSE
      /\ Run(pending, provider[pending], docs)
      /\ UNCHANGED <<options, shown, version, selected, auto, dropped, ticked, carried>>
  BY DEF IInv, Confirm, Confirmable
<1>2. PICK i \in Attempts, p \in Providers \cup {NoProvider} :
        i = pending /\ p = provider[pending]
  BY <1>1 DEF TypeOK, FlowTypeOK
<1>3. /\ docs \in SUBSET Accepted /\ docs \in Consents
      /\ Current(Requiring) \subseteq docs
      /\ docs \subseteq ticked \cup carried /\ i \notin dropped
  <2>1. shown \cap selected \in SUBSET Documents /\ Requiring \in SUBSET (shown \cap selected)
    BY <1>1 DEF TypeOK, Requiring
  <2>2. docs \in SUBSET Accepted /\ docs \in Consents /\ Current(Requiring) \subseteq docs
    BY <1>1, <2>1, CurrentType
  <2> QED
    BY <1>1, <1>2, <2>2 DEF DialogWaits
<1> HIDE DEF docs
<1>4. /\ FlowInv' /\ consent'[i] = docs
      /\ \A k \in Attempts : k # i => phase'[k] = phase[k] /\ consent'[k] = consent[k]
  BY <1>1, <1>2, <1>3, RunKeeps
<1>5. TypeOK'
  BY <1>1, <1>3, <1>4 DEF FlowInv, TypeOK
<1>6. DialogWaits' /\ OnlyTicked'
  BY <1>1, <1>2, <1>3, <1>4 DEF DialogWaits, OnlyTicked, TypeOK
<1> QED
  BY <1>3, <1>4, <1>5, <1>6 DEF IInv

\* A new version takes over the tick of the one before only in an open dialog.
LEMMA PublishStep ==
    ASSUME IInv, Publish
    PROVE  IInv' /\ phase' = phase
<1>1. /\ TypeOK /\ FlowInv /\ DialogWaits /\ OnlyTicked
      /\ UNCHANGED <<flowVars, options, recorded, accepted, open, selected, pending, auto,
                     dropped, ticked>>
  BY DEF IInv, Publish
<1>2. FlowInv' /\ phase' = phase
  BY <1>1, FlowFrame DEF flowVars
<1>3. CASE shown = {} /\ shown' = Documents /\ UNCHANGED <<version, carried>>
  <2>1. TypeOK'
    BY <1>1, <1>2, <1>3 DEF FlowInv, TypeOK
  <2>2. DialogWaits' /\ OnlyTicked'
    BY <1>1, <1>2, <1>3 DEF DialogWaits, OnlyTicked, flowVars
  <2> QED
    BY <1>2, <2>1, <2>2 DEF IInv
<1>4. ASSUME NEW d \in Documents, version[d] < MaxVersion,
             version' = [version EXCEPT ![d] = @ + 1],
             carried' = IF open /\ d \in shown \cap selected
                        THEN carried \cup {<<d, version[d] + 1>>} ELSE carried,
             UNCHANGED shown
      PROVE  IInv'
  <2> USE <1>4
  <2>1. /\ version[d] \in 1..MaxVersion /\ version[d] + 1 \in 1..MaxVersion
        /\ version'[d] = version[d] + 1
        /\ \A e \in Documents : e # d => version'[e] = version[e]
    <3>1. version \in [Documents -> 1..MaxVersion] /\ MaxVersion \in Nat
      BY <1>1, DocumentAssumption DEF TypeOK
    <3> QED
      BY <1>4, <3>1
  <2>2. carried' \subseteq Accepted /\ version' \in [Documents -> 1..MaxVersion]
    BY <1>1, <2>1 DEF TypeOK, Accepted
  <2>3. TypeOK'
    BY <1>1, <1>2, <2>2 DEF FlowInv, TypeOK
  <2>4. DialogWaits'
    <3>1. ASSUME open PROVE Current(shown \cap selected)' \subseteq ticked \cup carried'
      <4>1. Current(shown \cap selected) \subseteq ticked \cup carried
        BY <1>1, <3>1 DEF DialogWaits
      <4>2. ASSUME NEW e \in shown \cap selected
            PROVE  <<e, version'[e]>> \in ticked \cup carried'
        BY <1>1, <2>1, <3>1, <4>1 DEF TypeOK, Current
      <4> QED
        BY <1>1, <4>2 DEF Current
    <3> QED
      BY <1>1, <1>2, <3>1 DEF DialogWaits
  <2>5. \A c \in carried' : \E earlier \in 1..(c[2] - 1) : <<c[1], earlier>> \in ticked
    <3>1. ASSUME open, d \in shown \cap selected
          PROVE  \E earlier \in 1..version[d] : <<d, earlier>> \in ticked
      <4>1. <<d, version[d]>> \in ticked \cup carried
        BY <1>1, <3>1 DEF DialogWaits, Current
      <4>2. CASE <<d, version[d]>> \in ticked
        BY <2>1, <4>2
      <4>3. CASE <<d, version[d]>> \in carried
        BY <1>1, <2>1, <4>3 DEF OnlyTicked
      <4> QED
        BY <4>1, <4>2, <4>3
    <3>2. <<d, version[d] + 1>>[1] = d /\ <<d, version[d] + 1>>[2] - 1 = version[d]
      BY <2>1
    <3> QED
      BY <1>1, <3>1, <3>2 DEF OnlyTicked
  <2>6. OnlyTicked'
    BY <1>1, <2>5 DEF OnlyTicked, flowVars
  <2> QED
    BY <1>2, <2>3, <2>4, <2>6 DEF IInv
<1> QED
  BY <1>2, <1>3, <1>4 DEF Publish

LEMMA TabStep ==
    ASSUME IInv, Tab
    PROVE  /\ IInv'
           /\ \A i \in Attempts : phase[i] = "idle" \/ phase'[i] = "idle" => phase'[i] = phase[i]
<1>1. /\ TypeOK /\ FlowInv /\ DialogWaits /\ OnlyTicked /\ FlowStep
      /\ UNCHANGED <<options, shown, version, recorded, accepted, ticked, carried>>
      /\ \/ /\ open' = FALSE /\ selected' = {} /\ auto' = FALSE /\ pending' = NoAttempt
            /\ dropped' = dropped \cup ({pending} \ {NoAttempt})
         \/ UNCHANGED <<open, selected, auto, pending, dropped>>
  BY DEF IInv, Tab, Unmount
<1>2. /\ FlowInv' /\ UNCHANGED consent
      /\ \A i \in Attempts : phase[i] = "idle" \/ phase'[i] = "idle" => phase'[i] = phase[i]
  BY <1>1, FlowStepKeeps
<1>3. TypeOK'
  BY <1>1, <1>2 DEF FlowInv, TypeOK
<1>4. DialogWaits' /\ OnlyTicked'
  BY <1>1, <1>2 DEF DialogWaits, OnlyTicked, TypeOK, Current
<1> QED
  BY <1>2, <1>3, <1>4 DEF IInv

LEMMA StutterStep ==
    ASSUME IInv, UNCHANGED vars
    PROVE  IInv'
<1>1. TypeOK /\ FlowInv /\ DialogWaits /\ OnlyTicked /\ UNCHANGED <<flowVars, gateVars>>
  BY DEF IInv, vars
<1>2. FlowInv'
  BY <1>1, FlowFrame
<1>3. TypeOK' /\ DialogWaits' /\ OnlyTicked'
  BY <1>1, <1>2 DEF gateVars, flowVars, FlowInv, TypeOK, DialogWaits, OnlyTicked, Current
<1> QED
  BY <1>2, <1>3 DEF IInv

LEMMA NextLemma == IInv /\ [Next]_vars => IInv'
<1> SUFFICES ASSUME IInv, [Next]_vars PROVE IInv'
  OBVIOUS
<1>1. ASSUME NEW i \in Attempts, NEW p \in Providers \cup {NoProvider},
             NEW byItself \in BOOLEAN, GoAhead(i, p, byItself) \/ Ask(i, p, byItself)
      PROVE  IInv'
  BY <1>1, GoAheadStep, AskStep
<1>2. ASSUME NEW d \in Documents, NEW checked \in BOOLEAN, Change(d, checked)
      PROVE  IInv'
  BY <1>2, ChangeStep
<1> QED
  BY <1>1, <1>2, CancelStep, ConfirmStep, PublishStep, TabStep, StutterStep DEF Next

\* An entry of sessionStorage waits for the flow that was started last, with the
\* verifier and the consent of that flow; the ticks of the dialog are the user's, or were
\* for an earlier version; a callback sends what fits its flow, once.
THEOREM Invariance == Spec => []IInv
  BY InitLemma, NextLemma, PTL DEF Spec

\* The request of a callback page carries the verifier and the consent of its flow,
\* within the lifetime of its state, and only once (oauth.ts 28-88).
THEOREM PostMatchesFlowAlways == Spec => []PostMatchesFlow
<1>1. IInv => PostMatchesFlow
  BY DEF IInv, FlowInv
<1> QED
  BY <1>1, Invariance, PTL

\* What is sent or stored as accepted was ticked in that version, or it came while the
\* dialog was open and an earlier version was ticked (LegalConsent.tsx:125-130).
THEOREM OnlyTickedAlways == Spec => []OnlyTicked
<1>1. IInv => OnlyTicked
  BY DEF IInv
<1> QED
  BY <1>1, Invariance, PTL

-----------------------------------------------------------------------------
(* Action properties *)

\* Only request and onConfirm begin an attempt; every other step leaves those that
\* have not begun alone.
LEMMA OnlyRequestsBegin ==
    ASSUME IInv, Next,
           \A i \in Attempts, p \in Providers \cup {NoProvider}, byItself \in BOOLEAN :
             ~GoAhead(i, p, byItself),
           ~Confirm
    PROVE  \A i \in Attempts : phase[i] = "idle" => phase'[i] = "idle"
<1>1. ASSUME NEW i \in Attempts, NEW p \in Providers \cup {NoProvider},
             NEW byItself \in BOOLEAN, Ask(i, p, byItself)
      PROVE  phase' = phase
  BY <1>1, AskStep
<1>2. ASSUME NEW d \in Documents, NEW checked \in BOOLEAN, Change(d, checked)
      PROVE  phase' = phase
  BY <1>2, ChangeStep
<1> QED
  BY <1>1, <1>2, CancelStep, PublishStep, TabStep DEF Next

\* Once the form has its documents, an action behind the gate begins with every
\* required document, in the version shown at that moment (forms/README.md:189).
THEOREM ConsentIsCurrentAlways == Spec => ConsentIsCurrent
<1> DEFINE Given == \A i \in Attempts : Begins(i) /\ shown # {} /\ consent'[i] # NoConsent
                      => Current(Requiring) \subseteq consent'[i]
<1>1. IInv /\ [Next]_vars => [Given]_vars
  <2> SUFFICES ASSUME IInv, Next PROVE Given
    OBVIOUS
  <2>1. ASSUME NEW i \in Attempts, NEW p \in Providers \cup {NoProvider},
               NEW byItself \in BOOLEAN, GoAhead(i, p, byItself)
        PROVE  Given
    BY <2>1, GoAheadStep DEF Begins
  <2>2. CASE Confirm
    BY <2>2, ConfirmStep DEF Begins
  <2>3. CASE /\ ~Confirm
             /\ \A i \in Attempts, p \in Providers \cup {NoProvider}, byItself \in BOOLEAN :
                  ~GoAhead(i, p, byItself)
    BY <2>3, OnlyRequestsBegin DEF Begins
  <2> QED
    BY <2>1, <2>2, <2>3
<1>2. Spec => [][Given]_vars
  BY <1>1, Invariance, PTL DEF Spec
<1> QED
  BY <1>2 DEF ConsentIsCurrent

\* An action that was cancelled, replaced by another or left behind never begins
\* (LegalConsent.tsx pendingAction).
THEOREM DroppedNeverRunsAlways == Spec => DroppedNeverRuns
<1> DEFINE Kept == \A i \in dropped : phase'[i] = phase[i]
<1>1. IInv /\ [Next]_vars => [Kept]_vars
  <2> SUFFICES ASSUME IInv, Next PROVE Kept
    OBVIOUS
  <2>1. dropped \subseteq Attempts /\ \A i \in dropped : phase[i] = "idle"
    BY DEF IInv, TypeOK, DialogWaits
  <2>2. ASSUME NEW i \in Attempts, NEW p \in Providers \cup {NoProvider},
               NEW byItself \in BOOLEAN, GoAhead(i, p, byItself)
        PROVE  Kept
    BY <2>1, <2>2, GoAheadStep
  <2>3. CASE Confirm
    BY <2>1, <2>3, ConfirmStep
  <2>4. CASE /\ ~Confirm
             /\ \A i \in Attempts, p \in Providers \cup {NoProvider}, byItself \in BOOLEAN :
                  ~GoAhead(i, p, byItself)
    BY <2>1, <2>4, OnlyRequestsBegin
  <2> QED
    BY <2>2, <2>3, <2>4
<1>2. Spec => [][Kept]_vars
  BY <1>1, Invariance, PTL DEF Spec
<1> QED
  BY <1>2 DEF DroppedNeverRuns

\* A callback is refused only if it is late, or another flow has been started with the
\* provider since, or another callback has taken the entry (oauth.ts 28-88).
THEOREM RefusalIsFoundedAlways == Spec => RefusalIsFounded
<1> DEFINE Founded == page = "callback" /\ page' = "form" /\ post' = post =>
                        LET p == provider[target] IN
                        latest[p] # target \/ now - state[p].at > StateLife
<1>1. IInv /\ [Next]_vars => [Founded]_flowVars
  <2> SUFFICES ASSUME IInv, [Next]_vars, page = "callback", page' = "form", post' = post
               PROVE  latest[provider[target]] # target
                        \/ now - state[provider[target]].at > StateLife
    BY DEF flowVars
  <2>1. FlowInv
    BY DEF IInv
  <2>2. PICK p \in Providers, t \in Attempts : p = provider[target] /\ t = target
    BY <2>1, CallbackFlow
  <2>3. Tab
    <3>1. \A i \in Attempts, q \in Providers \cup {NoProvider}, byItself \in BOOLEAN :
            ~GoAhead(i, q, byItself) /\ ~Ask(i, q, byItself)
      BY DEF GoAhead, Ask, MayAsk
    <3>2. ~UNCHANGED page
      OBVIOUS
    <3>3. ~Confirm
      BY DEF Confirm, Run, Start
    <3>4. /\ ~Cancel /\ ~Publish /\ ~UNCHANGED vars
          /\ \A d \in Documents, checked \in BOOLEAN : ~Change(d, checked)
      BY <3>2 DEF Cancel, Publish, Change, vars, flowVars
    <3> QED
      BY <3>1, <3>3, <3>4 DEF Next
  <2>4. RefuseCallback
    BY <2>1, <2>3, PageSteps, AcceptKeeps, TickKeeps DEF Tab, FlowStep
  <2>5. ~(state[p].flow = t /\ now - state[p].at <= StateLife)
    BY <2>2, <2>4 DEF RefuseCallback, Acceptable
  <2>6. latest[p] = state[p].flow /\ now \in Nat /\ state[p].at \in Nat
    BY <2>1 DEF FlowInv, EntriesWait, FlowTypeOK, Entry
  <2> QED
    BY <2>2, <2>5, <2>6, ClockAssumption
<1>2. Spec => [][Founded]_flowVars
  BY <1>1, Invariance, PTL DEF Spec
<1> QED
  BY <1>2 DEF RefusalIsFounded

-----------------------------------------------------------------------------
(* The backend: ProviderSignIn *)

(* The address redirect_uri builds at the start of a sign-in is one that   *)
(* validate_callback_uri accepts at its end, although the two requests may *)
(* differ in every header; unless it is the host that served the start,    *)
(* nothing else allows it, and another host serves the end.                *)
THEOREM CallbackRoundTrip ==
    ASSUME NEW policy \in Policy, NEW start \in HttpRequest, NEW end \in HttpRequest,
           NEW idp \in Names, NEW explicit \in Explicit,
           OriginOf(policy, start, explicit) # NoOrigin
    PROVE  LET uri == RedirectUri(policy, start, idp, explicit)
           IN  \/ ValidCallback(policy, end, idp, uri)
               \/ uri.origin = start.base /\ end.base # start.base
<1> DEFINE o == OriginOf(policy, start, explicit)
<1>1. start.base \in Origins /\ end.base \in Origins
    BY DEF HttpRequest
<1>2. IsAllowedOrigin(policy, o, start) \/ o = start.base
    BY DEF OriginOf
<1>3. IsAllowedOrigin(policy, start.base, start)
    BY <1>1, AbsenceAssumption DEF IsAllowedOrigin
<1>4. IsAllowedOrigin(policy, o, start)
    BY <1>2, <1>3
<1>5. \/ IsAllowedOrigin(policy, o, end)
      \/ o = start.base /\ end.base # start.base
    BY <1>4 DEF IsAllowedOrigin
<1> QED
    BY <1>5 DEF RedirectUri, ValidCallback

(* An address validate_callback_uri accepts is exactly the one             *)
(* redirect_uri builds for that origin: nothing is accepted that the       *)
(* policy would not have given out.                                        *)
THEOREM CallbackIsBuilt ==
    ASSUME NEW policy \in Policy, NEW request \in HttpRequest, NEW idp \in Names,
           NEW uri \in Address, ValidCallback(policy, request, idp, uri)
    PROVE  uri = RedirectUri(policy, request, idp, Exactly(uri.origin))
<1>1. uri = [origin |-> uri.origin, path |-> idp, rest |-> FALSE]
    BY DEF Address, ValidCallback
<1>2. OriginOf(policy, request, Exactly(uri.origin)) = uri.origin
    BY DEF ValidCallback, OriginOf, Exactly
<1> QED
    BY <1>1, <1>2 DEF RedirectUri

(* The search of _github finds the first item it looks for.                *)
LEMMA EarliestFound ==
    ASSUME NEW items \in Seq(Item), NEW S, Among(items) \cap S # {}
    PROVE  /\ Earliest(items, S) \in DOMAIN items
           /\ items[Earliest(items, S)] \in S
           /\ \A j \in 1..(Earliest(items, S) - 1) : items[j] \notin S
<1> DEFINE hits == {i \in DOMAIN items : items[i] \in S}
<1>1. hits \subseteq Nat /\ hits # {}
    BY DEF Among
<1>2. PICK i \in hits : \A j \in hits : ~(<<j, i>> \in OpToRel(<, Nat))
    BY <1>1, WFMin, NatLessThanWellFounded
<1>3. OpToRel(<, Nat) = {r \in Nat \X Nat : r[1] < r[2]}
    BY DEF OpToRel
<1>4. \A j \in hits : ~(j < i)
    BY <1>1, <1>2, <1>3
<1>5. ASSUME NEW j \in 1..(i - 1)
      PROVE  items[j] \notin S
  <2>1. i \in 1..Len(items) /\ DOMAIN items = 1..Len(items)
    OBVIOUS
  <2>2. j \in DOMAIN items /\ j < i
    BY <2>1
  <2> QED
    BY <1>4, <2>2
<1> QED
    BY <1>5 DEF Earliest

(* GitHub lists the addresses of an account beside the one its user shows  *)
(* in the profile, which nobody has verified.  If every verified item has  *)
(* an address, as GitHub's have, the address that _github calls verified   *)
(* is that of a verified item of the list, whatever the list and the       *)
(* profile say besides, and of the first primary one among them if there   *)
(* is one; if none is verified, no address is called so.                   *)
THEOREM GitHubAddressIsListed ==
    ASSUME NEW document \in Document, NEW items \in Seq(Item),
           \A i \in DOMAIN items : items[i].verified => items[i].email # NoEmail
    PROVE  LET profile == Profile("github", document, items)
           IN  /\ profile.verified <=> \E i \in DOMAIN items : items[i].verified
               /\ profile.verified =>
                    \E i \in DOMAIN items :
                      /\ items[i].verified /\ items[i].email = profile.email
                      /\ (\E j \in DOMAIN items : items[j].verified /\ items[j].primary)
                           => /\ items[i].primary
                              /\ \A j \in 1..(i - 1) : ~(items[j].verified /\ items[j].primary)
<1> DEFINE profile == Profile("github", document, items)
           i == Earliest(items, Selectable(items))
<1>1. items \in [DOMAIN items -> Item]
    OBVIOUS
<1>2. profile.verified <=> AnyVerified(items)
    BY DEF Profile
<1>3. AnyVerified(items) <=> \E j \in DOMAIN items : items[j].verified
    BY <1>1 DEF AnyVerified, Among, Verified
<1>4. ASSUME AnyVerified(items)
      PROVE  /\ i \in DOMAIN items /\ items[i].verified /\ items[i].email = profile.email
             /\ (\E j \in DOMAIN items : items[j].verified /\ items[j].primary)
                  => /\ items[i].primary
                     /\ \A j \in 1..(i - 1) : ~(items[j].verified /\ items[j].primary)
  <2>1. Among(items) \cap Selectable(items) # {}
    BY <1>4 DEF Selectable, AnyVerified
  <2>2. /\ i \in DOMAIN items /\ items[i] \in Selectable(items)
        /\ \A j \in 1..(i - 1) : items[j] \notin Selectable(items)
    BY <2>1, EarliestFound
  <2>3. items[i].verified
    BY <2>2 DEF Selectable, Preferred, Verified
  <2>4. profile.email = items[i].email
    BY <1>4, <2>2, <2>3 DEF Profile, Selected, Or
  <2>5. ASSUME NEW j \in DOMAIN items, items[j].verified, items[j].primary
        PROVE  Selectable(items) = Preferred
    BY <1>1, <2>5 DEF Selectable, Among, Preferred, Verified
  <2>6. ASSUME Selectable(items) = Preferred, NEW j \in 1..(i - 1)
        PROVE  ~(items[j].verified /\ items[j].primary)
    <3>1. j \in DOMAIN items
      BY <2>2
    <3> QED
      BY <1>1, <2>2, <2>6, <3>1 DEF Preferred, Verified
  <2>7. Selectable(items) = Preferred => items[i].primary
    BY <2>2 DEF Preferred
  <2> QED
    BY <2>2, <2>3, <2>4, <2>5, <2>6, <2>7
<1> HIDE DEF profile, i
<1> QED
    BY <1>2, <1>3, <1>4 DEF profile
=============================================================================
