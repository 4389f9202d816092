------------------------------- MODULE SignIn -------------------------------
(***************************************************************************)
(* A form that signs a user in or up (frontend forms/src/LoginForm.tsx,    *)
(* RegisterForm.tsx) behind the gate of legal documents (LegalConsent.tsx, *)
(* legalConsentStorage.ts): a password is posted, a provider's button      *)
(* starts a flow of OAuthBrowserFlow, each with the documents the user has *)
(* agreed to.                                                              *)
(*                                                                         *)
(* The documents are the product's and may change while the form is open.  *)
(***************************************************************************)
EXTENDS OAuthBrowserFlow

CONSTANTS
    Documents,       \* ids
    MustAccept,      \* the required documents
    FirstDocument,   \* documents[0]
    MaxVersion       \* bound on the versions of a document

Accepted == Documents \X (1..MaxVersion)

ASSUME DocumentAssumption ==
    /\ MustAccept \subseteq Documents /\ FirstDocument \in Documents
    /\ MaxVersion \in Nat \ {0} /\ Consents = SUBSET Accepted

VARIABLES
    options,    \* of the form
    shown,      \* ids in options.documents: none until the product has them
    version,    \* their current versions
    recorded, accepted,  \* the record in localStorage, if there is one
    open, selected,      \* state of the dialog
    pending,    \* pendingAction: the attempt that waits for consent
    auto,       \* autoAuthorizationStarted
    dropped,    \* history: attempts cancelled, replaced or left behind
    ticked,     \* history: document versions the user has ticked
    carried     \* history: versions that came while the dialog was open and took
                \* over the tick of the one before

gateVars == <<options, shown, version, recorded, accepted, open, selected, pending,
              auto, dropped, ticked, carried>>
vars == <<flowVars, gateVars>>

\* gateOAuth: oauthLegalConsent of LoginForm; RegisterForm has it always
Options == [selectAll : BOOLEAN, storage : BOOLEAN, gateOAuth : BOOLEAN]

Init ==
    /\ FlowInit
    /\ options \in Options
    /\ shown \in {{}, Documents}
    /\ version = [d \in Documents |-> 1]
    /\ recorded = FALSE /\ accepted = {}
    /\ open = FALSE /\ selected = {}
    /\ pending = NoAttempt
    /\ auto = FALSE
    /\ dropped = {} /\ ticked = {} /\ carried = {}

Current(docs) == {<<d, version[d]>> : d \in docs}
Requiring == shown \cap MustAccept

-----------------------------------------------------------------------------
(* The gate *)

\* Variant of Restored: a document is recognised by its id.
RestoredById == {d \in shown : \E v \in 1..MaxVersion : <<d, v>> \in accepted}

\* restoreAcceptedAuthLegalDocuments
Restored == {d \in shown : <<d, version[d]>> \in accepted}

\* hasCurrentRequiredAuthLegalConsent
AlreadyAccepted == recorded /\ Requiring \subseteq Restored

\* The action that was gated: mutate, or the flow
Run(i, p, docs) ==
    IF p # NoProvider THEN Start(i, p, docs)
    ELSE /\ page = "form" /\ phase[i] = "idle"
         /\ phase' = [phase EXCEPT ![i] = "posted"]
         /\ consent' = [consent EXCEPT ![i] = docs]
         /\ UNCHANGED <<page, target, provider, state, verifier, post, latest, now>>

\* The modal covers the form, so that only autoAuthorizeProvider still acts
MayAsk(i, p, byItself) ==
    /\ page = "form" /\ phase[i] = "idle" /\ provider[i] = NoProvider
    /\ i # pending /\ i \notin dropped
    /\ IF byItself THEN p # NoProvider /\ ~auto ELSE ~open
    /\ auto' = (auto \/ byItself)

\* request, when no consent is needed or the record has it
GoAhead(i, p, byItself) ==
    /\ MayAsk(i, p, byItself)
    /\ \/ /\ p # NoProvider /\ ~options.gateOAuth
          /\ Run(i, p, NoConsent)
       \/ /\ p = NoProvider \/ options.gateOAuth
          /\ shown = {}
          /\ Run(i, p, {})
       \/ /\ p = NoProvider \/ options.gateOAuth
          /\ shown # {} /\ AlreadyAccepted
          /\ Run(i, p, Current(Restored))
    /\ UNCHANGED <<options, shown, version, recorded, accepted, open, selected, pending,
                   dropped, ticked, carried>>

\* request, when it opens the dialog: a pending action is replaced
Ask(i, p, byItself) ==
    /\ MayAsk(i, p, byItself)
    /\ p = NoProvider \/ options.gateOAuth
    /\ shown # {} /\ ~AlreadyAccepted
    /\ pending' = i
    /\ provider' = [provider EXCEPT ![i] = p]
    /\ dropped' = dropped \cup ({pending} \ {NoAttempt})
    /\ selected' = Restored
    /\ open' = TRUE
    /\ UNCHANGED <<page, target, phase, consent, state, verifier, post, latest, now,
                   options, shown, version, recorded, accepted, ticked, carried>>

\* onDocumentChange; the user ticks what this click selects
Change(d, checked) ==
    /\ open /\ d \in shown
    /\ selected' = IF options.selectAll /\ d = FirstDocument
                   THEN (IF checked THEN shown ELSE {})
                   ELSE (IF checked THEN selected \cup {d} ELSE selected \ {d})
    /\ ticked' = ticked \cup Current(selected' \ selected)
    /\ UNCHANGED <<flowVars, options, shown, version, recorded, accepted, open, pending,
                   auto, dropped, carried>>

\* Variant of Cancel: the action stays in pendingAction.
CancelDialogOnly ==
    /\ open
    /\ open' = FALSE
    /\ dropped' = dropped \cup ({pending} \ {NoAttempt})
    /\ UNCHANGED <<flowVars, options, shown, version, recorded, accepted, selected,
                   pending, auto, ticked, carried>>

\* onOpenChange(false)
Cancel ==
    /\ open
    /\ open' = FALSE
    /\ dropped' = dropped \cup ({pending} \ {NoAttempt})
    /\ pending' = NoAttempt
    /\ UNCHANGED <<flowVars, options, shown, version, recorded, accepted, selected,
                   auto, ticked, carried>>

\* Variant of Confirmable: the button does not look at the selection.
AlwaysConfirmable == TRUE

\* The button of the dialog is enabled
Confirmable == Requiring \subseteq selected

\* onConfirm; a second click reaches it while the dialog is closing
Confirm ==
    LET docs == Current(shown \cap selected) IN
    /\ pending # NoAttempt /\ Confirmable
    /\ IF options.storage THEN recorded' = TRUE /\ accepted' = docs
       ELSE UNCHANGED <<recorded, accepted>>
    /\ pending' = NoAttempt
    /\ open' = FALSE
    /\ Run(pending, provider[pending], docs)
    /\ UNCHANGED <<options, shown, version, selected, auto, dropped, ticked, carried>>

-----------------------------------------------------------------------------

\* The product learns of the documents, or of a new version of one.  The dialog
\* keeps ids, so that it shows the new version with the tick of the old one.
Publish ==
    /\ \/ /\ shown = {}
          /\ shown' = Documents
          /\ UNCHANGED <<version, carried>>
       \/ \E d \in Documents :
            /\ version[d] < MaxVersion
            /\ version' = [version EXCEPT ![d] = @ + 1]
            /\ carried' = IF open /\ d \in shown \cap selected
                          THEN carried \cup {<<d, version[d] + 1>>} ELSE carried
            /\ UNCHANGED shown
    /\ UNCHANGED <<flowVars, options, recorded, accepted, open, selected, pending, auto,
                   dropped, ticked>>

\* The form is gone with its page, and new when the user is back
Unmount ==
    IF page = "form" /\ page' # "form"
    THEN /\ open' = FALSE /\ selected' = {} /\ auto' = FALSE
         /\ pending' = NoAttempt
         /\ dropped' = dropped \cup ({pending} \ {NoAttempt})
    ELSE UNCHANGED <<open, selected, auto, pending, dropped>>

Tab ==
    /\ FlowStep
    /\ Unmount
    /\ UNCHANGED <<options, shown, version, recorded, accepted, ticked, carried>>

Next ==
    \/ \E i \in Attempts, p \in Providers \cup {NoProvider}, byItself \in BOOLEAN :
         GoAhead(i, p, byItself) \/ Ask(i, p, byItself)
    \/ \E d \in Documents, checked \in BOOLEAN : Change(d, checked)
    \/ Cancel \/ Confirm
    \/ Publish
    \/ Tab

Spec == Init /\ [][Next]_vars

-----------------------------------------------------------------------------
(* Properties *)

TypeOK ==
    /\ FlowTypeOK
    /\ options \in Options
    /\ shown \subseteq Documents /\ selected \subseteq Documents
    /\ version \in [Documents -> 1..MaxVersion]
    /\ {recorded, open, auto} \subseteq BOOLEAN
    /\ accepted \subseteq Accepted
    /\ ticked \subseteq Accepted /\ carried \subseteq Accepted
    /\ pending \in Attempts \cup {NoAttempt}
    /\ dropped \subseteq Attempts

Begins(i) == phase[i] = "idle" /\ phase'[i] # "idle"

\* "A new required document or a changed required version opens the modal again"
\* (forms/README.md:189): once the form has its documents, an action behind the gate
\* begins with every required document, in the version shown at that moment.
ConsentIsCurrent ==
    [][\A i \in Attempts : Begins(i) /\ shown # {} /\ consent'[i] # NoConsent
         => Current(Requiring) \subseteq consent'[i]]_vars

\* Nothing is sent or stored as accepted that the user has not ticked, be it in
\* another visit to the form.  The dialog remembers ids and sends the versions of the
\* moment (LegalConsent.tsx:125-130): a version that came while it was open goes out
\* unread, on the tick of an earlier one, and no other version does.
OnlyTicked ==
    /\ accepted \subseteq ticked \cup carried
    /\ \A i \in Attempts : consent[i] # NoConsent => consent[i] \subseteq ticked \cup carried
    /\ \A c \in carried : \E earlier \in 1..(c[2] - 1) : <<c[1], earlier>> \in ticked

\* An action that was cancelled, replaced by another or left behind never begins
\* (LegalConsent.tsx pendingAction).
DroppedNeverRuns == [][\A i \in dropped : phase'[i] = phase[i]]_vars

\* The dialog waits with an attempt that has not begun, and every tick it shows is the
\* user's, or was when the version before was shown; what was dropped has not begun.
DialogWaits ==
    /\ pending # NoAttempt => open /\ phase[pending] = "idle" /\ pending \notin dropped
    /\ open => shown # {} /\ Current(shown \cap selected) \subseteq ticked \cup carried
    /\ \A i \in dropped : phase[i] = "idle"

\* The inductive invariant of the form and the tab
IInv == TypeOK /\ FlowInv /\ DialogWaits /\ OnlyTicked
=============================================================================
