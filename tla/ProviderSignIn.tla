--------------------------- MODULE ProviderSignIn ---------------------------
(***************************************************************************)
(* The backend's half of a sign-in with a provider: the addresses a        *)
(* browser may be sent back to (OAuthRedirectPolicy, fastapi/              *)
(* oauth_redirects.py), and what is made of the provider's replies         *)
(* (OAuthProviderClient, oauth/providers.py).  It keeps no state: each     *)
(* operation is an operator over what it is given.                         *)
(***************************************************************************)
EXTENDS Integers, Sequences

CONSTANTS
    Origins,    \* scheme and authority, http or https
    Local,      \* those on localhost, a subdomain of it, or a loopback address
    Domains,    \* but "" and "default", which are skipped
    Below,      \* <<o, d>>: the host of o is d or a subdomain of it
    Canonical,  \* a function: lower case, without a default port
    Emails,
    NoOrigin, NoEmail

ASSUME AbsenceAssumption == NoOrigin \notin Origins /\ NoEmail \notin Emails
ASSUME CanonicalAssumption == Canonical \in [Origins -> Origins]

Names == {"github", "google", "yandex"}

-----------------------------------------------------------------------------
(* OAuthRedirectPolicy *)

Policy == [origins : SUBSET Origins, domains : SUBSET Domains, local : BOOLEAN]

HttpRequest == [base : Origins, header : Origins \cup {NoOrigin}]

\* What a client sends as the origin; clean_origin leaves none of some values
Exactly(o) == [given |-> TRUE, origin |-> o]
Explicit == {Exactly(o) : o \in Origins \cup {NoOrigin}}
            \cup {[given |-> FALSE, origin |-> NoOrigin]}

\* path names the provider whose callback path it is; rest: parameters, a query or a
\* fragment with something in it
Address == [origin : Origins \cup {NoOrigin}, path : Names \cup {"other"}, rest : BOOLEAN]

IsAllowedOrigin(policy, o, request) ==
    /\ o # NoOrigin
    /\ \/ policy.local /\ o \in Local
       \/ o \in policy.origins
       \/ \E d \in policy.domains : <<o, d>> \in Below
       \/ o = request.base

\* NoOrigin: origin raises
OriginOf(policy, request, explicit) ==
    LET asked == IF explicit.given THEN explicit.origin ELSE request.header
    IN  CASE IsAllowedOrigin(policy, asked, request) -> asked
          [] explicit.given /\ ~IsAllowedOrigin(policy, asked, request) -> NoOrigin
          [] ~explicit.given /\ ~IsAllowedOrigin(policy, asked, request) -> request.base

RedirectUri(policy, request, provider, explicit) ==
    [origin |-> OriginOf(policy, request, explicit), path |-> provider, rest |-> FALSE]

ValidCallback(policy, request, provider, uri) ==
    /\ IsAllowedOrigin(policy, uri.origin, request)
    /\ uri.path = provider
    /\ ~uri.rest

-----------------------------------------------------------------------------
(* OAuthProviderClient *)

\* The configured client of each enabled provider; no origins allow every address
Credentials == [enabled : BOOLEAN, origins : SUBSET Origins]

\* What a request to the provider comes to; refused: no 2xx status, or no JSON
Status == {"timeout", "unavailable", "refused", "ok"}

\* other: the first of the addresses Yandex lists; claim: email_verified of Google
Document == [id : BOOLEAN, email : Emails \cup {NoEmail},
             other : Emails \cup {NoEmail}, claim : BOOLEAN]
Item == [email : Emails \cup {NoEmail}, primary : BOOLEAN, verified : BOOLEAN]

\* token: the reply to the code, and whether there is a token in it; items: of GitHub
Replies == [token : Status, found : BOOLEAN, user : Status, document : Document,
            emails : Status, items : Seq(Item)]

Earliest(s, S) == CHOOSE i \in DOMAIN s : s[i] \in S /\ \A j \in 1..(i - 1) : s[j] \notin S

\* The item _github selects; without a verified one, none
Verified == {item \in Item : item.verified}
Preferred == {item \in Verified : item.primary}
Among(items) == {items[i] : i \in DOMAIN items}
Selectable(items) ==
    IF Among(items) \cap Preferred # {} THEN Preferred ELSE Verified
Selected(items) == items[Earliest(items, Selectable(items))]
AnyVerified(items) == Among(items) \cap Verified # {}

Or(email, fallback) == IF email = NoEmail THEN fallback ELSE email

\* _google, _yandex, _github: what they pass to _profile
Profile(provider, document, items) ==
    [email |->
        CASE provider = "google" -> document.email
          [] provider = "yandex" -> Or(document.email, document.other)
          [] provider = "github" ->
                IF AnyVerified(items) THEN Or(Selected(items).email, document.email)
                ELSE document.email,
     verified |->
        CASE provider = "google" -> document.claim
          [] provider = "yandex" -> TRUE
          [] provider = "github" -> AnyVerified(items)]

\* _validate_redirect: an address without a host is none of the origins
RedirectAllowed(client, uri) ==
    \/ client.origins = {}
    \/ /\ uri.origin # NoOrigin
       /\ \E o \in client.origins : Canonical[uri.origin] = Canonical[o]

Broken(status) == status \in {"timeout", "unavailable"}

\* The tests of exchange in their order, each with what it raises
Tests(provider, client, uri, replies) ==
    LET lists == provider = "github"
        profile == Profile(provider, replies.document, replies.items)
    IN  <<[fails |-> ~client.enabled, raises |-> "not_enabled"],
          [fails |-> ~RedirectAllowed(client, uri), raises |-> "redirect_uri_not_allowed"],
          [fails |-> Broken(replies.token), raises |-> replies.token],
          [fails |-> replies.token = "refused", raises |-> "code_exchange_failed"],
          [fails |-> ~replies.found, raises |-> "access_token_missing"],
          [fails |-> Broken(replies.user), raises |-> replies.user],
          [fails |-> lists /\ Broken(replies.emails), raises |-> replies.emails],
          [fails |-> replies.user = "refused", raises |-> "userinfo_failed"],
          [fails |-> lists /\ replies.emails = "refused", raises |-> "userinfo_failed"],
          [fails |-> profile.email = NoEmail \/ ~replies.document.id,
           raises |-> "email_missing"]>>

\* exchange returns the profile, or raises what the first test that fails raises
Returns(provider, client, uri, replies) ==
    \A i \in 1..10 : ~Tests(provider, client, uri, replies)[i].fails
Raises(provider, client, uri, replies) ==
    LET tests == Tests(provider, client, uri, replies)
    IN  tests[CHOOSE i \in 1..10 : tests[i].fails /\ \A j \in 1..(i - 1) : ~tests[j].fails].raises
=============================================================================
