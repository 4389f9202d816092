------------------------------ MODULE MCSignIn ------------------------------
(***************************************************************************)
(* A small instance of SignIn for TLC.  The operators of ProviderSignIn    *)
(* have no behaviours of their own; TLC evaluates here what                *)
(* SignInProofs proves of them, over all inputs of small sets.             *)
(***************************************************************************)
EXTENDS SignIn, ProviderSignIn, SequencesExt, TLC

AllConsents == SUBSET (Documents \X (1..MaxVersion))

\* Two origins in the one domain, that differ in the case of their host
SmallBelow == {<<"https://b", "b">>, <<"https://B", "b">>}
SmallCanonical == [o \in Origins |-> IF o = "https://B" THEN "https://b" ELSE o]

ASSUME RoundTrips ==
    \A policy \in Policy, start \in HttpRequest, end \in HttpRequest,
       p \in Names, explicit \in Explicit :
        LET uri == RedirectUri(policy, start, p, explicit)
        IN  \/ uri.origin = NoOrigin
            \/ ValidCallback(policy, end, p, uri)
            \/ uri.origin = start.base /\ end.base # start.base

ASSUME NothingElse ==
    \A policy \in Policy, request \in HttpRequest, p \in Names, uri \in Address :
        ValidCallback(policy, request, p, uri)
            => uri = RedirectUri(policy, request, p, Exactly(uri.origin))

ASSUME Listed ==
    \A document \in Document, items \in BoundedSeq(Item, 2) :
        LET profile == Profile("github", document, items)
            Best(i) == items[i].verified /\ items[i].primary
        IN  (\A i \in DOMAIN items : items[i].verified => items[i].email # NoEmail) =>
              /\ profile.verified <=> \E i \in DOMAIN items : items[i].verified
              /\ profile.verified =>
                   \E i \in DOMAIN items :
                     /\ items[i].verified /\ items[i].email = profile.email
                     /\ (\E j \in DOMAIN items : Best(j)) =>
                           Best(i) /\ \A j \in 1..(i - 1) : ~Best(j)

\* Whatever the requests come to, exchange returns or raises one of its errors
Raised == {"not_enabled", "redirect_uri_not_allowed", "timeout", "unavailable",
           "code_exchange_failed", "access_token_missing", "userinfo_failed", "email_missing"}

ASSUME Answers ==
    \A p \in Names, client \in Credentials, o \in Origins \cup {NoOrigin},
       token, user, emails \in Status, found \in BOOLEAN,
       document \in [id : BOOLEAN, email : {NoEmail}, other : Emails \cup {NoEmail}, claim : {FALSE}] :
        LET replies == [token |-> token, found |-> found, user |-> user,
                        document |-> document, emails |-> emails, items |-> <<>>]
            uri == [origin |-> o, path |-> p, rest |-> FALSE]
        IN  Returns(p, client, uri, replies) \/ Raises(p, client, uri, replies) \in Raised
=============================================================================
