---------------------------- MODULE RedirectUris ----------------------------
(***************************************************************************)
(* Redirect URIs of public clients, by their parts: what the server        *)
(* registers (validate_oauth2_redirect_uri), where it sends the browser    *)
(* (_authorization_redirect), and what the client's parseOAuthCallback     *)
(* makes of the address it is opened with.                                 *)
(***************************************************************************)

Uri == [scheme   : {"https", "http", "native", "other"},  \* native: three labels or more
        host     : {"none", "loopback", "public"},
        userinfo : BOOLEAN,
        port     : BOOLEAN,
        path     : {"none", "relative", "absolute"},
        query    : SUBSET {"code", "state", "error", "other"},  \* names of parameters
        fragment : BOOLEAN,
        marks    : SUBSET {"?", "#"}]  \* with nothing after them

Native(u) == u.scheme = "native" /\ ~u.port /\ (u.host # "none" \/ u.path = "absolute")

Registrable(u) ==
    /\ ~u.userinfo /\ ~u.fragment
    /\ \/ u.scheme = "https" /\ u.host # "none"
       \/ u.scheme = "http" /\ u.host = "loopback"
       \/ Native(u)

\* What is compared of an address
Place(u) == <<u.scheme, u.host, u.port, u.path>>

\* The address of the callback: code and state follow the registered query, and the
\* bare marks are gone.
Redirect(u, c, f) == [place |-> Place(u), query |-> u.query, code |-> c, state |-> f]

\* What the client may pass as expectedRedirectUri for a URI of its own: nothing, the
\* URI, or the URI up to its query
NoExpectation == [given |-> FALSE]
Expecting(u) == [given |-> TRUE, place |-> Place(u), plain |-> u.query = {} /\ u.marks = {}]
ExpectingPlace(u) == [given |-> TRUE, place |-> Place(u), plain |-> TRUE]
Expectations(u) == {NoExpectation, Expecting(u), ExpectingPlace(u)}

\* Variant of AsExpected: the addresses are compared as a whole.
AsExpectedWhole(callback, e) ==
    e.given => e.plain /\ callback.place = e.place /\ callback.query = {}

\* validateCallbackRedirectUri, parseExpectedRedirectUri
AsExpected(callback, e) == e.given => e.plain /\ callback.place = e.place

\* singleCallbackParameter: a name that the registered query holds too is there twice
Single(callback, name) == name \notin callback.query

\* parseOAuthCallback returns, with the state of flow f expected
Parses(callback, f, e) ==
    /\ AsExpected(callback, e)
    /\ Single(callback, "state") /\ callback.state = f
    /\ "error" \notin callback.query
    /\ Single(callback, "code")
=============================================================================
