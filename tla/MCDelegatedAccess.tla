-------------------------- MODULE MCDelegatedAccess --------------------------
(* Small instances of DelegatedAccess for TLC. *)
EXTENDS DelegatedAccess

Plain == [scheme |-> "https", host |-> "public", userinfo |-> FALSE, port |-> FALSE,
          path |-> "absolute", query |-> {}, fragment |-> FALSE, marks |-> {}]
Queried == [Plain EXCEPT !.query = {"other"}]
Clashing == [Plain EXCEPT !.query = {"state"}]
Native3 == [Plain EXCEPT !.scheme = "native"]
Unsafe == [Plain EXCEPT !.scheme = "http"]

Full == [enabled |-> TRUE, pkce |-> TRUE, uris |-> {Native3, Queried, Clashing},
         scopes |-> Scopes]

MCEntries == {Full,
              [Full EXCEPT !.uris = {Native3}, !.scopes = {Offline}],
              [Full EXCEPT !.uris = {Native3, Unsafe}]}

MCWishes == {[uri |-> Native3, scope |-> Scopes],
             [uri |-> Queried, scope |-> {Offline}],
             [uri |-> Clashing, scope |-> {}]}

MCScoped == {NoScope, {Offline}, Scopes \ {Offline}}
=============================================================================
