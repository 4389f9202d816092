---------------------------- MODULE MCOAuth2Codes ----------------------------
(* A small instance of OAuth2Codes for TLC. *)
EXTENDS OAuth2Codes, TLC

\* What a configuration may say of a client: everything, or with something
\* withdrawn: the client itself, or an URI and the scopes
ChangingEntries ==
    {[usable |-> TRUE, uris |-> Uris, scopes |-> Scopes],
     [usable |-> FALSE, uris |-> Uris, scopes |-> Scopes],
     [usable |-> TRUE, uris |-> {CHOOSE u \in Uris : TRUE}, scopes |-> {}]}

Symmetry == Permutations(Workers) \cup Permutations(Users) \cup Permutations(Sessions)
=============================================================================
