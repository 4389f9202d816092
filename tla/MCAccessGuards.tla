--------------------------- MODULE MCAccessGuards ---------------------------
(* A small instance of AccessGuards for TLC. *)
EXTENDS AccessGuards, TLC

CONSTANTS ThisUser, ThisSession, ThisClient, Read

\* The tokens of one subject: as the services issue them, and as a product may mint
\* them, with claims missing or of another session
TokenClaims ==
    [sub : {ThisUser}, sid : {NoSession, ThisSession}, client : {NoClient, ThisClient},
     scope : {NoScope, {Read}, Scopes}, exp : {1}]
ReadOnly == {Read}
Registrations == [enabled : {TRUE}, scopes : {{Read}, Scopes}]
                 \cup [enabled : {FALSE}, scopes : {Scopes}]
=============================================================================
