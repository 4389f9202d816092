--------------------------- MODULE MCAuthSessions ---------------------------
(* Small instances of AuthSessions for TLC. *)
EXTENDS AuthSessionsInv, TLC

Symmetry == Permutations(Workers) \cup Permutations(Sessions)
            \cup Permutations(Tokens) \cup Permutations(Users)
            \cup Permutations(Clients) \cup Permutations(Scopes)
=============================================================================
