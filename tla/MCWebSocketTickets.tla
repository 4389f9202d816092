------------------------- MODULE MCWebSocketTickets -------------------------
(* Small instances of WebSocketTickets for TLC. *)
EXTENDS WebSocketTickets, TLC

Symmetry == Permutations(Workers) \cup Permutations(Users)
            \cup Permutations(Tickets) \cup Permutations(Connections)
=============================================================================
