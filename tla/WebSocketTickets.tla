-------------------------- MODULE WebSocketTickets --------------------------
(***************************************************************************)
(* WebSocketTicketService (services/websocket.py): a signed ticket with a  *)
(* row of its own, consumed by the handler that opens a connection.  The   *)
(* row is read without a lock; used_at is written when the caller commits. *)
(***************************************************************************)
EXTENDS Naturals

CONSTANTS
    Workers,      \* connection handlers
    Users,
    Tickets,      \* ticket ids: token_hex(16)
    Connections,  \* accepted connections
    NoTicket, NoUser,
    Lifetime,     \* websocket_ticket_seconds
    MaxTime       \* bound on the clock

VARIABLES
    ticket,      \* committed rows
    connection,  \* history: the ticket that opened each connection
    held,        \* the ticket each handler is about to commit as used
    now

vars == <<ticket, connection, held, now>>

Init ==
    /\ ticket = [k \in Tickets |-> [user |-> NoUser, used |-> FALSE, expires |-> 0]]
    /\ connection = [x \in Connections |-> NoTicket]
    /\ held = [w \in Workers |-> NoTicket]
    /\ now = 0

Issued == {k \in Tickets : ticket[k].user # NoUser}

\* issue and the caller's commit
Issue(u, k) ==
    /\ k \notin Issued
    /\ ticket' = [ticket EXCEPT ![k] = [user |-> u, used |-> FALSE,
                                        expires |-> now + Lifetime]]
    /\ UNCHANGED <<connection, held, now>>

Usable(k) == k \in Issued /\ ~ticket[k].used /\ ticket[k].expires > now

\* consume: the row as db.get returns it.  The subject of the signed token is
\* the row's user (TokenCodec), so that comparison always holds.
Consume(w, k) ==
    /\ held[w] = NoTicket
    /\ Usable(k)
    /\ held' = [held EXCEPT ![w] = k]
    /\ UNCHANGED <<ticket, connection, now>>

Refuse(w, k) ==
    /\ held[w] = NoTicket
    /\ ~Usable(k)
    /\ UNCHANGED vars

\* The UPDATE of used_at and the caller's commit; the connection is accepted
Accept(w, x) ==
    /\ held[w] # NoTicket
    /\ connection[x] = NoTicket
    /\ ticket' = [ticket EXCEPT ![held[w]].used = TRUE]
    /\ connection' = [connection EXCEPT ![x] = held[w]]
    /\ held' = [held EXCEPT ![w] = NoTicket]
    /\ UNCHANGED now

Rollback(w) ==
    /\ held[w] # NoTicket
    /\ held' = [held EXCEPT ![w] = NoTicket]
    /\ UNCHANGED <<ticket, connection, now>>

Tick ==
    /\ now < MaxTime
    /\ now' = now + 1
    /\ UNCHANGED <<ticket, connection, held>>

Next ==
    \/ \E u \in Users, k \in Tickets : Issue(u, k)
    \/ \E w \in Workers, k \in Tickets : Consume(w, k) \/ Refuse(w, k)
    \/ \E w \in Workers, x \in Connections : Accept(w, x)
    \/ \E w \in Workers : Rollback(w)
    \/ Tick

Spec == Init /\ [][Next]_vars

-----------------------------------------------------------------------------
(* Properties *)

Promise == INSTANCE OneTimeGrant WITH
    Grants <- Tickets, Gains <- Connections, issued <- Issued,
    bought <- [k \in Tickets |-> {x \in Connections : connection[x] = k}]

\* "WebSocket URLs ... use one-time short-lived tickets" (docs/security/
\* invariants.md:40): a ticket opens at most one connection (consume).
TicketsAreOneTime == Promise!Spec
=============================================================================
