\* Two overlapping consumptions of one ticket.
SPECIFICATION Spec
CONSTANTS
    Workers = {w1, w2}
    Users = {u1, u2}
    Tickets = {k1, k2}
    Connections = {x1, x2, x3}
    NoTicket = NoTicket
    NoUser = NoUser
    Lifetime = 2
    MaxTime = 3
SYMMETRY Symmetry
PROPERTIES
    TicketsAreOneTime
