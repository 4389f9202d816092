---------------------------- MODULE OneTimeGrant ----------------------------
(***************************************************************************)
(* The promise of a one-time credential (an OAuth authorization code, a    *)
(* WebSocket ticket): it is issued once and buys at most one thing.        *)
(***************************************************************************)
CONSTANTS Grants, Gains

VARIABLES
    issued,  \* credentials handed out
    bought   \* the gains each credential was exchanged for

Init ==
    /\ issued = {}
    /\ bought = [g \in Grants |-> {}]

Issue(g) ==
    /\ g \notin issued
    /\ issued' = issued \cup {g}
    /\ UNCHANGED bought

Redeem(g, x) ==
    /\ g \in issued
    /\ bought[g] = {}
    /\ \A h \in Grants : x \notin bought[h]
    /\ bought' = [bought EXCEPT ![g] = {x}]
    /\ UNCHANGED issued

Next == \E g \in Grants : Issue(g) \/ \E x \in Gains : Redeem(g, x)

Spec == Init /\ [][Next]_<<issued, bought>>
=============================================================================
