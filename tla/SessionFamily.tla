---------------------------- MODULE SessionFamily ----------------------------
(***************************************************************************)
(* What the refresh-token service promises, with no transactions, locks or *)
(* requests: a login opens a family with one current token, a refresh      *)
(* replaces the current token by a new one, and a logout, a replay or an   *)
(* expiry closes the family for ever.  Each happens in a single step.      *)
(***************************************************************************)
CONSTANTS Sessions, Tokens

VARIABLES
    state,    \* of each family: "absent", "live" or "revoked"
    current,  \* the tokens that continue it
    spent     \* the tokens that do not, any more

vars == <<state, current, spent>>

Fresh(t) == \A s \in Sessions : t \notin current[s] \cup spent[s]

Init ==
    /\ state = [s \in Sessions |-> "absent"]
    /\ current = [s \in Sessions |-> {}]
    /\ spent = [s \in Sessions |-> {}]

Open(s, t) ==
    /\ state[s] = "absent"
    /\ Fresh(t)
    /\ state' = [state EXCEPT ![s] = "live"]
    /\ current' = [current EXCEPT ![s] = {t}]
    /\ UNCHANGED spent

Rotate(s, t) ==
    /\ state[s] = "live"
    /\ Fresh(t)
    /\ current' = [current EXCEPT ![s] = {t}]
    /\ spent' = [spent EXCEPT ![s] = @ \cup current[s]]
    /\ UNCHANGED state

\* One step may close several families: all those of a user
Close(ended) ==
    /\ \A s \in ended : state[s] = "live"
    /\ state' = [s \in Sessions |-> IF s \in ended THEN "revoked" ELSE state[s]]
    /\ current' = [s \in Sessions |-> IF s \in ended THEN {} ELSE current[s]]
    /\ spent' = [s \in Sessions |-> IF s \in ended
                                    THEN spent[s] \cup current[s] ELSE spent[s]]

Next ==
    \/ \E s \in Sessions, t \in Tokens : Open(s, t) \/ Rotate(s, t)
    \/ \E ended \in SUBSET Sessions : Close(ended)

Spec == Init /\ [][Next]_vars
=============================================================================
