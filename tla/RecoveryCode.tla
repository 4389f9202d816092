---------------------------- MODULE RecoveryCode ----------------------------
(***************************************************************************)
(* What the recovery codes of a user do, with no requests, rows or         *)
(* rollbacks: one code is open at a time, it takes a limited number of     *)
(* guesses and ends with the right one, and an address that holds an open  *)
(* code gets no other one for a while.  Each happens in a single step.     *)
(*                                                                         *)
(* This limits the guesses at a code.  It does not limit the codes sent: a *)
(* code that has ended, guessed to its last attempt or superseded by one   *)
(* for another address, no longer holds back the next.                     *)
(***************************************************************************)
EXTENDS Naturals

CONSTANTS
    Ids,          \* codes ever sent
    Emails,
    MaxAttempts,  \* guesses a code takes
    Cooldown      \* how long an open code holds back the next for its address

VARIABLES
    status,   \* of each code: "absent", "open" or "ended"
    email,    \* where it was sent,
    sent,     \* and when
    guesses,  \* how often it was guessed,
    hits      \* and guessed right

vars == <<status, email, sent, guesses, hits>>

Open == {i \in Ids : status[i] = "open"}

Init ==
    /\ status = [i \in Ids |-> "absent"]
    /\ email \in [Ids -> Emails]
    /\ sent = [i \in Ids |-> 0]
    /\ guesses = [i \in Ids |-> 0]
    /\ hits = [i \in Ids |-> 0]

\* Only an open code of the same address holds it back
Send(i) ==
    /\ status[i] = "absent"
    /\ \A k \in Open : email[k] = email'[i] => sent[k] + Cooldown <= sent'[i]
    /\ status' = [k \in Ids |-> IF k = i THEN "open"
                                ELSE IF k \in Open THEN "ended" ELSE status[k]]
    /\ \A k \in Ids \ {i} : email'[k] = email[k] /\ sent'[k] = sent[k]
    /\ UNCHANGED <<guesses, hits>>

Guess(i, right) ==
    /\ status[i] = "open" /\ guesses[i] < MaxAttempts
    /\ guesses' = [guesses EXCEPT ![i] = @ + 1]
    /\ hits' = IF right THEN [hits EXCEPT ![i] = @ + 1] ELSE hits
    /\ status' = IF right \/ guesses'[i] = MaxAttempts
                 THEN [status EXCEPT ![i] = "ended"] ELSE status
    /\ UNCHANGED <<email, sent>>

\* It was too old when somebody tried it
Discard(i) ==
    /\ status[i] = "open"
    /\ status' = [status EXCEPT ![i] = "ended"]
    /\ UNCHANGED <<email, sent, guesses, hits>>

Next == \E i \in Ids : Send(i) \/ Discard(i) \/ \E right \in BOOLEAN : Guess(i, right)
=============================================================================
