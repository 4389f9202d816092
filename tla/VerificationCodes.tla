-------------------------- MODULE VerificationCodes --------------------------
(***************************************************************************)
(* The mailed codes of VerificationCodeService (services/codes.py), used   *)
(* for e-mail verification and password reset, for one user with one or    *)
(* more addresses.                                                         *)
(*                                                                         *)
(* The service takes no row locks: a request SELECTs the latest unused     *)
(* code, decides on the row it holds in memory, and its writes appear when *)
(* the caller commits.  An UPDATE carries only the columns that changed,   *)
(* with the values computed in memory, so its row lock delays it without   *)
(* changing what it writes; the writes are applied in commit order.        *)
(***************************************************************************)
EXTENDS Naturals, FiniteSets

CONSTANTS
    Workers,      \* request handlers
    Emails,       \* addresses of the user, normalised
    Codes,        \* digit strings, one-to-one with their hashes
    ExpireAfter,  \* expire_minutes
    Cooldown,     \* resend_cooldown_seconds
    MaxAttempts,  \* max_attempts
    MaxId,        \* bound on the codes ever inserted
    MaxTime       \* bound on the clock

ASSUME BoundAssumption == {ExpireAfter, Cooldown, MaxAttempts, MaxId, MaxTime} \subseteq Nat
ASSUME SetsAssumption == Emails # {} /\ Codes # {} /\ IsFiniteSet(Workers)

Ids == 1..MaxId

VARIABLES
    code,      \* committed rows by autoincrement id, some still absent
    nextId,    \* the id sequence
    pc, job,   \* next step and transaction-local data of each handler
    now,       \* the UTC clock
    compared,  \* history: guesses compared with each code (stops at MaxAttempts + 1)
    accepted,  \* history: committed successes of each code (stops at 2)
    inTurn     \* history: no request has overlapped another

vars == <<code, nextId, pc, job, now, compared, accepted, inTurn>>

Row == [state : {"absent", "unused", "used"}, email : Emails, code : Codes,
        created : Nat, expires : Nat, attempts : 0..MaxAttempts]

Job == [email : Emails, at : Nat,
        row     : Ids \cup {0},   \* the row whose attempts is written
        tries   : Nat,            \* the value written
        spend   : SUBSET Ids,     \* rows whose used_at is written
        new     : Ids \cup {0},   \* the row inserted
        code    : Codes,          \* its code
        success : BOOLEAN]        \* verify returns the record

NoJob == [email |-> CHOOSE e \in Emails : TRUE, at |-> 0, row |-> 0, tries |-> 0,
          spend |-> {}, new |-> 0, code |-> CHOOSE c \in Codes : TRUE,
          success |-> FALSE]

Init ==
    /\ code = [i \in Ids |-> [state |-> "absent", email |-> NoJob.email,
                              code |-> NoJob.code, created |-> 0,
                              expires |-> 0, attempts |-> 0]]
    /\ nextId = 1
    /\ pc = [w \in Workers |-> "idle"]
    /\ job = [w \in Workers |-> NoJob]
    /\ now = 0
    /\ compared = [i \in Ids |-> 0]
    /\ accepted = [i \in Ids |-> 0]
    /\ inTurn = TRUE

\* A step of handler w inside its transaction, which ends at `step`
Does(w, step, j) ==
    /\ pc' = [pc EXCEPT ![w] = step]
    /\ job' = [job EXCEPT ![w] = j]

\* The first of them
Begins(w, step, j) ==
    /\ pc[w] = "idle"
    /\ Does(w, step, j)
    /\ inTurn' = (inTurn /\ \A v \in Workers : pc[v] = "idle")

\* The row of _latest, if there is one
Latest(e) ==
    LET open == {i \in Ids : code[i].state = "unused" /\ code[i].email = e}
    IN {i \in open : \A k \in open : k <= i}

UpTo(n, limit) == IF n < limit THEN n + 1 ELSE limit

CoolingDown(e) == \E i \in Latest(e) : code[i].created + Cooldown > now

\* issue returns None inside the cooldown, and verify raises when there is no
\* unused code: neither has written anything.
Refuse(w, e) ==
    /\ pc[w] = "idle"
    /\ CoolingDown(e) \/ Latest(e) = {}
    /\ UNCHANGED vars

\* issue, from its SELECT (bound: an id is left for it)
BeginIssue(w, e) ==
    /\ ~CoolingDown(e)
    /\ nextId + Cardinality({v \in Workers : pc[v] \in {"spend", "insert"}}) <= MaxId
    /\ Begins(w, "spend", [NoJob EXCEPT !.email = e, !.at = now])
    /\ UNCHANGED <<code, nextId, now, compared, accepted>>

\* Variant of SpendOld: only the code of the same address is spent.
SpendLatest(w) ==
    /\ pc[w] = "spend"
    /\ Does(w, "insert", [job[w] EXCEPT !.spend = Latest(job[w].email)])
    /\ UNCHANGED <<code, nextId, now, compared, accepted, inTurn>>

\* UPDATE ... SET used_at WHERE user_id = ... AND used_at IS NULL
SpendOld(w) ==
    /\ pc[w] = "spend"
    /\ Does(w, "insert",
            [job[w] EXCEPT !.spend = {i \in Ids : code[i].state = "unused"}])
    /\ UNCHANGED <<code, nextId, now, compared, accepted, inTurn>>

InsertCode(w, c) ==
    /\ pc[w] = "insert"
    /\ nextId' = nextId + 1
    /\ Does(w, "commit", [job[w] EXCEPT !.new = nextId, !.code = c])
    /\ UNCHANGED <<code, now, compared, accepted, inTurn>>

Expired(i) == code[i].expires <= now

NoneLeft(attempts) == attempts >= MaxAttempts

\* verify of a code that is too old or has no attempts left: only used_at
VerifyStale(w, e, i) ==
    /\ i \in Latest(e)
    /\ Expired(i) \/ NoneLeft(code[i].attempts)
    /\ Begins(w, "commit", [NoJob EXCEPT !.email = e, !.spend = {i}])
    /\ UNCHANGED <<code, nextId, now, compared, accepted>>

\* Variant of SpentBy: only a match spends the code.
SpentByMatch(i, guess) == guess = code[i].code

\* verify marks the code used when it matches, or when the attempts are over
SpentBy(i, guess) == guess = code[i].code \/ NoneLeft(code[i].attempts + 1)

\* verify of a current code, on the row as it was SELECTed
VerifyGuess(w, e, i, guess) ==
    /\ i \in Latest(e)
    /\ ~Expired(i) /\ ~NoneLeft(code[i].attempts)
    /\ compared' = [compared EXCEPT ![i] = UpTo(@, MaxAttempts + 1)]
    /\ Begins(w, "commit",
              [NoJob EXCEPT !.email = e, !.row = i, !.tries = code[i].attempts + 1,
                            !.spend = IF SpentBy(i, guess) THEN {i} ELSE {},
                            !.success = (guess = code[i].code)])
    /\ UNCHANGED <<code, nextId, now, accepted>>

\* Variant of Written: the UPDATE also carries the columns that did not change.
WrittenInFull(w, i) ==
    IF i = job[w].new
    THEN [state |-> "unused", email |-> job[w].email, code |-> job[w].code,
          created |-> job[w].at, expires |-> job[w].at + ExpireAfter, attempts |-> 0]
    ELSE [code[i] EXCEPT
            !.attempts = IF i = job[w].row THEN job[w].tries ELSE @,
            !.state = IF i \in job[w].spend THEN "used"
                      ELSE IF i = job[w].row THEN "unused" ELSE @]

\* Row i as handler w leaves it
Written(w, i) ==
    IF i = job[w].new
    THEN [state |-> "unused", email |-> job[w].email, code |-> job[w].code,
          created |-> job[w].at, expires |-> job[w].at + ExpireAfter, attempts |-> 0]
    ELSE [code[i] EXCEPT !.attempts = IF i = job[w].row THEN job[w].tries ELSE @,
                         !.state = IF i \in job[w].spend THEN "used" ELSE @]

\* The caller commits, also when verify raised
Commit(w) ==
    /\ pc[w] = "commit"
    /\ code' = [i \in Ids |-> Written(w, i)]
    /\ accepted' = IF job[w].success
                   THEN [accepted EXCEPT ![job[w].row] = UpTo(@, 2)] ELSE accepted
    /\ Does(w, "idle", NoJob)
    /\ UNCHANGED <<nextId, now, compared, inTurn>>

\* The caller rolls back, or the request or its connection is lost
Rollback(w) ==
    /\ pc[w] # "idle"
    /\ Does(w, "idle", NoJob)
    /\ UNCHANGED <<code, nextId, now, compared, accepted, inTurn>>

Tick ==
    /\ now < MaxTime
    /\ now' = now + 1
    /\ UNCHANGED <<code, nextId, pc, job, compared, accepted, inTurn>>

Request(w) ==
    \/ \E e \in Emails : Refuse(w, e) \/ BeginIssue(w, e)
    \/ SpendOld(w)
    \/ \E c \in Codes : InsertCode(w, c)
    \/ \E e \in Emails, i \in Ids : \/ VerifyStale(w, e, i)
                                    \/ \E guess \in Codes : VerifyGuess(w, e, i, guess)
    \/ Commit(w)

Next == Tick \/ \E w \in Workers : Request(w) \/ Rollback(w)

Spec == Init /\ [][Next]_vars

\* Every caller commits, after an error too, and no request is lost
CommittedSpec == Init /\ [][Tick \/ \E w \in Workers : Request(w)]_vars

-----------------------------------------------------------------------------
(* Properties *)

TypeOK ==
    /\ code \in [Ids -> Row]
    /\ nextId \in 1..(MaxId + 1)
    /\ pc \in [Workers -> {"idle", "spend", "insert", "commit"}]
    /\ job \in [Workers -> Job]
    /\ now \in 0..MaxTime
    /\ compared \in [Ids -> 0..(MaxAttempts + 1)]
    /\ accepted \in [Ids -> 0..2]
    /\ inTurn \in BOOLEAN

\* A code that was accepted, or guessed until no attempts were left, can never be
\* verified again by a request that starts later, although a slower request may
\* write an older attempts count over the row afterwards (verify).
FinishedIsSpent ==
    \A i \in Ids :
        accepted[i] > 0 \/ (code[i].attempts > 0 /\ NoneLeft(code[i].attempts))
            => code[i].state = "used"

\* Ids are drawn in order, and one is left for every code under way.
IdsInOrder ==
    /\ \A i \in Ids : i >= nextId => code[i].state = "absent"
    /\ \A i \in Ids : code[i].state = "absent" => code[i].attempts = 0
    /\ nextId + Cardinality({v \in Workers : pc[v] \in {"spend", "insert"}}) <= MaxId + 1

\* What handler w is about to write: a row of its own, or attempts and used_at
\* of rows that exist; a match or the last attempt comes with used_at.
Pending(w) ==
    /\ pc[w] = "idle" => job[w] = NoJob
    /\ job[w].row # 0 \/ job[w].new # 0 \/ job[w].success => pc[w] = "commit"
    /\ job[w].new # 0 => /\ job[w].new < nextId
                         /\ code[job[w].new].state = "absent"
                         /\ job[w].row = 0
    /\ job[w].row # 0 => /\ code[job[w].row].state # "absent"
                         /\ job[w].tries \in 1..MaxAttempts
                         /\ job[w].success \/ NoneLeft(job[w].tries)
                              => job[w].row \in job[w].spend
    /\ job[w].success => job[w].row # 0
    /\ \A i \in job[w].spend : code[i].state # "absent"

NewRowsDiffer ==
    \A v, w \in Workers : v # w /\ job[v].new # 0 => job[v].new # job[w].new

IssuesCode(w) == pc[w] \in {"spend", "insert"} \/ job[w].new # 0

\* While no request has overlapped another, at most one is under way and one code
\* open, and what the request read when it began is still so.
ReadsHold(w) ==
    /\ IssuesCode(w) =>
         \A i \in Ids : code[i].state = "unused" /\ code[i].email = job[w].email
                            => code[i].created + Cooldown <= job[w].at
    /\ pc[w] = "insert" \/ job[w].new # 0 =>
         job[w].spend = {i \in Ids : code[i].state = "unused"}
    /\ pc[w] = "commit" /\ job[w].new = 0 =>
         \/ /\ job[w].row = 0
            /\ \E i \in Ids : code[i].state = "unused" /\ job[w].spend = {i}
         \/ /\ job[w].row # 0 /\ code[job[w].row].state = "unused"
            /\ job[w].tries = code[job[w].row].attempts + 1
            /\ job[w].spend = IF job[w].success \/ NoneLeft(job[w].tries)
                              THEN {job[w].row} ELSE {}

InTurn ==
    /\ \A i, k \in Ids : code[i].state = "unused" /\ code[k].state = "unused" => i = k
    /\ \A w \in Workers : pc[w] # "idle" =>
         /\ \A v \in Workers : v # w => pc[v] = "idle"
         /\ ReadsHold(w)

\* The inductive invariant, of which FinishedIsSpent is what verify owes its caller
IInv ==
    /\ TypeOK
    /\ IdsInOrder
    /\ \A w \in Workers : Pending(w)
    /\ NewRowsDiffer
    /\ FinishedIsSpent
    /\ inTurn => InTurn

\* A code once used is used for ever, whatever stale rows other requests hold.
SpentForEver ==
    [][\A i \in Ids : code[i].state = "used" => code'[i].state = "used"]_vars

\* "Attempts and resend frequency are limited" (docs/security/invariants.md:26), of
\* which this is the first half: no more than max_attempts guesses are compared with
\* a code, when every caller commits.
AttemptsLimited == \A i \in Ids : compared[i] <= MaxAttempts

Promise == INSTANCE RecoveryCode WITH
    status <- [i \in Ids |-> IF code[i].state = "unused" THEN "open"
                             ELSE IF code[i].state = "used" THEN "ended" ELSE "absent"],
    email <- [i \in Ids |-> code[i].email],
    sent <- [i \in Ids |-> code[i].created],
    guesses <- [i \in Ids |-> code[i].attempts],
    hits <- accepted

\* "Password reset and email verification codes are hashed, expiring and one-time"
\* (invariants.md:25): as long as requests do not overlap, and whichever of them are
\* rolled back or lost, issue and verify do what RecoveryCode says: one open code for
\* all addresses, max_attempts committed guesses and one success of it.  Of the next
\* line, "Attempts and resend frequency are limited", this is not the second half:
\* issue holds a code back only while an open one of its address is fresh, and sends
\* another at once after the last attempt, or to and fro between two addresses.
PromiseKeptInTurn ==
    [][inTurn' => \/ Promise!Next
                  \/ UNCHANGED Promise!vars]_vars
=============================================================================
