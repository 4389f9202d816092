------------------------ MODULE VerificationCodesProofs ------------------------
(***************************************************************************)
(* VerificationCodes keeps IInv, spends a code for ever, and keeps the     *)
(* promise of RecoveryCode while no request has overlapped another, for    *)
(* any number of handlers, addresses, codes and attempts.                  *)
(***************************************************************************)
EXTENDS VerificationCodes, FiniteSetTheorems, TLAPS

-----------------------------------------------------------------------------
(* Data *)

LEMMA Bounds ==
    /\ ExpireAfter \in Nat /\ Cooldown \in Nat /\ MaxAttempts \in Nat
    /\ MaxId \in Nat /\ MaxTime \in Nat
  BY BoundAssumption

\* A handler that does nothing: its fields, and that they have their types.
LEMMA NoJobType ==
    /\ NoJob \in Job
    /\ NoJob.row = 0 /\ NoJob.new = 0 /\ NoJob.spend = {} /\ NoJob.success = FALSE
<1>1. (CHOOSE e \in Emails : TRUE) \in Emails /\ (CHOOSE c \in Codes : TRUE) \in Codes
  BY SetsAssumption
<1> QED
  BY <1>1 DEF NoJob, Job

\* UpTo counts up to its limit.
LEMMA UpToType ==
    ASSUME NEW limit \in Nat, NEW n \in 0..limit
    PROVE  /\ UpTo(n, limit) \in 0..limit
           /\ n < limit => UpTo(n, limit) = n + 1
  BY DEF UpTo

-----------------------------------------------------------------------------
(* Handlers that are issuing a code *)

Issuers == {v \in Workers : pc[v] \in {"spend", "insert"}}

LEMMA IssuersFinite ==
    /\ IsFiniteSet(Issuers) /\ Cardinality(Issuers) \in Nat
    /\ IsFiniteSet(Issuers') /\ Cardinality(Issuers') \in Nat
<1>1. Issuers \subseteq Workers /\ Issuers' \subseteq Workers
  BY DEF Issuers
<1> QED
  BY <1>1, SetsAssumption, FS_Subset, FS_CardinalityType

LEMMA IssuersAdd ==
    ASSUME NEW w \in Workers, w \notin Issuers, Issuers' = Issuers \cup {w}
    PROVE  Cardinality(Issuers)' = Cardinality(Issuers) + 1
  BY IssuersFinite, FS_AddElement

LEMMA IssuersRemove ==
    ASSUME NEW w \in Workers, w \in Issuers, Issuers' = Issuers \ {w}
    PROVE  Cardinality(Issuers)' = Cardinality(Issuers) - 1
  BY IssuersFinite, FS_RemoveElement

LEMMA IssuersFewer ==
    ASSUME Issuers' \subseteq Issuers
    PROVE  Cardinality(Issuers)' <= Cardinality(Issuers)
  BY IssuersFinite, FS_Subset

-----------------------------------------------------------------------------
(* The initial state *)

LEMMA InitLemma == Init => IInv
<1> SUFFICES ASSUME Init PROVE IInv
  OBVIOUS
<1> USE Bounds
<1>1. NoJob.email \in Emails /\ NoJob.code \in Codes
  BY NoJobType DEF Job
<1>2. TypeOK
  <2>1. [state |-> "absent", email |-> NoJob.email, code |-> NoJob.code, created |-> 0,
         expires |-> 0, attempts |-> 0] \in Row
    BY <1>1 DEF Row
  <2> QED
    BY <2>1, NoJobType DEF Init, TypeOK
<1>3. IdsInOrder
  <2>1. Issuers = {}
    BY DEF Init, Issuers
  <2>2. Cardinality({v \in Workers : pc[v] \in {"spend", "insert"}}) = 0
    BY <2>1, FS_EmptySet DEF Issuers
  <2> QED
    BY <2>2 DEF Init, IdsInOrder
<1>4. \A w \in Workers : Pending(w)
  BY NoJobType DEF Init, Pending
<1>5. NewRowsDiffer /\ FinishedIsSpent
  BY NoJobType DEF Init, NewRowsDiffer, FinishedIsSpent
<1>6. InTurn
  BY DEF Init, InTurn
<1> QED
  BY <1>2, <1>3, <1>4, <1>5, <1>6 DEF IInv

-----------------------------------------------------------------------------
(* Steps inside a transaction *)

\* A step of w that commits nothing: the rows stay, and so do the other handlers.
Local(w) ==
    /\ UNCHANGED <<code, accepted>>
    /\ nextId' >= nextId
    /\ \A v \in Workers : v # w => pc'[v] = pc[v] /\ job'[v] = job[v]
    /\ job'[w].new \in {0, nextId}

LEMMA LocalLemma ==
    ASSUME IInv, TypeOK', NEW w \in Workers, Local(w), Pending(w)',
           nextId' + Cardinality(Issuers)' <= MaxId + 1,
           inTurn' => InTurn'
    PROVE  IInv'
<1> USE Bounds
<1>1. /\ TypeOK /\ IdsInOrder /\ NewRowsDiffer /\ FinishedIsSpent
      /\ nextId \in 1..(MaxId + 1) /\ nextId' \in 1..(MaxId + 1)
      /\ \A v \in Workers : Pending(v) /\ job[v] \in Job
  BY DEF IInv, TypeOK
<1>2. IdsInOrder'
  <2>1. \A i \in Ids : i >= nextId' => i >= nextId
    BY <1>1 DEF Local, Ids
  <2> QED
    BY <1>1, <2>1 DEF Local, IdsInOrder, Issuers
<1>3. ASSUME NEW v \in Workers, v # w PROVE Pending(v)'
  BY <1>1, <1>3 DEF Local, Pending, Job, Ids
<1>4. NewRowsDiffer'
  BY <1>1 DEF Local, NewRowsDiffer, Pending, Job, Ids
<1>5. FinishedIsSpent'
  BY <1>1 DEF Local, FinishedIsSpent
<1> QED
  BY <1>2, <1>3, <1>4, <1>5 DEF IInv

\* The first step of a request finds nobody else at work, or ends the turns.
LEMMA BeginsLemma ==
    ASSUME IInv, NEW w \in Workers, NEW step \in {"spend", "commit"}, NEW j \in Job,
           Begins(w, step, j), UNCHANGED code, inTurn' => ReadsHold(w)'
    PROVE  /\ pc[w] = "idle" /\ pc'[w] = step /\ job'[w] = j
           /\ \A v \in Workers : v # w => pc'[v] = pc[v] /\ job'[v] = job[v]
           /\ pc' \in [Workers -> {"idle", "spend", "insert", "commit"}]
           /\ job' \in [Workers -> Job] /\ inTurn' \in BOOLEAN
           /\ inTurn' => InTurn'
<1>1. TypeOK
  BY DEF IInv
<1>2. /\ pc[w] = "idle" /\ pc'[w] = step /\ job'[w] = j
      /\ \A v \in Workers : v # w => pc'[v] = pc[v] /\ job'[v] = job[v]
      /\ pc' \in [Workers -> {"idle", "spend", "insert", "commit"}]
      /\ job' \in [Workers -> Job] /\ inTurn' \in BOOLEAN
  BY <1>1 DEF Begins, Does, TypeOK
<1>3. ASSUME inTurn' PROVE InTurn'
  <2>1. inTurn /\ \A v \in Workers : pc[v] = "idle"
    BY <1>1, <1>3 DEF Begins, TypeOK
  <2>2. InTurn
    BY <2>1 DEF IInv
  <2>3. \A v \in Workers : pc'[v] # "idle" => v = w
    BY <1>2, <2>1
  <2> QED
    BY <1>3, <2>2, <2>3 DEF InTurn
<1> QED
  BY <1>2, <1>3

\* While requests take turns, an open code of an address is its latest.
LEMMA OpenIsLatest ==
    ASSUME InTurn, NEW i \in Ids, code[i].state = "unused"
    PROVE  i \in Latest(code[i].email)
  BY Bounds DEF InTurn, Latest, Ids

LEMMA LatestOpen ==
    ASSUME NEW e, NEW i \in Latest(e)
    PROVE  i \in Ids /\ code[i].state = "unused" /\ code[i].email = e
  BY DEF Latest

LEMMA BeginIssueStep ==
    ASSUME IInv, NEW w \in Workers, NEW e \in Emails, BeginIssue(w, e)
    PROVE  IInv'
<1> USE Bounds
<1> DEFINE j == [NoJob EXCEPT !.email = e, !.at = now]
<1>1. TypeOK /\ IdsInOrder /\ now \in Nat /\ nextId \in Nat
  BY DEF IInv, TypeOK
<1>2. /\ j \in Job /\ j.email = e /\ j.at = now /\ j.row = 0 /\ j.new = 0
      /\ j.spend = {} /\ j.success = FALSE
  BY <1>1, NoJobType DEF Job
<1>3. /\ ~CoolingDown(e) /\ Begins(w, "spend", j)
      /\ nextId + Cardinality(Issuers) <= MaxId
      /\ UNCHANGED <<code, nextId, now, compared, accepted>>
  BY DEF BeginIssue, Issuers
<1> HIDE DEF j
<1>4. pc[w] = "idle" /\ pc'[w] = "spend" /\ job'[w] = j
  BY <1>1, <1>3 DEF Begins, Does, TypeOK
<1>5. ASSUME inTurn' PROVE ReadsHold(w)'
  <2>1. InTurn
    BY <1>1, <1>3, <1>5 DEF IInv, Begins, TypeOK
  <2>2. ASSUME NEW i \in Ids, code[i].state = "unused", code[i].email = e
        PROVE  code[i].created + Cooldown <= now
    <3>1. i \in Latest(e)
      BY <2>1, <2>2, OpenIsLatest
    <3>2. code[i].created \in Nat
      BY <1>1 DEF TypeOK, Row
    <3> QED
      BY <1>1, <1>3, <3>1, <3>2 DEF CoolingDown
  <2> QED
    BY <1>2, <1>3, <1>4, <2>2 DEF ReadsHold
<1>6. TypeOK' /\ Local(w) /\ (inTurn' => InTurn')
  BY <1>1, <1>2, <1>3, <1>5, BeginsLemma DEF TypeOK, Local
<1>7. Pending(w)'
  BY <1>2, <1>4 DEF Pending
<1>8. Issuers' = Issuers \cup {w} /\ w \notin Issuers
  BY <1>2, <1>3, <1>4, <1>5, BeginsLemma DEF Issuers
<1>9. nextId' + Cardinality(Issuers)' <= MaxId + 1
  <2>1. Cardinality(Issuers)' = Cardinality(Issuers) + 1 /\ Cardinality(Issuers) \in Nat
    BY <1>8, IssuersFinite, IssuersAdd
  <2> QED
    BY <1>1, <1>3, <2>1
<1> QED
  BY <1>6, <1>7, <1>9, LocalLemma

LEMMA SpendOldStep ==
    ASSUME IInv, NEW w \in Workers, SpendOld(w)
    PROVE  IInv'
<1> DEFINE open == {i \in Ids : code[i].state = "unused"}
           j == [job[w] EXCEPT !.spend = open]
<1>1. TypeOK /\ IdsInOrder /\ Pending(w) /\ job[w] \in Job /\ nextId \in Nat
  BY DEF IInv, TypeOK
<1>2. /\ j \in Job /\ j.email = job[w].email /\ j.at = job[w].at /\ j.row = job[w].row
      /\ j.new = job[w].new /\ j.success = job[w].success /\ j.spend = open
  BY <1>1 DEF Job
<1>3. /\ pc[w] = "spend" /\ Does(w, "insert", j)
      /\ UNCHANGED <<code, nextId, now, compared, accepted, inTurn>>
  BY DEF SpendOld
<1> HIDE DEF j
<1>4. /\ pc'[w] = "insert" /\ job'[w] = j
      /\ \A v \in Workers : v # w => pc'[v] = pc[v] /\ job'[v] = job[v]
  BY <1>1, <1>3 DEF Does, TypeOK
<1>5. j.row = 0 /\ j.new = 0 /\ j.success = FALSE
  BY <1>1, <1>2, <1>3 DEF Pending, Job
<1>6. TypeOK' /\ Local(w)
  BY <1>1, <1>2, <1>3, <1>4, <1>5 DEF TypeOK, Local, Does
<1>7. Pending(w)'
  BY <1>2, <1>3, <1>4, <1>5 DEF Pending
<1>8. nextId' + Cardinality(Issuers)' <= MaxId + 1
  <2>1. Issuers' = Issuers
    BY <1>3, <1>4 DEF Issuers
  <2> QED
    BY <1>1, <1>3, <2>1 DEF IdsInOrder, Issuers
<1>9. ASSUME inTurn' PROVE InTurn'
  <2>1. InTurn
    BY <1>3, <1>9 DEF IInv
  <2>2. ReadsHold(w)'
    BY <1>2, <1>3, <1>4, <1>5, <2>1 DEF InTurn, ReadsHold, IssuesCode
  <2> QED
    BY <1>3, <1>4, <2>1, <2>2 DEF InTurn
<1> QED
  BY <1>6, <1>7, <1>8, <1>9, LocalLemma

LEMMA InsertCodeStep ==
    ASSUME IInv, NEW w \in Workers, NEW c \in Codes, InsertCode(w, c)
    PROVE  IInv'
<1> USE Bounds
<1> DEFINE j == [job[w] EXCEPT !.new = nextId, !.code = c]
<1>1. /\ TypeOK /\ IdsInOrder /\ Pending(w) /\ job[w] \in Job /\ nextId \in Nat /\ nextId >= 1
  BY DEF IInv, TypeOK
<1>2. /\ pc[w] = "insert" /\ Does(w, "commit", j) /\ nextId' = nextId + 1
      /\ UNCHANGED <<code, now, compared, accepted, inTurn>>
  BY DEF InsertCode
<1>3. /\ pc'[w] = "commit" /\ job'[w] = j
      /\ \A v \in Workers : v # w => pc'[v] = pc[v] /\ job'[v] = job[v]
  BY <1>1, <1>2 DEF Does, TypeOK
<1>4. Issuers' = Issuers \ {w} /\ w \in Issuers
  BY <1>2, <1>3 DEF Issuers
<1>5. /\ nextId + Cardinality(Issuers) <= MaxId + 1
      /\ Cardinality(Issuers)' = Cardinality(Issuers) - 1
      /\ Cardinality(Issuers) \in Nat /\ Cardinality(Issuers)' \in Nat
  BY <1>1, <1>4, IssuersFinite, IssuersRemove DEF IdsInOrder, Issuers
<1>6. nextId \in Ids /\ nextId' + Cardinality(Issuers)' <= MaxId + 1
  BY <1>1, <1>2, <1>5 DEF Ids
<1>7. /\ j \in Job /\ j.email = job[w].email /\ j.at = job[w].at /\ j.row = job[w].row
      /\ j.new = nextId /\ j.success = job[w].success /\ j.spend = job[w].spend
  BY <1>1, <1>6 DEF Job
<1> HIDE DEF j
<1>8. j.row = 0 /\ j.success = FALSE
  BY <1>1, <1>2, <1>7 DEF Pending, Job
<1>9. TypeOK' /\ Local(w)
  BY <1>1, <1>2, <1>3, <1>6, <1>7 DEF TypeOK, Local, Does, Ids
<1>10. Pending(w)'
  BY <1>1, <1>2, <1>3, <1>6, <1>7, <1>8 DEF Pending, IdsInOrder
<1>11. ASSUME inTurn' PROVE InTurn'
  <2>1. InTurn
    BY <1>2, <1>11 DEF IInv
  <2>2. ReadsHold(w) /\ IssuesCode(w)
    BY <1>2, <2>1 DEF InTurn, IssuesCode
  <2>3. ReadsHold(w)'
    BY <1>1, <1>2, <1>3, <1>7, <2>2 DEF ReadsHold
  <2> QED
    BY <1>2, <1>3, <2>1, <2>3 DEF InTurn
<1> QED
  BY <1>6, <1>9, <1>10, <1>11, LocalLemma

LEMMA VerifyStaleStep ==
    ASSUME IInv, NEW w \in Workers, NEW e \in Emails, NEW i \in Ids, VerifyStale(w, e, i)
    PROVE  IInv'
<1> DEFINE j == [NoJob EXCEPT !.email = e, !.spend = {i}]
<1>1. TypeOK /\ IdsInOrder /\ nextId \in Nat
  BY DEF IInv, TypeOK
<1>2. /\ j \in Job /\ j.row = 0 /\ j.new = 0 /\ j.spend = {i} /\ j.success = FALSE
  BY NoJobType DEF Job
<1>3. /\ Begins(w, "commit", j) /\ code[i].state = "unused"
      /\ UNCHANGED <<code, nextId, now, compared, accepted>>
  BY LatestOpen DEF VerifyStale
<1> HIDE DEF j
<1>4. pc[w] = "idle" /\ pc'[w] = "commit" /\ job'[w] = j
  BY <1>1, <1>3 DEF Begins, Does, TypeOK
<1>5. ReadsHold(w)'
  BY <1>2, <1>3, <1>4 DEF ReadsHold, IssuesCode
<1>6. TypeOK' /\ Local(w) /\ (inTurn' => InTurn')
  BY <1>1, <1>2, <1>3, <1>5, BeginsLemma DEF TypeOK, Local
<1>7. Pending(w)'
  BY <1>2, <1>3, <1>4 DEF Pending
<1>8. Issuers' = Issuers
  BY <1>2, <1>3, <1>4, <1>5, BeginsLemma DEF Issuers
<1>9. nextId' + Cardinality(Issuers)' <= MaxId + 1
  BY <1>1, <1>3, <1>8 DEF IdsInOrder, Issuers
<1> QED
  BY <1>6, <1>7, <1>9, LocalLemma

LEMMA VerifyGuessStep ==
    ASSUME IInv, NEW w \in Workers, NEW e \in Emails, NEW i \in Ids, NEW guess \in Codes,
           VerifyGuess(w, e, i, guess)
    PROVE  IInv'
<1> USE Bounds
<1> DEFINE spend == IF SpentBy(i, guess) THEN {i} ELSE {}
           tries == code[i].attempts + 1
           success == (guess = code[i].code)
           j == [NoJob EXCEPT !.email = e, !.row = i, !.tries = tries,
                              !.spend = spend, !.success = success]
<1>1. /\ TypeOK /\ IdsInOrder /\ nextId \in Nat /\ code[i].attempts \in 0..MaxAttempts
      /\ i # 0
  <2>1. TypeOK /\ IdsInOrder
    BY DEF IInv
  <2>2. code[i] \in Row /\ nextId \in Nat
    BY <2>1 DEF TypeOK
  <2> QED
    BY <2>1, <2>2 DEF Row, Ids
<1>2. /\ Begins(w, "commit", j) /\ code[i].state = "unused" /\ code[i].attempts < MaxAttempts
      /\ compared' = [compared EXCEPT ![i] = UpTo(@, MaxAttempts + 1)]
      /\ UNCHANGED <<code, nextId, now, accepted>>
  BY <1>1, LatestOpen DEF VerifyGuess, NoneLeft
<1>3. /\ tries \in 1..MaxAttempts /\ spend \in SUBSET Ids /\ success \in BOOLEAN
      /\ spend = IF success \/ NoneLeft(tries) THEN {i} ELSE {}
  BY <1>1, <1>2 DEF SpentBy
<1> HIDE DEF tries, spend, success
<1>4. /\ j \in Job /\ j.row = i /\ j.new = 0 /\ j.tries = tries /\ j.spend = spend
      /\ j.success = success
  <2>1. tries \in Nat
    BY <1>3
  <2>2. [NoJob EXCEPT !.email = e, !.row = i] \in Job
    BY NoJobType DEF Job
  <2> QED
    BY <1>3, <2>1, <2>2, NoJobType DEF Job
<1> HIDE DEF j
<1>5. pc[w] = "idle" /\ pc'[w] = "commit" /\ job'[w] = j
  BY <1>1, <1>2 DEF Begins, Does, TypeOK
<1>6. ReadsHold(w)'
  BY <1>1, <1>2, <1>3, <1>4, <1>5 DEF ReadsHold, IssuesCode, tries
<1>7. compared' \in [Ids -> 0..(MaxAttempts + 1)]
  BY <1>1, <1>2, UpToType DEF TypeOK
<1>8. TypeOK' /\ Local(w) /\ (inTurn' => InTurn')
  BY <1>1, <1>2, <1>4, <1>6, <1>7, BeginsLemma DEF TypeOK, Local
<1>9. Pending(w)'
  BY <1>1, <1>2, <1>3, <1>4, <1>5 DEF Pending
<1>10. Issuers' = Issuers
  BY <1>2, <1>4, <1>5, <1>6, BeginsLemma DEF Issuers
<1>11. nextId' + Cardinality(Issuers)' <= MaxId + 1
  BY <1>1, <1>2, <1>10 DEF IdsInOrder, Issuers
<1> QED
  BY <1>8, <1>9, <1>11, LocalLemma

LEMMA RollbackStep ==
    ASSUME IInv, NEW w \in Workers, Rollback(w)
    PROVE  IInv'
<1> USE Bounds
<1>1. TypeOK /\ IdsInOrder /\ nextId \in Nat
  BY DEF IInv, TypeOK
<1>2. /\ Does(w, "idle", NoJob)
      /\ UNCHANGED <<code, nextId, now, compared, accepted, inTurn>>
  BY DEF Rollback
<1>3. /\ pc'[w] = "idle" /\ job'[w] = NoJob
      /\ \A v \in Workers : v # w => pc'[v] = pc[v] /\ job'[v] = job[v]
  BY <1>1, <1>2 DEF Does, TypeOK
<1>4. TypeOK' /\ Local(w) /\ (inTurn' => InTurn')
  <2>1. pc' \in [Workers -> {"idle", "spend", "insert", "commit"}]
    BY <1>1, <1>2 DEF TypeOK, Does
  <2>2. job' \in [Workers -> Job]
    BY <1>1, <1>2, NoJobType DEF TypeOK, Does
  <2>3. TypeOK'
    BY <1>1, <1>2, <2>1, <2>2 DEF TypeOK
  <2>4. job'[w].new = 0
    BY <1>3, NoJobType
  <2>5. ASSUME inTurn' PROVE InTurn'
    <3>1. InTurn
      BY <1>2, <2>5 DEF IInv
    <3>2. ASSUME NEW v \in Workers, pc'[v] # "idle"
          PROVE  v # w /\ pc[v] # "idle" /\ ReadsHold(v)
      BY <1>3, <3>1, <3>2 DEF InTurn
    <3>3. \A v \in Workers : pc'[v] # "idle" => ReadsHold(v)'
      BY <1>2, <1>3, <3>2 DEF ReadsHold, IssuesCode
    <3>4. \A v \in Workers : pc'[v] # "idle" =>
            \A u \in Workers : u # v => pc'[u] = "idle"
      BY <1>3, <3>1 DEF InTurn
    <3> QED
      BY <1>2, <3>1, <3>3, <3>4 DEF InTurn
  <2> QED
    BY <1>1, <1>2, <1>3, <2>3, <2>4, <2>5 DEF Local
<1>7. Pending(w)'
  <2>1. job'[w].row = 0 /\ job'[w].new = 0 /\ job'[w].spend = {} /\ job'[w].success = FALSE
    BY <1>3, NoJobType
  <2> QED
    BY <1>3, <2>1 DEF Pending
<1>5. Issuers' \subseteq Issuers
  BY <1>2, <1>3 DEF Issuers
<1>6. nextId' + Cardinality(Issuers)' <= MaxId + 1
  BY <1>1, <1>2, <1>5, IssuersFinite, IssuersFewer DEF IdsInOrder, Issuers
<1> QED
  BY <1>2, <1>4, <1>6, <1>7, LocalLemma

-----------------------------------------------------------------------------
(* A commit *)

\* What a commit leaves of the other handlers.
LEMMA CommitEnds ==
    ASSUME IInv, NEW w \in Workers, Commit(w)
    PROVE  /\ pc[w] = "commit" /\ pc'[w] = "idle" /\ job'[w] = NoJob
           /\ \A v \in Workers : v # w => pc'[v] = pc[v] /\ job'[v] = job[v]
           /\ pc' \in [Workers -> {"idle", "spend", "insert", "commit"}]
           /\ job' \in [Workers -> Job]
           /\ UNCHANGED <<nextId, now, compared, inTurn>>
  BY NoJobType DEF IInv, TypeOK, Commit, Does

\* What a commit leaves of row i: its new row, or a row that keeps everything
\* but the attempts and used_at that the handler carries.
LEMMA CommitWrites ==
    ASSUME IInv, NEW w \in Workers, Commit(w), NEW i \in Ids
    PROVE  /\ code'[i] \in Row
           /\ i = job[w].new =>
                /\ code[i].state = "absent" /\ i < nextId /\ i # job[w].row
                /\ code'[i].state = "unused" /\ code'[i].attempts = 0
                /\ code'[i].email = job[w].email /\ code'[i].created = job[w].at
           /\ i # job[w].new =>
                /\ code'[i].state = IF i \in job[w].spend THEN "used" ELSE code[i].state
                /\ code'[i].attempts = IF i = job[w].row THEN job[w].tries ELSE code[i].attempts
                /\ code'[i].email = code[i].email /\ code'[i].created = code[i].created
<1> USE Bounds
<1>1. /\ TypeOK /\ Pending(w) /\ code[i] \in Row /\ job[w] \in Job
      /\ i \in Nat /\ i # 0 /\ nextId \in Nat
  BY DEF IInv, TypeOK, Ids
<1>2. code'[i] = Written(w, i)
  BY DEF Commit
<1>3. CASE i = job[w].new
  <2>1. code'[i] = [state |-> "unused", email |-> job[w].email, code |-> job[w].code,
                    created |-> job[w].at, expires |-> job[w].at + ExpireAfter, attempts |-> 0]
    BY <1>2, <1>3 DEF Written
  <2>2. job[w].email \in Emails /\ job[w].code \in Codes /\ job[w].at + ExpireAfter \in Nat
        /\ job[w].at \in Nat
    BY <1>1 DEF Job
  <2>3. code'[i] \in Row
    BY <2>1, <2>2 DEF Row
  <2> QED
    BY <1>1, <1>3, <2>1, <2>3 DEF Pending
<1>4. CASE i # job[w].new
  <2> DEFINE a == IF i = job[w].row THEN job[w].tries ELSE code[i].attempts
             st == IF i \in job[w].spend THEN "used" ELSE code[i].state
  <2>1. code'[i] = [code[i] EXCEPT !.attempts = a, !.state = st]
    BY <1>1, <1>2, <1>4 DEF Written, Row
  <2>2. a \in 0..MaxAttempts /\ st \in {"absent", "unused", "used"}
    BY <1>1 DEF Row, Pending
  <2> HIDE DEF a, st
  <2>3. code'[i] \in Row /\ code'[i].state = st /\ code'[i].attempts = a
        /\ code'[i].email = code[i].email /\ code'[i].created = code[i].created
    BY <1>1, <2>1, <2>2 DEF Row
  <2> QED
    BY <1>4, <2>3 DEF a, st
<1> QED
  BY <1>3, <1>4

\* The successes a commit counts.
LEMMA CommitAccepts ==
    ASSUME IInv, NEW w \in Workers, Commit(w)
    PROVE  /\ accepted' \in [Ids -> 0..2]
           /\ job[w].success => job[w].row \in Ids
           /\ \A i \in Ids : accepted'[i] = IF job[w].success /\ i = job[w].row
                                            THEN UpTo(accepted[i], 2) ELSE accepted[i]
<1>1. TypeOK /\ Pending(w) /\ job[w] \in Job
  BY DEF IInv, TypeOK
<1>2. job[w].success => job[w].row \in Ids
  BY <1>1 DEF Pending, Job
<1>3. accepted \in [Ids -> 0..2]
  BY <1>1 DEF TypeOK
<1>4. \A i \in Ids : UpTo(accepted[i], 2) \in 0..2
  BY <1>3, UpToType
<1>5. accepted' = IF job[w].success
                  THEN [accepted EXCEPT ![job[w].row] = UpTo(@, 2)] ELSE accepted
  BY DEF Commit
<1>6. CASE job[w].success
  BY <1>2, <1>3, <1>4, <1>5, <1>6
<1>7. CASE ~job[w].success
  BY <1>2, <1>3, <1>5, <1>7
<1> QED
  BY <1>6, <1>7

LEMMA CommitStep ==
    ASSUME IInv, NEW w \in Workers, Commit(w)
    PROVE  IInv'
<1> USE Bounds
<1>1. /\ TypeOK /\ IdsInOrder /\ NewRowsDiffer /\ FinishedIsSpent /\ nextId \in Nat
      /\ \A v \in Workers : Pending(v) /\ job[v] \in Job
  BY DEF IInv, TypeOK
<1>2. /\ pc[w] = "commit" /\ pc'[w] = "idle" /\ job'[w] = NoJob
      /\ \A v \in Workers : v # w => pc'[v] = pc[v] /\ job'[v] = job[v]
      /\ UNCHANGED <<nextId, now, compared, inTurn>>
  BY CommitEnds
<1>3. TypeOK'
  <2>1. code' \in [Ids -> Row]
    <3>1. code' = [i \in Ids |-> Written(w, i)]
      BY DEF Commit
    <3>2. \A i \in Ids : Written(w, i) \in Row
      BY <3>1, CommitWrites
    <3> QED
      BY <3>1, <3>2
  <2> QED
    BY <1>1, <2>1, CommitEnds, CommitAccepts DEF TypeOK
<1>4. ASSUME NEW i \in Ids
      PROVE  /\ code[i].state # "absent" => code'[i].state # "absent" /\ i # job[w].new
             /\ code'[i].state = "absent" => /\ code[i].state = "absent"
                                             /\ code'[i].attempts = code[i].attempts
             /\ code[i].state = "absent" /\ i # job[w].new => code'[i].state = "absent"
             /\ code[i].state = "used" => code'[i].state = "used"
  BY <1>1, CommitWrites DEF Pending, Ids
<1>5. IdsInOrder'
  <2>1. ASSUME NEW i \in Ids, i >= nextId PROVE code'[i].state = "absent"
    <3>1. code[i].state = "absent"
      BY <1>1, <2>1 DEF IdsInOrder
    <3>2. i # job[w].new
      BY <1>1, <2>1, CommitWrites DEF Ids
    <3> QED
      BY <1>4, <3>1, <3>2
  <2>2. \A i \in Ids : code'[i].state = "absent" => code'[i].attempts = 0
    BY <1>1, <1>4 DEF IdsInOrder
  <2>3. Issuers' = Issuers
    BY <1>2 DEF Issuers
  <2> QED
    BY <1>1, <1>2, <2>1, <2>2, <2>3 DEF IdsInOrder, Issuers
<1>6. ASSUME NEW v \in Workers PROVE Pending(v)'
  <2>1. CASE v = w
    BY <1>2, <2>1, NoJobType DEF Pending
  <2>2. CASE v # w
    <3>1. Pending(v) /\ job[v] \in Job /\ pc'[v] = pc[v] /\ job'[v] = job[v]
      BY <1>1, <1>2, <2>2
    <3>2. job[v].new # 0 => job[v].new \in Ids /\ job[v].new # job[w].new
      BY <1>1, <2>2, <3>1 DEF NewRowsDiffer, Job
    <3>3. job[v].new # 0 => code'[job[v].new].state = "absent"
      BY <1>4, <3>1, <3>2 DEF Pending
    <3>4. job[v].row # 0 => code'[job[v].row].state # "absent"
      BY <1>4, <3>1 DEF Pending, Job
    <3>5. \A i \in job[v].spend : code'[i].state # "absent"
      BY <1>4, <3>1 DEF Pending, Job
    <3> QED
      BY <1>2, <3>1, <3>3, <3>4, <3>5 DEF Pending
  <2> QED
    BY <2>1, <2>2
<1>7. NewRowsDiffer'
  <2>1. job'[w].new = 0
    BY <1>2, NoJobType
  <2> QED
    BY <1>1, <1>2, <2>1 DEF NewRowsDiffer
<1>8. FinishedIsSpent'
  <2> SUFFICES ASSUME NEW i \in Ids,
                      accepted'[i] > 0 \/ (code'[i].attempts > 0 /\ NoneLeft(code'[i].attempts))
               PROVE  code'[i].state = "used"
    BY DEF FinishedIsSpent, NoneLeft
  <2>1. accepted[i] \in 0..2 /\ (code[i].state = "absent" => accepted[i] = 0)
    BY <1>1 DEF TypeOK, FinishedIsSpent
  <2>2. CASE i = job[w].new
    BY <2>1, <2>2, CommitWrites, CommitAccepts
  <2>3. CASE i = job[w].row /\ i # job[w].new
    <3>1. CASE job[w].success \/ NoneLeft(job[w].tries)
      BY <1>1, <2>3, <3>1, CommitWrites DEF Pending, Ids
    <3>2. CASE ~job[w].success /\ ~NoneLeft(job[w].tries)
      BY <1>1, <1>4, <2>3, <3>2, CommitWrites, CommitAccepts DEF FinishedIsSpent
    <3> QED
      BY <3>1, <3>2
  <2>4. CASE i # job[w].row /\ i # job[w].new
    BY <1>1, <1>4, <2>4, CommitWrites, CommitAccepts DEF FinishedIsSpent
  <2> QED
    BY <2>2, <2>3, <2>4
<1>9. ASSUME inTurn' PROVE InTurn'
  <2>1. InTurn /\ ReadsHold(w)
    BY <1>2, <1>9 DEF IInv, InTurn
  <2>2. \A v \in Workers : pc'[v] = "idle"
    BY <1>2, <2>1 DEF InTurn
  <2>3. ASSUME NEW i \in Ids, NEW k \in Ids, code'[i].state = "unused", code'[k].state = "unused"
        PROVE  i = k
    <3>1. CASE job[w].new # 0
      <4>1. job[w].spend = {n \in Ids : code[n].state = "unused"}
        BY <2>1, <3>1 DEF ReadsHold
      <4>2. \A n \in Ids : code'[n].state = "unused" => n = job[w].new
        BY <4>1, CommitWrites
      <4> QED
        BY <2>3, <4>2
    <3>2. CASE job[w].new = 0
      <4>1. \A n \in Ids : code'[n].state = "unused" => code[n].state = "unused"
        BY <3>2, CommitWrites DEF Ids
      <4> QED
        BY <2>1, <2>3, <4>1 DEF InTurn
    <3> QED
      BY <3>1, <3>2
  <2> QED
    BY <2>2, <2>3 DEF InTurn
<1> QED
  BY <1>3, <1>5, <1>6, <1>7, <1>8, <1>9 DEF IInv

-----------------------------------------------------------------------------
(* The invariant *)

LEMMA TickStep ==
    ASSUME IInv, Tick
    PROVE  IInv'
<1> USE Bounds
<1>1. /\ TypeOK /\ IdsInOrder /\ NewRowsDiffer /\ FinishedIsSpent
      /\ \A w \in Workers : Pending(w)
      /\ UNCHANGED <<code, nextId, pc, job, compared, accepted, inTurn>>
      /\ now' = now + 1 /\ now < MaxTime
  BY DEF IInv, Tick
<1>2. TypeOK'
  BY <1>1 DEF TypeOK
<1>3. IdsInOrder' /\ NewRowsDiffer' /\ FinishedIsSpent'
  BY <1>1 DEF IdsInOrder, NewRowsDiffer, FinishedIsSpent
<1>4. \A w \in Workers : Pending(w)'
  BY <1>1 DEF Pending
<1>5. inTurn' => InTurn'
  BY <1>1 DEF IInv, InTurn, ReadsHold, IssuesCode
<1> QED
  BY <1>2, <1>3, <1>4, <1>5 DEF IInv

LEMMA StutterStep ==
    ASSUME IInv, UNCHANGED vars
    PROVE  IInv'
<1>1. TypeOK' /\ IdsInOrder' /\ NewRowsDiffer' /\ FinishedIsSpent'
  BY DEF IInv, vars, TypeOK, IdsInOrder, NewRowsDiffer, FinishedIsSpent
<1>2. \A w \in Workers : Pending(w)'
  BY DEF IInv, vars, Pending
<1>3. inTurn' => InTurn'
  BY DEF IInv, vars, InTurn, ReadsHold, IssuesCode
<1> QED
  BY <1>1, <1>2, <1>3 DEF IInv

LEMMA NextLemma == IInv /\ [Next]_vars => IInv'
<1> SUFFICES ASSUME IInv, [Next]_vars PROVE IInv'
  OBVIOUS
<1>1. CASE UNCHANGED vars
  BY <1>1, StutterStep
<1>2. CASE Tick
  BY <1>2, TickStep
<1>3. ASSUME NEW w \in Workers, Rollback(w) PROVE IInv'
  BY <1>3, RollbackStep
<1>4. ASSUME NEW w \in Workers, Request(w) PROVE IInv'
  <2>1. ASSUME NEW e \in Emails, Refuse(w, e) PROVE IInv'
    BY <2>1, StutterStep DEF Refuse
  <2>2. ASSUME NEW e \in Emails, BeginIssue(w, e) PROVE IInv'
    BY <2>2, BeginIssueStep
  <2>3. CASE SpendOld(w)
    BY <2>3, SpendOldStep
  <2>4. ASSUME NEW c \in Codes, InsertCode(w, c) PROVE IInv'
    BY <2>4, InsertCodeStep
  <2>5. ASSUME NEW e \in Emails, NEW i \in Ids, VerifyStale(w, e, i) PROVE IInv'
    BY <2>5, VerifyStaleStep
  <2>6. ASSUME NEW e \in Emails, NEW i \in Ids, NEW guess \in Codes, VerifyGuess(w, e, i, guess)
        PROVE  IInv'
    BY <2>6, VerifyGuessStep
  <2>7. CASE Commit(w)
    BY <2>7, CommitStep
  <2> QED
    BY <1>4, <2>1, <2>2, <2>3, <2>4, <2>5, <2>6, <2>7 DEF Request
<1> QED
  BY <1>1, <1>2, <1>3, <1>4 DEF Next

\* However requests overlap, commit or are lost: ids are drawn in order, what a handler
\* is about to write fits the rows, a code accepted or out of attempts is used, and
\* while requests took turns one code at most is open and their reads still hold.
THEOREM Invariance == Spec => []IInv
  BY InitLemma, NextLemma, PTL DEF Spec

-----------------------------------------------------------------------------
(* Action properties *)

\* A step that commits nothing leaves the rows and the successes.
LEMMA OnlyCommitWrites ==
    ASSUME Next, \A w \in Workers : ~Commit(w)
    PROVE  UNCHANGED <<code, accepted>>
<1>1. ASSUME NEW w \in Workers, Request(w) PROVE UNCHANGED <<code, accepted>>
  <2>1. ASSUME NEW e \in Emails, Refuse(w, e) PROVE UNCHANGED <<code, accepted>>
    BY <2>1 DEF Refuse, vars
  <2> QED
    BY <1>1, <2>1 DEF Request, BeginIssue, SpendOld, InsertCode, VerifyStale, VerifyGuess
<1> QED
  BY <1>1 DEF Next, Tick, Rollback

\* A used code is used for ever: a commit writes used_at or leaves it, and the row it
\* inserts is a new one, whatever the handler read before (verify, issue).
THEOREM SpentForEverAlways == Spec => SpentForEver
<1> DEFINE Spent == \A i \in Ids : code[i].state = "used" => code'[i].state = "used"
<1>1. IInv /\ [Next]_vars => [Spent]_vars
  <2> SUFFICES ASSUME IInv, Next PROVE Spent
    OBVIOUS
  <2>1. ASSUME NEW w \in Workers, Commit(w) PROVE Spent
    BY <2>1, CommitWrites
  <2>2. CASE \A w \in Workers : ~Commit(w)
    BY <2>2, OnlyCommitWrites
  <2> QED
    BY <2>1, <2>2
<1>2. Spec => [][Spent]_vars
  BY <1>1, Invariance, PTL DEF Spec
<1> QED
  BY <1>2 DEF SpentForEver

-----------------------------------------------------------------------------
(* The promise of RecoveryCode *)

LEMMA PromiseStutters ==
    ASSUME UNCHANGED <<code, accepted>>
    PROVE  UNCHANGED Promise!vars
  BY DEF Promise!vars

\* In turn, the commit of an issue sends its code.
LEMMA IssueSends ==
    ASSUME IInv, inTurn, NEW w \in Workers, Commit(w), job[w].new # 0
    PROVE  \E i \in Ids : Promise!Send(i)
<1>0. PICK n \in Ids : n = job[w].new
  BY DEF IInv, TypeOK, Job
<1>1. TypeOK /\ Pending(w) /\ ReadsHold(w) /\ pc[w] = "commit" /\ job[w].new = n
  BY <1>0, CommitEnds DEF IInv, InTurn
<1>2. /\ code[n].state = "absent" /\ code'[n].state = "unused" /\ code'[n].attempts = 0
      /\ code'[n].email = job[w].email /\ code'[n].created = job[w].at
      /\ code[n].attempts = 0
  BY <1>1, CommitWrites DEF IInv, IdsInOrder
<1>3. job[w].row = 0 /\ job[w].success = FALSE
  BY <1>1 DEF Pending, TypeOK, Job
<1>4. ASSUME NEW k \in Ids, k # n
      PROVE  /\ code'[k].state = IF code[k].state = "unused" THEN "used" ELSE code[k].state
             /\ code'[k].attempts = code[k].attempts
             /\ code'[k].email = code[k].email /\ code'[k].created = code[k].created
  <2>1. job[w].spend = {i \in Ids : code[i].state = "unused"} /\ k # 0
    BY <1>1 DEF ReadsHold, Ids
  <2> QED
    BY <1>1, <1>3, <1>4, <2>1, CommitWrites
<1>5. accepted' = accepted
  BY <1>3 DEF Commit
<1>6. \A k \in Ids : code[k].state = "unused" /\ code[k].email = code'[n].email
                        => code[k].created + Cooldown <= code'[n].created
  BY <1>1, <1>2 DEF ReadsHold, IssuesCode
<1>7. Promise!Send(n)
  BY <1>1, <1>2, <1>4, <1>5, <1>6 DEF Promise!Send, Promise!Open
<1> QED
  BY <1>7

\* In turn, the commit of a verify of a code too old or out of attempts discards it.
LEMMA StaleDiscards ==
    ASSUME IInv, inTurn, NEW w \in Workers, Commit(w), job[w].new = 0, job[w].row = 0
    PROVE  \E i \in Ids : Promise!Discard(i)
<1>1. TypeOK /\ Pending(w) /\ ReadsHold(w) /\ pc[w] = "commit"
  BY CommitEnds DEF IInv, InTurn
<1>2. PICK i \in Ids : code[i].state = "unused" /\ job[w].spend = {i}
  BY <1>1 DEF ReadsHold
<1>3. \A k \in Ids :
        /\ code'[k].state = IF k = i THEN "used" ELSE code[k].state
        /\ code'[k].attempts = code[k].attempts
        /\ code'[k].email = code[k].email /\ code'[k].created = code[k].created
  BY <1>2, CommitWrites DEF Ids
<1>4. accepted' = accepted
  BY <1>1 DEF Commit, Pending, TypeOK, Job
<1>5. Promise!Discard(i)
  BY <1>2, <1>3, <1>4 DEF Promise!Discard
<1> QED
  BY <1>5

\* In turn, the commit of a verify of a current code is one guess at it.
LEMMA VerifyGuesses ==
    ASSUME IInv, inTurn, NEW w \in Workers, Commit(w), job[w].new = 0, job[w].row # 0
    PROVE  \E i \in Ids, right \in BOOLEAN : Promise!Guess(i, right)
<1> USE Bounds
<1>0. PICK i \in Ids, right \in BOOLEAN : i = job[w].row /\ right = job[w].success
  BY DEF IInv, TypeOK, Job
<1>1. /\ TypeOK /\ Pending(w) /\ ReadsHold(w) /\ FinishedIsSpent /\ pc[w] = "commit"
      /\ job[w].row = i /\ job[w].success = right
  BY <1>0, CommitEnds DEF IInv, InTurn
<1>2. /\ code[i].state = "unused" /\ job[w].tries = code[i].attempts + 1
      /\ job[w].tries \in 1..MaxAttempts /\ code[i].attempts \in 0..MaxAttempts
      /\ job[w].spend = IF right \/ NoneLeft(job[w].tries) THEN {i} ELSE {}
  BY <1>1 DEF ReadsHold, Pending, TypeOK, Row
<1>3. NoneLeft(job[w].tries) <=> code[i].attempts + 1 = MaxAttempts
  BY <1>2 DEF NoneLeft
<1>4. \A k \in Ids :
        /\ code'[k].state = IF k = i /\ (right \/ code[i].attempts + 1 = MaxAttempts)
                            THEN "used" ELSE code[k].state
        /\ code'[k].attempts = IF k = i THEN code[i].attempts + 1 ELSE code[k].attempts
        /\ code'[k].email = code[k].email /\ code'[k].created = code[k].created
  <2>1. \A k \in Ids : k # job[w].new
    BY DEF Ids
  <2>2. \A k \in Ids : k \in job[w].spend <=> k = i /\ (right \/ code[i].attempts + 1 = MaxAttempts)
    BY <1>2, <1>3
  <2> QED
    BY <1>1, <1>2, <2>1, <2>2, CommitWrites
<1>5. accepted[i] = 0 /\ accepted \in [Ids -> 0..2]
  BY <1>1, <1>2 DEF FinishedIsSpent, TypeOK
<1>6. accepted' = IF right THEN [accepted EXCEPT ![i] = @ + 1] ELSE accepted
  BY <1>1, <1>5 DEF Commit, UpTo
<1>7. Promise!Guess(i, right)
  <2> DEFINE tries == [k \in Ids |-> code[k].attempts]
             status == [k \in Ids |-> IF code[k].state = "unused" THEN "open"
                                      ELSE IF code[k].state = "used" THEN "ended" ELSE "absent"]
  <2>1. status[i] = "open" /\ tries[i] < MaxAttempts /\ tries'[i] = tries[i] + 1
    BY <1>1, <1>2, <1>4
  <2>2. tries' = [tries EXCEPT ![i] = @ + 1]
    BY <1>1, <1>4
  <2>3. status' = IF right \/ tries'[i] = MaxAttempts
                  THEN [status EXCEPT ![i] = "ended"] ELSE status
    <3>1. CASE right \/ code[i].attempts + 1 = MaxAttempts
      BY <1>1, <1>4, <3>1
    <3>2. CASE ~(right \/ code[i].attempts + 1 = MaxAttempts)
      BY <1>1, <1>4, <3>2
    <3> QED
      BY <2>1, <3>1, <3>2
  <2>4. /\ [k \in Ids |-> code[k].email]' = [k \in Ids |-> code[k].email]
        /\ [k \in Ids |-> code[k].created]' = [k \in Ids |-> code[k].created]
    BY <1>4
  <2> QED
    BY <1>6, <2>1, <2>2, <2>3, <2>4 DEF Promise!Guess
<1> QED
  BY <1>7

\* While requests do not overlap, some committed, also after an error, and others rolled
\* back, issue and verify implement RecoveryCode: each commit sends, guesses or discards
\* in one step, and what is rolled back has done nothing.
THEOREM PromiseKeptInTurnAlways == Spec => PromiseKeptInTurn
<1> DEFINE Kept == inTurn' => \/ Promise!Next
                              \/ UNCHANGED Promise!vars
<1>1. IInv /\ [Next]_vars => [Kept]_vars
  <2> SUFFICES ASSUME IInv, Next, inTurn' PROVE Promise!Next \/ UNCHANGED Promise!vars
    OBVIOUS
  <2>1. ASSUME NEW w \in Workers, Commit(w) PROVE Promise!Next
    <3>1. inTurn
      BY <2>1 DEF Commit
    <3> QED
      <4>1. CASE job[w].new # 0
        BY <2>1, <3>1, <4>1, IssueSends DEF Promise!Next
      <4>2. CASE job[w].new = 0 /\ job[w].row = 0
        BY <2>1, <3>1, <4>2, StaleDiscards DEF Promise!Next
      <4>3. CASE job[w].new = 0 /\ job[w].row # 0
        BY <2>1, <3>1, <4>3, VerifyGuesses DEF Promise!Next
      <4> QED
        BY <4>1, <4>2, <4>3
  <2>2. CASE \A w \in Workers : ~Commit(w)
    BY <2>2, OnlyCommitWrites, PromiseStutters
  <2> QED
    BY <2>1, <2>2
<1>2. Spec => [][Kept]_vars
  BY <1>1, Invariance, PTL DEF Spec
<1> QED
  BY <1>2 DEF PromiseKeptInTurn
=============================================================================
