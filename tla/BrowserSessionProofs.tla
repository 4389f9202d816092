------------------------ MODULE BrowserSessionProofs ------------------------
(***************************************************************************)
(* The tabs of a browser keep IInv, and what follows from it: no tab ends  *)
(* its own session, refreshes without need, reports an expiry that is none *)
(* or clears cookies that still work, for any number of tabs and calls.    *)
(***************************************************************************)
EXTENDS BrowserSession, FiniteSetTheorems, WellFoundedInduction, TLAPS

-----------------------------------------------------------------------------
(* Pairs and their number *)

LEMMA Constants ==
    /\ MaxPairs \in Nat /\ MaxPairs > 0 /\ NoTab \notin Tabs /\ NoCall \notin Calls
    /\ \A c \in Calls : TabOf[c] \in Tabs
  BY PairAssumption, SetsAssumption, CallAssumption

LEMMA PairsFinite == IsFiniteSet(Pairs)
  BY Constants, FS_Interval DEF Pairs

LEMMA IssuedFinite ==
    /\ IsFiniteSet(Issued) /\ Cardinality(Issued) \in Nat
    /\ IsFiniteSet(Issued') /\ Cardinality(Issued') \in Nat
<1>1. Issued \subseteq Pairs /\ Issued' \subseteq Pairs
  BY DEF Issued
<1> QED
  BY <1>1, PairsFinite, FS_Subset, FS_CardinalityType

LEMMA CallSetsFinite ==
    ASSUME NEW S \in SUBSET Calls
    PROVE  IsFiniteSet(S) /\ Cardinality(S) \in Nat
  BY SetsAssumption, FS_Subset, FS_CardinalityType

\* The pairs issued are the first ones, and the next one is free.
LEMMA IssuedPrefix ==
    ASSUME PairsInOrder
    PROVE  /\ Issued = {n \in Pairs : n <= Cardinality(Issued)}
           /\ NewPair \in Nat /\ NewPair > 0 /\ NewPair \notin Issued
           /\ \A n \in Issued : n < NewPair
<1>1. Issued = {n \in Pairs : n <= Cardinality(Issued)}
  BY DEF PairsInOrder, Issued
<1> QED
  BY <1>1, IssuedFinite DEF NewPair, Pairs

\* The current pair of a session is its latest.
LEMMA CurrentIs ==
    ASSUME NEW f \in Issued, family[f] = f
    PROVE  /\ Current(f) \in Issued /\ family[Current(f)] = f
           /\ \A m \in Issued : family[m] = f => m <= Current(f)
<1> DEFINE S == {m \in Issued : family[m] = f}
           D == {MaxPairs - m : m \in S}
<1>1. S \subseteq 1..MaxPairs /\ f \in S /\ MaxPairs \in Nat
  BY Constants DEF Issued, Pairs
<1>2. D \subseteq Nat /\ D # {}
  BY <1>1
<1>3. PICK d \in D : \A e \in D : ~(<<e, d>> \in OpToRel(<, Nat))
  BY <1>2, WFMin, NatLessThanWellFounded
<1>4. \A e \in D : ~(e < d)
  <2>1. OpToRel(<, Nat) = {x \in Nat \X Nat : x[1] < x[2]}
    BY DEF OpToRel
  <2> QED
    BY <1>2, <1>3, <2>1
<1>5. PICK n \in S : d = MaxPairs - n
  OBVIOUS
<1>6. \A m \in S : m <= n
  BY <1>1, <1>4, <1>5
<1> QED
  BY <1>6 DEF Current

LEMMA LatestIsOnly ==
    ASSUME NEW S \in SUBSET Nat, NEW sessions, NEW f, NEW n \in S, sessions[n] = f,
           \A m \in S : sessions[m] = f => m <= n
    PROVE  n = CHOOSE k \in S : sessions[k] = f /\ \A m \in S : sessions[m] = f => m <= k
<1> DEFINE Is(k) == sessions[k] = f /\ \A m \in S : sessions[m] = f => m <= k
           k0 == CHOOSE k \in S : Is(k)
<1>1. k0 \in S /\ Is(k0)
  OBVIOUS
<1>2. k0 <= n /\ n <= k0 /\ k0 \in Nat /\ n \in Nat
  BY <1>1
<1> QED
  BY <1>2

\* The session of a pair that was issued
LEMMA SessionIssued ==
    ASSUME TypeOK, NEW n \in Issued
    PROVE  /\ n # 0 /\ n \in Nat /\ SessionOf(n) = family[n]
           /\ family[n] \in Issued /\ family[n] # 0 /\ family[family[n]] = family[n]
<1>1. /\ n \in Pairs /\ family[n] # 0 /\ family[n] \in 0..MaxPairs /\ family[n] <= n
      /\ n \in 1..MaxPairs
  BY DEF TypeOK, Issued, Pairs
<1>2. family[n] \in Pairs
  BY <1>1, Constants DEF Pairs
<1> QED
  BY <1>1, <1>2 DEF TypeOK, Issued, SessionOf

-----------------------------------------------------------------------------
(* What the server does to what others hold *)

\* Pairs are added, and sessions and access tokens end.
Grows ==
    /\ Issued \subseteq Issued' /\ ended \subseteq ended' /\ oldest' >= oldest
    /\ \A n \in Issued : family'[n] = family[n] /\ owner'[n] = owner[n]

LEMMA QuietGrows ==
    ASSUME TypeOK, UNCHANGED <<family, ended, owner>>, oldest' \in Nat, oldest' >= oldest
    PROVE  Grows
  BY DEF Grows, Issued

\* What is useless stays so, and the session of a pair is the same for ever.
LEMMA GrowsKeeps ==
    ASSUME TypeOK, TypeOK', Grows, NEW n \in Issued \cup {0}
    PROVE  /\ SessionOf(n)' = SessionOf(n) /\ n \in Issued' \cup {0}
           /\ Valid(n)' => Valid(n)
           /\ SessionOf(n) \in ended \cup {0} => SessionOf(n)' \in ended' \cup {0}
<1>1. oldest \in Nat /\ oldest' \in Nat /\ n \in Nat
  BY IssuedFinite DEF TypeOK, Issued, Pairs
<1>2. SessionOf(n)' = SessionOf(n)
  BY DEF Grows, SessionOf
<1> QED
  BY <1>1, <1>2 DEF Grows, Valid

LEMMA AnswerFrame ==
    ASSUME Consistent, TypeOK', Grows, NEW c \in Calls, call'[c] = call[c],
           generation'[TabOf[c]] >= generation[TabOf[c]]
    PROVE  AnswerHolds(c)'
<1>1. TypeOK /\ AnswerHolds(c)
  BY DEF Consistent
<1>2. /\ call[c].gen \in Nat /\ generation[TabOf[c]] \in Nat /\ generation'[TabOf[c]] \in Nat
  BY <1>1, Constants DEF TypeOK, ManagerTypeOK, Call
<1>3. call[c].cookie \in Issued \cup {0} /\ call[c].sets \in Issued \cup {0}
  BY <1>1 DEF AnswerHolds
<1>4. /\ call[c].cookie \in Issued' \cup {0} /\ call[c].sets \in Issued' \cup {0}
      /\ Valid(call[c].cookie)' => Valid(call[c].cookie)
      /\ SessionOf(call[c].cookie) \in ended \cup {0}
           => SessionOf(call[c].cookie)' \in ended' \cup {0}
  BY <1>1, <1>3, GrowsKeeps
<1>5. call[c].sets # 0 => owner'[call[c].sets] = owner[call[c].sets]
  BY <1>3 DEF Grows
<1> QED
  BY <1>1, <1>2, <1>4, <1>5 DEF AnswerHolds

LEMMA AnswerIdle ==
    ASSUME TypeOK', NEW c \in Calls, call'[c] = Idle
    PROVE  AnswerHolds(c)'
<1>1. generation'[TabOf[c]] \in Nat
  BY Constants DEF TypeOK, ManagerTypeOK
<1> QED
  BY <1>1 DEF AnswerHolds, Idle

\* A pair that neither the browser nor an answer holds is not found again.
LostStays == \A m \in Issued : Lost(m) => Lost(m)'

LEMMA RefreshFrame ==
    ASSUME Consistent, TypeOK', Grows, LostStays, NEW c \in Calls,
           flight'[c] = flight[c], promise'[TabOf[c]] = promise[TabOf[c]],
           flight[c].state # "none" => call'[c] = call[c],
           flight[c].state = "sent" =>
             \A f \in Issued : family[f] = f /\ f \notin ended' =>
               \/ Current(f)' = Current(f)
               \/ owner'[Current(f)'] # TabOf[c]
    PROVE  RefreshHolds(c)'
<1> DEFINE n == flight[c].cookie
<1>1. TypeOK /\ RefreshHolds(c) /\ n \in Issued \cup {0}
  BY DEF Consistent, RefreshHolds
<1>2. /\ SessionOf(n)' = SessionOf(n) /\ n \in Issued' \cup {0}
      /\ SessionOf(n) \in ended \cup {0} => SessionOf(n)' \in ended' \cup {0}
  BY <1>1, GrowsKeeps
<1>3. ASSUME flight[c].state = "sent", SessionOf(n) \notin ended' \cup {0}
      PROVE  LET f == SessionOf(n)
             IN  n = Current(f)' \/ owner'[Current(f)'] # TabOf[c] \/ Lost(Current(f))'
  <2> DEFINE f == SessionOf(n)
  <2>1. n \in Issued /\ f \in Issued /\ family[f] = f /\ f \notin ended'
    BY <1>1, <1>3, SessionIssued DEF SessionOf
  <2>2. Current(f) \in Issued
    BY <2>1, CurrentIs
  <2>3. f \notin ended \cup {0}
    BY <1>2, <1>3
  <2>4. n = Current(f) \/ owner[Current(f)] # TabOf[c] \/ Lost(Current(f))
    BY <1>1, <1>3, <2>3 DEF RefreshHolds
  <2>5. CASE Current(f)' = Current(f)
    <3>1. owner'[Current(f)] = owner[Current(f)]
      BY <2>2 DEF Grows
    <3>2. Lost(Current(f)) => Lost(Current(f))'
      BY <2>2, <2>5 DEF LostStays, Lost
    <3> QED
      BY <2>4, <2>5, <3>1, <3>2
  <2>6. CASE owner'[Current(f)'] # TabOf[c]
    BY <2>6
  <2> QED
    BY <1>2, <1>3, <2>1, <2>5, <2>6
<1>4. flight[c].state = "granted" => n # 0 /\ owner'[n] = TabOf[c]
  BY <1>1 DEF RefreshHolds, Grows
<1> QED
  BY <1>1, <1>2, <1>3, <1>4 DEF RefreshHolds

LEMMA JarFrame ==
    ASSUME Consistent, Grows, NEW c \in Calls, call'[c] = call[c], jar' = jar,
           promise'[TabOf[c]] = promise[TabOf[c]],
           generation'[TabOf[c]] = generation[TabOf[c]],
           LET d == promise[TabOf[c]]
           IN  d # NoCall /\ flight[d].state = "landed" => flight'[d].state = "landed"
    PROVE  JarHolds(c)'
<1>1. TypeOK /\ JarHolds(c)
  BY DEF Consistent
<1>2. jar = 0 \/ owner'[jar] = owner[jar]
  BY <1>1 DEF TypeOK, Grows
<1> QED
  BY <1>1, <1>2 DEF JarHolds

-----------------------------------------------------------------------------
(* What is left to issue *)

LEMMA CountsType ==
    /\ WillAsk \subseteq Calls /\ WillRenew \subseteq Calls
    /\ WillAsk' \subseteq Calls /\ WillRenew' \subseteq Calls
    /\ Cardinality(WillAsk) \in Nat /\ Cardinality(WillRenew) \in Nat
    /\ Cardinality(WillAsk') \in Nat /\ Cardinality(WillRenew') \in Nat
<1>1. /\ WillAsk \subseteq Calls /\ WillRenew \subseteq Calls
      /\ WillAsk' \subseteq Calls /\ WillRenew' \subseteq Calls
  BY DEF WillAsk, WillRenew
<1> QED
  BY <1>1, CallSetsFinite

LEMMA StrayFinite ==
    ASSUME stray \subseteq Issued
    PROVE  IsFiniteSet(stray) /\ Cardinality(stray) \in Nat
  BY IssuedFinite, FS_Subset, FS_CardinalityType

\* A subset is no larger, and one without an element of the set is smaller.
LEMMA Smaller ==
    ASSUME NEW S, IsFiniteSet(S), NEW T \in SUBSET S
    PROVE  /\ IsFiniteSet(T) /\ Cardinality(T) \in Nat /\ Cardinality(S) \in Nat
           /\ Cardinality(T) <= Cardinality(S)
           /\ \A x \in S : x \notin T => Cardinality(T) + 1 <= Cardinality(S)
<1>1. /\ IsFiniteSet(T) /\ Cardinality(T) \in Nat /\ Cardinality(S) \in Nat
      /\ Cardinality(T) <= Cardinality(S)
  BY FS_Subset, FS_CardinalityType
<1>2. ASSUME NEW x \in S, x \notin T
      PROVE  Cardinality(T) + 1 <= Cardinality(S)
  <2>1. T \subseteq S \ {x} /\ IsFiniteSet(S \ {x}) /\ Cardinality(S \ {x}) = Cardinality(S) - 1
    BY <1>2, FS_RemoveElement
  <2>2. Cardinality(T) <= Cardinality(S \ {x})
    BY <2>1, FS_Subset
  <2> QED
    BY <1>1, <2>1, <2>2
<1> QED
  BY <1>1, <1>2

LEMMA OneMore ==
    ASSUME NEW S, IsFiniteSet(S), NEW x
    PROVE  /\ IsFiniteSet(S \cup {x}) /\ Cardinality(S \cup {x}) \in Nat
           /\ Cardinality(S \cup {x}) <= Cardinality(S) + 1
<1>1. IsFiniteSet(S \cup {x}) /\ Cardinality(S) \in Nat
  BY FS_AddElement, FS_CardinalityType
<1>2. CASE x \in S
  <2>1. S \cup {x} = S
    BY <1>2
  <2> QED
    BY <1>1, <2>1
<1>3. CASE x \notin S
  <2>1. Cardinality(S \cup {x}) = Cardinality(S) + 1
    BY <1>3, FS_AddElement
  <2> QED
    BY <1>1, <2>1
<1> QED
  BY <1>2, <1>3

LEMMA NothingIssued ==
    ASSUME Consistent, UNCHANGED <<family, owner>>, stray' \subseteq stray,
           WillAsk' \subseteq WillAsk, WillRenew' \subseteq WillRenew
    PROVE  PairsInOrder'
<1>1. PairsInOrder /\ stray \subseteq Issued /\ Issued' = Issued
  BY DEF Consistent, Issued
<1>2. /\ Cardinality(WillAsk') <= Cardinality(WillAsk)
      /\ Cardinality(WillRenew') <= Cardinality(WillRenew)
      /\ Cardinality(stray') <= Cardinality(stray)
      /\ Cardinality(stray) \in Nat /\ Cardinality(stray') \in Nat
  BY <1>1, CountsType, CallSetsFinite, StrayFinite, Smaller
<1> QED
  BY <1>1, <1>2, CountsType, IssuedFinite, Constants DEF PairsInOrder

\* A request on its way may still be given the pair its call was to ask for.
LEMMA GivenUpOrder ==
    ASSUME Consistent, UNCHANGED <<family, owner>>,
           NEW n, stray' = stray \cup ({n} \ {0}),
           WillAsk' \subseteq WillAsk, WillRenew' \subseteq WillRenew,
           NEW c \in Calls,
           \/ c \in WillAsk /\ c \notin WillAsk'
           \/ c \in WillRenew /\ c \notin WillRenew'
    PROVE  PairsInOrder'
<1>1. PairsInOrder /\ stray \subseteq Issued /\ Issued' = Issued
  BY DEF Consistent, Issued
<1>2. /\ IsFiniteSet(stray) /\ Cardinality(stray) \in Nat
      /\ IsFiniteSet(WillAsk) /\ IsFiniteSet(WillRenew)
  BY <1>1, StrayFinite, CountsType, CallSetsFinite
<1>3. /\ Cardinality(WillAsk') <= Cardinality(WillAsk)
      /\ (c \in WillAsk /\ c \notin WillAsk') =>
           Cardinality(WillAsk') + 1 <= Cardinality(WillAsk)
  BY <1>2, Smaller
<1>4. /\ Cardinality(WillRenew') <= Cardinality(WillRenew)
      /\ (c \in WillRenew /\ c \notin WillRenew') =>
           Cardinality(WillRenew') + 1 <= Cardinality(WillRenew)
  BY <1>2, Smaller
<1>5. /\ IsFiniteSet(stray \cup {n}) /\ Cardinality(stray \cup {n}) \in Nat
      /\ Cardinality(stray \cup {n}) <= Cardinality(stray) + 1
  BY <1>2, OneMore
<1>6. Cardinality(stray') \in Nat /\ Cardinality(stray') <= Cardinality(stray) + 1
  BY <1>2, <1>5, Smaller
<1>7. Cardinality(WillAsk') + Cardinality(WillRenew') + Cardinality(stray')
        <= Cardinality(WillAsk) + Cardinality(WillRenew) + Cardinality(stray)
  BY <1>2, <1>3, <1>4, <1>6, CountsType
<1> QED
  BY <1>1, <1>2, <1>6, <1>7, CountsType, IssuedFinite, Constants DEF PairsInOrder

\* Whoever may ask for a pair finds one.
LEMMA PairForAll ==
    ASSUME Consistent, WillAsk # {} \/ WillRenew # {} \/ stray # {}
    PROVE  NewPair \in Pairs
<1>1. PairsInOrder /\ stray \subseteq Issued
  BY DEF Consistent
<1>2. /\ WillAsk # {} => Cardinality(WillAsk) > 0
      /\ WillRenew # {} => Cardinality(WillRenew) > 0
      /\ stray # {} => Cardinality(stray) > 0
  BY <1>1, CountsType, CallSetsFinite, StrayFinite, FS_EmptySet
<1> QED
  BY <1>1, <1>2, CountsType, StrayFinite, IssuedFinite, Constants
     DEF PairsInOrder, NewPair, Pairs

\* Pair NewPair of session f is issued, on behalf of o.
IssueTo(f, o) ==
    /\ NewPair \in Pairs /\ f \in Issued \cup {NewPair} /\ (f # NewPair => family[f] = f)
    /\ family' = [family EXCEPT ![NewPair] = f]
    /\ owner' = [owner EXCEPT ![NewPair] = o]
    /\ UNCHANGED <<ended, oldest>>

LEMMA IssueGrows ==
    ASSUME Consistent, NEW f, NEW o \in Tabs \cup {NoTab}, IssueTo(f, o)
    PROVE  /\ Issued' = Issued \cup {NewPair} /\ NewPair \notin Issued /\ NewPair # 0
           /\ Cardinality(Issued') = Cardinality(Issued) + 1
           /\ Grows /\ owner'[NewPair] = o
           /\ family' \in [Pairs -> 0..MaxPairs]
           /\ \A n \in Pairs : family'[n] <= n
           /\ \A n \in Issued' : family'[family'[n]] = family'[n]
           /\ owner' \in [Pairs -> Tabs \cup {NoTab}]
           /\ \A g \in Issued : family[g] = g =>
                Current(g)' = IF g = f THEN NewPair ELSE Current(g)
<1>1. /\ TypeOK /\ PairsInOrder /\ NewPair \in Pairs /\ NewPair \notin Issued /\ NewPair # 0
      /\ \A n \in Issued : n < NewPair /\ n \in Nat /\ n \in Pairs
      /\ NewPair \in Nat /\ f \in Nat /\ f <= NewPair /\ f # 0
      /\ (f = NewPair \/ (f \in Issued /\ family[f] = f))
  BY IssuedPrefix DEF Consistent, IssueTo, Issued, Pairs
<1>2. /\ \A n \in Pairs : n # NewPair => family'[n] = family[n]
      /\ family'[NewPair] = f
  BY <1>1, Constants DEF IssueTo, TypeOK
<1>3. Issued' = Issued \cup {NewPair}
  BY <1>1, <1>2 DEF Issued
<1>4. Cardinality(Issued') = Cardinality(Issued) + 1
  BY <1>1, <1>3, IssuedFinite, FS_AddElement
<1>5. \A n \in Issued : family[n] \in Issued /\ family[family[n]] = family[n]
  BY <1>1, SessionIssued
<1>6. /\ family' \in [Pairs -> 0..MaxPairs]
      /\ \A n \in Pairs : family'[n] <= n
  BY <1>1, <1>2, Constants DEF IssueTo, TypeOK, Pairs
<1>7. \A n \in Issued' : family'[family'[n]] = family'[n]
  BY <1>1, <1>2, <1>3, <1>5
<1>8. /\ owner' \in [Pairs -> Tabs \cup {NoTab}] /\ owner'[NewPair] = o
      /\ \A n \in Issued : owner'[n] = owner[n]
  BY <1>1 DEF IssueTo, TypeOK
<1>9. oldest \in Nat /\ oldest' = oldest /\ ended' = ended
  BY <1>1, IssuedFinite DEF IssueTo, TypeOK
<1>10. Grows
  BY <1>1, <1>2, <1>3, <1>8, <1>9 DEF Grows
<1>11. ASSUME NEW g \in Issued, family[g] = g
       PROVE  Current(g)' = IF g = f THEN NewPair ELSE Current(g)
  <2> DEFINE k == IF g = f THEN NewPair ELSE Current(g)
  <2>1. /\ k \in Issued' /\ family'[k] = g
        /\ \A m \in Issued' : family'[m] = g => m <= k
    BY <1>1, <1>2, <1>3, <1>11, CurrentIs
  <2>2. Issued' \in SUBSET Nat
    BY <1>1, <1>3
  <2> HIDE DEF k
  <2>3. k = CHOOSE n \in Issued' :
               family'[n] = g /\ \A m \in Issued' : family'[m] = g => m <= n
    BY <2>1, <2>2, LatestIsOnly
  <2> QED
    BY <2>3 DEF Current, k
<1> QED
  BY <1>1, <1>3, <1>4, <1>6, <1>7, <1>8, <1>10, <1>11

\* Room for the rest: whoever was given the pair may not ask for it again.
LEMMA IssueOrder ==
    ASSUME Consistent, NEW f, NEW o \in Tabs \cup {NoTab}, IssueTo(f, o),
           WillAsk' \subseteq WillAsk, WillRenew' \subseteq WillRenew, stray' \subseteq stray,
           WillAsk' # WillAsk \/ WillRenew' # WillRenew \/ stray' # stray
    PROVE  PairsInOrder'
<1>1. PairsInOrder /\ TypeOK /\ stray \subseteq Issued
  BY DEF Consistent
<1>2. /\ Issued' = Issued \cup {NewPair} /\ NewPair \notin Issued
      /\ Cardinality(Issued') = Cardinality(Issued) + 1 /\ owner'[NewPair] = o
  BY IssueGrows
<1>3. Cardinality(WillAsk') + Cardinality(WillRenew') + Cardinality(stray') + 1
        <= Cardinality(WillAsk) + Cardinality(WillRenew) + Cardinality(stray)
  <2>1. IsFiniteSet(WillAsk) /\ IsFiniteSet(WillRenew) /\ IsFiniteSet(stray)
    BY <1>1, CountsType, CallSetsFinite, StrayFinite
  <2>2. /\ Cardinality(WillAsk') <= Cardinality(WillAsk)
        /\ WillAsk' # WillAsk => Cardinality(WillAsk') + 1 <= Cardinality(WillAsk)
    BY <2>1, Smaller
  <2>3. /\ Cardinality(WillRenew') <= Cardinality(WillRenew)
        /\ WillRenew' # WillRenew => Cardinality(WillRenew') + 1 <= Cardinality(WillRenew)
    BY <2>1, Smaller
  <2>4. /\ Cardinality(stray') <= Cardinality(stray)
        /\ stray' # stray => Cardinality(stray') + 1 <= Cardinality(stray)
        /\ Cardinality(stray) \in Nat /\ Cardinality(stray') \in Nat
    BY <2>1, Smaller
  <2> QED
    BY <2>2, <2>3, <2>4, CountsType
<1>4. \A n \in Pairs : family'[n] # 0 <=> n <= Cardinality(Issued')
  <2>1. Issued = {n \in Pairs : n <= Cardinality(Issued)} /\ Issued' = {n \in Pairs : family'[n] # 0}
    BY <1>1, IssuedPrefix DEF Issued
  <2>2. NewPair \in Pairs /\ NewPair = Cardinality(Issued) + 1
    BY DEF NewPair, IssueTo
  <2> QED
    BY <1>2, <2>1, <2>2, IssuedFinite, Constants DEF Pairs
<1>5. \A n \in Pairs \ Issued' : owner'[n] = NoTab
  BY <1>1, <1>2 DEF IssueTo, TypeOK, PairsInOrder
<1>6. Cardinality(stray) \in Nat /\ Cardinality(stray') \in Nat
  BY <1>1, StrayFinite, Smaller
<1>7. Cardinality(Issued') + Cardinality(WillAsk') + Cardinality(WillRenew')
        + Cardinality(stray') <= MaxPairs
  BY <1>1, <1>2, <1>3, <1>6, CountsType, IssuedFinite, Constants DEF PairsInOrder
<1> QED
  BY <1>4, <1>5, <1>7 DEF PairsInOrder

-----------------------------------------------------------------------------
(* Steps of the server *)

ServerTypeOK ==
    /\ family \in [Pairs -> 0..MaxPairs]
    /\ \A n \in Pairs : family[n] <= n
    /\ \A n \in Issued : family[family[n]] = family[n]
    /\ ended \subseteq Issued
    /\ oldest \in 1..(Cardinality(Issued) + 1)
    /\ owner \in [Pairs -> Tabs \cup {NoTab}]

LEMMA TypeParts ==
    /\ TypeOK <=> ManagerTypeOK /\ jar \in Issued \cup {0} /\ ServerTypeOK
    /\ TypeOK' <=> ManagerTypeOK' /\ jar' \in Issued' \cup {0} /\ ServerTypeOK'
  BY DEF TypeOK, ServerTypeOK

\* A refresh on its way finds the session as it was, or renewed by something else.
SentStays ==
    \A d \in Calls : flight[d].state = "sent" /\ flight'[d] = flight[d] =>
      \A f \in Issued : family[f] = f /\ f \notin ended' =>
        Current(f)' = Current(f) \/ owner'[Current(f)'] # TabOf[d]

ServerStep == Grows /\ ServerTypeOK' /\ SentStays /\ stray' \subseteq Issued'

LEMMA QuietStep ==
    ASSUME Consistent, UNCHANGED <<family, ended, oldest, owner>>, stray' \subseteq Issued
    PROVE  ServerStep
<1>1. TypeOK /\ Issued' = Issued
  BY DEF Consistent, Issued
<1>2. ServerTypeOK' /\ oldest \in Nat
  BY <1>1, IssuedFinite DEF TypeOK, ServerTypeOK
<1>3. Grows
  BY <1>1, <1>2, QuietGrows
<1>4. \A f : Current(f)' = Current(f)
  BY <1>1 DEF Current
<1> QED
  BY <1>1, <1>2, <1>3, <1>4 DEF ServerStep, SentStays

\* A session ends, that of a pair somebody presented.
LEMMA EndStep ==
    ASSUME Consistent, NEW n \in Issued \cup {0}, ended' = ended \cup ({SessionOf(n)} \ {0}),
           UNCHANGED <<family, oldest, owner>>, stray' \subseteq stray
    PROVE  ServerStep /\ SessionOf(n)' \in ended' \cup {0}
<1>1. TypeOK /\ Issued' = Issued /\ stray \subseteq Issued
  BY DEF Consistent, Issued
<1>2. SessionOf(n) \in Issued \cup {0}
  BY <1>1, SessionIssued DEF SessionOf
<1>3. ServerTypeOK' /\ oldest \in Nat
  BY <1>1, <1>2, IssuedFinite DEF TypeOK, ServerTypeOK
<1>4. Grows
  BY <1>1, <1>3 DEF Grows
<1>5. \A f : Current(f)' = Current(f)
  BY <1>1 DEF Current
<1>6. SessionOf(n)' = SessionOf(n)
  BY DEF SessionOf
<1> QED
  BY <1>1, <1>3, <1>4, <1>5, <1>6 DEF ServerStep, SentStays

LEMMA IssueStep ==
    ASSUME Consistent, NEW f, NEW o \in Tabs \cup {NoTab}, IssueTo(f, o), stray' \subseteq stray,
           \A d \in Calls : flight[d].state = "sent" /\ flight'[d] = flight[d] => o # TabOf[d]
    PROVE  ServerStep
<1>1. TypeOK /\ stray \subseteq Issued
  BY DEF Consistent
<1>2. /\ Issued' = Issued \cup {NewPair} /\ Cardinality(Issued') = Cardinality(Issued) + 1
      /\ Grows /\ owner'[NewPair] = o
      /\ family' \in [Pairs -> 0..MaxPairs]
      /\ \A n \in Pairs : family'[n] <= n
      /\ \A n \in Issued' : family'[family'[n]] = family'[n]
      /\ owner' \in [Pairs -> Tabs \cup {NoTab}]
  BY IssueGrows
<1>3. ServerTypeOK'
  BY <1>1, <1>2, IssuedFinite DEF IssueTo, TypeOK, ServerTypeOK
<1>4. SentStays
  <2> SUFFICES ASSUME NEW d \in Calls, o # TabOf[d],
                      NEW g \in Issued, family[g] = g
               PROVE  Current(g)' = Current(g) \/ owner'[Current(g)'] # TabOf[d]
    BY DEF SentStays
  <2>1. Current(g)' = IF g = f THEN NewPair ELSE Current(g)
    BY IssueGrows
  <2> QED
    BY <1>2, <2>1
<1> QED
  BY <1>1, <1>2, <1>3, <1>4 DEF ServerStep

LEMMA ExpireStep ==
    ASSUME Consistent, Expire
    PROVE  ServerStep /\ PairsInOrder'
<1>1. /\ TypeOK /\ PairsInOrder /\ stray \subseteq Issued /\ Issued' = Issued
      /\ oldest' = Cardinality(Issued) + 1
      /\ UNCHANGED <<managerVars, family, ended, stray, owner>>
  BY DEF Consistent, Issued, Expire, NewPair
<1>2. ServerTypeOK' /\ oldest \in Nat /\ oldest' >= oldest /\ oldest' \in Nat
  BY <1>1, IssuedFinite DEF TypeOK, ServerTypeOK
<1>3. Grows
  BY <1>1, <1>2, QuietGrows
<1>4. \A f : Current(f)' = Current(f)
  BY <1>1 DEF Current
<1>5. PairsInOrder'
  BY <1>1, NothingIssued DEF managerVars, WillAsk, WillRenew, Open
<1> QED
  BY <1>1, <1>2, <1>3, <1>4, <1>5 DEF ServerStep, SentStays

-----------------------------------------------------------------------------
(* Steps of one call, that change nothing else in the browser *)

\* What a call that is not waiting may become
Becomes(c, k) ==
    /\ call[c].pc # "waiting" /\ k.pc # "waiting" /\ k.awaits = NoCall
    /\ k.reply = "cookies" =>
         k.sets \notin Issued \/ (call[c].reply = "cookies" /\ k.sets = call[c].sets)
    /\ k.pc = "first" =>
         \/ k.cookie = jar
         \/ call[c].pc = "first" /\ k.gen = call[c].gen /\ k.cookie = call[c].cookie

LEMMA CallStep ==
    ASSUME Consistent, ServerStep, NEW c \in Calls, NEW k \in Call, Becomes(c, k),
           call' = [call EXCEPT ![c] = k], UNCHANGED <<generation, promise, flight, jar>>,
           AnswerHolds(c)', PairsInOrder'
    PROVE  Consistent'
<1>1. /\ TypeOK /\ ManagerTypeOK /\ ServerTypeOK' /\ Grows /\ SentStays
      /\ stray' \subseteq Issued' /\ Issued \subseteq Issued'
      /\ \A d \in Calls : AnswerHolds(d) /\ RefreshHolds(d) /\ JarHolds(d)
      /\ \A t \in Tabs : promise[t] # NoCall => TabOf[promise[t]] = t
  BY DEF Consistent, ServerStep, TypeOK, Grows
<1>2. call'[c] = k /\ \A d \in Calls : d # c => call'[d] = call[d]
  BY <1>1 DEF ManagerTypeOK
<1>3. TypeOK'
  <2>1. ManagerTypeOK'
    BY <1>1, <1>2 DEF ManagerTypeOK, Becomes
  <2> QED
    BY <1>1, <2>1, TypeParts
<1>4. LostStays
  BY <1>1, <1>2 DEF LostStays, Lost, Becomes
<1>5. ASSUME NEW d \in Calls PROVE AnswerHolds(d)'
  <2>1. generation[TabOf[d]] \in Nat
    BY <1>1, Constants DEF ManagerTypeOK
  <2> QED
    BY <1>1, <1>2, <1>3, <2>1, AnswerFrame
<1>6. ASSUME NEW d \in Calls PROVE RefreshHolds(d)'
  <2>1. flight[d].state # "none" => d # c
    BY <1>1 DEF RefreshHolds, Becomes
  <2> QED
    BY <1>1, <1>2, <1>3, <1>4, <2>1, RefreshFrame DEF SentStays
<1>7. ASSUME NEW d \in Calls PROVE JarHolds(d)'
  <2>1. CASE d # c
    BY <1>1, <1>2, <2>1, JarFrame
  <2>2. CASE d = c
    <3>1. jar = 0 \/ owner'[jar] = owner[jar]
      BY <1>1 DEF TypeOK, Grows
    <3> QED
      BY <1>1, <1>2, <2>2, <3>1 DEF JarHolds, Becomes
  <2> QED
    BY <2>1, <2>2
<1> QED
  BY <1>1, <1>3, <1>5, <1>6, <1>7 DEF Consistent

\* What the call held before such a step, it still holds.
LEMMA CallKeeps ==
    ASSUME Consistent, ServerStep, NEW c \in Calls
    PROVE  /\ call[c] \in Call /\ call[c].cookie \in Issued \cup {0}
           /\ call[c].cookie \in Issued' \cup {0} /\ call[c].sets \in Issued' \cup {0}
           /\ call[c].sets # 0 => owner'[call[c].sets] = NoTab
           /\ call[c].gen <= generation[TabOf[c]] /\ generation[TabOf[c]] \in Nat
           /\ \A n \in Issued \cup {0} : /\ SessionOf(n)' = SessionOf(n)
                                       /\ ~Valid(n) => ~Valid(n)'
           /\ call[c].pc # "waiting" => call[c].awaits = NoCall
           /\ jar \in Issued \cup {0} /\ jar \in Issued' \cup {0} /\ jar \in Nat
<1>1. /\ TypeOK /\ AnswerHolds(c) /\ Grows /\ ServerTypeOK'
  BY DEF Consistent, ServerStep
<1>2. /\ call[c] \in Call /\ generation[TabOf[c]] \in Nat /\ oldest \in Nat /\ oldest' \in Nat
      /\ (call[c].pc # "waiting" => call[c].awaits = NoCall) /\ jar \in Nat
      /\ jar \in Issued \cup {0}
  BY <1>1, Constants, IssuedFinite DEF TypeOK, ManagerTypeOK, ServerTypeOK
<1>3. call[c].cookie \in Issued \cup {0} /\ call[c].sets \in Issued \cup {0}
  BY <1>1 DEF AnswerHolds
<1>4. \A n \in Issued \cup {0} :
        /\ n \in Issued' \cup {0} /\ SessionOf(n)' = SessionOf(n) /\ n \in Nat
        /\ ~Valid(n) => ~Valid(n)'
  <2> SUFFICES ASSUME NEW n \in Issued \cup {0}
               PROVE  /\ n \in Issued' \cup {0} /\ SessionOf(n)' = SessionOf(n) /\ n \in Nat
                      /\ ~Valid(n) => ~Valid(n)'
    OBVIOUS
  <2>1. n \in Nat /\ n \in Issued' \cup {0} /\ SessionOf(n)' = SessionOf(n)
    BY <1>1 DEF Grows, SessionOf, Issued, Pairs
  <2> QED
    BY <1>1, <1>2, <2>1 DEF Grows, Valid
<1> QED
  BY <1>1, <1>2, <1>3, <1>4 DEF AnswerHolds, Grows

LEMMA IdleType ==
    /\ Idle \in Call /\ Idle.pc = "idle" /\ Idle.awaits = NoCall /\ Idle.reply = "none"
    /\ NoFlight \in Flight /\ NoFlight.state = "none" /\ NoFlight.cookie = 0
  BY DEF Idle, Call, Kinds, NoFlight, Flight

\* The call as a handler leaves it may ask for less, the others as before.
LEMMA WillStep ==
    ASSUME TypeOK, NEW c \in Calls, NEW k \in Call, call' = [call EXCEPT ![c] = k],
           flight' = flight,
           k.pc = "idle" \/ k.reply \in {"cookies", "ok"} \/ (k.kind = call[c].kind /\ Open(c)),
           k.pc = "first" => call[c].pc = "first"
    PROVE  /\ WillAsk' \subseteq WillAsk /\ WillRenew' \subseteq WillRenew
           /\ k.pc = "idle" \/ k.reply \in {"cookies", "ok"} => c \notin WillAsk'
<1>1. call'[c] = k /\ \A d \in Calls : d # c => call'[d] = call[d]
  BY DEF TypeOK, ManagerTypeOK
<1> QED
  BY <1>1 DEF WillAsk, WillRenew, Open

LEMMA SettleStep ==
    ASSUME Consistent, NEW c \in Calls, UNCHANGED serverVars, Settle(c) \/ LoseCall(c)
    PROVE  Consistent'
<1>1. /\ TypeOK /\ AnswerHolds(c) /\ stray \subseteq Issued
      /\ UNCHANGED <<generation, promise, flight, jar, family, ended, oldest, stray, owner>>
      /\ call' = [call EXCEPT ![c] = Idle] /\ call[c].pc # "waiting"
  BY DEF Consistent, Settle, LoseCall, serverVars, AnswerHolds
<1>2. ServerStep
  BY <1>1, QuietStep
<1>3. AnswerHolds(c)'
  <2>1. call'[c] = Idle /\ generation'[TabOf[c]] \in Nat
    BY <1>1, Constants DEF TypeOK, ManagerTypeOK
  <2> QED
    BY <2>1 DEF AnswerHolds, Idle
<1>4. PairsInOrder'
  BY <1>1, IdleType, WillStep, NothingIssued
<1> QED
  BY <1>1, <1>2, <1>3, <1>4, IdleType, CallStep DEF Becomes

LEMMA RetryAtOnceStep ==
    ASSUME Consistent, NEW c \in Calls, UNCHANGED serverVars, RetryAtOnce(c)
    PROVE  Consistent'
<1> DEFINE k == [call[c] EXCEPT !.pc = "second", !.cookie = jar, !.reply = "none"]
<1>1. /\ TypeOK /\ stray \subseteq Issued
      /\ UNCHANGED <<generation, promise, flight, jar, family, ended, oldest, stray, owner>>
      /\ call[c].pc = "first" /\ call[c].reply = "unauthorized"
      /\ call \in [Calls -> Call]
      /\ call' = [call EXCEPT ![c].pc = "second", ![c].cookie = jar, ![c].reply = "none"]
  BY DEF Consistent, RetryAtOnce, FirstUnauthorized, serverVars, TypeOK, ManagerTypeOK
<1>2. ServerStep
  BY <1>1, QuietStep
<1>3. /\ k \in Call /\ k.pc = "second" /\ k.cookie = jar /\ k.reply = "none"
      /\ k.awaits = NoCall /\ k.kind = call[c].kind /\ k.gen = call[c].gen
      /\ k.sets = call[c].sets /\ call' = [call EXCEPT ![c] = k] /\ call'[c] = k
  BY <1>1, <1>2, CallKeeps DEF Call
<1> HIDE DEF k
<1>4. AnswerHolds(c)'
  BY <1>1, <1>2, <1>3, CallKeeps DEF AnswerHolds
<1>5. PairsInOrder'
  BY <1>1, <1>3, WillStep, NothingIssued DEF Open
<1> QED
  BY <1>1, <1>2, <1>3, <1>4, <1>5, CallStep DEF Becomes

\* An answer of a route that sets no cookies
LEMMA AnswerStep ==
    ASSUME Consistent, ServerStep, NEW c \in Calls, NEW reply \in {"ok", "unauthorized"},
           UNCHANGED <<family, owner>>, stray' \subseteq stray,
           Asked(c, Kinds), Answer(c, reply),
           reply = "unauthorized" => /\ call[c].kind # "logout"
                                     /\ call[c].kind = "api" => ~Valid(call[c].cookie)
    PROVE  Consistent'
<1> DEFINE k == [call[c] EXCEPT !.reply = reply]
<1>1. /\ TypeOK /\ call[c].pc \in {"first", "second"} /\ call[c].reply = "none"
      /\ UNCHANGED <<generation, promise, flight, jar>>
      /\ call' = [call EXCEPT ![c].reply = reply] /\ call \in [Calls -> Call]
  BY DEF Consistent, Asked, Answer, TypeOK, ManagerTypeOK
<1>2. /\ k \in Call /\ k.pc = call[c].pc /\ k.cookie = call[c].cookie /\ k.reply = reply
      /\ k.awaits = NoCall /\ k.kind = call[c].kind /\ k.gen = call[c].gen
      /\ k.sets = call[c].sets /\ call' = [call EXCEPT ![c] = k] /\ call'[c] = k
  BY <1>1, CallKeeps DEF Call
<1> HIDE DEF k
<1>3. AnswerHolds(c)'
  <2>1. reply = "unauthorized" /\ call[c].kind = "api" => ~Valid(call[c].cookie)'
    <3>1. PICK m \in Issued \cup {0} : m = call[c].cookie
      BY CallKeeps
    <3>2. ~Valid(m) => ~Valid(m)'
      BY CallKeeps DEF Valid, SessionOf
    <3> QED
      BY <1>2, <3>1, <3>2 DEF Valid, SessionOf
  <2> QED
    BY <1>1, <1>2, <2>1, CallKeeps DEF AnswerHolds
<1>4. PairsInOrder'
  BY <1>1, <1>2, WillStep, NothingIssued DEF Open
<1> QED
  BY <1>1, <1>2, <1>3, <1>4, CallStep DEF Becomes

\* An answer that sets the pair just issued, or clears the cookies
LEMMA AnswerWithCookiesStep ==
    ASSUME Consistent, ServerStep, NEW c \in Calls, NEW n \in Nat,
           Asked(c, Kinds), AnswerWithCookies(c, n), PairsInOrder',
           \/ n = 0 /\ SessionOf(call[c].cookie) \in ended' \cup {0}
           \/ n \in Issued' /\ n \notin Issued /\ owner'[n] = NoTab
    PROVE  Consistent'
<1> DEFINE k == [call[c] EXCEPT !.reply = "cookies", !.sets = n]
<1>1. /\ TypeOK /\ call[c].pc \in {"first", "second"} /\ call[c].reply = "none"
      /\ UNCHANGED <<generation, promise, flight, jar>>
      /\ call' = [call EXCEPT ![c].reply = "cookies", ![c].sets = n]
      /\ call \in [Calls -> Call] /\ 0 \notin Issued /\ 0 \notin Issued'
  BY DEF Consistent, Asked, AnswerWithCookies, TypeOK, ManagerTypeOK, Issued, Pairs
<1>2. /\ k \in Call /\ k.pc = call[c].pc /\ k.cookie = call[c].cookie /\ k.reply = "cookies"
      /\ k.awaits = NoCall /\ k.kind = call[c].kind /\ k.gen = call[c].gen
      /\ k.sets = n /\ call' = [call EXCEPT ![c] = k] /\ call'[c] = k
  BY <1>1, CallKeeps DEF Call
<1> HIDE DEF k
<1>3. AnswerHolds(c)'
  <2>1. n = 0 => SessionOf(call[c].cookie)' \in ended' \cup {0}
    <3>1. PICK m \in Issued \cup {0} : m = call[c].cookie
      BY CallKeeps
    <3>2. n = 0 => SessionOf(m)' \in ended' \cup {0}
      BY <1>1, <3>1 DEF SessionOf, ServerStep, Grows
    <3> QED
      BY <1>2, <3>1, <3>2 DEF SessionOf
  <2> QED
    BY <1>1, <1>2, <2>1, CallKeeps DEF AnswerHolds
<1>4. Becomes(c, k)
  BY <1>1, <1>2 DEF Becomes
<1> QED
  BY <1>1, <1>2, <1>3, <1>4, CallStep

-----------------------------------------------------------------------------
(* The routes *)

LEMMA ServeApiStep ==
    ASSUME Consistent, NEW c \in Calls, ServeApi(c)
    PROVE  Consistent'
<1>1. /\ UNCHANGED <<family, ended, oldest, stray, owner>> /\ Asked(c, Kinds)
      /\ call[c].kind = "api" /\ stray \subseteq Issued
      /\ Answer(c, IF Valid(call[c].cookie) THEN "ok" ELSE "unauthorized")
  BY DEF ServeApi, Asked, serverVars, Kinds, Consistent
<1>2. ServerStep
  BY <1>1, QuietStep
<1>3. CASE Valid(call[c].cookie)
  BY <1>1, <1>2, <1>3, AnswerStep
<1>4. CASE ~Valid(call[c].cookie)
  BY <1>1, <1>2, <1>4, AnswerStep
<1> QED
  BY <1>3, <1>4

LEMMA AnsweredAsksNoMore ==
    ASSUME Consistent, NEW c \in Calls, Asked(c, Kinds), NEW n \in Nat, AnswerWithCookies(c, n)
    PROVE  /\ WillAsk' \subseteq WillAsk /\ WillRenew' \subseteq WillRenew
           /\ c \notin WillAsk' /\ (call[c].kind \in Asking => c \in WillAsk)
<1> DEFINE k == [call[c] EXCEPT !.reply = "cookies", !.sets = n]
<1>1. /\ TypeOK /\ call[c].reply = "none" /\ call[c].pc \in {"first", "second"}
      /\ call \in [Calls -> Call] /\ flight' = flight
      /\ call' = [call EXCEPT ![c].reply = "cookies", ![c].sets = n]
  BY DEF Consistent, Asked, AnswerWithCookies, TypeOK, ManagerTypeOK
<1>2. /\ k \in Call /\ k.reply = "cookies" /\ k.pc = call[c].pc
      /\ call' = [call EXCEPT ![c] = k]
  BY <1>1 DEF Call
<1> HIDE DEF k
<1>3. c \in WillAsk <=> call[c].kind \in Asking
  BY <1>1 DEF WillAsk, Open
<1> QED
  BY <1>1, <1>2, <1>3, WillStep

\* A route issues a pair, of a session of its own or of the one that was presented.
LEMMA IssueAnswerStep ==
    ASSUME Consistent, NEW c \in Calls, Asked(c, Asking), AnswerWithCookies(c, NewPair),
           NEW f, f = NewPair \/ (f \in Issued /\ family[f] = f), Issue(f, NoTab)
    PROVE  Consistent'
<1>1. Asked(c, Kinds) /\ call[c].kind \in Asking /\ NewPair \in Nat
  BY IssuedFinite DEF Asked, Kinds, Asking, NewPair
<1>2. /\ WillAsk' \subseteq WillAsk /\ WillRenew' \subseteq WillRenew
      /\ c \notin WillAsk' /\ c \in WillAsk
  BY <1>1, AnsweredAsksNoMore
<1>3. NewPair \in Pairs
  BY <1>2, PairForAll
<1>4. IssueTo(f, NoTab) /\ stray' = stray
  BY <1>3 DEF IssueTo, Issue
<1>5. /\ ServerStep /\ PairsInOrder'
  BY <1>2, <1>4, IssueStep, IssueOrder, Constants
<1>6. NewPair \in Issued' /\ NewPair \notin Issued /\ owner'[NewPair] = NoTab
  BY <1>4, IssueGrows
<1> QED
  BY <1>1, <1>5, <1>6, AnswerWithCookiesStep

LEMMA ServeLoginStep ==
    ASSUME Consistent, NEW c \in Calls, ServeLogin(c)
    PROVE  Consistent'
<1>1. /\ Asked(c, Asking) /\ Asked(c, Kinds) /\ call[c].kind \in {"login", "callback"}
      /\ stray \subseteq Issued
  BY DEF ServeLogin, Asked, Asking, Kinds, Consistent
<1>2. CASE AnswerWithCookies(c, NewPair) /\ Issue(NewPair, NoTab)
  BY <1>1, <1>2, IssueAnswerStep
<1>3. CASE Answer(c, "unauthorized") /\ UNCHANGED serverVars
  <2>1. ServerStep
    BY <1>1, <1>3, QuietStep DEF serverVars
  <2> QED
    BY <1>1, <1>3, <2>1, AnswerStep DEF serverVars
<1> QED
  BY <1>2, <1>3 DEF ServeLogin

LEMMA ServeLogoutStep ==
    ASSUME Consistent, NEW c \in Calls, ServeLogout(c)
    PROVE  Consistent'
<1>1. /\ Asked(c, Kinds) /\ AnswerWithCookies(c, 0) /\ call[c].cookie \in Issued \cup {0}
      /\ ended' = ended \cup ({SessionOf(call[c].cookie)} \ {0})
      /\ UNCHANGED <<family, oldest, stray, owner>>
  BY DEF ServeLogout, Asked, Kinds, EndFamily, Revoked, Consistent, AnswerHolds
<1>2. ServerStep
  <2>1. PICK n \in Issued \cup {0} : n = call[c].cookie
    BY <1>1
  <2> QED
    BY <1>1, <2>1, EndStep DEF SessionOf
<1>3. PairsInOrder'
  BY <1>1, AnsweredAsksNoMore, NothingIssued
<1>4. SessionOf(call[c].cookie) \in ended' \cup {0}
  BY <1>1
<1> QED
  BY <1>1, <1>2, <1>3, <1>4, AnswerWithCookiesStep

LEMMA ServeRefreshStep ==
    ASSUME Consistent, NEW c \in Calls, ServeRefresh(c)
    PROVE  Consistent'
<1> DEFINE n == call[c].cookie
<1>1. /\ Asked(c, Kinds) /\ Asked(c, Asking) /\ call[c].kind = "refresh"
      /\ n \in Issued \cup {0} /\ TypeOK
  BY DEF ServeRefresh, Asked, Kinds, Asking, Consistent, AnswerHolds
<1>2. CASE Rotatable(n)
  <2>1. SessionOf(n) \in Issued /\ family[SessionOf(n)] = SessionOf(n)
    BY <1>1, <1>2, SessionIssued DEF Rotatable
  <2> QED
    BY <1>1, <1>2, <2>1, IssueAnswerStep DEF ServeRefresh
<1>3. CASE ~Rotatable(n)
  <2>1. /\ ended' = ended \cup ({SessionOf(n)} \ {0}) /\ Answer(c, "unauthorized")
        /\ UNCHANGED <<family, oldest, stray, owner>>
    BY <1>3 DEF ServeRefresh, EndFamily
  <2>2. ServerStep
    <3>1. PICK m \in Issued \cup {0} : m = n
      BY <1>1
    <3> QED
      BY <2>1, <3>1, EndStep DEF SessionOf
  <2> QED
    BY <1>1, <2>1, <2>2, AnswerStep
<1> QED
  BY <1>2, <1>3

LEMMA BeginStep ==
    ASSUME Consistent, leaving \subseteq Issued, NEW c \in Calls, NEW kind \in Kinds,
           PairLeft(kind), Begin(c, kind), UNCHANGED serverVars
    PROVE  Consistent'
<1> DEFINE k == [Idle EXCEPT !.kind = kind, !.pc = "first", !.gen = generation[TabOf[c]],
                             !.cookie = jar]
<1>1. /\ TypeOK /\ PairsInOrder /\ stray \subseteq Issued /\ call[c].pc = "idle"
      /\ UNCHANGED <<generation, promise, flight, jar, family, ended, oldest, stray, owner>>
      /\ call' = [call EXCEPT ![c] = k]
      /\ \A d \in Calls : RefreshHolds(d)
      /\ call \in [Calls -> Call]
  BY DEF Consistent, Begin, Busy, serverVars, TypeOK, ManagerTypeOK
<1>2. ServerStep
  BY <1>1, QuietStep
<1>3. /\ k \in Call /\ k.pc = "first" /\ k.cookie = jar /\ k.reply = "none" /\ k.kind = kind
      /\ k.awaits = NoCall /\ k.gen = generation[TabOf[c]] /\ k.sets = 0
  BY <1>2, CallKeeps DEF Call, Idle
<1> HIDE DEF k
<1>4. AnswerHolds(c)'
  <2>1. call'[c] = k
    BY <1>1
  <2> QED
    BY <1>1, <1>2, <1>3, <2>1, CallKeeps DEF AnswerHolds
<1>5. PairsInOrder'
  <2> DEFINE A == BusyWith(Asking)
             R == BusyWith(Renewing)
             AC == IF kind \in Asking THEN 1 ELSE 0
             RC == IF kind \in Renewing THEN 1 ELSE 0
  <2>1. call'[c] = k /\ \A d \in Calls : d # c => call'[d] = call[d]
    BY <1>1
  <2>2. WillAsk' \subseteq IF kind \in Asking THEN A \cup {c} ELSE A
    BY <1>3, <2>1 DEF WillAsk, BusyWith, Busy, Open
  <2>3. WillRenew' \subseteq IF kind \in Renewing THEN R \cup {c} ELSE R
    <3>1. \A d \in Calls : flight[d].state = "sent" =>
            call[d].pc = "waiting" /\ call[d].kind \in Renewing
      BY <1>1 DEF RefreshHolds
    <3> QED
      BY <1>1, <1>3, <2>1, <3>1 DEF WillRenew, BusyWith, Busy, Open
  <2>4. A \subseteq Calls /\ R \subseteq Calls /\ c \notin A /\ c \notin R
    BY <1>1 DEF BusyWith, Busy
  <2> HIDE DEF A, R
  <2>5. /\ IsFiniteSet(A) /\ IsFiniteSet(R) /\ Cardinality(A) \in Nat /\ Cardinality(R) \in Nat
    BY <2>4, CallSetsFinite
  <2>6. /\ IsFiniteSet(A \cup {c}) /\ Cardinality(A \cup {c}) = Cardinality(A) + 1
        /\ IsFiniteSet(R \cup {c}) /\ Cardinality(R \cup {c}) = Cardinality(R) + 1
    BY <2>4, <2>5, FS_AddElement
  <2>7. Cardinality(WillAsk') <= Cardinality(A) + AC
    <3>1. CASE kind \in Asking
      BY <2>2, <2>5, <2>6, <3>1, Smaller
    <3>2. CASE kind \notin Asking
      BY <2>2, <2>5, <3>2, Smaller
    <3> QED
      BY <3>1, <3>2
  <2>8. Cardinality(WillRenew') <= Cardinality(R) + RC
    <3>1. CASE kind \in Renewing
      BY <2>3, <2>5, <2>6, <3>1, Smaller
    <3>2. CASE kind \notin Renewing
      BY <2>3, <2>5, <3>2, Smaller
    <3> QED
      BY <3>1, <3>2
  <2>9. /\ Cardinality(Issued) + Cardinality(A) + Cardinality(R) + Cardinality(stray)
             + (AC + RC) <= MaxPairs
        /\ AC \in Nat /\ RC \in Nat
    <3>1. /\ Cardinality(leaving) \in Nat /\ Cardinality(stray) \in Nat
          /\ AC \in Nat /\ RC \in Nat
      BY <1>1, IssuedFinite, FS_Subset, FS_CardinalityType, StrayFinite
    <3>2. Cardinality(Issued) + Cardinality(A) + Cardinality(R) + Cardinality(stray)
            + Cardinality(leaving) + (AC + RC) <= MaxPairs
      BY DEF PairLeft, Needs, A, R
    <3> HIDE DEF AC, RC
    <3> QED
      BY <2>5, <3>1, <3>2, IssuedFinite, Constants
  <2> HIDE DEF AC, RC
  <2>10. Cardinality(Issued) + Cardinality(WillAsk') + Cardinality(WillRenew')
           + Cardinality(stray) <= MaxPairs
    BY <1>1, <2>5, <2>7, <2>8, <2>9, CountsType, IssuedFinite, StrayFinite, Constants
  <2>11. Issued' = Issued
    BY <1>1 DEF Issued
  <2> QED
    BY <1>1, <2>10, <2>11 DEF PairsInOrder
<1> QED
  BY <1>1, <1>2, <1>3, <1>4, <1>5, CallStep DEF Becomes

-----------------------------------------------------------------------------
(* The refreshes under way *)

\* The parts of Consistent as the steps of a refresh use them
LEMMA Parts ==
    ASSUME Consistent
    PROVE  /\ TypeOK /\ PairsInOrder /\ stray \subseteq Issued /\ 0 \notin Issued
           /\ generation \in [Tabs -> Nat] /\ promise \in [Tabs -> Calls \cup {NoCall}]
           /\ call \in [Calls -> Call] /\ flight \in [Calls -> Flight]
           /\ jar \in Nat /\ jar \in Issued \cup {0}
           /\ \A d \in Calls : /\ AnswerHolds(d) /\ RefreshHolds(d) /\ JarHolds(d)
                               /\ TabOf[d] \in Tabs
                               /\ generation[TabOf[d]] \in Nat
                               /\ flight[d].state # "none" => promise[TabOf[d]] = d
                               /\ flight[d].state # "none" => call[d].pc = "waiting"
                               /\ flight[d].state # "none" => call[d].awaits = d
                               /\ call[d].awaits # NoCall => call[d].pc = "waiting"
                               /\ call[d].pc = "waiting" => call[d].reply = "none"
           /\ \A t \in Tabs : promise[t] # NoCall =>
                TabOf[promise[t]] = t /\ promise[t] \in Calls
                /\ flight[promise[t]].state # "none"
<1>1. /\ TypeOK /\ ManagerTypeOK /\ PairsInOrder /\ stray \subseteq Issued
      /\ \A d \in Calls : AnswerHolds(d) /\ RefreshHolds(d) /\ JarHolds(d)
      /\ \A t \in Tabs : promise[t] # NoCall => TabOf[promise[t]] = t
  BY DEF Consistent, TypeOK
<1>2. /\ generation \in [Tabs -> Nat] /\ promise \in [Tabs -> Calls \cup {NoCall}]
      /\ call \in [Calls -> Call] /\ flight \in [Calls -> Flight]
      /\ jar \in Nat /\ jar \in Issued \cup {0} /\ 0 \notin Issued
  BY <1>1 DEF TypeOK, ManagerTypeOK, Issued, Pairs
<1>3. ASSUME NEW d \in Calls
      PROVE  /\ TabOf[d] \in Tabs
             /\ generation[TabOf[d]] \in Nat
             /\ flight[d].state # "none" => promise[TabOf[d]] = d
             /\ flight[d].state # "none" => call[d].pc = "waiting"
             /\ flight[d].state # "none" => call[d].awaits = d
             /\ call[d].awaits # NoCall => call[d].pc = "waiting"
             /\ call[d].pc = "waiting" => call[d].reply = "none"
  <2>1. TabOf[d] \in Tabs /\ generation[TabOf[d]] \in Nat
    BY <1>2, Constants
  <2>2. /\ flight[d].state # "none" => promise[TabOf[d]] = d
        /\ flight[d].state # "none" => call[d].pc = "waiting"
        /\ flight[d].state # "none" => call[d].awaits = d
    BY <1>1 DEF RefreshHolds
  <2>3. /\ call[d].awaits # NoCall => call[d].pc = "waiting"
        /\ call[d].pc = "waiting" => call[d].reply = "none"
    BY <1>1 DEF ManagerTypeOK, AnswerHolds
  <2> QED
    BY <2>1, <2>2, <2>3
<1>4. ASSUME NEW t \in Tabs, promise[t] # NoCall
      PROVE  /\ TabOf[promise[t]] = t /\ promise[t] \in Calls
             /\ flight[promise[t]].state # "none"
  BY <1>1, <1>4 DEF ManagerTypeOK
<1> QED
  BY <1>1, <1>2, <1>3, <1>4

\* What the refresh of call c meets concerns nobody else.
LEMMA FlightStep ==
    ASSUME Consistent, ServerStep, NEW c \in Calls, NEW fl \in Flight, fl.state # "none",
           flight[c].state \in {"sent", "granted"}, flight' = [flight EXCEPT ![c] = fl],
           fl.state = "granted" => fl.cookie \notin Issued,
           UNCHANGED <<generation, promise, call, jar>>, PairsInOrder', RefreshHolds(c)'
    PROVE  Consistent'
<1>1. /\ TypeOK /\ ManagerTypeOK /\ Grows /\ SentStays /\ ServerTypeOK'
      /\ stray' \subseteq Issued' /\ Issued \subseteq Issued'
      /\ flight'[c] = fl /\ \A d \in Calls : d # c => flight'[d] = flight[d]
  BY Parts DEF ServerStep, TypeOK, Grows
<1>2. TypeOK'
  <2>1. {d \in Calls : flight'[d].state # "none"} = {d \in Calls : flight[d].state # "none"}
    BY <1>1
  <2>2. ManagerTypeOK'
    BY <1>1, <2>1 DEF ManagerTypeOK
  <2> QED
    BY <1>1, <2>2, Parts, TypeParts
<1>3. LostStays
  BY <1>1 DEF LostStays, Lost
<1>4. ASSUME NEW d \in Calls PROVE AnswerHolds(d)'
  BY <1>1, <1>2, Parts, AnswerFrame
<1>5. ASSUME NEW d \in Calls PROVE RefreshHolds(d)'
  <2>1. CASE d # c
    <3>1. flight'[d] = flight[d]
      BY <1>1, <2>1
    <3> QED
      BY <1>1, <1>2, <1>3, <3>1, RefreshFrame DEF SentStays
  <2> QED
    BY <2>1
<1>6. ASSUME NEW d \in Calls PROVE JarHolds(d)'
  BY <1>1, JarFrame
<1> QED
  BY <1>1, <1>2, <1>4, <1>5, <1>6, Parts DEF Consistent

LEMMA SentCookie ==
    ASSUME Consistent, NEW c \in Calls, flight[c].state # "none"
    PROVE  /\ flight[c].cookie \in Issued \cup {0} /\ flight[c].cookie \in Nat
           /\ call[c].pc = "waiting" /\ call[c].awaits = c /\ call[c].kind \in Renewing
           /\ promise[TabOf[c]] = c
  BY Parts DEF RefreshHolds, Flight

\* It fails: the server has no part in it, or was asked in vain.
LEMMA FlightFailsStep ==
    ASSUME Consistent, NEW c \in Calls, flight[c].state \in {"sent", "granted"},
           NEW state \in {"failed", "forbidden"},
           flight' = [flight EXCEPT ![c].state = state],
           UNCHANGED <<generation, promise, call, jar, family, ended, oldest, owner>>,
           \/ stray' = stray
           \/ flight[c].state = "sent" /\ stray' = stray \cup ({flight[c].cookie} \ {0})
    PROVE  Consistent'
<1> DEFINE fl == [flight[c] EXCEPT !.state = state]
<1>1. /\ fl \in Flight /\ fl.state = state /\ fl.cookie = flight[c].cookie
      /\ flight' = [flight EXCEPT ![c] = fl]
  BY Parts DEF Flight
<1> HIDE DEF fl
<1>2. flight'[c] = fl /\ \A d \in Calls : d # c => flight'[d] = flight[d]
  BY <1>1, Parts
<1>3. stray' \subseteq Issued /\ ServerStep /\ Issued' = Issued
  <2>1. stray' \subseteq Issued
    BY SentCookie, Parts
  <2> QED
    BY <2>1, QuietStep DEF Issued
<1>4. PairsInOrder'
  <2>1. /\ WillAsk' = WillAsk /\ WillRenew' \subseteq WillRenew
    BY <1>1, <1>2 DEF WillAsk, WillRenew, Open
  <2>2. CASE stray' = stray
    BY <2>1, <2>2, NothingIssued
  <2>3. CASE flight[c].state = "sent" /\ stray' = stray \cup ({flight[c].cookie} \ {0})
    <3>1. c \in WillRenew /\ c \notin WillRenew'
      BY <1>1, <1>2, <2>3, SentCookie DEF WillRenew
    <3> QED
      BY <2>1, <2>3, <3>1, GivenUpOrder
  <2> QED
    BY <2>2, <2>3
<1>5. RefreshHolds(c)'
  BY <1>1, <1>2, <1>3, SentCookie DEF RefreshHolds
<1> QED
  BY <1>1, <1>3, <1>4, <1>5, FlightStep

LEMMA UnavailableStep ==
    ASSUME Consistent, NEW c \in Calls, Unavailable(c)
    PROVE  Consistent'
<1>1. UNCHANGED <<family, ended, oldest, stray, owner>> /\ stray \subseteq Issued
  BY Parts DEF Unavailable, serverVars
<1>2. CASE Asked(c, Kinds) /\ Answer(c, "ok")
  BY <1>1, <1>2, QuietStep, AnswerStep
<1>3. ASSUME NEW state \in {"failed", "forbidden"}, flight[c].state = "sent",
             flight' = [flight EXCEPT ![c].state = state],
             UNCHANGED <<generation, promise, call, jar>>
      PROVE  Consistent'
  BY <1>1, <1>3, FlightFailsStep
<1> QED
  BY <1>2, <1>3 DEF Unavailable

\* An explicit refresh, or a logout, that the tab has given up
LEMMA GiveUpStep ==
    ASSUME Consistent, NEW c \in Calls, Asked(c, {"refresh", "logout"}),
           call' = [call EXCEPT ![c] = Idle],
           UNCHANGED <<generation, promise, flight, jar, family, ended, oldest, owner>>,
           \/ stray' = stray
           \/ Asked(c, {"refresh"}) /\ stray' = stray \cup ({call[c].cookie} \ {0})
    PROVE  Consistent'
<1>1. /\ TypeOK /\ AnswerHolds(c) /\ call[c].pc # "waiting" /\ Issued' = Issued
      /\ call'[c] = Idle /\ call[c].reply = "none" /\ call[c].pc \in {"first", "second"}
  BY Parts DEF Asked, Issued
<1>2. stray' \subseteq Issued /\ ServerStep
  <2>1. stray' \subseteq Issued
    BY <1>1, Parts DEF AnswerHolds
  <2> QED
    BY <2>1, QuietStep
<1>3. AnswerHolds(c)'
  <2>1. generation'[TabOf[c]] \in Nat
    BY Parts
  <2> QED
    BY <1>1, <2>1 DEF AnswerHolds, Idle
<1>4. PairsInOrder'
  <2>1. /\ WillAsk' \subseteq WillAsk /\ WillRenew' \subseteq WillRenew /\ c \notin WillAsk'
    BY <1>1, IdleType, WillStep
  <2>2. CASE stray' = stray
    BY <2>1, <2>2, NothingIssued
  <2>3. CASE Asked(c, {"refresh"}) /\ stray' = stray \cup ({call[c].cookie} \ {0})
    <3>1. c \in WillAsk
      BY <1>1, <2>3 DEF WillAsk, Open, Asked, Asking
    <3>2. PICK n : n = call[c].cookie
      OBVIOUS
    <3>3. stray' = stray \cup ({n} \ {0}) /\ UNCHANGED <<family, owner>>
      BY <2>3, <3>2
    <3> QED
      BY <2>1, <3>1, <3>3, GivenUpOrder
  <2> QED
    BY <2>2, <2>3
<1> QED
  BY <1>1, <1>2, <1>3, <1>4, IdleType, CallStep DEF Becomes

LEMMA StrandStep ==
    ASSUME Consistent, NEW c \in Calls, Strand(c)
    PROVE  Consistent'
<1>1. CASE /\ flight[c].state = "sent"
           /\ flight' = [flight EXCEPT ![c].state = "failed"]
           /\ stray' = stray \cup ({flight[c].cookie} \ {0}) /\ call' = call
  BY <1>1, FlightFailsStep DEF Strand
<1>2. CASE /\ Asked(c, {"refresh"}) /\ call' = [call EXCEPT ![c] = Idle]
           /\ stray' = stray \cup ({call[c].cookie} \ {0}) /\ flight' = flight
  <2>1. Asked(c, {"refresh", "logout"})
    BY <1>2 DEF Asked
  <2> QED
    BY <1>2, <2>1, GiveUpStep DEF Strand
<1>3. CASE /\ Asked(c, {"logout"}) /\ call' = [call EXCEPT ![c] = Idle]
           /\ stray' = stray /\ flight' = flight
  <2>1. Asked(c, {"refresh", "logout"})
    BY <1>3 DEF Asked
  <2> QED
    BY <1>3, <2>1, GiveUpStep DEF Strand
<1> QED
  BY <1>1, <1>2, <1>3 DEF Strand

LEMMA LoseRefreshStep ==
    ASSUME Consistent, NEW c \in Calls, UNCHANGED serverVars, LoseRefresh(c)
    PROVE  Consistent'
  BY FlightFailsStep DEF LoseRefresh, serverVars

\* The pair goes to the tab that asked; it has no other refresh under way.
LEMMA RotateStep ==
    ASSUME Consistent, NEW c \in Calls, Rotate(c)
    PROVE  Consistent'
<1> DEFINE n == flight[c].cookie
           t == TabOf[c]
<1>1. /\ flight[c].state = "sent" /\ n \in Issued \cup {0} /\ n \in Nat
      /\ UNCHANGED <<generation, promise, call, jar>>
      /\ promise[t] = c /\ call[c].pc = "waiting" /\ call[c].awaits = c
      /\ call[c].kind \in Renewing /\ t \in Tabs /\ TypeOK /\ c \in WillRenew
  BY SentCookie, Parts DEF Rotate, WillRenew
<1>2. CASE Rotatable(n)
  <2>1. PICK fl \in Flight : fl = [state |-> "granted", cookie |-> NewPair]
    <3>1. NewPair \in Nat
      BY IssuedFinite DEF NewPair
    <3>2. [state |-> "granted", cookie |-> NewPair] \in Flight
      BY <3>1 DEF Flight
    <3> QED
      BY <3>2
  <2>2. /\ flight' = [flight EXCEPT ![c] = fl] /\ Issue(SessionOf(n), t)
        /\ fl.state = "granted" /\ fl.cookie = NewPair
    BY <1>2, <2>1 DEF Rotate
  <2>3. flight'[c] = fl /\ \A d \in Calls : d # c => flight'[d] = flight[d]
    BY <2>2, Parts
  <2>4. /\ WillAsk' = WillAsk /\ WillRenew' \subseteq WillRenew /\ c \notin WillRenew'
    BY <1>1, <2>2, <2>3 DEF WillAsk, WillRenew, Open
  <2>5. PICK f \in Issued : f = SessionOf(n) /\ family[f] = f
    BY <1>1, <1>2, SessionIssued DEF Rotatable
  <2>6. IssueTo(f, t) /\ stray' = stray
    BY <1>1, <2>2, <2>5, PairForAll DEF Issue, IssueTo
  <2>7. \A d \in Calls : flight[d].state = "sent" /\ flight'[d] = flight[d] => t # TabOf[d]
    BY <1>1, <2>2, <2>3, SentCookie
  <2>8. ServerStep
    BY <1>1, <2>6, <2>7, IssueStep
  <2>9. PairsInOrder'
    BY <1>1, <2>4, <2>6, IssueOrder
  <2>10. /\ NewPair \notin Issued /\ NewPair \in Issued' /\ NewPair # 0
         /\ owner'[NewPair] = t
    BY <1>1, <2>6, IssueGrows
  <2>11. RefreshHolds(c)'
    BY <1>1, <2>2, <2>3, <2>10 DEF RefreshHolds
  <2> QED
    BY <1>1, <2>2, <2>8, <2>9, <2>10, <2>11, FlightStep
<1>3. CASE ~Rotatable(n)
  <2>1. PICK m \in Issued \cup {0} : m = n
    BY <1>1
  <2>2. PICK fl \in Flight : fl = [flight[c] EXCEPT !.state = "denied"]
    <3>1. [flight[c] EXCEPT !.state = "denied"] \in Flight
      BY Parts DEF Flight
    <3> QED
      BY <3>1
  <2>3. /\ flight' = [flight EXCEPT ![c].state = "denied"]
        /\ ended' = ended \cup ({SessionOf(n)} \ {0})
        /\ UNCHANGED <<family, oldest, stray, owner>>
    BY <1>3 DEF Rotate, EndFamily
  <2>4. /\ flight' = [flight EXCEPT ![c] = fl] /\ fl.state = "denied" /\ fl.cookie = m
    BY <2>1, <2>2, <2>3, Parts DEF Flight
  <2>5. flight'[c] = fl /\ \A d \in Calls : d # c => flight'[d] = flight[d]
    BY <2>4, Parts
  <2>6. ServerStep /\ SessionOf(m)' \in ended' \cup {0}
    BY <2>1, <2>3, EndStep DEF SessionOf
  <2>7. PairsInOrder'
    <3>1. /\ WillAsk' = WillAsk /\ WillRenew' \subseteq WillRenew
      BY <1>1, <2>4, <2>5 DEF WillAsk, WillRenew, Open
    <3> QED
      BY <2>3, <3>1, NothingIssued
  <2>8. RefreshHolds(c)'
    <3>1. m \in Issued' \cup {0}
      BY <2>6 DEF ServerStep, Grows
    <3>2. SessionOf(flight[c].cookie)' = SessionOf(m)'
      BY <2>4, <2>5 DEF SessionOf
    <3> QED
      BY <1>1, <2>4, <2>5, <2>6, <3>1, <3>2 DEF RefreshHolds
  <2> QED
    BY <1>1, <2>4, <2>6, <2>7, <2>8, FlightStep
<1> QED
  BY <1>2, <1>3

\* The browser stores the pair of a refresh: to its tab the refresh has landed, to the
\* others the pair is somebody else's.
LEMMA RefreshLandsStep ==
    ASSUME Consistent, NEW c \in Calls, UNCHANGED serverVars, flight[c].state = "granted",
           jar' = flight[c].cookie, flight' = [flight EXCEPT ![c].state = "landed"],
           UNCHANGED <<generation, promise, call>>
    PROVE  Consistent'
<1> DEFINE fl == [flight[c] EXCEPT !.state = "landed"]
<1>1. /\ UNCHANGED <<family, ended, oldest, stray, owner>>
      /\ jar' \in Issued \cup {0} /\ jar' \in Nat /\ jar' # 0 /\ owner[jar'] = TabOf[c]
      /\ promise[TabOf[c]] = c /\ call[c].pc = "waiting" /\ call[c].awaits = c
      /\ call[c].kind \in Renewing /\ Issued' = Issued
  BY Parts, SentCookie DEF serverVars, RefreshHolds, Issued
<1>2. /\ fl \in Flight /\ fl.state = "landed" /\ fl.cookie = flight[c].cookie
      /\ flight' = [flight EXCEPT ![c] = fl]
  BY Parts DEF Flight
<1> HIDE DEF fl
<1>3. flight'[c] = fl /\ \A d \in Calls : d # c => flight'[d] = flight[d]
  BY <1>2, Parts
<1>4. ServerStep
  BY <1>1, Parts, QuietStep
<1>5. TypeOK'
  <2>1. {d \in Calls : flight'[d].state # "none"} = {d \in Calls : flight[d].state # "none"}
    BY <1>2, <1>3
  <2>2. ManagerTypeOK'
    BY <1>1, <1>2, <2>1, Parts DEF ManagerTypeOK, TypeOK
  <2> QED
    BY <1>1, <1>4, <2>2, TypeParts DEF ServerStep
<1>6. LostStays
  BY <1>2, <1>3, Parts DEF LostStays, Lost, Flight
<1>7. ASSUME NEW d \in Calls PROVE AnswerHolds(d)'
  BY <1>4, <1>5, Parts, AnswerFrame DEF ServerStep
<1>8. ASSUME NEW d \in Calls PROVE RefreshHolds(d)'
  <2>1. CASE d # c
    <3>1. flight'[d] = flight[d]
      BY <1>3, <2>1
    <3> QED
      BY <1>4, <1>5, <1>6, <3>1, RefreshFrame DEF ServerStep, SentStays
  <2>2. CASE d = c
    BY <1>1, <1>2, <1>3, <2>2, SentCookie DEF RefreshHolds
  <2> QED
    BY <2>1, <2>2
<1>9. ASSUME NEW d \in Calls PROVE JarHolds(d)'
  <2>1. CASE TabOf[d] = TabOf[c]
    BY <1>1, <1>2, <1>3, <2>1, Constants DEF JarHolds
  <2>2. CASE TabOf[d] # TabOf[c]
    BY <1>1, <2>2 DEF JarHolds
  <2> QED
    BY <2>1, <2>2
<1>10. PairsInOrder'
  <2>1. WillAsk' = WillAsk /\ WillRenew' \subseteq WillRenew
    BY <1>2, <1>3 DEF WillAsk, WillRenew, Open
  <2> QED
    BY <1>1, <2>1, NothingIssued
<1> QED
  BY <1>1, <1>4, <1>5, <1>7, <1>8, <1>9, <1>10, Parts DEF Consistent

\* The browser stores the pair of another answer, which no refreshOnce has asked for.
LEMMA AnswerLandsStep ==
    ASSUME Consistent, NEW c \in Calls, UNCHANGED serverVars, call[c].reply = "cookies",
           jar' = call[c].sets, call' = [call EXCEPT ![c].reply = "ok", ![c].sets = 0],
           UNCHANGED <<generation, promise, flight>>
    PROVE  Consistent'
<1> DEFINE k == [call[c] EXCEPT !.reply = "ok", !.sets = 0]
<1>1. /\ UNCHANGED <<family, ended, oldest, stray, owner>> /\ Issued' = Issued
      /\ jar' \in Issued \cup {0} /\ jar' \in Nat /\ (jar' # 0 => owner[jar'] = NoTab)
      /\ call[c].pc \in {"first", "second"} /\ flight[c].state = "none"
      /\ call[c].awaits = NoCall
      /\ call[c].cookie \in Issued \cup {0}
      /\ call[c].gen <= generation[TabOf[c]]
  BY Parts DEF serverVars, AnswerHolds, Issued, Call
<1>2. /\ k \in Call /\ k.reply = "ok" /\ k.sets = 0 /\ k.pc = call[c].pc
      /\ k.gen = call[c].gen /\ k.cookie = call[c].cookie /\ k.kind = call[c].kind
      /\ k.awaits = call[c].awaits
      /\ call' = [call EXCEPT ![c] = k]
  <2>1. call \in [Calls -> Call] /\ call[c] \in Call
    BY Parts
  <2> QED
    BY <2>1 DEF Call
<1> HIDE DEF k
<1>3. call'[c] = k /\ \A d \in Calls : d # c => call'[d] = call[d]
  BY <1>2, Parts
<1>4. ServerStep
  BY <1>1, Parts, QuietStep
<1>5. TypeOK'
  <2>1. ManagerTypeOK'
    BY <1>1, <1>2, <1>3, Parts DEF ManagerTypeOK, TypeOK
  <2> QED
    BY <1>1, <1>4, <2>1, TypeParts DEF ServerStep
<1>6. LostStays
  BY <1>2, <1>3, Parts DEF LostStays, Lost
<1>7. ASSUME NEW d \in Calls PROVE AnswerHolds(d)'
  <2>1. CASE d # c
    BY <1>3, <1>4, <1>5, <2>1, Parts, AnswerFrame DEF ServerStep
  <2>2. CASE d = c
    BY <1>1, <1>2, <1>3, <2>2 DEF AnswerHolds
  <2> QED
    BY <2>1, <2>2
<1>8. ASSUME NEW d \in Calls PROVE RefreshHolds(d)'
  <2>1. flight[d].state # "none" => call'[d] = call[d]
    BY <1>1, <1>3
  <2> QED
    BY <1>4, <1>5, <1>6, <2>1, RefreshFrame DEF ServerStep, SentStays
<1>9. ASSUME NEW d \in Calls PROVE JarHolds(d)'
  <2>1. jar' = 0 \/ owner'[jar'] # TabOf[d]
    BY <1>1, Constants
  <2> QED
    BY <2>1 DEF JarHolds
<1>10. PairsInOrder'
  <2>1. WillAsk' \subseteq WillAsk /\ WillRenew' \subseteq WillRenew
    BY <1>2, <1>3 DEF WillAsk, WillRenew, Open
  <2> QED
    BY <1>1, <2>1, NothingIssued
<1> QED
  BY <1>1, <1>4, <1>5, <1>7, <1>8, <1>9, <1>10, Parts DEF Consistent

LEMMA SetCookiesStep ==
    ASSUME Consistent, NEW c \in Calls, UNCHANGED serverVars, SetCookies(c)
    PROVE  Consistent'
  BY RefreshLandsStep, AnswerLandsStep DEF SetCookies

\* A call that meets its first 401 waits for a refresh.
LEMMA AwaitParts ==
    ASSUME Consistent, NEW c \in Calls, FirstUnauthorized(c), NEW b \in Calls, Await(c, b)
    PROVE  /\ call[c].kind \in Renewing /\ flight[c].state = "none"
           /\ call' \in [Calls -> Call]
           /\ call'[c].pc = "waiting" /\ call'[c].awaits = b /\ call'[c].cookie = 0
           /\ call'[c].reply = "none" /\ call'[c].gen = 0
           /\ call'[c].sets = call[c].sets /\ call'[c].kind = call[c].kind
           /\ \A d \in Calls : d # c => call'[d] = call[d]
           /\ c \in WillRenew /\ WillAsk' \subseteq WillAsk
<1> DEFINE k == [call[c] EXCEPT !.pc = "waiting", !.awaits = b, !.cookie = 0,
                                !.reply = "none", !.gen = 0]
<1>1. /\ call[c].pc = "first" /\ call[c].reply = "unauthorized"
      /\ call[c].kind \in Kinds \ {"login", "refresh", "logout"}
  BY Parts DEF FirstUnauthorized, MayRefresh, AnswerHolds, Call
<1>2. call[c].kind \in Renewing /\ flight[c].state = "none"
  BY <1>1, Parts DEF Kinds, Renewing
<1>3. /\ k \in Call /\ k.pc = "waiting" /\ k.awaits = b /\ k.cookie = 0 /\ k.reply = "none"
      /\ k.gen = 0 /\ k.sets = call[c].sets /\ k.kind = call[c].kind
      /\ call' = [call EXCEPT ![c] = k]
  <2>1. call \in [Calls -> Call] /\ call[c] \in Call
    BY Parts
  <2> QED
    BY <2>1 DEF Call, Await
<1> HIDE DEF k
<1>4. /\ call'[c] = k /\ \A d \in Calls : d # c => call'[d] = call[d]
      /\ call' \in [Calls -> Call]
  BY <1>3, Parts
<1>5. c \in WillRenew /\ WillAsk' \subseteq WillAsk
  BY <1>1, <1>2, <1>3, <1>4 DEF WillAsk, WillRenew, Open
<1> QED
  BY <1>2, <1>3, <1>4, <1>5

LEMMA ShareRefreshStep ==
    ASSUME Consistent, NEW c \in Calls, UNCHANGED serverVars, ShareRefresh(c)
    PROVE  Consistent'
<1>1. PICK b \in Calls : b = promise[TabOf[c]] /\ flight[b].state # "none"
  BY Parts DEF ShareRefresh, InFlight
<1>2. /\ UNCHANGED <<family, ended, oldest, stray, owner>> /\ FirstUnauthorized(c)
      /\ Await(c, b) /\ UNCHANGED <<generation, promise, flight, jar>> /\ Issued' = Issued
  BY <1>1 DEF serverVars, ShareRefresh, Issued
<1>3. /\ call[c].kind \in Renewing /\ flight[c].state = "none"
      /\ call' \in [Calls -> Call]
      /\ call'[c].pc = "waiting" /\ call'[c].awaits = b /\ call'[c].cookie = 0
      /\ call'[c].reply = "none" /\ call'[c].gen = 0
      /\ call'[c].sets = call[c].sets /\ call'[c].kind = call[c].kind
      /\ \A d \in Calls : d # c => call'[d] = call[d]
      /\ c \in WillRenew /\ WillAsk' \subseteq WillAsk
  BY <1>2, AwaitParts
<1>4. ServerStep
  BY <1>2, Parts, QuietStep
<1>5. TypeOK'
  <2>1. ManagerTypeOK'
    BY <1>1, <1>2, <1>3, Parts DEF ManagerTypeOK, TypeOK
  <2> QED
    BY <1>2, <1>4, <2>1, Parts, TypeParts DEF ServerStep
<1>6. LostStays
  BY <1>2, <1>3 DEF LostStays, Lost
<1>7. ASSUME NEW d \in Calls PROVE AnswerHolds(d)'
  <2>1. CASE d # c
    BY <1>2, <1>3, <1>4, <1>5, <2>1, Parts, AnswerFrame DEF ServerStep
  <2>2. CASE d = c
    BY <1>2, <1>3, <2>2, Parts DEF AnswerHolds
  <2> QED
    BY <2>1, <2>2
<1>8. ASSUME NEW d \in Calls PROVE RefreshHolds(d)'
  BY <1>2, <1>3, <1>4, <1>5, <1>6, RefreshFrame DEF ServerStep, SentStays
<1>9. ASSUME NEW d \in Calls PROVE JarHolds(d)'
  <2>1. CASE d # c
    BY <1>2, <1>3, <1>4, <2>1, JarFrame DEF ServerStep
  <2>2. CASE d = c
    BY <1>3, <2>2 DEF JarHolds
  <2> QED
    BY <2>1, <2>2
<1>10. PairsInOrder'
  <2>1. WillRenew' \subseteq WillRenew
    BY <1>2, <1>3 DEF WillRenew, Open
  <2> QED
    BY <1>2, <1>3, <2>1, NothingIssued
<1> QED
  BY <1>2, <1>4, <1>5, <1>7, <1>8, <1>9, <1>10, Parts DEF Consistent

\* The refresh sends the jar.  A current pair that is another one, and that this tab has
\* asked for, would still be on its way to the tab, whose refresh would be under way.
LEMMA StartRefreshStep ==
    ASSUME Consistent, NEW c \in Calls, UNCHANGED serverVars, StartRefresh(c)
    PROVE  Consistent'
<1> DEFINE t == TabOf[c]
<1>1. /\ UNCHANGED <<family, ended, oldest, stray, owner>> /\ FirstUnauthorized(c)
      /\ Await(c, c) /\ UNCHANGED <<generation, jar>> /\ Issued' = Issued
      /\ t \in Tabs /\ promise[t] = NoCall /\ promise' = [promise EXCEPT ![t] = c]
      /\ flight' = [flight EXCEPT ![c] = [state |-> "sent", cookie |-> jar]]
  BY Parts DEF serverVars, StartRefresh, InFlight, Issued
<1>2. /\ call[c].kind \in Renewing /\ flight[c].state = "none"
      /\ call' \in [Calls -> Call]
      /\ call'[c].pc = "waiting" /\ call'[c].awaits = c /\ call'[c].cookie = 0
      /\ call'[c].reply = "none" /\ call'[c].gen = 0
      /\ call'[c].sets = call[c].sets /\ call'[c].kind = call[c].kind
      /\ \A d \in Calls : d # c => call'[d] = call[d]
      /\ c \in WillRenew /\ WillAsk' \subseteq WillAsk
  BY <1>1, AwaitParts
<1>3. /\ flight' \in [Calls -> Flight] /\ flight'[c].state = "sent" /\ flight'[c].cookie = jar
      /\ \A d \in Calls : d # c => flight'[d] = flight[d]
      /\ promise'[t] = c /\ \A u \in Tabs : u # t => promise'[u] = promise[u]
      /\ promise' \in [Tabs -> Calls \cup {NoCall}]
  <2>1. [state |-> "sent", cookie |-> jar] \in Flight
    BY Parts DEF Flight
  <2> QED
    BY <1>1, <2>1, Parts
<1>4. ServerStep
  BY <1>1, Parts, QuietStep
<1>5. TypeOK'
  <2>1. {d \in Calls : flight'[d].state # "none"}
          = {d \in Calls : flight[d].state # "none"} \cup {c}
    BY <1>3
  <2>2. promise' \in [Tabs -> {d \in Calls : flight'[d].state # "none"} \cup {NoCall}]
    BY <1>1, <1>3, <2>1, Parts
  <2>3. ManagerTypeOK'
    BY <1>1, <1>2, <1>3, <2>1, <2>2, Parts DEF ManagerTypeOK, TypeOK
  <2> QED
    BY <1>1, <1>4, <2>3, Parts, TypeParts DEF ServerStep
<1>6. LostStays
  BY <1>1, <1>2, <1>3 DEF LostStays, Lost
<1>7. ASSUME NEW d \in Calls PROVE AnswerHolds(d)'
  <2>1. CASE d # c
    BY <1>1, <1>2, <1>4, <1>5, <2>1, Parts, AnswerFrame DEF ServerStep
  <2>2. CASE d = c
    BY <1>1, <1>2, <2>2, Parts DEF AnswerHolds
  <2> QED
    BY <2>1, <2>2
<1>8. ASSUME NEW d \in Calls PROVE RefreshHolds(d)'
  <2>1. CASE TabOf[d] # t
    <3>1. d # c /\ TabOf[d] \in Tabs
      BY <2>1, Parts
    <3> QED
      BY <1>2, <1>3, <1>4, <1>5, <1>6, <2>1, <3>1, RefreshFrame DEF ServerStep, SentStays
  <2>2. CASE TabOf[d] = t /\ d # c
    <3>1. flight[d].state = "none" /\ flight'[d] = flight[d] /\ promise'[t] # d
      BY <1>1, <1>3, <2>2, Parts, Constants
    <3> QED
      BY <1>1, <2>2, <3>1, Parts DEF RefreshHolds
  <2>3. CASE d = c
    <3>1. SessionOf(flight[c].cookie)' = SessionOf(jar) /\ ended' = ended
      BY <1>1, <1>3 DEF SessionOf
    <3>2. SessionOf(jar) \notin ended \cup {0} =>
             \/ jar = Current(SessionOf(jar))
             \/ owner[Current(SessionOf(jar))] # t
             \/ Lost(Current(SessionOf(jar)))'
      <4> SUFFICES ASSUME SessionOf(jar) # 0, jar # Current(SessionOf(jar)),
                          owner[Current(SessionOf(jar))] = t
                   PROVE  Lost(Current(SessionOf(jar)))'
        OBVIOUS
      <4>1. jar \in Issued
        BY Parts DEF SessionOf
      <4>2. SessionOf(jar) \in Issued /\ family[SessionOf(jar)] = SessionOf(jar)
        BY <4>1, Parts, SessionIssued
      <4>3. PICK m \in Issued : m = Current(SessionOf(jar))
        BY <4>2, CurrentIs
      <4>4. m # 0 /\ owner[m] = t /\ jar' # m
        BY <1>1, <4>3, Parts
      <4>5. ASSUME NEW e \in Calls, flight'[e] = [state |-> "granted", cookie |-> m]
            PROVE  FALSE
        <5>1. e # c /\ flight[e].state = "granted" /\ flight[e].cookie = m
          BY <1>3, <4>5
        <5>2. owner[m] = TabOf[e] /\ promise[TabOf[e]] = e
          BY <5>1, Parts DEF RefreshHolds
        <5> QED
          BY <1>1, <4>4, <5>2, Constants
      <4>6. ASSUME NEW e \in Calls, call'[e].reply = "cookies", call'[e].sets = m
            PROVE  FALSE
        <5>1. call[e].sets = m
          BY <1>2, <4>6
        <5>2. owner[m] = NoTab
          BY <4>4, <5>1, Parts DEF AnswerHolds
        <5> QED
          BY <1>1, <4>4, <5>2, Constants
      <4>7. Lost(m)'
        BY <4>4, <4>5, <4>6 DEF Lost
      <4>8. Current(SessionOf(jar))' = Current(SessionOf(jar))
        BY <1>1 DEF Current, SessionOf
      <4> QED
        BY <4>3, <4>7, <4>8 DEF Lost
    <3>3. Current(SessionOf(flight[c].cookie))' = Current(SessionOf(jar))
      BY <1>1, <1>3 DEF Current, SessionOf
    <3>4. Lost(Current(SessionOf(jar)))' <=> Lost(Current(SessionOf(flight[c].cookie)))'
      BY <1>1, <1>3 DEF Current, SessionOf, Lost
    <3> QED
      BY <1>1, <1>2, <1>3, <2>3, <3>1, <3>2, <3>3, <3>4, Parts DEF RefreshHolds
  <2> QED
    BY <2>1, <2>2, <2>3
<1>9. ASSUME NEW d \in Calls PROVE JarHolds(d)'
  <2>1. CASE d # c
    <3>1. \/ promise[TabOf[d]] = NoCall
          \/ TabOf[d] # t /\ promise[TabOf[d]] # c
      BY <1>1, Parts
    <3>2. JarHolds(d) /\ call'[d] = call[d] /\ TabOf[d] \in Tabs
      BY <1>2, <2>1, Parts
    <3> QED
      BY <1>1, <1>3, <3>1, <3>2, Parts DEF JarHolds
  <2>2. CASE d = c
    BY <1>2, <2>2 DEF JarHolds
  <2> QED
    BY <2>1, <2>2
<1>10. PairsInOrder'
  <2>1. WillRenew' \subseteq WillRenew
    BY <1>2, <1>3 DEF WillRenew, Open
  <2> QED
    BY <1>1, <1>2, <2>1, NothingIssued
<1>11. ASSUME NEW u \in Tabs, promise'[u] # NoCall PROVE TabOf[promise'[u]] = u
  BY <1>1, <1>3, <1>11, Parts
<1> QED
  BY <1>1, <1>4, <1>5, <1>7, <1>8, <1>9, <1>10, <1>11, Parts DEF Consistent

\* A refresh is over: whoever has waited for it goes on with the jar as it is, or fails.
LEMMA SettledStep ==
    ASSUME Consistent, NEW c \in Calls, UNCHANGED serverVars, UNCHANGED jar, Settled(c),
           flight[c].state \in {"landed", "denied", "forbidden", "failed"},
           generation' \in [Tabs -> Nat], call' \in [Calls -> Call],
           \A t \in Tabs : t # TabOf[c] => generation'[t] = generation[t],
           \/ generation'[TabOf[c]] > generation[TabOf[c]]
           \/ generation'[TabOf[c]] = generation[TabOf[c]] /\ flight[c].state # "landed",
           \A d \in Calls \ Waiters(c) : call'[d] = call[d],
           \A d \in Waiters(c) :
             \/ call'[d] = Idle
             \/ /\ call'[d].pc = "second" /\ call'[d].cookie = jar
                /\ call'[d].awaits = NoCall /\ call'[d].reply = "none"
                /\ call'[d].sets = call[d].sets /\ call'[d].gen = call[d].gen
                /\ call'[d].kind = call[d].kind
    PROVE  Consistent'
<1> DEFINE t == TabOf[c]
<1>1. /\ UNCHANGED <<family, ended, oldest, stray, owner>> /\ Issued' = Issued
      /\ t \in Tabs /\ promise[t] = c /\ promise' = [promise EXCEPT ![t] = NoCall]
      /\ flight' = [flight EXCEPT ![c] = NoFlight]
  BY Parts DEF serverVars, Settled, Issued
<1>2. /\ promise' \in [Tabs -> Calls \cup {NoCall}]
      /\ promise'[t] = NoCall /\ \A u \in Tabs : u # t => promise'[u] = promise[u]
      /\ flight' \in [Calls -> Flight] /\ flight'[c] = NoFlight
      /\ \A d \in Calls : d # c => flight'[d] = flight[d]
      /\ \A u \in Tabs : u # t => promise[u] # c
  BY <1>1, Parts, IdleType, Constants
<1>3. ASSUME NEW d \in Calls, d \in Waiters(c)
      PROVE  call[d].pc = "waiting" /\ call[d].reply = "none" /\ (d # c => flight[d].state = "none")
  BY <1>3, Parts, Constants DEF Waiters
<1>4. ASSUME NEW d \in Calls, d \notin Waiters(c)
      PROVE  d # c /\ call[d].awaits # c /\ call'[d] = call[d]
  BY <1>4, Parts DEF Waiters
<1>5. ServerStep
  BY <1>1, Parts, QuietStep
<1>6. TypeOK'
  <2> DEFINE On == {d \in Calls : flight[d].state # "none"}
  <2>1. On' = On \ {c}
    BY <1>2, IdleType
  <2>2. promise \in [Tabs -> On \cup {NoCall}]
    BY Parts DEF TypeOK, ManagerTypeOK
  <2>3. promise' \in [Tabs -> (On \ {c}) \cup {NoCall}]
    BY <1>1, <1>2, <2>2
  <2>4. \A d \in Calls : IF call'[d].pc = "waiting" THEN call'[d].awaits \in On \ {c}
                         ELSE call'[d].awaits = NoCall
    <3> SUFFICES ASSUME NEW d \in Calls
                 PROVE  IF call'[d].pc = "waiting" THEN call'[d].awaits \in On \ {c}
                        ELSE call'[d].awaits = NoCall
      OBVIOUS
    <3>1. CASE d \in Waiters(c)
      BY <3>1, IdleType
    <3>2. CASE d \notin Waiters(c)
      <4>1. IF call[d].pc = "waiting" THEN call[d].awaits \in On
            ELSE call[d].awaits = NoCall
        BY Parts DEF TypeOK, ManagerTypeOK
      <4> QED
        BY <1>4, <3>2, <4>1
    <3> QED
      BY <3>1, <3>2
  <2> HIDE DEF On
  <2>5. jar' \in Nat
    BY Parts
  <2>6. ManagerTypeOK'
    BY <1>2, <2>1, <2>3, <2>4, <2>5 DEF ManagerTypeOK, On
  <2> QED
    BY <1>1, <1>5, <2>6, Parts, TypeParts DEF ServerStep
<1>7. LostStays
  <2> SUFFICES ASSUME NEW m \in Issued, Lost(m)
               PROVE  Lost(m)'
    BY DEF LostStays
  <2>1. \A d \in Calls : flight'[d] # [state |-> "granted", cookie |-> m]
    <3>1. NoFlight # [state |-> "granted", cookie |-> m]
      BY DEF NoFlight
    <3> QED
      BY <1>2, <3>1 DEF Lost
  <2>2. \A d \in Calls : ~(call'[d].reply = "cookies" /\ call'[d].sets = m)
    BY <1>4, IdleType DEF Lost
  <2> QED
    BY <2>1, <2>2 DEF Lost
<1>8. ASSUME NEW d \in Calls PROVE AnswerHolds(d)'
  <2>1. /\ generation'[TabOf[d]] \in Nat /\ generation[TabOf[d]] \in Nat
        /\ generation'[TabOf[d]] >= generation[TabOf[d]]
    BY <1>1, Parts
  <2>2. CASE d \notin Waiters(c)
    BY <1>4, <1>5, <1>6, <2>1, <2>2, AnswerFrame DEF ServerStep
  <2>3. CASE call'[d] = Idle
    BY <1>6, <2>3, AnswerIdle
  <2>4. CASE d \in Waiters(c) /\ call'[d] # Idle
    <3>1. /\ call[d].sets \in Issued \cup {0} /\ jar \in Issued \cup {0}
          /\ call[d].sets # 0 => owner[call[d].sets] = NoTab
          /\ call[d].gen <= generation[TabOf[d]] /\ call[d].gen \in Nat
      BY Parts DEF AnswerHolds, Call
    <3>2. /\ call'[d].pc = "second" /\ call'[d].cookie = jar /\ call'[d].reply = "none"
          /\ call'[d].sets = call[d].sets /\ call'[d].gen = call[d].gen
      BY <2>4
    <3> QED
      BY <1>1, <2>1, <3>1, <3>2 DEF AnswerHolds
  <2> QED
    BY <2>2, <2>3, <2>4
<1>9. ASSUME NEW d \in Calls PROVE RefreshHolds(d)'
  <2>1. TabOf[d] \in Tabs
    BY Parts
  <2>2. CASE d = c
    BY <1>1, <1>2, <2>2, IdleType, Constants DEF RefreshHolds
  <2>3. CASE d # c /\ TabOf[d] = t
    <3>1. flight'[d].state = "none" /\ promise'[t] # d /\ flight'[d].cookie = flight[d].cookie
      BY <1>1, <1>2, <2>3, Parts, Constants
    <3> QED
      BY <1>1, <2>3, <3>1, Parts DEF RefreshHolds
  <2>4. CASE d # c /\ TabOf[d] # t
    <3>1. flight'[d] = flight[d] /\ promise'[TabOf[d]] = promise[TabOf[d]]
      BY <1>2, <2>1, <2>4
    <3>2. flight[d].state # "none" => call'[d] = call[d]
      BY <1>3, <1>4, <2>4
    <3> QED
      BY <1>5, <1>6, <1>7, <3>1, <3>2, RefreshFrame DEF ServerStep, SentStays
  <2> QED
    BY <2>2, <2>3, <2>4
<1>10. ASSUME NEW d \in Calls PROVE JarHolds(d)'
  <2>1. TabOf[d] \in Tabs /\ generation[TabOf[d]] \in Nat /\ JarHolds(d)
    BY Parts
  <2>2. CASE d \in Waiters(c)
    BY <2>2, IdleType DEF JarHolds
  <2>3. CASE d \notin Waiters(c) /\ TabOf[d] # t
    <3>1. /\ promise'[TabOf[d]] = promise[TabOf[d]] /\ promise[TabOf[d]] # c
          /\ generation'[TabOf[d]] = generation[TabOf[d]] /\ call'[d] = call[d]
      BY <1>2, <1>4, <2>1, <2>3
    <3>2. promise[TabOf[d]] # NoCall =>
            flight'[promise[TabOf[d]]] = flight[promise[TabOf[d]]]
      BY <1>2, <2>1, <3>1, Parts
    <3> QED
      BY <1>5, <3>1, <3>2, JarFrame DEF ServerStep
  <2>4. CASE d \notin Waiters(c) /\ TabOf[d] = t
    <3>1. call'[d] = call[d] /\ call[d].gen \in Nat /\ call[d].gen <= generation[t]
      BY <1>4, <2>4, Parts DEF Call, AnswerHolds
    <3>2. CASE generation'[t] > generation[t]
      <4>1. call'[d].gen # generation'[t]
        BY <1>1, <3>1, <3>2, Parts
      <4> QED
        BY <2>4, <4>1 DEF JarHolds
    <3>3. CASE generation'[t] = generation[t] /\ flight[c].state # "landed"
      BY <1>1, <2>1, <2>4, <3>1, <3>3 DEF JarHolds
    <3> QED
      BY <3>2, <3>3
  <2> QED
    BY <2>2, <2>3, <2>4
<1>11. PairsInOrder'
  <2>1. ASSUME NEW d \in Calls
        PROVE  /\ d \in WillAsk' => d \in WillAsk
               /\ d \in WillRenew' => d \in WillRenew
    <3>1. CASE d \in Waiters(c)
      <4>1. call[d].pc = "waiting" /\ call[d].reply = "none" /\ flight'[d].state # "sent"
        BY <1>2, <1>3, <3>1, IdleType
      <4> QED
        BY <3>1, <4>1, IdleType DEF WillAsk, WillRenew, Open
    <3>2. CASE d \notin Waiters(c)
      BY <1>2, <1>4, <3>2 DEF WillAsk, WillRenew, Open
    <3> QED
      BY <3>1, <3>2
  <2>2. WillAsk' \subseteq WillAsk /\ WillRenew' \subseteq WillRenew
    BY <2>1, CountsType
  <2> QED
    BY <1>1, <2>2, NothingIssued
<1>12. ASSUME NEW u \in Tabs, promise'[u] # NoCall PROVE TabOf[promise'[u]] = u
  BY <1>1, <1>2, <1>12, Parts
<1> QED
  BY <1>1, <1>6, <1>8, <1>9, <1>10, <1>11, <1>12, Parts DEF Consistent

LEMMA RefreshProgressStep ==
    ASSUME Consistent, NEW c \in Calls, UNCHANGED serverVars, RefreshProgress(c)
    PROVE  Consistent'
<1>1. /\ TabOf[c] \in Tabs /\ generation \in [Tabs -> Nat] /\ call \in [Calls -> Call]
      /\ jar \in Nat
      /\ \A d \in Waiters(c) : d \in Calls /\ call[d].reply = "none" /\ call[d] \in Call
  <2>1. ASSUME NEW d \in Waiters(c) PROVE d \in Calls /\ call[d].reply = "none" /\ call[d] \in Call
    BY Parts, Constants DEF Waiters
  <2> QED
    BY <2>1, Parts
<1>2. CASE RefreshSucceeds(c)
  <2> DEFINE k(d) == [call[d] EXCEPT !.pc = "second", !.awaits = NoCall, !.cookie = jar]
  <2>1. /\ flight[c].state = "landed" /\ Settled(c) /\ jar' = jar
        /\ generation' = [generation EXCEPT ![TabOf[c]] = @ + 1]
        /\ call' = [d \in Calls |-> IF d \in Waiters(c) THEN k(d) ELSE call[d]]
    BY <1>2 DEF RefreshSucceeds
  <2>2. ASSUME NEW d \in Waiters(c)
        PROVE  /\ k(d) \in Call /\ k(d).pc = "second" /\ k(d).cookie = jar
               /\ k(d).awaits = NoCall /\ k(d).reply = "none" /\ k(d).sets = call[d].sets
               /\ k(d).gen = call[d].gen /\ k(d).kind = call[d].kind
    BY <1>1 DEF Call
  <2> HIDE DEF k
  <2>3. /\ generation' \in [Tabs -> Nat] /\ generation'[TabOf[c]] > generation[TabOf[c]]
        /\ \A t \in Tabs : t # TabOf[c] => generation'[t] = generation[t]
    BY <1>1, <2>1
  <2>4. /\ call' \in [Calls -> Call]
        /\ \A d \in Calls \ Waiters(c) : call'[d] = call[d]
        /\ \A d \in Waiters(c) : call'[d] = k(d)
    BY <1>1, <2>1, <2>2
  <2> QED
    BY <2>1, <2>2, <2>3, <2>4, SettledStep
<1>3. CASE RefreshFails(c)
  <2>1. /\ flight[c].state \in {"denied", "forbidden", "failed"} /\ Settled(c)
        /\ jar' = jar /\ generation' = generation
        /\ call' = [d \in Calls |-> IF d \in Waiters(c) THEN Idle ELSE call[d]]
    BY <1>3 DEF RefreshFails
  <2>2. /\ call' \in [Calls -> Call]
        /\ \A d \in Calls \ Waiters(c) : call'[d] = call[d]
        /\ \A d \in Waiters(c) : call'[d] = Idle
    BY <1>1, <2>1, IdleType
  <2> QED
    BY <1>1, <2>1, <2>2, SettledStep
<1> QED
  BY <1>2, <1>3 DEF RefreshProgress

-----------------------------------------------------------------------------
(* Steps of the server alone *)

LEMMA BrowserUnchanged ==
    ASSUME Consistent, ServerStep, PairsInOrder', UNCHANGED managerVars
    PROVE  Consistent'
<1>1. UNCHANGED <<generation, promise, call, flight, jar>>
  BY DEF managerVars
<1>2. TypeOK'
  BY <1>1, Parts, TypeParts DEF ServerStep, Grows, ManagerTypeOK
<1>3. LostStays
  BY <1>1 DEF LostStays, Lost
<1>4. ASSUME NEW d \in Calls PROVE AnswerHolds(d)' /\ RefreshHolds(d)' /\ JarHolds(d)'
  <2>1. AnswerHolds(d)'
    BY <1>1, <1>2, Parts, AnswerFrame DEF ServerStep
  <2>2. RefreshHolds(d)'
    BY <1>1, <1>2, <1>3, RefreshFrame DEF ServerStep, SentStays
  <2>3. JarHolds(d)'
    BY <1>1, JarFrame DEF ServerStep
  <2> QED
    BY <2>1, <2>2, <2>3
<1> QED
  BY <1>1, <1>2, <1>4, Parts DEF Consistent, ServerStep

LEMMA RotateLateStep ==
    ASSUME Consistent, NEW n \in stray, RotateLate(n)
    PROVE  Consistent'
<1>1. /\ TypeOK /\ n \in Issued /\ stray \subseteq Issued /\ stray' = stray \ {n}
      /\ UNCHANGED managerVars /\ UNCHANGED <<oldest, owner>>
      /\ SessionOf(n) = family[n] /\ family[n] # 0
      /\ family[n] \in Issued /\ family[family[n]] = family[n]
  BY Parts, SessionIssued DEF RotateLate
<1>2. WillAsk' = WillAsk /\ WillRenew' = WillRenew /\ stray' \subseteq stray /\ stray' # stray
  BY <1>1 DEF WillAsk, WillRenew, Open, managerVars
<1>3. CASE Rotatable(n)
  <2>1. NewPair \in Pairs /\ NewPair \notin Issued
    BY Parts, PairForAll, IssuedPrefix
  <2>2. owner \in [Pairs -> Tabs \cup {NoTab}] /\ owner[NewPair] = NoTab
    BY <1>1, <2>1, Parts DEF TypeOK, PairsInOrder
  <2>3. owner' = [owner EXCEPT ![NewPair] = NoTab]
    BY <1>1, <2>2
  <2>4. PICK f \in Issued : f = family[n]
    BY <1>1
  <2>5. IssueTo(f, NoTab)
    BY <1>1, <1>3, <2>1, <2>3, <2>4 DEF RotateLate, IssueTo
  <2>6. ServerStep
    BY <1>2, <2>5, IssueStep, Constants
  <2>7. PairsInOrder'
    BY <1>2, <2>5, IssueOrder
  <2> QED
    BY <1>1, <2>6, <2>7, BrowserUnchanged
<1>4. CASE ~Rotatable(n)
  <2>1. ended' = ended \cup ({SessionOf(n)} \ {0}) /\ family' = family
    BY <1>1, <1>4 DEF RotateLate
  <2>2. PICK m \in Issued : m = n
    BY <1>1
  <2>3. ServerStep
    BY <1>1, <1>2, <2>1, <2>2, EndStep
  <2>4. PairsInOrder'
    BY <1>1, <1>2, <2>1, NothingIssued
  <2> QED
    BY <1>1, <2>3, <2>4, BrowserUnchanged
<1> QED
  BY <1>3, <1>4

LEMMA EndAloneStep ==
    ASSUME Consistent, NEW n \in Issued, ended' = ended \cup {family[n]},
           UNCHANGED <<managerVars, family, oldest, stray, owner>>
    PROVE  Consistent'
<1>1. SessionOf(n) = family[n] /\ family[n] # 0
  BY Parts, SessionIssued
<1>2. ended' = ended \cup ({SessionOf(n)} \ {0})
  BY <1>1
<1>3. ServerStep
  BY <1>2, EndStep
<1>4. PairsInOrder'
  BY NothingIssued DEF WillAsk, WillRenew, Open, managerVars
<1> QED
  BY <1>3, <1>4, BrowserUnchanged

LEMMA RevokeLateStep ==
    ASSUME Consistent, leaving \subseteq Issued, NEW n \in leaving, RevokeLate(n)
    PROVE  Consistent'
<1>1. n \in Issued /\ Revoked(n) = family[n]
  BY Parts, SessionIssued DEF Revoked
<1> QED
  BY <1>1, EndAloneStep DEF RevokeLate

LEMMA EndElsewhereStep ==
    ASSUME Consistent, NEW n \in Issued, EndElsewhere(family[n])
    PROVE  Consistent'
<1>1. family[n] # 0
  BY Parts, SessionIssued
<1> QED
  BY <1>1, EndAloneStep DEF EndElsewhere, EndFamily

-----------------------------------------------------------------------------
(* The inductive invariant *)

LEMMA InitLemma == Init => IInv
<1> SUFFICES ASSUME Init PROVE IInv
  OBVIOUS
<1>1. /\ generation = [t \in Tabs |-> 0] /\ promise = [t \in Tabs |-> NoCall]
      /\ call = [c \in Calls |-> Idle] /\ flight = [c \in Calls |-> NoFlight]
      /\ jar = 1 /\ family = [n \in Pairs |-> IF n = 1 THEN 1 ELSE 0]
      /\ ended = {} /\ oldest = 1 /\ stray = {} /\ leaving = {}
      /\ owner = [n \in Pairs |-> NoTab]
      /\ 1 \in Pairs
  BY Constants DEF Init, ManagerInit, Pairs
<1>2. Issued = {1} /\ Cardinality(Issued) = 1
  <2>1. Issued = {1}
    BY <1>1 DEF Issued
  <2> QED
    BY <2>1, FS_Singleton
<1>3. TypeOK
  <2>1. ManagerTypeOK
    BY <1>1, IdleType DEF ManagerTypeOK
  <2> QED
    BY <1>1, <1>2, <2>1, Constants DEF TypeOK, Pairs
<1>4. PairsInOrder
  <2>1. WillAsk = {} /\ WillRenew = {}
    BY <1>1, IdleType DEF WillAsk, WillRenew, Open
  <2>2. \A n \in Pairs : family[n] # 0 <=> n <= 1
    BY <1>1 DEF Pairs
  <2>3. Cardinality({}) = 0
    BY FS_EmptySet
  <2> QED
    BY <1>1, <1>2, <2>1, <2>2, <2>3, Constants DEF PairsInOrder
<1>5. ASSUME NEW c \in Calls PROVE AnswerHolds(c) /\ RefreshHolds(c) /\ JarHolds(c)
  <2>1. call[c] = Idle /\ flight[c] = NoFlight /\ generation[TabOf[c]] = 0
        /\ promise[TabOf[c]] = NoCall /\ c # NoCall
    BY <1>1, Constants
  <2> QED
    BY <2>1 DEF AnswerHolds, RefreshHolds, JarHolds, Idle, NoFlight
<1> QED
  BY <1>1, <1>3, <1>4, <1>5 DEF IInv, Consistent

LEMMA ServeStep ==
    ASSUME Consistent, NEW c \in Calls, Serve(c)
    PROVE  Consistent'
  BY ServeApiStep, ServeLoginStep, ServeLogoutStep, ServeRefreshStep, RotateStep,
     UnavailableStep DEF Serve

LEMMA ScriptStep ==
    ASSUME Consistent, NEW c \in Calls, Script(c)
    PROVE  Consistent'
  BY SettleStep, RetryAtOnceStep, ShareRefreshStep, StartRefreshStep, RefreshProgressStep,
     SetCookiesStep DEF Script, Progress

LEMMA LoseStep ==
    ASSUME Consistent, NEW c \in Calls, Lose(c)
    PROVE  Consistent'
  BY SettleStep, LoseRefreshStep, StrandStep DEF Lose

\* A logout on its way carries a pair that was issued.
LEMMA LeavingStep ==
    ASSUME IInv, Consistent', [Next]_vars
    PROVE  leaving' \subseteq Issued'
<1>1. Consistent /\ leaving \subseteq Issued
  BY DEF IInv
<1>2. Issued \subseteq Issued'
  <2>1. ASSUME NEW n \in Issued PROVE family'[n] # 0 \/ family' = family
    <3>1. n \in Pairs /\ family[n] # 0 /\ NewPair \in Nat /\ NewPair \notin Issued
      BY <1>1, Parts, IssuedPrefix DEF Issued
    <3>2. family \in [Pairs -> 0..MaxPairs]
      BY <1>1, Parts DEF TypeOK
    <3>3. ASSUME NEW f, family' = [family EXCEPT ![NewPair] = f] PROVE family'[n] # 0
      BY <3>1, <3>2, <3>3
    <3>4. \/ family' = family
          \/ \E f : family' = [family EXCEPT ![NewPair] = f]
      BY DEF Next, Script, Serve, Lose, ServeApi, ServeLogin, ServeLogout, ServeRefresh,
             Rotate, Unavailable, Strand, Issue, EndFamily, RotateLate, RevokeLate,
             EndElsewhere, Expire, serverVars, vars
    <3> QED
      BY <3>3, <3>4
  <2> QED
    BY <2>1 DEF Issued
<1>3. CASE \E c \in Calls : Strand(c)
  <2>1. PICK c \in Calls : Strand(c)
    BY <1>3
  <2>2. call[c].cookie \in Issued \cup {0}
    BY <1>1, Parts DEF AnswerHolds
  <2> QED
    BY <1>1, <1>2, <2>1, <2>2 DEF Strand
<1>4. CASE ~ \E c \in Calls : Strand(c)
  <2>1. leaving' \subseteq leaving
    BY <1>4
       DEF Next, Script, Serve, Lose, ServeApi, ServeLogin, ServeLogout, ServeRefresh,
           Rotate, Unavailable, Issue, EndFamily, RotateLate, RevokeLate,
           EndElsewhere, Expire, serverVars, vars
  <2> QED
    BY <1>1, <1>2, <2>1
<1> QED
  BY <1>3, <1>4

LEMMA NextLemma == IInv /\ [Next]_vars => IInv'
<1> SUFFICES ASSUME IInv, [Next]_vars PROVE IInv'
  OBVIOUS
<1>1. Consistent /\ leaving \subseteq Issued
  BY DEF IInv
<1>2. Consistent'
  <2>1. ASSUME NEW c \in Calls, Script(c) \/ Serve(c) \/ Lose(c) PROVE Consistent'
    BY <1>1, <2>1, ServeStep, ScriptStep, LoseStep
  <2>2. ASSUME NEW c \in Calls, NEW kind \in KindsOf[c], PairLeft(kind), Begin(c, kind),
               UNCHANGED serverVars
        PROVE  Consistent'
    BY <1>1, <2>2, KindAssumption, BeginStep
  <2>3. ASSUME NEW n \in stray, RotateLate(n) PROVE Consistent'
    BY <1>1, <2>3, RotateLateStep
  <2>4. ASSUME NEW n \in leaving, RevokeLate(n) PROVE Consistent'
    BY <1>1, <2>4, RevokeLateStep
  <2>5. ASSUME NEW n \in Issued, EndElsewhere(family[n]) PROVE Consistent'
    BY <1>1, <2>5, EndElsewhereStep
  <2>6. CASE Expire
    BY <1>1, <2>6, ExpireStep, BrowserUnchanged DEF Expire
  <2>7. CASE UNCHANGED vars
    <3>1. UNCHANGED managerVars /\ UNCHANGED <<family, ended, oldest, stray, owner>>
      BY <2>7 DEF vars, serverVars
    <3>2. ServerStep
      BY <1>1, <3>1, Parts, QuietStep
    <3>3. PairsInOrder'
      BY <1>1, <3>1, NothingIssued DEF WillAsk, WillRenew, Open, managerVars
    <3> QED
      BY <1>1, <3>1, <3>2, <3>3, BrowserUnchanged
  <2> QED
    BY <2>1, <2>2, <2>3, <2>4, <2>5, <2>6, <2>7 DEF Next
<1>3. leaving' \subseteq Issued'
  BY <1>2, LeavingStep
<1> QED
  BY <1>2, <1>3 DEF IInv

\* TypeOK; what each answer and refresh under way says of the sessions; who has asked
\* for the pair in the jar.
THEOREM Invariance == Spec => []IInv
<1>1. Init => IInv
  BY InitLemma
<1>2. IInv /\ [Next]_vars => IInv'
  BY NextLemma
<1> QED
  BY <1>1, <1>2, PTL DEF Spec

LEMMA ConsistentAlways == Spec => []Consistent
<1>1. IInv => Consistent
  BY DEF IInv
<1> QED
  BY <1>1, Invariance, PTL

-----------------------------------------------------------------------------
(* What follows for the calls *)

\* A session ends by a request that presents one of its pairs, or without the browser.
LEMMA EndsBy ==
    ASSUME [Next]_vars, NEW f \in ended' \ ended
    PROVE  \/ \E c \in Calls : ServeLogout(c) \/ ServeRefresh(c)
           \/ \E n \in stray : RotateLate(n)
           \/ \E n \in leaving : RevokeLate(n)
           \/ \E n \in Issued : EndElsewhere(family[n])
           \/ \E c \in Calls : Rotate(c)
<1>1. ended' # ended
  OBVIOUS
<1>2. ASSUME NEW c \in Calls, Script(c) PROVE ended' = ended
  BY <1>2 DEF Script, serverVars
<1>3. ASSUME NEW c \in Calls, Lose(c) PROVE ended' = ended
  BY <1>3 DEF Lose, Strand, serverVars
<1>4. ASSUME NEW c \in Calls, ServeApi(c) \/ ServeLogin(c) \/ Unavailable(c)
      PROVE  ended' = ended
  BY <1>4 DEF ServeApi, ServeLogin, Issue, Unavailable, serverVars
<1>5. UNCHANGED serverVars \/ Expire \/ UNCHANGED vars => ended' = ended
  BY DEF Expire, vars, serverVars
<1> QED
  BY <1>1, <1>2, <1>3, <1>4, <1>5 DEF Next, Serve

\* NoSelfLogout: a tab that is denied was outrun by something else.
THEOREM NoSelfLogoutAlways == Spec => NoSelfLogout
<1> DEFINE Excused(f) ==
             \/ \E c \in Calls : call[c].kind \in {"logout", "refresh"} /\ Answered(c)
             \/ stray \ stray' # {} \/ leaving \ leaving' # {}
             \/ UNCHANGED <<managerVars, stray, leaving>>
             \/ \E c \in Calls : Denied(c) /\ TabOf[c] # owner[Current(f)]
             \/ Lost(Current(f))
<1>1. Consistent /\ [Next]_vars => \A f \in ended' \ ended : Excused(f)
  <2> SUFFICES ASSUME Consistent, [Next]_vars, NEW f \in ended' \ ended
               PROVE  Excused(f)
    OBVIOUS
  <2>1. ASSUME NEW c \in Calls, ServeLogout(c) \/ ServeRefresh(c) PROVE Excused(f)
    <3>1. /\ call[c].kind \in {"logout", "refresh"} /\ call[c].reply = "none"
          /\ call \in [Calls -> Call]
      BY <2>1, Parts DEF ServeLogout, ServeRefresh, Asked
    <3>2. call'[c].reply # "none"
      <4>1. \/ \E n : AnswerWithCookies(c, n)
            \/ Answer(c, "unauthorized")
        BY <2>1 DEF ServeLogout, ServeRefresh
      <4>2. CASE \E n : AnswerWithCookies(c, n)
        BY <3>1, <4>2 DEF AnswerWithCookies, Call
      <4>3. CASE Answer(c, "unauthorized")
        BY <3>1, <4>3 DEF Answer, Call
      <4> QED
        BY <4>1, <4>2, <4>3
    <3> QED
      BY <3>1, <3>2 DEF Answered
  <2>2. ASSUME NEW n \in stray, RotateLate(n) PROVE Excused(f)
    BY <2>2 DEF RotateLate
  <2>3. ASSUME NEW n \in leaving, RevokeLate(n) PROVE Excused(f)
    BY <2>3 DEF RevokeLate
  <2>4. ASSUME NEW n \in Issued, EndElsewhere(family[n]) PROVE Excused(f)
    BY <2>4 DEF EndElsewhere, EndFamily
  <2>5. ASSUME NEW c \in Calls, Rotate(c) PROVE Excused(f)
    <3> DEFINE n == flight[c].cookie
    <3>1. /\ ~Rotatable(n) /\ flight[c].state = "sent"
          /\ flight' = [flight EXCEPT ![c].state = "denied"]
          /\ ended' = ended \cup ({SessionOf(n)} \ {0})
      BY <2>5 DEF Rotate, Issue, EndFamily
    <3>2. f = SessionOf(n) /\ f \notin ended \cup {0}
      BY <3>1
    <3>3. n # Current(f)
      BY <3>1, <3>2 DEF Rotatable, SessionOf
    <3>4. \/ owner[Current(f)] # TabOf[c]
          \/ Lost(Current(f))
      BY <3>1, <3>2, <3>3, Parts DEF RefreshHolds
    <3>5. Denied(c)
      BY <3>1, Parts DEF Denied
    <3> QED
      BY <3>4, <3>5
  <2> HIDE DEF Excused
  <2> QED
    BY <2>1, <2>2, <2>3, <2>4, <2>5, EndsBy
<1> QED
  BY <1>1, ConsistentAlways, PTL DEF Spec, NoSelfLogout

\* A refresh begins in one place only.
LEMMA OnlyStarts ==
    ASSUME Consistent, [Next]_vars, NEW c \in Calls, Starts(c)
    PROVE  StartRefresh(c)
<1>1. flight[c].state = "none" /\ flight'[c].state = "sent" /\ flight'[c] # flight[c]
  BY DEF Starts
<1>2. ASSUME NEW d \in Calls, Script(d) PROVE StartRefresh(c)
  <2>1. CASE Settle(d) \/ RetryAtOnce(d) \/ ShareRefresh(d)
    BY <1>1, <2>1 DEF Settle, RetryAtOnce, ShareRefresh
  <2>2. CASE StartRefresh(d)
    BY <1>1, <2>2, Parts DEF StartRefresh
  <2>3. CASE RefreshProgress(d)
    <3>1. flight' = [flight EXCEPT ![d] = NoFlight]
      BY <2>3 DEF RefreshProgress, RefreshSucceeds, RefreshFails, Settled
    <3> QED
      BY <1>1, <3>1, Parts, IdleType
  <2>4. CASE SetCookies(d)
    BY <1>1, <2>4, Parts DEF SetCookies
  <2> QED
    BY <1>2, <2>1, <2>2, <2>3, <2>4 DEF Script, Progress
<1>3. ASSUME NEW d \in Calls, Serve(d) PROVE FALSE
  <2>1. CASE ServeApi(d) \/ ServeLogin(d) \/ ServeLogout(d) \/ ServeRefresh(d)
    BY <1>1, <2>1
       DEF ServeApi, ServeLogin, ServeLogout, ServeRefresh, Answer, AnswerWithCookies
  <2>2. CASE Rotate(d)
    <3>1. flight[d].state = "sent"
      BY <2>2 DEF Rotate
    <3>2. flight'[c] = flight[c]
      BY <1>1, <2>2, <3>1, Parts DEF Rotate
    <3> QED
      BY <1>1, <3>2
  <2>3. CASE Unavailable(d)
    BY <1>1, <2>3, Parts DEF Unavailable, Answer
  <2> QED
    BY <1>3, <2>1, <2>2, <2>3 DEF Serve
<1>4. ASSUME NEW d \in Calls, Lose(d) PROVE FALSE
  BY <1>1, <1>4, Parts DEF Lose, LoseCall, LoseRefresh, Strand
<1>5. ASSUME NEW d \in Calls, NEW kind \in KindsOf[d], Begin(d, kind) PROVE FALSE
  BY <1>1, <1>5 DEF Begin
<1>6. ASSUME NEW n \in stray, RotateLate(n) PROVE FALSE
  BY <1>1, <1>6 DEF RotateLate, managerVars
<1>7. ASSUME NEW n \in leaving, RevokeLate(n) PROVE FALSE
  BY <1>1, <1>7 DEF RevokeLate, managerVars
<1>8. ASSUME NEW n \in Issued, EndElsewhere(family[n]) PROVE FALSE
  BY <1>1, <1>8 DEF EndElsewhere, managerVars
<1>9. ~Expire /\ ~UNCHANGED vars
  BY <1>1 DEF Expire, vars, managerVars
<1> QED
  BY <1>2, <1>3, <1>4, <1>5, <1>6, <1>7, <1>8, <1>9 DEF Next

\* RefreshOnlyWhenStale: a 401 that came late does not spend a refresh.
THEOREM RefreshOnlyWhenStaleAlways == Spec => RefreshOnlyWhenStale
<1> DEFINE Founded(c) == call[c].kind = "api" /\ Starts(c)
                           => ~Valid(jar) \/ TabOf[c] # owner[jar]
<1>1. Consistent /\ [Next]_vars => \A c \in Calls : Founded(c)
  <2> SUFFICES ASSUME Consistent, [Next]_vars, NEW c \in Calls, call[c].kind = "api", Starts(c)
               PROVE  ~Valid(jar) \/ TabOf[c] # owner[jar]
    OBVIOUS
  <2>1. /\ call[c].pc = "first" /\ call[c].reply = "unauthorized"
        /\ call[c].gen = generation[TabOf[c]] /\ promise[TabOf[c]] = NoCall
    BY OnlyStarts DEF StartRefresh, FirstUnauthorized, UpToDate, InFlight
  <2>2. ~Valid(call[c].cookie)
    BY <2>1, Parts DEF AnswerHolds
  <2>3. jar \in {0, call[c].cookie} \/ owner[jar] # TabOf[c]
    BY <2>1, Parts DEF JarHolds
  <2> QED
    BY <2>2, <2>3 DEF Valid, SessionOf
<1> QED
  BY <1>1, ConsistentAlways, PTL DEF Spec, RefreshOnlyWhenStale

\* ExpiredIsTrue: the expiry a call reports is the server's word, or a 403 to the refresh.
THEOREM ExpiredIsTrueAlways == Spec => ExpiredIsTrue
<1> DEFINE Told(c) ==
             call[c].kind = "api" /\ call[c].pc # "idle" /\ call'[c].pc = "idle"
               /\ RefreshFailed(c)
             => IF call[c].pc = "second" THEN ~Valid(call[c].cookie)
                ELSE \/ flight[call[c].awaits].state = "forbidden"
                     \/ SessionOf(flight[call[c].awaits].cookie) \in ended \cup {0}
<1>1. Consistent => \A c \in Calls : Told(c)
  <2> SUFFICES ASSUME Consistent, NEW c \in Calls, call[c].kind = "api", RefreshFailed(c)
               PROVE  IF call[c].pc = "second" THEN ~Valid(call[c].cookie)
                      ELSE \/ flight[call[c].awaits].state = "forbidden"
                           \/ SessionOf(flight[call[c].awaits].cookie) \in ended \cup {0}
    OBVIOUS
  <2>1. CASE call[c].pc = "second" /\ call[c].reply = "unauthorized"
    BY <2>1, Parts DEF AnswerHolds
  <2>2. CASE call[c].pc = "waiting" /\ SaysExpired(call[c].awaits)
    <3>1. call[c].awaits \in Calls
      BY <2>2, Parts DEF TypeOK, ManagerTypeOK
    <3> QED
      BY <2>2, <3>1, Parts DEF RefreshHolds, SaysExpired
  <2> QED
    BY <2>1, <2>2 DEF RefreshFailed
<1> QED
  BY <1>1, ConsistentAlways, PTL DEF Spec, ExpiredIsTrue

\* ClearedIsRevoked: the session a cleared pair belongs to has ended before.
THEOREM ClearedIsRevokedAlways == Spec => ClearedIsRevoked
<1> DEFINE Useless(c) ==
             Clears(c) /\ SessionOf(jar) = SessionOf(call[c].cookie)
               => jar = 0 \/ ~(Valid(jar) \/ Rotatable(jar))
<1>1. Consistent => \A c \in Calls : Useless(c)
  <2> SUFFICES ASSUME Consistent, NEW c \in Calls, Clears(c),
                      SessionOf(jar) = SessionOf(call[c].cookie), jar # 0
               PROVE  ~(Valid(jar) \/ Rotatable(jar))
    OBVIOUS
  <2>1. SessionOf(jar) \in ended \cup {0}
    BY Parts DEF Clears, AnswerHolds
  <2>2. SessionOf(jar) # 0
    BY Parts, SessionIssued
  <2> QED
    BY <2>1, <2>2 DEF Valid, Rotatable
<1> QED
  BY <1>1, ConsistentAlways, PTL DEF Spec, ClearedIsRevoked
=============================================================================
