--------------------------- MODULE ContractProofs ---------------------------
(***************************************************************************)
(* Proofs about two parts of the purchase-manager contract, its            *)
(* scholarship credits and the authority over it.                          *)
(*                                                                         *)
(* About Scholarship, for any learners, materials, amounts, costs and      *)
(* expiries: the three representations of a learner's credits add up, a    *)
(* redemption once begun is covered by the grants it scans, and grants are *)
(* drawn on earliest expiry first.  ScholarshipInv strengthens the         *)
(* invariants TLC checks with what the loop of a redemption relies on: the *)
(* ids it scans are grants of its learner, and all the open ones are among *)
(* them; it owes no more than the price.                                   *)
(*                                                                         *)
(* About PlatformAdmin, for any addresses, treasuries, fees and delays:    *)
(* AuthorityInv adds to AuthorityIsSingle that a pending transfer carries  *)
(* the delay transfer_admin checked.                                       *)
(***************************************************************************)
EXTENDS Scholarship, PlatformAdmin, FiniteSums, TLAPS

-----------------------------------------------------------------------------
(* The learner's list. *)

\* h follows the loop of Without for the first N ids.
FollowsLoop(h, ids, g, N) ==
    h = [n \in 0..N |->
           IF n = 0 THEN <<>>
           ELSE IF ids[n] # g THEN Append(h[n - 1], ids[n])
                ELSE h[n - 1]]

\* The recursive function inside Without is any one that follows the loop.
LEMMA WithoutIsChosen ==
    ASSUME NEW ids, NEW g
    PROVE  Without(ids, g) =
             (CHOOSE h : FollowsLoop(h, ids, g, Len(ids)))[Len(ids)]
BY DEF Without, FollowsLoop

\* There is one, whatever the number of ids.
LEMMA LoopRuns ==
    ASSUME NEW ids, NEW g, NEW N \in Nat
    PROVE  \E h : FollowsLoop(h, ids, g, N)
<1> DEFINE B == {n \in Nat : ~ \E h : FollowsLoop(h, ids, g, n)}
<1>0. B \in SUBSET Nat
  OBVIOUS
<1> HIDE DEF B
<1>1. ASSUME B # {} PROVE FALSE
  <2>1. PICK n \in B : \A m \in B : n <= m
    BY <1>0, <1>1, SmallestNumber
  <2>2. n \in Nat /\ ~ \E h : FollowsLoop(h, ids, g, n)
    BY <2>1 DEF B
  <2>3. CASE n = 0
    <3>1. FollowsLoop([k \in 0..0 |-> <<>>], ids, g, 0)
      BY DEF FollowsLoop
    <3> QED
      BY <2>2, <2>3, <3>1
  <2>4. CASE n # 0
    <3>1. n - 1 \in Nat /\ n - 1 \notin B
      BY <2>1, <2>2, <2>4
    <3>2. PICK h : FollowsLoop(h, ids, g, n - 1)
      BY <3>1 DEF B
    <3> DEFINE last == IF ids[n] # g THEN Append(h[n - 1], ids[n]) ELSE h[n - 1]
               k == [i \in 0..n |-> IF i = n THEN last ELSE h[i]]
    <3>3. ASSUME NEW i \in 0..(n - 1)
          PROVE  h[i] = IF i = 0 THEN <<>>
                        ELSE IF ids[i] # g THEN Append(h[i - 1], ids[i])
                             ELSE h[i - 1]
      BY <3>2 DEF FollowsLoop
    <3>4. ASSUME NEW i \in 0..n
          PROVE  k[i] = IF i = 0 THEN <<>>
                        ELSE IF ids[i] # g THEN Append(k[i - 1], ids[i])
                             ELSE k[i - 1]
      <4>1. CASE i = n
        <5>1. i - 1 \in 0..n /\ i - 1 # n /\ i - 1 = n - 1
          BY <4>1, <2>2, <2>4
        <5> QED
          BY <4>1, <5>1, <2>4
      <4>2. CASE i # n
        <5>1. i \in 0..(n - 1)
          BY <4>2, <2>2
        <5>2. i # 0 => i - 1 \in 0..n /\ i - 1 # n
          BY <5>1, <2>2
        <5>3. k[i] = h[i] /\ (i # 0 => k[i - 1] = h[i - 1])
          BY <4>2, <5>1, <5>2
        <5> HIDE DEF k, last
        <5> QED
          BY <5>1, <5>3, <3>3
      <4> QED
        BY <4>1, <4>2
    <3>5. FollowsLoop(k, ids, g, n)
      BY <3>4 DEF FollowsLoop
    <3> QED
      BY <2>2, <3>5
  <2> QED
    BY <2>3, <2>4
<1> QED
  BY <1>1 DEF B

\* The members of a sequence, and the sequences that name each once.
Members(s) == {s[i] : i \in DOMAIN s}

NoRepeats(s) == \A i, j \in DOMAIN s : s[i] = s[j] => i = j

\* A list without repetitions, extended by a new member.
LEMMA AppendAddsOne ==
    ASSUME NEW S, NEW t \in Seq(S), NoRepeats(t), NEW e \in S, e \notin Members(t)
    PROVE  /\ Append(t, e) \in Seq(S)
           /\ NoRepeats(Append(t, e))
           /\ Members(Append(t, e)) = Members(t) \cup {e}
<1>1. PICK u : u = Append(t, e)
  OBVIOUS
<1>2. u \in Seq(S)
  BY <1>1
<1>3. /\ Len(t) \in Nat
      /\ DOMAIN t = 1..Len(t)
      /\ DOMAIN u = 1..(Len(t) + 1)
      /\ \A i \in 1..Len(t) : u[i] = t[i]
      /\ u[Len(t) + 1] = e
  BY <1>1
<1>4. \A i \in 1..Len(t) : t[i] # e
  BY <1>3 DEF Members
<1>5. NoRepeats(u)
  <2>1. SUFFICES ASSUME NEW i \in 1..(Len(t) + 1), NEW j \in 1..(Len(t) + 1),
                        u[i] = u[j]
                 PROVE  i = j
    BY <1>3 DEF NoRepeats
  <2>2. CASE i \in 1..Len(t) /\ j \in 1..Len(t)
    BY <2>1, <2>2, <1>3 DEF NoRepeats
  <2>3. CASE i = Len(t) + 1 /\ j \in 1..Len(t)
    BY <2>1, <2>3, <1>3, <1>4
  <2>4. CASE j = Len(t) + 1 /\ i \in 1..Len(t)
    BY <2>1, <2>4, <1>3, <1>4
  <2> QED
    BY <2>2, <2>3, <2>4, <1>3
<1>6. Members(u) = Members(t) \cup {e}
  <2>1. 1..(Len(t) + 1) = 1..Len(t) \cup {Len(t) + 1}
    BY <1>3
  <2> QED
    BY <2>1, <1>3 DEF Members
<1> QED
  BY <1>1, <1>2, <1>5, <1>6

\* What remove_grant_from_learner leaves: every other id, once.
LEMMA WithoutDrops ==
    ASSUME NEW S, NEW ids \in Seq(S), NoRepeats(ids), NEW g
    PROVE  /\ Without(ids, g) \in Seq(S)
           /\ NoRepeats(Without(ids, g))
           /\ Members(Without(ids, g)) = Members(ids) \ {g}
<1>0. Len(ids) \in Nat /\ DOMAIN ids = 1..Len(ids)
  OBVIOUS
<1>1. PICK h : FollowsLoop(h, ids, g, Len(ids)) /\ Without(ids, g) = h[Len(ids)]
  BY <1>0, LoopRuns, WithoutIsChosen
<1>2. ASSUME NEW n \in 0..Len(ids)
      PROVE  h[n] = IF n = 0 THEN <<>>
                    ELSE IF ids[n] # g THEN Append(h[n - 1], ids[n])
                         ELSE h[n - 1]
  BY <1>1 DEF FollowsLoop
<1> DEFINE Kept(n) == {ids[i] : i \in 1..n} \ {g}
           Good(n) == /\ h[n] \in Seq(S)
                      /\ NoRepeats(h[n])
                      /\ Members(h[n]) = Kept(n)
           B == {n \in Nat : n <= Len(ids) /\ ~ Good(n)}
<1>3. B \in SUBSET Nat
  OBVIOUS
<1> HIDE DEF B
<1>4. ASSUME B # {} PROVE FALSE
  <2>1. PICK n \in B : \A m \in B : n <= m
    BY <1>3, <1>4, SmallestNumber
  <2>2. n \in Nat /\ n <= Len(ids) /\ ~ Good(n)
    BY <2>1 DEF B
  <2>3. CASE n = 0
    <3>1. h[0] = <<>>
      BY <1>0, <1>2
    <3>2. <<>> \in Seq(S) /\ NoRepeats(<<>>) /\ Members(<<>>) = {}
      BY DEF NoRepeats, Members
    <3>3. Kept(0) = {}
      OBVIOUS
    <3> QED
      BY <2>2, <2>3, <3>1, <3>2, <3>3
  <2>4. CASE n # 0
    <3>1. n - 1 \in Nat /\ n - 1 <= Len(ids) /\ n - 1 \notin B
      BY <2>1, <2>2, <2>4, <1>0
    <3>2. Good(n - 1)
      BY <3>1 DEF B
    <3>3. n \in 1..Len(ids) /\ ids[n] \in S
      BY <2>2, <2>4, <1>0
    <3>4. 1..n = 1..(n - 1) \cup {n}
      BY <2>2, <2>4
    <3>5. CASE ids[n] = g
      <4>1. h[n] = h[n - 1]
        BY <1>2, <3>3, <3>5, <1>0
      <4>2. Kept(n) = Kept(n - 1)
        BY <3>4, <3>5
      <4> HIDE DEF Kept
      <4> QED
        BY <2>2, <3>2, <4>1, <4>2
    <3>6. CASE ids[n] # g
      <4> PICK t : t = h[n - 1]
        OBVIOUS
      <4>1. h[n] = Append(t, ids[n])
        <5>1. n \in 0..Len(ids)
          BY <2>2, <1>0
        <5>2. h[n] = IF n = 0 THEN <<>>
                     ELSE IF ids[n] # g THEN Append(h[n - 1], ids[n])
                          ELSE h[n - 1]
          BY <1>2, <5>1
        <5> QED
          BY <2>4, <3>6, <5>2
      <4>2. Kept(n) = Kept(n - 1) \cup {ids[n]}
        BY <3>4, <3>6
      <4>3. ids[n] \notin Kept(n - 1)
        <5>1. \A i \in 1..(n - 1) : i \in DOMAIN ids /\ i # n
          BY <2>2, <1>0
        <5> QED
          BY <5>1, <3>3, <1>0 DEF NoRepeats
      <4> HIDE DEF Kept
      <4>4. t \in Seq(S) /\ NoRepeats(t) /\ Members(t) = Kept(n - 1)
        BY <3>2
      <4>5. PICK u : u = Append(t, ids[n])
        OBVIOUS
      <4>6. u \in Seq(S) /\ NoRepeats(u) /\ Members(u) = Members(t) \cup {ids[n]}
        BY <4>3, <4>4, <4>5, <3>3, AppendAddsOne
      <4> QED
        BY <2>2, <4>1, <4>2, <4>4, <4>5, <4>6
    <3> QED
      BY <3>5, <3>6
  <2> QED
    BY <2>3, <2>4
<1>5. Good(Len(ids))
  <2> HIDE DEF Good
  <2>1. B = {}
    BY <1>4
  <2>2. Len(ids) \in Nat /\ Len(ids) <= Len(ids) /\ Len(ids) \notin B
    BY <1>0, <2>1
  <2> QED
    BY <2>2 DEF B
<1>6. Kept(Len(ids)) = Members(ids) \ {g}
  BY <1>0 DEF Members
<1> QED
  BY <1>1, <1>5, <1>6

\* The members of a list without repetitions are as many as its places.
LEMMA AsManyMembersAsPlaces ==
    ASSUME NEW S, NEW s \in Seq(S), NoRepeats(s)
    PROVE  IsFiniteSet(Members(s)) /\ Cardinality(Members(s)) = Len(s)
<1>1. Len(s) \in Nat /\ DOMAIN s = 1..Len(s)
  OBVIOUS
<1>2. s = [i \in 1..Len(s) |-> s[i]]
  BY <1>1
<1>3. s \in Bijection(1..Len(s), Members(s))
  <2>1. s \in [1..Len(s) -> Members(s)]
    BY <1>1, <1>2 DEF Members
  <2>2. \A a, b \in 1..Len(s) : s[a] = s[b] => a = b
    BY <1>1 DEF NoRepeats
  <2>3. \A t \in Members(s) : \E i \in 1..Len(s) : s[i] = t
    BY <1>1 DEF Members
  <2> QED
    BY <2>1, <2>2, <2>3 DEF Bijection, Injection, Surjection, IsInjective
<1>4. IsFiniteSet(1..Len(s)) /\ Cardinality(1..Len(s)) = Len(s)
  BY <1>1, FS_Interval
<1> QED
  BY <1>3, <1>4, FS_Bijection DEF ExistsBijection

-----------------------------------------------------------------------------
(* The inductive invariant. *)

\* Between calls there is no loop; within one it is a redemption's.
LoopShape ==
    \/ redeeming = NotRedeeming
    \/ redeeming \in [learner : Learners, material : Materials,
                      ids : Seq(GrantIds), left : Nat]

\* Grants are numbered in the order they are issued.
UnissuedAreNone == \A g \in GrantIds : g >= nonce => grant[g] = None

\* A grant is closed when, and only when, it has nothing left.
OpenWhileCreditsRemain ==
    \A g \in Grants : grant[g].active <=> grant[g].remaining_credits > 0

\* A learner's list names the open grants, each once.
ListNamesOpenGrants ==
    \A l \in Learners :
      /\ NoRepeats(list[l])
      /\ StoredGrants(l) = {g \in GrantsOf(l) : grant[g].active}

\* The loop scans grants of its own learner, and all that are still open; it
\* still owes no more than the price, which no redemption has paid before.
LoopSound ==
    ~ Idle =>
      /\ cost[redeeming.material] # None
      /\ redeeming.left <= cost[redeeming.material]
      /\ redemption[<<redeeming.learner, redeeming.material>>] = 0
      /\ Members(redeeming.ids) \subseteq GrantsOf(redeeming.learner)
      /\ StoredGrants(redeeming.learner) \subseteq Members(redeeming.ids)

\* The inductive invariant.
ScholarshipInv ==
    /\ TypeOK
    /\ LoopShape
    /\ UnissuedAreNone
    /\ OpenWhileCreditsRemain
    /\ ListNamesOpenGrants
    /\ LoopSound
    /\ RedemptionIsCovered
    /\ BalanceMatchesGrants
    /\ CreditsConserved

-----------------------------------------------------------------------------
(* Sums over the grants. *)

\* What the learner's grants hold, what can be spent of it, what was issued, and
\* what each material was redeemed for.
HeldBy(l) ==
    [g \in GrantIds |-> IF g \in GrantsOf(l) THEN grant[g].remaining_credits ELSE 0]
SpendableBy(l) ==
    [g \in GrantIds |->
        IF g \in SpendableGrants(l) THEN grant[g].remaining_credits ELSE 0]
IssuedTo(l) ==
    [g \in GrantIds |-> IF g \in GrantsOf(l) THEN grant[g].total_credits ELSE 0]
RedeemedFor(l) == [m \in Materials |-> redemption[<<l, m>>]]

\* The model's totals are the sums of these functions, before and after a step.
LEMMA SumsOfGrants ==
    ASSUME NEW l
    PROVE  /\ Credits(GrantsOf(l)) = SumFunction(HeldBy(l))
           /\ Credits(SpendableGrants(l)) = SumFunction(SpendableBy(l))
           /\ Issued(l) = SumFunction(IssuedTo(l))
           /\ Redeemed(l) = SumFunction(RedeemedFor(l))
           /\ Credits(GrantsOf(l))' = SumFunction(HeldBy(l)')
           /\ Credits(SpendableGrants(l))' = SumFunction(SpendableBy(l)')
           /\ Issued(l)' = SumFunction(IssuedTo(l)')
           /\ Redeemed(l)' = SumFunction(RedeemedFor(l)')
BY DEF Credits, HeldBy, SpendableBy, Issued, IssuedTo, Redeemed, RedeemedFor

\* The storage of grants is finite.
LEMMA FiniteGrantIds == IsFiniteSet(GrantIds)
BY ScholarshipConstants, FS_Interval DEF GrantIds

\* A total of natural numbers is one, and no less than any of its terms.
LEMMA TotalType ==
    ASSUME NEW S, IsFiniteSet(S), NEW f \in [S -> Nat]
    PROVE  /\ SumFunction(f) \in Nat
           /\ \A x \in S : f[x] <= SumFunction(f)
<1>1. SumFunction(f) = SumFunctionOnSet(f, S)
  BY DEF SumFunction
<1>2. S \in SUBSET S /\ f \in [S -> Int]
  OBVIOUS
<1>3. SumFunctionOnSet(f, S) \in Nat
  BY <1>2, SumIsNat
<1>4. ASSUME NEW x \in S PROVE f[x] <= SumFunction(f)
  <2>1. SumFunctionOnSet(f, S) = f[x] + SumFunctionOnSet(f, S \ {x})
    BY <1>2, SumRemove
  <2>2. SumFunctionOnSet(f, S \ {x}) \in Nat
    <3>1. S \ {x} \in SUBSET S
      OBVIOUS
    <3> QED
      BY <3>1, SumIsNat
  <2> QED
    BY <1>1, <1>3, <2>1, <2>2
<1> QED
  BY <1>1, <1>3, <1>4

\* A total whose terms agree but for one changes by what that one does.
LEMMA TotalChangeOne ==
    ASSUME NEW S, IsFiniteSet(S), NEW f \in [S -> Nat], NEW g \in [S -> Nat],
           NEW x \in S, \A y \in S : y # x => f[y] = g[y]
    PROVE  SumFunction(g) = SumFunction(f) - f[x] + g[x]
<1>1. f \in [S -> Int] /\ g \in [S -> Int]
  OBVIOUS
<1>2. SumFunction(f) = SumFunctionOnSet(f, S) /\ SumFunction(g) = SumFunctionOnSet(g, S)
  BY DEF SumFunction
<1> QED
  BY <1>1, <1>2, SumChangeOne

\* What a stored grant holds.
LEMMA GrantTypes ==
    ASSUME TypeOK
    PROVE  /\ \A g \in Grants :
                /\ g \in GrantIds
                /\ grant[g] \in ScholarshipCreditGrant
                /\ grant[g].learner \in Learners
                /\ grant[g].total_credits \in Nat \ {0}
                /\ grant[g].remaining_credits \in Nat
                /\ grant[g].expires_at \in Expiries \cup {None}
                /\ grant[g].active \in BOOLEAN
           /\ \A g \in GrantIds : g \in Nat
           /\ \A l \in Learners : list[l] \in Seq(GrantIds)
           /\ IsFiniteSet(Materials)
<1>1. \A g \in Grants : g \in GrantIds /\ grant[g] \in ScholarshipCreditGrant
  BY DEF TypeOK, Grants
<1>2. \A x \in ScholarshipCreditGrant :
        /\ x.learner \in Learners
        /\ x.total_credits \in Nat \ {0}
        /\ x.remaining_credits \in Nat
        /\ x.expires_at \in Expiries \cup {None}
        /\ x.active \in BOOLEAN
  BY ScholarshipConstants DEF ScholarshipCreditGrant
<1> QED
  BY <1>1, <1>2, ScholarshipConstants DEF TypeOK, GrantIds

\* The functions that are summed have natural numbers for values.
LEMMA TypesOfSums ==
    ASSUME TypeOK, ListNamesOpenGrants, NEW l \in Learners
    PROVE  /\ HeldBy(l) \in [GrantIds -> Nat]
           /\ SpendableBy(l) \in [GrantIds -> Nat]
           /\ IssuedTo(l) \in [GrantIds -> Nat]
           /\ RedeemedFor(l) \in [Materials -> Nat]
<1>1. \A g \in GrantsOf(l) : g \in Grants
  BY DEF GrantsOf
<1>2. \A g \in SpendableGrants(l) : g \in Grants
  BY <1>1 DEF ListNamesOpenGrants, SpendableGrants
<1>3. HeldBy(l) \in [GrantIds -> Nat]
  BY <1>1, GrantTypes DEF HeldBy
<1>4. SpendableBy(l) \in [GrantIds -> Nat]
  BY <1>2, GrantTypes DEF SpendableBy
<1>5. IssuedTo(l) \in [GrantIds -> Nat]
  BY <1>1, GrantTypes DEF IssuedTo
<1>6. RedeemedFor(l) \in [Materials -> Nat]
  BY DEF RedeemedFor, TypeOK
<1> QED
  BY <1>3, <1>4, <1>5, <1>6

\* TotalChangeOne, for a function of the grants.
LEMMA GrantTotalChangesOne ==
    ASSUME NEW f \in [GrantIds -> Nat], NEW g \in [GrantIds -> Nat],
           NEW x \in GrantIds, \A y \in GrantIds : y # x => f[y] = g[y]
    PROVE  SumFunction(g) = SumFunction(f) - f[x] + g[x]
BY FiniteGrantIds, TotalChangeOne

\* TotalChangeOne, for a function of the materials.
LEMMA MaterialTotalChangesOne ==
    ASSUME NEW f \in [Materials -> Nat], NEW g \in [Materials -> Nat],
           NEW x \in Materials, \A y \in Materials : y # x => f[y] = g[y]
    PROVE  SumFunction(g) = SumFunction(f) - f[x] + g[x]
BY ScholarshipConstants, TotalChangeOne

\* What the totals of a learner are, and the two equations between them.
LEMMA TotalsAdd ==
    ASSUME ScholarshipInv, NEW l \in Learners
    PROVE  /\ SumFunction(HeldBy(l)) \in Nat
           /\ SumFunction(SpendableBy(l)) \in Nat
           /\ SumFunction(IssuedTo(l)) \in Nat
           /\ SumFunction(RedeemedFor(l)) \in Nat
           /\ balance[l] = SumFunction(HeldBy(l)) + Drawn(l)
           /\ SumFunction(IssuedTo(l)) =
                SumFunction(HeldBy(l)) + revoked[l] + Drawn(l)
                  + SumFunction(RedeemedFor(l))
           /\ \A g \in GrantsOf(l) :
                grant[g].remaining_credits <= SumFunction(HeldBy(l))
<1>1. /\ HeldBy(l) \in [GrantIds -> Nat]
      /\ SpendableBy(l) \in [GrantIds -> Nat]
      /\ IssuedTo(l) \in [GrantIds -> Nat]
      /\ RedeemedFor(l) \in [Materials -> Nat]
  BY TypesOfSums DEF ScholarshipInv
<1>2. IsFiniteSet(GrantIds) /\ IsFiniteSet(Materials)
  BY FiniteGrantIds, ScholarshipConstants
<1>3. /\ balance[l] = SumFunction(HeldBy(l)) + Drawn(l)
      /\ SumFunction(IssuedTo(l)) =
           SumFunction(HeldBy(l)) + revoked[l] + Drawn(l)
             + SumFunction(RedeemedFor(l))
  BY SumsOfGrants DEF ScholarshipInv, BalanceMatchesGrants, CreditsConserved
<1>4. ASSUME NEW g \in GrantsOf(l)
      PROVE  grant[g].remaining_credits <= SumFunction(HeldBy(l))
  <2>1. g \in GrantIds /\ HeldBy(l)[g] = grant[g].remaining_credits
    BY DEF GrantsOf, Grants, HeldBy
  <2> QED
    BY <1>1, <1>2, <2>1, TotalType
<1> QED
  BY <1>1, <1>2, <1>3, <1>4, TotalType

\* Between redemptions the loop is no learner's.
LEMMA NoLearnerIsNone == None \notin Learners
BY ScholarshipConstants

\* Between redemptions nothing is drawn that the balance still holds.
LEMMA IdleDrawsNothing ==
    ASSUME Idle, NEW l \in Learners
    PROVE  Drawn(l) = 0
BY NoLearnerIsNone DEF Idle, NotRedeeming, Drawn

\* What ScholarshipInv says of one learner's totals, to be shown of a next state.
TotalsOf(l) ==
    /\ balance[l] = SumFunction(HeldBy(l)) + Drawn(l)
    /\ SumFunction(IssuedTo(l)) =
         SumFunction(HeldBy(l)) + revoked[l] + Drawn(l)
           + SumFunction(RedeemedFor(l))

\* The two sums of the invariant, learner by learner.
LEMMA TotalsSuffice ==
    ASSUME \A l \in Learners : TotalsOf(l)'
    PROVE  BalanceMatchesGrants' /\ CreditsConserved'
BY SumsOfGrants DEF TotalsOf, BalanceMatchesGrants, CreditsConserved

-----------------------------------------------------------------------------
(* The initial state, and the steps that leave the grants alone. *)

\* A contract without grants.
LEMMA InitScholarship == Init => ScholarshipInv
<1> SUFFICES ASSUME Init PROVE ScholarshipInv
  OBVIOUS
<1>1. TypeOK
  <2>1. /\ 0 \in 0..MaxLedger /\ 0 \in 0..MaxGrants /\ 0 \in Nat
        /\ <<>> \in Seq(GrantIds)
    BY ScholarshipConstants
  <2>2. NotRedeeming.left = 0
    BY DEF NotRedeeming
  <2> QED
    BY <2>1, <2>2 DEF Init, TypeOK
<1>2. Grants = {}
  BY DEF Init, Grants
<1>3. \A l \in Learners : GrantsOf(l) = {} /\ StoredGrants(l) = {} /\ NoRepeats(list[l])
  BY <1>2 DEF GrantsOf, StoredGrants, NoRepeats, Init
<1>4. Idle /\ LoopShape
  BY DEF Init, Idle, LoopShape
<1>5. ASSUME NEW l \in Learners
      PROVE  /\ Credits(GrantsOf(l)) = 0 /\ Issued(l) = 0 /\ Redeemed(l) = 0
             /\ Drawn(l) = 0 /\ balance[l] = 0 /\ revoked[l] = 0
  <2>1. /\ \A g \in GrantIds : HeldBy(l)[g] = 0
        /\ \A g \in GrantIds : IssuedTo(l)[g] = 0
        /\ DOMAIN HeldBy(l) = GrantIds
        /\ DOMAIN IssuedTo(l) = GrantIds
    BY <1>3 DEF HeldBy, IssuedTo
  <2>2. /\ \A m \in Materials : RedeemedFor(l)[m] = 0
        /\ DOMAIN RedeemedFor(l) = Materials
    BY DEF RedeemedFor, Init
  <2>3. IsFiniteSet(Materials)
    BY ScholarshipConstants
  <2>4. /\ SumFunctionOnSet(HeldBy(l), GrantIds) = 0
        /\ SumFunctionOnSet(IssuedTo(l), GrantIds) = 0
        /\ SumFunctionOnSet(RedeemedFor(l), Materials) = 0
    BY <2>1, <2>2, <2>3, FiniteGrantIds, SumOfZeros
  <2>5. /\ SumFunction(HeldBy(l)) = 0
        /\ SumFunction(IssuedTo(l)) = 0
        /\ SumFunction(RedeemedFor(l)) = 0
    BY <2>1, <2>2, <2>4 DEF SumFunction
  <2>6. balance[l] = 0 /\ revoked[l] = 0
    BY DEF Init
  <2> QED
    BY <1>4, <2>5, <2>6, SumsOfGrants, IdleDrawsNothing
<1>6. BalanceMatchesGrants /\ CreditsConserved
  BY <1>5 DEF BalanceMatchesGrants, CreditsConserved
<1>7. UnissuedAreNone /\ OpenWhileCreditsRemain /\ ListNamesOpenGrants
  BY <1>2, <1>3 DEF UnissuedAreNone, OpenWhileCreditsRemain, ListNamesOpenGrants, Init
<1>8. LoopSound /\ RedemptionIsCovered
  BY <1>4 DEF LoopSound, RedemptionIsCovered
<1> QED
  BY <1>1, <1>4, <1>6, <1>7, <1>8 DEF ScholarshipInv

\* The administrator's and the creators' calls, purchases and ledger closes.
LEMMA GrantsLeftAlone ==
    ASSUME ScholarshipInv, TypeOK',
           UNCHANGED <<nonce, grant, list, balance, redemption, redeeming, revoked>>,
           Idle \/ UNCHANGED <<cost, ledger>>
    PROVE  ScholarshipInv'
<1>1. /\ LoopShape' /\ UnissuedAreNone' /\ OpenWhileCreditsRemain'
      /\ ListNamesOpenGrants'
  BY DEF ScholarshipInv, LoopShape, UnissuedAreNone, OpenWhileCreditsRemain,
         ListNamesOpenGrants, Grants, GrantsOf, StoredGrants
<1>2. ASSUME NEW l \in Learners PROVE TotalsOf(l)'
  <2>1. /\ HeldBy(l)' = HeldBy(l) /\ IssuedTo(l)' = IssuedTo(l)
        /\ RedeemedFor(l)' = RedeemedFor(l)
    BY DEF HeldBy, IssuedTo, RedeemedFor, GrantsOf, Grants
  <2>2. Drawn(l)' = Drawn(l)
    BY NoLearnerIsNone DEF Drawn, Idle, NotRedeeming
  <2> QED
    BY <2>1, <2>2, TotalsAdd DEF TotalsOf
<1>3. BalanceMatchesGrants' /\ CreditsConserved'
  BY <1>2, TotalsSuffice
<1>4. LoopSound' /\ RedemptionIsCovered'
  <2>1. CASE Idle
    <3>1. Idle'
      BY <2>1 DEF Idle
    <3> QED
      BY <3>1 DEF LoopSound, RedemptionIsCovered
  <2>2. CASE ~ Idle
    <3>1. UNCHANGED <<cost, ledger>>
      BY <2>2
    <3>2. LoopSound'
      BY <2>2, <3>1 DEF ScholarshipInv, LoopSound, Idle, Members, GrantsOf,
                        Grants, StoredGrants
    <3>3. SpendableBy(redeeming.learner)' = SpendableBy(redeeming.learner)
      BY <3>1 DEF SpendableBy, SpendableGrants, Spendable, Expired, StoredGrants
    <3>4. RedemptionIsCovered'
      BY <3>1, <2>2 DEF ScholarshipInv, RedemptionIsCovered, Idle, Credits,
            SpendableGrants, Spendable, Expired, StoredGrants
    <3> QED
      BY <3>2, <3>4
  <2> QED
    BY <2>1, <2>2
<1> QED
  BY <1>1, <1>3, <1>4 DEF ScholarshipInv

-----------------------------------------------------------------------------
(* Issuing and revoking. *)

\* issue_scholarship_credits takes an unused id and adds it to the list once.
LEMMA IssueKeeps ==
    ASSUME ScholarshipInv, NEW i, NEW l \in Learners, NEW n \in Amounts,
           NEW e \in Expiries \cup {None}, IssueScholarshipCredits(i, l, n, e)
    PROVE  ScholarshipInv'
<1> DEFINE new == [learner |-> l, total_credits |-> n, remaining_credits |-> n,
                   expires_at |-> e, active |-> TRUE]
<1>0. /\ Idle /\ nonce < MaxGrants /\ nonce' = nonce + 1
      /\ grant' = [grant EXCEPT ![nonce] = new]
      /\ list' = [list EXCEPT ![l] = Append(@, nonce)]
      /\ balance' = [balance EXCEPT ![l] = @ + n]
      /\ UNCHANGED <<ledger, issuers, cost, on_sale, entitled, redemption,
                     redeeming, revoked>>
  BY DEF IssueScholarshipCredits, platformVars, accessVars
<1>1. /\ n \in Nat \ {0}
      /\ nonce \in GrantIds
      /\ nonce + 1 \in 0..MaxGrants
      /\ nonce \in Nat
  BY <1>0, ScholarshipConstants DEF ScholarshipInv, TypeOK, GrantIds
<1>2. new \in ScholarshipCreditGrant /\ new # None
  <2>1. n \in Amounts /\ n \in Nat /\ TRUE \in BOOLEAN
    BY <1>1
  <2>2. new \in ScholarshipCreditGrant
    BY <2>1 DEF ScholarshipCreditGrant
  <2> HIDE DEF new
  <2> QED
    BY <2>2, NoneIsNoGrant
<1> HIDE DEF new
<1>3. grant' = [grant EXCEPT ![nonce] = new]
  BY <1>0 DEF new
<1>4. /\ new.learner = l /\ new.active = TRUE
      /\ new.remaining_credits = n /\ new.total_credits = n
  BY DEF new
<1>5. grant \in [GrantIds -> ScholarshipCreditGrant \cup {None}]
  BY DEF ScholarshipInv, TypeOK
<1>6. grant[nonce] = None
  BY <1>1 DEF ScholarshipInv, UnissuedAreNone
<1>7. /\ nonce \notin Grants
      /\ Grants' = Grants \cup {nonce}
      /\ grant'[nonce] = new
      /\ \A g \in Grants : grant'[g] = grant[g] /\ g # nonce
  <2>1. /\ grant'[nonce] = new
        /\ \A g \in GrantIds : g # nonce => grant'[g] = grant[g]
    BY <1>1, <1>3, <1>5
  <2>2. nonce \notin Grants
    BY <1>6 DEF Grants
  <2> QED
    BY <1>1, <1>2, <2>1, <2>2 DEF Grants
<1>8. /\ GrantsOf(l)' = GrantsOf(l) \cup {nonce}
      /\ \A k \in Learners : k # l => GrantsOf(k)' = GrantsOf(k)
      /\ \A k \in Learners : nonce \notin GrantsOf(k) /\ GrantsOf(k) \subseteq Grants
  BY <1>4, <1>7 DEF GrantsOf
<1>9. list[l] \in Seq(GrantIds) /\ NoRepeats(list[l])
  BY DEF ScholarshipInv, TypeOK, ListNamesOpenGrants
<1>10. StoredGrants(l) = Members(list[l]) /\ nonce \notin Members(list[l])
  BY <1>8 DEF StoredGrants, Members, ScholarshipInv, ListNamesOpenGrants
<1>11. PICK longer : longer = Append(list[l], nonce)
  OBVIOUS
<1>12. /\ longer \in Seq(GrantIds) /\ NoRepeats(longer)
       /\ Members(longer) = Members(list[l]) \cup {nonce}
  BY <1>1, <1>9, <1>10, <1>11, AppendAddsOne
<1>13. /\ list' = [list EXCEPT ![l] = longer]
       /\ list \in [Learners -> Seq(GrantIds)]
  BY <1>0, <1>11 DEF ScholarshipInv, TypeOK
<1>14. TypeOK'
  <2>1. grant' \in [GrantIds -> ScholarshipCreditGrant \cup {None}]
    BY <1>1, <1>2, <1>3, <1>5
  <2>2. list' \in [Learners -> Seq(GrantIds)]
    BY <1>12, <1>13
  <2>3. balance' \in [Learners -> Nat]
    BY <1>0, <1>1 DEF ScholarshipInv, TypeOK
  <2> QED
    BY <1>0, <1>1, <2>1, <2>2, <2>3 DEF ScholarshipInv, TypeOK
<1>15. Idle /\ Idle' /\ LoopShape'
  BY <1>0 DEF Idle, LoopShape
<1>16. UnissuedAreNone'
  <2>1. SUFFICES ASSUME NEW g \in GrantIds, g >= nonce + 1
                 PROVE  grant'[g] = None
    BY <1>0 DEF UnissuedAreNone
  <2>2. g >= nonce /\ g # nonce
    BY <1>1, <2>1 DEF GrantIds
  <2> QED
    BY <1>3, <1>5, <2>2 DEF ScholarshipInv, UnissuedAreNone
<1>17. OpenWhileCreditsRemain'
  <2>1. n > 0
    BY <1>1
  <2> QED
    BY <1>4, <1>7, <2>1 DEF ScholarshipInv, OpenWhileCreditsRemain
<1>18. ListNamesOpenGrants'
  <2>1. SUFFICES ASSUME NEW k \in Learners
                 PROVE  /\ NoRepeats(list'[k])
                        /\ StoredGrants(k)' = {g \in GrantsOf(k)' : grant'[g].active}
    BY DEF ListNamesOpenGrants
  <2>2. CASE k = l
    <3>1. list'[k] = longer
      BY <2>2, <1>13
    <3>2. StoredGrants(k)' = StoredGrants(l) \cup {nonce}
      BY <3>1, <1>10, <1>12 DEF StoredGrants, Members
    <3>3. {g \in GrantsOf(l)' : grant'[g].active}
            = {g \in GrantsOf(l) : grant[g].active} \cup {nonce}
      BY <1>4, <1>7, <1>8
    <3> QED
      BY <2>2, <3>1, <3>2, <3>3, <1>12 DEF ScholarshipInv, ListNamesOpenGrants
  <2>3. CASE k # l
    <3>1. list'[k] = list[k]
      BY <2>3, <1>13
    <3>2. StoredGrants(k)' = StoredGrants(k)
      BY <3>1 DEF StoredGrants
    <3>3. {g \in GrantsOf(k)' : grant'[g].active} = {g \in GrantsOf(k) : grant[g].active}
      BY <2>3, <1>7, <1>8
    <3> QED
      BY <3>1, <3>2, <3>3 DEF ScholarshipInv, ListNamesOpenGrants
  <2> QED
    BY <2>2, <2>3
<1>19. LoopSound' /\ RedemptionIsCovered'
  BY <1>15 DEF LoopSound, RedemptionIsCovered
<1>20. ASSUME NEW k \in Learners PROVE TotalsOf(k)'
  <2>1. Drawn(k) = 0 /\ Drawn(k)' = 0
    <3>1. Drawn(k)' = Drawn(k)
      BY <1>0, <1>15, NoLearnerIsNone DEF Drawn, Idle, NotRedeeming
    <3> QED
      BY <3>1, <1>15, IdleDrawsNothing
  <2>2. RedeemedFor(k)' = RedeemedFor(k) /\ revoked' = revoked
    BY <1>0 DEF RedeemedFor
  <2>3. /\ SumFunction(HeldBy(k)) \in Nat /\ SumFunction(IssuedTo(k)) \in Nat
        /\ SumFunction(RedeemedFor(k)) \in Nat /\ revoked[k] \in Nat
        /\ balance[k] = SumFunction(HeldBy(k))
        /\ SumFunction(IssuedTo(k)) =
             SumFunction(HeldBy(k)) + revoked[k] + SumFunction(RedeemedFor(k))
    <3>1. revoked[k] \in Nat
      BY DEF ScholarshipInv, TypeOK
    <3>2. /\ balance[k] = SumFunction(HeldBy(k)) + 0
          /\ SumFunction(IssuedTo(k)) =
               SumFunction(HeldBy(k)) + revoked[k] + 0 + SumFunction(RedeemedFor(k))
      BY <2>1, TotalsAdd
    <3>3. /\ SumFunction(HeldBy(k)) \in Nat /\ SumFunction(IssuedTo(k)) \in Nat
          /\ SumFunction(RedeemedFor(k)) \in Nat
      BY TotalsAdd
    <3> QED
      BY <3>1, <3>2, <3>3
  <2>4. CASE k = l
    <3>1. HeldBy(l)' = [g \in GrantIds |-> IF g = nonce THEN n ELSE HeldBy(l)[g]]
      BY <1>1, <1>4, <1>7, <1>8 DEF HeldBy
    <3>2. IssuedTo(l)' = [g \in GrantIds |-> IF g = nonce THEN n ELSE IssuedTo(l)[g]]
      BY <1>1, <1>4, <1>7, <1>8 DEF IssuedTo
    <3>3. HeldBy(l)[nonce] = 0 /\ IssuedTo(l)[nonce] = 0
      BY <1>1, <1>8 DEF HeldBy, IssuedTo
    <3>4. HeldBy(l) \in [GrantIds -> Nat] /\ IssuedTo(l) \in [GrantIds -> Nat]
      BY TypesOfSums DEF ScholarshipInv
    <3>5. /\ SumFunction(HeldBy(l)') = SumFunction(HeldBy(l)) + n
          /\ SumFunction(IssuedTo(l)') = SumFunction(IssuedTo(l)) + n
      <4>1. n \in Nat
        BY <1>1
      <4>2. SumFunction(HeldBy(l)') = SumFunction(HeldBy(l)) - HeldBy(l)[nonce] + n
        <5>1. PICK f, h : f = HeldBy(l) /\ h = HeldBy(l)'
          OBVIOUS
        <5>2. /\ f \in [GrantIds -> Nat] /\ h \in [GrantIds -> Nat]
              /\ h[nonce] = n /\ \A g \in GrantIds : g # nonce => f[g] = h[g]
          BY <1>1, <4>1, <3>1, <3>4, <5>1
        <5>3. SumFunction(h) = SumFunction(f) - f[nonce] + h[nonce]
          BY <1>1, <5>2, GrantTotalChangesOne
        <5> QED
          BY <5>1, <5>2, <5>3
      <4>3. SumFunction(IssuedTo(l)')
              = SumFunction(IssuedTo(l)) - IssuedTo(l)[nonce] + n
        <5>1. PICK f, h : f = IssuedTo(l) /\ h = IssuedTo(l)'
          OBVIOUS
        <5>2. /\ f \in [GrantIds -> Nat] /\ h \in [GrantIds -> Nat]
              /\ h[nonce] = n /\ \A g \in GrantIds : g # nonce => f[g] = h[g]
          BY <1>1, <4>1, <3>2, <3>4, <5>1
        <5>3. SumFunction(h) = SumFunction(f) - f[nonce] + h[nonce]
          BY <1>1, <5>2, GrantTotalChangesOne
        <5> QED
          BY <5>1, <5>2, <5>3
      <4> QED
        BY <4>1, <4>2, <4>3, <3>3, <2>3, <2>4
    <3>6. balance'[l] = balance[l] + n
      BY <1>0, <1>1 DEF ScholarshipInv, TypeOK
    <3> QED
      BY <2>1, <2>2, <2>3, <2>4, <3>5, <3>6, <1>1 DEF TotalsOf
  <2>5. CASE k # l
    <3>1. HeldBy(k)' = HeldBy(k) /\ IssuedTo(k)' = IssuedTo(k)
      BY <2>5, <1>7, <1>8 DEF HeldBy, IssuedTo
    <3>2. balance'[k] = balance[k]
      BY <1>0, <2>5 DEF ScholarshipInv, TypeOK
    <3> QED
      BY <2>1, <2>2, <2>3, <3>1, <3>2 DEF TotalsOf
  <2> QED
    BY <2>4, <2>5
<1> QED
  BY <1>14, <1>15, <1>16, <1>17, <1>18, <1>19, <1>20, TotalsSuffice
     DEF ScholarshipInv

\* A grant g of the learner l is drawn down, or revoked, to r credits; one with
\* nothing left is closed and taken off the list.
DrawnTo(g, l, r) ==
    /\ g \in Grants /\ l = grant[g].learner
    /\ grant[g].active
    /\ r \in Nat /\ r <= grant[g].remaining_credits
    /\ grant' = [grant EXCEPT ![g].remaining_credits = r, ![g].active = (r # 0)]
    /\ list' = IF r = 0 THEN [list EXCEPT ![l] = Without(@, g)] ELSE list
    /\ nonce' = nonce

\* What drawing on a grant does to the stored grants.
LEMMA DrawnGrants ==
    ASSUME ScholarshipInv, NEW g, NEW l, NEW r, DrawnTo(g, l, r)
    PROVE  /\ l \in Learners /\ g \in GrantIds
           /\ grant' \in [GrantIds -> ScholarshipCreditGrant \cup {None}]
           /\ grant'[g] # None
           /\ grant'[g].learner = l
           /\ grant'[g].total_credits = grant[g].total_credits
           /\ grant'[g].remaining_credits = r
           /\ grant'[g].active = (r # 0)
           /\ grant'[g].expires_at = grant[g].expires_at
           /\ \A h \in GrantIds : h # g => grant'[h] = grant[h]
           /\ Grants' = Grants
           /\ \A k \in Learners : GrantsOf(k)' = GrantsOf(k)
<1>1. /\ g \in GrantIds /\ grant[g] \in ScholarshipCreditGrant
      /\ l \in Learners
  BY GrantTypes DEF DrawnTo, ScholarshipInv
<1>2. PICK old : old = grant[g]
  OBVIOUS
<1>3. PICK new : new = [old EXCEPT !.remaining_credits = r, !.active = (r # 0)]
  OBVIOUS
<1>4. r \in Nat /\ (r # 0) \in BOOLEAN
  BY DEF DrawnTo
<1>5. old \in ScholarshipCreditGrant
  BY <1>1, <1>2
<1>6. /\ new.learner = old.learner /\ new.total_credits = old.total_credits
      /\ new.expires_at = old.expires_at
      /\ new.remaining_credits = r /\ new.active = (r # 0)
  BY <1>3, <1>5 DEF ScholarshipCreditGrant
<1>7. new \in ScholarshipCreditGrant
  BY <1>3, <1>4, <1>5 DEF ScholarshipCreditGrant
<1>8. grant \in [GrantIds -> ScholarshipCreditGrant \cup {None}]
  BY DEF ScholarshipInv, TypeOK
<1>9. grant' = [grant EXCEPT ![g] = new]
  BY <1>1, <1>2, <1>3, <1>8 DEF DrawnTo
<1>10. /\ grant'[g] = new /\ new # None
       /\ \A h \in GrantIds : h # g => grant'[h] = grant[h]
  <2>1. new # None
    BY <1>7, NoneIsNoGrant
  <2> QED
    BY <1>1, <1>8, <1>9, <2>1
<1>11. grant' \in [GrantIds -> ScholarshipCreditGrant \cup {None}]
  BY <1>7, <1>8, <1>9
<1>12. Grants' = Grants
  BY <1>10, <1>1 DEF Grants, DrawnTo
<1>13. old.learner = l
  BY <1>2 DEF DrawnTo
<1>14. \A k \in Learners : GrantsOf(k)' = GrantsOf(k)
  <2>1. \A h \in Grants : h \in GrantIds /\ grant'[h].learner = grant[h].learner
    BY <1>2, <1>6, <1>10 DEF Grants
  <2> QED
    BY <1>12, <2>1 DEF GrantsOf
<1> QED
  BY <1>1, <1>2, <1>6, <1>10, <1>11, <1>12, <1>13, <1>14

\* What it does to the lists.
LEMMA DrawnList ==
    ASSUME ScholarshipInv, NEW g, NEW l, NEW r, DrawnTo(g, l, r)
    PROVE  /\ list' \in [Learners -> Seq(GrantIds)]
           /\ \A k \in Learners :
                /\ NoRepeats(list'[k])
                /\ StoredGrants(k)' = IF r = 0 THEN StoredGrants(k) \ {g}
                                      ELSE StoredGrants(k)
<1>1. l \in Learners /\ l = grant[g].learner
  BY DrawnGrants DEF DrawnTo
<1>2. list \in [Learners -> Seq(GrantIds)]
  BY DEF ScholarshipInv, TypeOK
<1>3. \A k \in Learners : /\ list[k] \in Seq(GrantIds) /\ NoRepeats(list[k])
                          /\ StoredGrants(k) = Members(list[k])
  BY <1>2 DEF ScholarshipInv, ListNamesOpenGrants, StoredGrants, Members
<1>4. CASE r # 0
  <2>1. list' = list
    BY <1>4 DEF DrawnTo
  <2> QED
    BY <1>2, <1>3, <1>4, <2>1 DEF StoredGrants
<1>5. CASE r = 0
  <2>1. PICK shorter : shorter = Without(list[l], g)
    OBVIOUS
  <2>2. /\ shorter \in Seq(GrantIds) /\ NoRepeats(shorter)
        /\ Members(shorter) = Members(list[l]) \ {g}
    BY <1>1, <1>3, <2>1, WithoutDrops
  <2>3. list' = [list EXCEPT ![l] = shorter]
    BY <1>5, <2>1 DEF DrawnTo
  <2>4. list' \in [Learners -> Seq(GrantIds)]
    BY <1>1, <1>2, <2>2, <2>3
  <2>5. ASSUME NEW k \in Learners
        PROVE  NoRepeats(list'[k]) /\ StoredGrants(k)' = StoredGrants(k) \ {g}
    <3>1. CASE k = l
      <4>1. list'[k] = shorter
        BY <3>1, <1>2, <2>3
      <4>2. StoredGrants(k)' = Members(shorter)
        BY <4>1 DEF StoredGrants, Members
      <4> QED
        BY <3>1, <4>1, <4>2, <1>3, <2>2
    <3>2. CASE k # l
      <4>1. list'[k] = list[k]
        BY <3>2, <1>2, <2>3
      <4>2. StoredGrants(k)' = StoredGrants(k)
        BY <4>1 DEF StoredGrants
      <4>3. g \notin StoredGrants(k)
        BY <3>2, <1>1 DEF ScholarshipInv, ListNamesOpenGrants, GrantsOf
      <4> QED
        BY <4>1, <4>2, <4>3, <1>3
    <3> QED
      BY <3>1, <3>2
  <2> QED
    BY <1>5, <2>4, <2>5
<1> QED
  BY <1>4, <1>5

\* The lists still name the open grants, and these still hold credits.
LEMMA DrawnKeeps ==
    ASSUME ScholarshipInv, NEW g, NEW l, NEW r, DrawnTo(g, l, r)
    PROVE  UnissuedAreNone' /\ OpenWhileCreditsRemain' /\ ListNamesOpenGrants'
<1>1. UnissuedAreNone'
  <2>1. nonce' = nonce
    BY DEF DrawnTo
  <2>2. \A h \in GrantIds : grant[h] = None => grant'[h] = None
    BY DrawnGrants DEF DrawnTo, Grants
  <2> QED
    BY <2>1, <2>2 DEF ScholarshipInv, UnissuedAreNone
<1>2. OpenWhileCreditsRemain'
  <2>1. SUFFICES ASSUME NEW h \in Grants
                 PROVE  grant'[h].active <=> grant'[h].remaining_credits > 0
    BY DrawnGrants DEF OpenWhileCreditsRemain
  <2>2. CASE h = g
    <3>1. r # 0 <=> r > 0
      BY DEF DrawnTo
    <3>2. grant'[g].active = (r # 0) /\ grant'[g].remaining_credits = r
      BY DrawnGrants
    <3>3. grant'[g].active <=> r > 0
      BY <3>1, <3>2, Zenon
    <3> QED
      BY <2>2, <3>2, <3>3
  <2>3. CASE h # g
    <3>1. grant'[h] = grant[h]
      BY <2>3, DrawnGrants DEF Grants
    <3> QED
      BY <3>1 DEF ScholarshipInv, OpenWhileCreditsRemain
  <2> QED
    BY <2>2, <2>3
<1>3. ListNamesOpenGrants'
  <2>1. SUFFICES ASSUME NEW k \in Learners
                 PROVE  StoredGrants(k)' = {h \in GrantsOf(k) : grant'[h].active}
    BY DrawnGrants, DrawnList DEF ListNamesOpenGrants
  <2>2. StoredGrants(k) = {h \in GrantsOf(k) : grant[h].active}
    BY DEF ScholarshipInv, ListNamesOpenGrants
  <2>3. \A h \in GrantsOf(k) : h # g => grant'[h].active = grant[h].active
    BY DrawnGrants DEF GrantsOf, Grants
  <2>4. grant[g].active /\ grant'[g].active = (r # 0)
    BY DrawnGrants DEF DrawnTo
  <2>5. StoredGrants(k)' = IF r = 0 THEN StoredGrants(k) \ {g} ELSE StoredGrants(k)
    BY DrawnList
  <2> QED
    BY <2>2, <2>3, <2>4, <2>5
<1> QED
  BY <1>1, <1>2, <1>3

\* Only what the grant's learner holds changes, by what was drawn.
LEMMA DrawnTotals ==
    ASSUME ScholarshipInv, NEW g, NEW l, NEW r, DrawnTo(g, l, r), NEW k \in Learners
    PROVE  /\ IssuedTo(k)' = IssuedTo(k)
           /\ k # l => HeldBy(k)' = HeldBy(k)
           /\ k = l => SumFunction(HeldBy(k)') =
                         SumFunction(HeldBy(k)) - grant[g].remaining_credits + r
<1>1. /\ GrantsOf(k)' = GrantsOf(k) /\ l \in Learners /\ g \in GrantIds
      /\ \A h \in GrantIds : h # g => grant'[h] = grant[h]
      /\ grant'[g].total_credits = grant[g].total_credits
      /\ grant'[g].remaining_credits = r
      /\ r \in Nat
  BY DrawnGrants DEF DrawnTo
<1>2. IssuedTo(k)' = IssuedTo(k)
  BY <1>1 DEF IssuedTo
<1>3. ASSUME k # l PROVE HeldBy(k)' = HeldBy(k)
  <2>1. g \notin GrantsOf(k)
    BY <1>3 DEF DrawnTo, GrantsOf
  <2> QED
    BY <1>1, <2>1 DEF HeldBy
<1>4. ASSUME k = l
      PROVE  SumFunction(HeldBy(k)') =
               SumFunction(HeldBy(k)) - grant[g].remaining_credits + r
  <2>1. g \in GrantsOf(k)
    BY <1>4 DEF DrawnTo, GrantsOf
  <2>2. PICK f, h : f = HeldBy(k) /\ h = HeldBy(k)'
    OBVIOUS
  <2>3. f \in [GrantIds -> Nat]
    BY <2>2, TypesOfSums DEF ScholarshipInv
  <2>4. h = [x \in GrantIds |-> IF x = g THEN r ELSE f[x]]
    BY <1>1, <2>1, <2>2 DEF HeldBy
  <2>5. h \in [GrantIds -> Nat]
    BY <1>1, <2>3, <2>4
  <2>6. /\ h[g] = r /\ f[g] = grant[g].remaining_credits
        /\ \A x \in GrantIds : x # g => f[x] = h[x]
    BY <1>1, <2>1, <2>2, <2>4 DEF HeldBy
  <2>7. SumFunction(h) = SumFunction(f) - f[g] + h[g]
    BY <1>1, <2>3, <2>5, <2>6, GrantTotalChangesOne
  <2> QED
    BY <2>2, <2>6, <2>7
<1> QED
  BY <1>2, <1>3, <1>4

\* revoke_scholarship_grant takes the same credits off grant and balance.
LEMMA RevokeKeeps ==
    ASSUME ScholarshipInv, NEW g \in GrantIds, RevokeScholarshipGrant(g)
    PROVE  ScholarshipInv'
<1> PICK l : l = grant[g].learner
  OBVIOUS
<1>1. /\ Idle /\ g \in Grants /\ grant[g].active /\ grant[g].remaining_credits > 0
      /\ grant' = [grant EXCEPT ![g].remaining_credits = 0, ![g].active = FALSE]
      /\ balance' = [balance EXCEPT ![l] = @ - grant[g].remaining_credits]
      /\ list' = [list EXCEPT ![l] = Without(@, g)]
      /\ revoked' = [revoked EXCEPT ![l] = @ + grant[g].remaining_credits]
      /\ UNCHANGED <<ledger, issuers, cost, on_sale, nonce, entitled, redemption,
                     redeeming>>
  BY DEF RevokeScholarshipGrant, CreditsToRevoke, platformVars, accessVars
<1>2. PICK n : n = grant[g].remaining_credits
  OBVIOUS
<1>3. n \in Nat /\ l \in Learners
  BY <1>1, <1>2, GrantTypes DEF ScholarshipInv
<1>4. DrawnTo(g, l, 0)
  <2>1. (0 # 0) = FALSE
    OBVIOUS
  <2>2. 0 \in Nat /\ 0 <= grant[g].remaining_credits
    BY <1>2, <1>3
  <2>3. grant' = [grant EXCEPT ![g].remaining_credits = 0, ![g].active = (0 # 0)]
    BY <1>1, <2>1, Zenon
  <2> QED
    BY <1>1, <2>2, <2>3 DEF DrawnTo
<1>5. g \in GrantsOf(l)
  BY <1>1 DEF GrantsOf
<1>6. ASSUME NEW k \in Learners
      PROVE  /\ balance[k] = SumFunction(HeldBy(k)) + 0
             /\ SumFunction(IssuedTo(k)) =
                  SumFunction(HeldBy(k)) + revoked[k] + 0 + SumFunction(RedeemedFor(k))
             /\ SumFunction(HeldBy(k)) \in Nat /\ SumFunction(IssuedTo(k)) \in Nat
             /\ SumFunction(RedeemedFor(k)) \in Nat
             /\ revoked[k] \in Nat /\ balance[k] \in Nat
  <2>1. Drawn(k) = 0
    BY <1>1, IdleDrawsNothing
  <2>2. revoked[k] \in Nat /\ balance[k] \in Nat
    BY DEF ScholarshipInv, TypeOK
  <2> QED
    BY <2>1, <2>2, TotalsAdd
<1>7. balance[l] - n \in Nat /\ revoked[l] + n \in Nat
  <2>1. n <= SumFunction(HeldBy(l))
    BY <1>2, <1>3, <1>5, TotalsAdd
  <2> QED
    BY <1>3, <1>6, <2>1
<1>8. /\ balance \in [Learners -> Nat] /\ revoked \in [Learners -> Nat]
      /\ balance' = [balance EXCEPT ![l] = balance[l] - n]
      /\ revoked' = [revoked EXCEPT ![l] = revoked[l] + n]
  BY <1>1, <1>2 DEF ScholarshipInv, TypeOK
<1>9. TypeOK'
  <2>1. balance' \in [Learners -> Nat] /\ revoked' \in [Learners -> Nat]
    BY <1>7, <1>8
  <2>2. /\ grant' \in [GrantIds -> ScholarshipCreditGrant \cup {None}]
        /\ list' \in [Learners -> Seq(GrantIds)]
    BY <1>4, DrawnGrants, DrawnList
  <2> QED
    BY <1>1, <2>1, <2>2 DEF ScholarshipInv, TypeOK
<1>10. Idle' /\ LoopShape'
  BY <1>1 DEF Idle, LoopShape
<1>11. LoopSound' /\ RedemptionIsCovered'
  BY <1>10 DEF LoopSound, RedemptionIsCovered
<1>12. ASSUME NEW k \in Learners PROVE TotalsOf(k)'
  <2>1. Drawn(k)' = 0
    <3>1. Drawn(k)' = Drawn(k)
      BY <1>1, NoLearnerIsNone DEF Drawn, Idle, NotRedeeming
    <3> QED
      BY <3>1, <1>1, IdleDrawsNothing
  <2>2. RedeemedFor(k)' = RedeemedFor(k)
    BY <1>1 DEF RedeemedFor
  <2>3. CASE k = l
    <3>1. /\ IssuedTo(k)' = IssuedTo(k)
          /\ SumFunction(HeldBy(k)') = SumFunction(HeldBy(k)) - n + 0
      BY <1>2, <1>4, <2>3, DrawnTotals
    <3>2. balance'[k] = balance[k] - n /\ revoked'[k] = revoked[k] + n
      BY <1>8, <2>3
    <3> QED
      BY <1>3, <1>6, <2>1, <2>2, <3>1, <3>2 DEF TotalsOf
  <2>4. CASE k # l
    <3>1. IssuedTo(k)' = IssuedTo(k) /\ HeldBy(k)' = HeldBy(k)
      BY <1>4, <2>4, DrawnTotals
    <3>2. balance'[k] = balance[k] /\ revoked'[k] = revoked[k]
      BY <1>8, <2>4
    <3> QED
      BY <1>6, <2>1, <2>2, <3>1, <3>2 DEF TotalsOf
  <2> QED
    BY <2>3, <2>4
<1> QED
  BY <1>4, <1>9, <1>10, <1>11, <1>12, TotalsSuffice, DrawnKeeps DEF ScholarshipInv

-----------------------------------------------------------------------------
(* Redeeming. *)

\* The check against compute_scholarship_balance is what covers the loop.
LEMMA BeginKeeps ==
    ASSUME ScholarshipInv, NEW l \in Learners, NEW m \in Materials, RedeemBegin(l, m)
    PROVE  ScholarshipInv'
<1>1. /\ Idle /\ redemption[<<l, m>>] = 0 /\ cost[m] # None
      /\ Credits(SpendableGrants(l)) >= cost[m]
      /\ redeeming' = [learner |-> l, material |-> m, ids |-> list[l],
                       left |-> cost[m]]
      /\ UNCHANGED <<ledger, issuers, cost, on_sale, nonce, grant, list, balance,
                     revoked, entitled, redemption>>
  BY DEF RedeemBegin, BalanceSuffices, platformVars, accessVars, grantVars
<1>2. cost[m] \in Nat \ {0} /\ list[l] \in Seq(GrantIds)
  BY <1>1, ScholarshipConstants DEF ScholarshipInv, TypeOK
<1>3. /\ redeeming'.learner = l /\ redeeming'.material = m
      /\ redeeming'.ids = list[l] /\ redeeming'.left = cost[m]
  BY <1>1
<1>4. TypeOK'
  <2>1. redeeming'.left \in Nat
    BY <1>2, <1>3
  <2> QED
    BY <1>1, <2>1 DEF ScholarshipInv, TypeOK
<1>5. LoopShape'
  BY <1>1, <1>2 DEF LoopShape
<1>6. UnissuedAreNone' /\ OpenWhileCreditsRemain' /\ ListNamesOpenGrants'
  BY <1>1 DEF ScholarshipInv, UnissuedAreNone, OpenWhileCreditsRemain,
              ListNamesOpenGrants, Grants, GrantsOf, StoredGrants
<1>7. LoopSound'
  <2>1. StoredGrants(l) = Members(list[l]) /\ StoredGrants(l) \subseteq GrantsOf(l)
    BY DEF StoredGrants, Members, ScholarshipInv, ListNamesOpenGrants
  <2>2. StoredGrants(l)' = StoredGrants(l) /\ GrantsOf(l)' = GrantsOf(l)
    BY <1>1 DEF StoredGrants, GrantsOf, Grants
  <2>3. cost[m] <= cost[m]
    BY <1>2
  <2>4. Members(redeeming.ids)' = Members(list[l])
    BY <1>3 DEF Members
  <2>5. StoredGrants(redeeming.learner)' = StoredGrants(l)
    BY <1>3, <2>2 DEF StoredGrants
  <2>6. GrantsOf(redeeming.learner)' = GrantsOf(l)
    BY <1>3, <2>2 DEF GrantsOf
  <2> QED
    BY <1>1, <1>3, <2>1, <2>3, <2>4, <2>5, <2>6 DEF LoopSound
<1>8. RedemptionIsCovered'
  <2>1. Credits(SpendableGrants(redeeming.learner))' = Credits(SpendableGrants(l))
    BY <1>1, <1>3 DEF Credits, SpendableGrants, Spendable, Expired, StoredGrants
  <2> QED
    BY <1>1, <1>3, <2>1 DEF RedemptionIsCovered
<1>9. ASSUME NEW k \in Learners PROVE TotalsOf(k)'
  <2>1. /\ HeldBy(k)' = HeldBy(k) /\ IssuedTo(k)' = IssuedTo(k)
        /\ RedeemedFor(k)' = RedeemedFor(k)
    BY <1>1 DEF HeldBy, IssuedTo, RedeemedFor, GrantsOf, Grants
  <2>2. Drawn(k)' = 0
    BY <1>1, <1>2, <1>3 DEF Drawn
  <2>3. Drawn(k) = 0
    BY <1>1, IdleDrawsNothing
  <2> QED
    BY <1>1, <2>1, <2>2, <2>3, TotalsAdd DEF TotalsOf
<1> QED
  BY <1>4, <1>5, <1>6, <1>7, <1>8, <1>9, TotalsSuffice DEF ScholarshipInv

\* The scan finds a grant that no other candidate expires before: there is
\* one, since expiries are numbers and a grant without expiry displaces none.
LEMMA BestIsEarliest ==
    ASSUME ScholarshipInv, NEW ids \in Seq(GrantIds), Members(ids) \subseteq Grants,
           \E i \in DOMAIN ids : Spendable(ids[i])
    PROVE  /\ BestIdx(ids) \in DOMAIN ids
           /\ Spendable(ids[BestIdx(ids)])
           /\ \A j \in DOMAIN ids : Spendable(ids[j]) =>
                ~ Dominates(grant[ids[j]].expires_at,
                            grant[ids[BestIdx(ids)]].expires_at)
<1> DEFINE candidates == {i \in DOMAIN ids : Spendable(ids[i])}
           expiry(i) == grant[ids[i]].expires_at
           first == {i \in candidates : \A j \in candidates :
                       ~ Dominates(expiry(j), expiry(i))}
           dated == {i \in candidates : expiry(i) # None}
           dates == {expiry(i) : i \in dated}
<1>1. BestIdx(ids) = Min(first)
  BY DEF BestIdx
<1>2. candidates # {} /\ candidates \subseteq DOMAIN ids /\ DOMAIN ids \subseteq Nat
  OBVIOUS
<1>3. ASSUME NEW i \in candidates
      PROVE  expiry(i) = None \/ expiry(i) \in Nat
  <2>1. ids[i] \in Grants
    BY DEF Members
  <2>2. expiry(i) \in Expiries \cup {None}
    BY <2>1, GrantTypes DEF ScholarshipInv
  <2> QED
    BY <2>2, ScholarshipConstants DEF Expiries
<1> HIDE DEF candidates, expiry
<1>4. first # {}
  <2>1. CASE dated = {}
    <3>1. PICK i \in candidates : TRUE
      BY <1>2
    <3>2. \A j \in candidates : expiry(j) = None
      BY <2>1
    <3> QED
      BY <3>1, <3>2 DEF Dominates
  <2>2. CASE dated # {}
    <3>1. dates \in SUBSET Nat /\ dates # {}
      BY <2>2, <1>3
    <3>2. PICK e \in dates : \A d \in dates : e <= d
      BY <3>1, SmallestNumber
    <3>3. PICK i \in dated : expiry(i) = e
      BY <3>2
    <3>4. ASSUME NEW j \in candidates, Dominates(expiry(j), expiry(i)) PROVE FALSE
      <4>1. expiry(i) # None /\ expiry(j) # None /\ expiry(j) < expiry(i)
        BY <3>3, <3>4 DEF Dominates
      <4>2. expiry(j) \in dates
        BY <4>1
      <4>3. e <= expiry(j) /\ e \in Nat /\ expiry(j) \in Nat
        BY <3>1, <3>2, <4>2
      <4> QED
        BY <3>3, <4>1, <4>3
    <3>5. i \in first
      BY <3>3, <3>4
    <3> QED
      BY <3>5
  <2> QED
    BY <2>1, <2>2
<1>5. first \subseteq candidates /\ first \in SUBSET Nat
  BY <1>2
<1>6. Min(first) \in first
  <2> HIDE DEF first
  <2>1. \E n \in first : \A k \in first : n <= k
    BY <1>4, <1>5, SmallestNumber
  <2> QED
    BY <2>1 DEF Min
<1>7. /\ BestIdx(ids) \in candidates
      /\ \A j \in candidates : ~ Dominates(expiry(j), expiry(BestIdx(ids)))
  BY <1>1, <1>6
<1> QED
  BY <1>7 DEF candidates, expiry

\* What one iteration does: a spendable grant of the learner, which none
\* expires before, gives as much as it has or as is still owed.
LEMMA ConsumeDraws ==
    ASSUME ScholarshipInv, ConsumeStep
    PROVE  \E g \in GrantIds, take \in Nat :
             /\ redeeming.learner \in Learners /\ redeeming.material \in Materials
             /\ ~ Idle
             /\ g \in StoredGrants(redeeming.learner)
             /\ Spendable(g)
             /\ \A h \in SpendableGrants(redeeming.learner) :
                  ~ Dominates(grant[h].expires_at, grant[g].expires_at)
             /\ take = Take(redeeming.left, grant[g].remaining_credits)
             /\ take > 0
             /\ DrawnTo(g, redeeming.learner, grant[g].remaining_credits - take)
             /\ redeeming' = [redeeming EXCEPT !.left = @ - take]
             /\ UNCHANGED <<ledger, issuers, cost, on_sale, nonce, balance,
                            entitled, redemption, revoked>>
<1>1. redeeming.left > 0
  BY DEF ConsumeStep
<1>2. ~ Idle
  BY <1>1 DEF Idle, NotRedeeming
<1>3. redeeming \in [learner : Learners, material : Materials,
                     ids : Seq(GrantIds), left : Nat]
  BY <1>2 DEF ScholarshipInv, LoopShape, Idle
<1>4. /\ redeeming.learner \in Learners /\ redeeming.material \in Materials
      /\ redeeming.ids \in Seq(GrantIds) /\ redeeming.left \in Nat
  BY <1>3
<1>5. PICK ids : ids = redeeming.ids
  OBVIOUS
<1>6. PICK l : l = redeeming.learner
  OBVIOUS
<1>7. /\ ids \in Seq(GrantIds)
      /\ Members(ids) \subseteq GrantsOf(l)
      /\ StoredGrants(l) \subseteq Members(ids)
      /\ l \in Learners
  BY <1>2, <1>4, <1>5, <1>6 DEF ScholarshipInv, LoopSound
<1>8. Members(ids) \subseteq Grants
  BY <1>7 DEF GrantsOf
<1>9. \E i \in DOMAIN ids : Spendable(ids[i])
  BY <1>5 DEF ConsumeStep
<1>10. PICK b : b = BestIdx(ids)
  OBVIOUS
<1>11. /\ b \in DOMAIN ids
       /\ Spendable(ids[b])
       /\ \A j \in DOMAIN ids : Spendable(ids[j]) =>
            ~ Dominates(grant[ids[j]].expires_at, grant[ids[b]].expires_at)
  BY <1>7, <1>8, <1>9, <1>10, BestIsEarliest
<1>12. PICK g : g = ids[b]
  OBVIOUS
<1>13. /\ g \in GrantsOf(l) /\ g \in Grants /\ g \in GrantIds
       /\ grant[g].remaining_credits \in Nat
  <2>1. g \in Members(ids)
    BY <1>11, <1>12 DEF Members
  <2>2. g \in GrantsOf(l) /\ g \in Grants
    BY <2>1, <1>7, <1>8
  <2> QED
    BY <2>2, GrantTypes DEF ScholarshipInv
<1>14. Spendable(g) /\ grant[g].active /\ grant[g].remaining_credits > 0
  BY <1>11, <1>12 DEF Spendable
<1>15. g \in StoredGrants(l) /\ l = grant[g].learner
  BY <1>7, <1>13, <1>14 DEF GrantsOf, ScholarshipInv, ListNamesOpenGrants
<1>16. ASSUME NEW h \in SpendableGrants(l)
       PROVE  ~ Dominates(grant[h].expires_at, grant[g].expires_at)
  <2>1. Spendable(h) /\ h \in Members(ids)
    BY <1>7 DEF SpendableGrants
  <2>2. PICK j \in DOMAIN ids : ids[j] = h
    BY <2>1 DEF Members
  <2> QED
    BY <1>11, <1>12, <2>1, <2>2
<1>17. PICK take : take = Take(redeeming.left, grant[g].remaining_credits)
  OBVIOUS
<1>18. take \in Nat /\ take > 0 /\ take <= grant[g].remaining_credits
  BY <1>1, <1>4, <1>13, <1>14, <1>17 DEF Take
<1>19. PICK rest : rest = grant[g].remaining_credits - take
  OBVIOUS
<1>20. rest \in Nat /\ rest <= grant[g].remaining_credits
  BY <1>13, <1>18, <1>19
<1>21. /\ grant' = [grant EXCEPT ![g].remaining_credits = rest,
                                 ![g].active = (rest # 0)]
       /\ list' = IF rest = 0 THEN [list EXCEPT ![l] = Without(@, g)] ELSE list
       /\ redeeming' = [redeeming EXCEPT !.left = @ - take]
       /\ UNCHANGED <<ledger, issuers, cost, on_sale, nonce, balance,
                      entitled, redemption, revoked>>
  BY <1>5, <1>6, <1>10, <1>12, <1>17, <1>19
     DEF ConsumeStep, AfterDraw, platformVars, accessVars
<1>22. DrawnTo(g, l, rest)
  BY <1>13, <1>14, <1>15, <1>20, <1>21 DEF DrawnTo
<1> QED
  BY <1>2, <1>4, <1>6, <1>13, <1>14, <1>15, <1>16, <1>17, <1>18, <1>19, <1>21, <1>22

\* An iteration pays what it owes in full, or empties the grant it draws on.
LEMMA ConsumeKeeps ==
    ASSUME ScholarshipInv, ConsumeStep
    PROVE  ScholarshipInv'
<1>1. PICK g \in GrantIds, take \in Nat :
        /\ redeeming.learner \in Learners /\ redeeming.material \in Materials
        /\ ~ Idle
        /\ g \in StoredGrants(redeeming.learner)
        /\ Spendable(g)
        /\ take = Take(redeeming.left, grant[g].remaining_credits)
        /\ take > 0
        /\ DrawnTo(g, redeeming.learner, grant[g].remaining_credits - take)
        /\ redeeming' = [redeeming EXCEPT !.left = @ - take]
        /\ UNCHANGED <<ledger, issuers, cost, on_sale, nonce, balance,
                       entitled, redemption, revoked>>
  BY ConsumeDraws
<1>2. PICK l, m, n, rest : /\ l = redeeming.learner /\ m = redeeming.material
                           /\ n = grant[g].remaining_credits /\ rest = n - take
  OBVIOUS
<1>3. /\ l \in Learners /\ m \in Materials
      /\ n \in Nat /\ rest \in Nat
      /\ DrawnTo(g, l, rest)
  <2>1. DrawnTo(g, l, rest)
    BY <1>1, <1>2
  <2>2. g \in Grants /\ rest \in Nat
    BY <2>1 DEF DrawnTo
  <2> QED
    BY <1>1, <1>2, <2>1, <2>2, GrantTypes DEF ScholarshipInv
<1>4. redeeming \in [learner : Learners, material : Materials,
                     ids : Seq(GrantIds), left : Nat]
  BY <1>1 DEF ScholarshipInv, LoopShape, Idle
<1>5. redeeming.left \in Nat /\ redeeming.left - take \in Nat
  <2>1. redeeming.left \in Nat
    BY <1>4
  <2>2. take <= redeeming.left
    BY <1>1, <1>2, <1>3, <2>1 DEF Take
  <2> QED
    BY <1>1, <2>1, <2>2
<1>6. /\ redeeming'.learner = l /\ redeeming'.material = m
      /\ redeeming'.ids = redeeming.ids
      /\ redeeming'.left = redeeming.left - take
      /\ redeeming' \in [learner : Learners, material : Materials,
                         ids : Seq(GrantIds), left : Nat]
  BY <1>1, <1>2, <1>4, <1>5
<1>7. TypeOK'
  <2>1. /\ grant' \in [GrantIds -> ScholarshipCreditGrant \cup {None}]
        /\ list' \in [Learners -> Seq(GrantIds)]
    BY <1>3, DrawnGrants, DrawnList
  <2>2. redeeming'.left \in Nat
    BY <1>5, <1>6
  <2> QED
    BY <1>1, <2>1, <2>2 DEF ScholarshipInv, TypeOK
<1>8. LoopShape'
  BY <1>6 DEF LoopShape
<1>9. ~ Idle /\ cost[m] # None /\ redeeming.left <= cost[m]
      /\ redemption[<<l, m>>] = 0
      /\ Members(redeeming.ids) \subseteq GrantsOf(l)
      /\ StoredGrants(l) \subseteq Members(redeeming.ids)
      /\ Credits(SpendableGrants(l)) >= redeeming.left
  BY <1>1, <1>2 DEF ScholarshipInv, LoopSound, RedemptionIsCovered
<1>10. cost[m] \in Nat
  BY <1>3, <1>9, ScholarshipConstants DEF ScholarshipInv, TypeOK
<1>11. LoopSound'
  <2>1. redeeming'.left <= cost'[m] /\ cost'[m] # None
    BY <1>1, <1>5, <1>6, <1>9, <1>10
  <2>2. StoredGrants(l)' \subseteq StoredGrants(l) /\ GrantsOf(l)' = GrantsOf(l)
    BY <1>3, DrawnList, DrawnGrants
  <2>3. /\ StoredGrants(redeeming.learner)' = StoredGrants(l)'
        /\ GrantsOf(redeeming.learner)' = GrantsOf(l)'
        /\ Members(redeeming.ids)' = Members(redeeming.ids)
    BY <1>6 DEF StoredGrants, GrantsOf, Members
  <2> QED
    BY <1>1, <1>6, <1>9, <2>1, <2>2, <2>3 DEF LoopSound
<1>12. RedemptionIsCovered'
  <2>1. SUFFICES Credits(SpendableGrants(l))' >= redeeming'.left
    <3>1. Credits(SpendableGrants(redeeming.learner))' = Credits(SpendableGrants(l))'
      BY <1>6 DEF Credits, SpendableGrants, StoredGrants
    <3> QED
      BY <3>1 DEF RedemptionIsCovered
  <2>2. PICK f, h : f = SpendableBy(l) /\ h = SpendableBy(l)'
    OBVIOUS
  <2>3. f \in [GrantIds -> Nat]
    BY <1>3, <2>2, TypesOfSums DEF ScholarshipInv
  <2>4. g \in SpendableGrants(l)
    BY <1>1, <1>2 DEF SpendableGrants
  <2>5. f[g] = n
    BY <1>2, <2>2, <2>4 DEF SpendableBy
  <2>6. \A x \in GrantIds : x # g =>
          /\ grant'[x] = grant[x]
          /\ x \in StoredGrants(l)' <=> x \in StoredGrants(l)
    BY <1>3, DrawnGrants, DrawnList
  <2>7. \A x \in GrantIds : x # g =>
          (x \in SpendableGrants(l)' <=> x \in SpendableGrants(l))
    BY <1>1, <2>6 DEF SpendableGrants, Spendable, Expired
  <2>8. \A x \in GrantIds : x # g => h[x] = f[x]
    BY <2>2, <2>6, <2>7 DEF SpendableBy
  <2>9. h[g] = rest
    <3>1. grant'[g].remaining_credits = rest
      BY <1>3, DrawnGrants
    <3>2. CASE rest = 0
      BY <2>2, <3>1, <3>2 DEF SpendableBy
    <3>3. CASE rest # 0
      <4>1. /\ grant'[g].active = TRUE
            /\ grant'[g].expires_at = grant[g].expires_at
            /\ g \in StoredGrants(l)'
        <5>1. StoredGrants(l)' = StoredGrants(l)
          BY <1>3, <3>3, DrawnList
        <5>2. grant'[g].active = (rest # 0)
          BY <1>3, DrawnGrants
        <5>3. grant'[g].expires_at = grant[g].expires_at
          BY <1>3, DrawnGrants
        <5>4. g \in StoredGrants(l)
          BY <1>1, <1>2
        <5> QED
          BY <3>3, <5>1, <5>2, <5>3, <5>4
      <4>2. rest > 0
        BY <1>3, <3>3
      <4>3. g \in SpendableGrants(l)'
        BY <1>1, <3>1, <4>1, <4>2 DEF SpendableGrants, Spendable, Expired
      <4> QED
        BY <2>2, <3>1, <4>3 DEF SpendableBy
    <3> QED
      BY <3>2, <3>3
  <2>10. h \in [GrantIds -> Nat]
    <3>1. h = [x \in GrantIds |-> h[x]]
      BY <2>2 DEF SpendableBy
    <3>2. \A x \in GrantIds : h[x] \in Nat
      BY <1>3, <2>3, <2>8, <2>9
    <3> QED
      BY <3>1, <3>2
  <2>11. SumFunction(h) = SumFunction(f) - f[g] + h[g]
    <3>1. \A x \in GrantIds : x # g => f[x] = h[x]
      BY <2>8
    <3> QED
      BY <2>3, <2>10, <3>1, GrantTotalChangesOne
  <2>12. /\ Credits(SpendableGrants(l)) = SumFunction(f)
         /\ Credits(SpendableGrants(l))' = SumFunction(h)
    BY <2>2, SumsOfGrants
  <2>13. SumFunction(f) \in Nat
    BY <2>3, FiniteGrantIds, TotalType
  <2>14. SumFunction(h) = SumFunction(f) - take
    BY <1>1, <1>2, <1>3, <2>5, <2>9, <2>11, <2>13
  <2> QED
    BY <1>1, <1>5, <1>6, <1>9, <2>12, <2>13, <2>14
<1>13. ASSUME NEW k \in Learners PROVE TotalsOf(k)'
  <2>1. RedeemedFor(k)' = RedeemedFor(k) /\ revoked' = revoked /\ balance' = balance
    BY <1>1 DEF RedeemedFor
  <2>2. IssuedTo(k)' = IssuedTo(k)
    BY <1>3, DrawnTotals
  <2>3. /\ SumFunction(HeldBy(k)) \in Nat
        /\ SumFunction(IssuedTo(k)) \in Nat
        /\ SumFunction(RedeemedFor(k)) \in Nat
        /\ revoked[k] \in Nat
        /\ balance[k] = SumFunction(HeldBy(k)) + Drawn(k)
        /\ SumFunction(IssuedTo(k)) =
             SumFunction(HeldBy(k)) + revoked[k] + Drawn(k)
               + SumFunction(RedeemedFor(k))
    <3>1. revoked[k] \in Nat
      BY DEF ScholarshipInv, TypeOK
    <3> QED
      BY <3>1, TotalsAdd
  <2>4. CASE k = l
    <3>1. SumFunction(HeldBy(k)') = SumFunction(HeldBy(k)) - n + rest
      BY <1>2, <1>3, <2>4, DrawnTotals
    <3>2. /\ Drawn(k) = cost[m] - redeeming.left
          /\ Drawn(k)' = cost[m] - (redeeming.left - take)
      BY <1>1, <1>2, <1>6, <2>4 DEF Drawn
    <3>3. SumFunction(HeldBy(k)') = SumFunction(HeldBy(k)) - take
      BY <1>1, <1>2, <1>3, <2>3, <3>1
    <3>4. Drawn(k) \in Int /\ Drawn(k)' = Drawn(k) + take
      BY <1>1, <1>5, <1>10, <3>2
    <3>5. balance[k] = SumFunction(HeldBy(k)') + Drawn(k)'
      BY <1>1, <2>3, <3>3, <3>4
    <3>6. SumFunction(IssuedTo(k)) =
            SumFunction(HeldBy(k)') + revoked[k] + Drawn(k)' + SumFunction(RedeemedFor(k))
      BY <1>1, <2>3, <3>3, <3>4
    <3> QED
      BY <2>1, <2>2, <3>5, <3>6 DEF TotalsOf
  <2>5. CASE k # l
    <3>1. HeldBy(k)' = HeldBy(k)
      BY <1>3, <2>5, DrawnTotals
    <3>2. Drawn(k)' = Drawn(k)
      BY <1>2, <1>6, <2>5 DEF Drawn
    <3> QED
      BY <2>1, <2>2, <2>3, <3>1, <3>2 DEF TotalsOf
  <2> QED
    BY <2>4, <2>5
<1> QED
  BY <1>3, <1>7, <1>8, <1>11, <1>12, <1>13, DrawnKeeps, TotalsSuffice
     DEF ScholarshipInv

\* The balance loses the price when the grants have given all of it.
LEMMA FinishKeeps ==
    ASSUME ScholarshipInv, RedeemFinish
    PROVE  ScholarshipInv'
<1>1. PICK l, m : l = redeeming.learner /\ m = redeeming.material
  OBVIOUS
<1>2. /\ ~ Idle /\ redeeming.left = 0
      /\ balance' = [balance EXCEPT ![l] = @ - cost[m]]
      /\ entitled' = entitled \cup {<<l, m>>}
      /\ redemption' = [redemption EXCEPT ![<<l, m>>] = cost[m]]
      /\ redeeming' = NotRedeeming
      /\ UNCHANGED <<ledger, issuers, cost, on_sale, nonce, grant, list, revoked>>
  BY <1>1 DEF RedeemFinish, platformVars
<1>3. redeeming \in [learner : Learners, material : Materials,
                     ids : Seq(GrantIds), left : Nat]
  BY <1>2 DEF ScholarshipInv, LoopShape, Idle
<1>4. l \in Learners /\ m \in Materials
  BY <1>1, <1>3
<1>5. cost[m] # None /\ redemption[<<l, m>>] = 0
  BY <1>1, <1>2 DEF ScholarshipInv, LoopSound
<1>6. cost[m] \in Nat
  BY <1>4, <1>5, ScholarshipConstants DEF ScholarshipInv, TypeOK
<1>7. Drawn(l) = cost[m]
  BY <1>1, <1>2, <1>6 DEF Drawn
<1>8. ASSUME NEW k \in Learners
      PROVE  /\ SumFunction(HeldBy(k)) \in Nat
             /\ SumFunction(IssuedTo(k)) \in Nat
             /\ SumFunction(RedeemedFor(k)) \in Nat
             /\ revoked[k] \in Nat
             /\ balance[k] = SumFunction(HeldBy(k)) + Drawn(k)
             /\ SumFunction(IssuedTo(k)) =
                  SumFunction(HeldBy(k)) + revoked[k] + Drawn(k)
                    + SumFunction(RedeemedFor(k))
  <2>1. revoked[k] \in Nat
    BY DEF ScholarshipInv, TypeOK
  <2> QED
    BY <2>1, TotalsAdd
<1>9. balance[l] - cost[m] = SumFunction(HeldBy(l))
  BY <1>4, <1>6, <1>7, <1>8
<1>10. /\ balance \in [Learners -> Nat]
       /\ redemption \in [Learners \X Materials -> Nat]
       /\ <<l, m>> \in Learners \X Materials
  BY <1>4 DEF ScholarshipInv, TypeOK
<1>11. Idle' /\ LoopShape'
  BY <1>2 DEF Idle, LoopShape
<1>12. TypeOK'
  <2>1. balance' \in [Learners -> Nat]
    BY <1>2, <1>4, <1>8, <1>9, <1>10
  <2>2. redemption' \in [Learners \X Materials -> Nat]
    BY <1>2, <1>6, <1>10
  <2>3. redeeming'.left \in Nat
    BY <1>2 DEF NotRedeeming
  <2>4. entitled' \subseteq Learners \X Materials
    BY <1>2, <1>10 DEF ScholarshipInv, TypeOK
  <2> QED
    BY <1>2, <2>1, <2>2, <2>3, <2>4 DEF ScholarshipInv, TypeOK
<1>13. UnissuedAreNone' /\ OpenWhileCreditsRemain' /\ ListNamesOpenGrants'
  BY <1>2 DEF ScholarshipInv, UnissuedAreNone, OpenWhileCreditsRemain,
              ListNamesOpenGrants, Grants, GrantsOf, StoredGrants
<1>14. LoopSound' /\ RedemptionIsCovered'
  BY <1>11 DEF LoopSound, RedemptionIsCovered
<1>15. ASSUME NEW k \in Learners PROVE TotalsOf(k)'
  <2>1. HeldBy(k)' = HeldBy(k) /\ IssuedTo(k)' = IssuedTo(k)
    BY <1>2 DEF HeldBy, IssuedTo, GrantsOf, Grants
  <2>2. Drawn(k)' = 0
    BY <1>2, NoLearnerIsNone DEF Drawn, NotRedeeming
  <2>3. CASE k = l
    <3>1. balance'[k] = SumFunction(HeldBy(k))
      BY <1>2, <1>4, <1>9, <1>10, <2>3
    <3>2. PICK f, h : f = RedeemedFor(l) /\ h = RedeemedFor(l)'
      OBVIOUS
    <3>3. f \in [Materials -> Nat] /\ f[m] = 0
      BY <1>4, <1>5, <1>10, <3>2 DEF RedeemedFor
    <3>4. h = [x \in Materials |-> IF x = m THEN cost[m] ELSE f[x]]
      BY <1>2, <1>4, <1>10, <3>2 DEF RedeemedFor
    <3>5. h \in [Materials -> Nat] /\ h[m] = cost[m]
      BY <1>4, <1>6, <3>3, <3>4
    <3>6. \A x \in Materials : x # m => f[x] = h[x]
      BY <3>4
    <3>7. SumFunction(h) = SumFunction(f) - f[m] + h[m]
      BY <1>4, <3>3, <3>5, <3>6, MaterialTotalChangesOne
    <3>8. SumFunction(f) \in Nat
      BY <1>8, <2>3, <3>2
    <3>9. SumFunction(RedeemedFor(k)') = SumFunction(RedeemedFor(k)) + cost[m]
      BY <1>6, <2>3, <3>2, <3>3, <3>5, <3>7, <3>8
    <3> QED
      BY <1>2, <1>6, <1>7, <1>8, <2>1, <2>2, <2>3, <3>1, <3>9 DEF TotalsOf
  <2>4. CASE k # l
    <3>1. balance'[k] = balance[k]
      BY <1>2, <1>10, <2>4
    <3>2. Drawn(k) = 0
      BY <1>1, <2>4 DEF Drawn
    <3>3. RedeemedFor(k)' = RedeemedFor(k)
      BY <1>2, <1>10, <2>4 DEF RedeemedFor
    <3> QED
      BY <1>2, <1>8, <2>1, <2>2, <3>1, <3>2, <3>3 DEF TotalsOf
  <2> QED
    BY <2>3, <2>4
<1> QED
  BY <1>11, <1>12, <1>13, <1>14, <1>15, TotalsSuffice DEF ScholarshipInv

-----------------------------------------------------------------------------
(* The theorems. *)

\* Every step keeps the invariant.
LEMMA ScholarshipStep ==
    ASSUME ScholarshipInv, [Next]_vars
    PROVE  ScholarshipInv'
<1>1. ASSUME NEW l \in Learners, LearnerStep(l) PROVE ScholarshipInv'
  <2>1. ASSUME NEW m \in Materials, RedeemBegin(l, m) PROVE ScholarshipInv'
    BY <2>1, BeginKeeps
  <2>2. ASSUME NEW m \in Materials, PurchaseOrRefund(l, m) PROVE ScholarshipInv'
    <3>1. /\ Idle
          /\ UNCHANGED <<ledger, issuers, cost, on_sale, nonce, grant, list, balance,
                         redemption, redeeming, revoked>>
      BY <2>2 DEF PurchaseOrRefund, platformVars, grantVars
    <3>2. entitled' \subseteq Learners \X Materials
      BY <2>2 DEF PurchaseOrRefund, ScholarshipInv, TypeOK
    <3>3. TypeOK'
      BY <3>1, <3>2 DEF ScholarshipInv, TypeOK
    <3> QED
      BY <3>1, <3>3, GrantsLeftAlone
  <2>3. ASSUME NEW i \in Issuers, NEW n \in Amounts, NEW e \in Expiries \cup {None},
               IssueScholarshipCredits(i, l, n, e)
        PROVE  ScholarshipInv'
    BY <2>3, IssueKeeps
  <2> QED
    BY <1>1, <2>1, <2>2, <2>3 DEF LearnerStep
<1>2. ASSUME NEW g \in GrantIds, RevokeScholarshipGrant(g) PROVE ScholarshipInv'
  BY <1>2, RevokeKeeps
<1>3. ASSUME ConsumeStep PROVE ScholarshipInv'
  BY <1>3, ConsumeKeeps
<1>4. ASSUME RedeemFinish PROVE ScholarshipInv'
  BY <1>4, FinishKeeps
<1>5. ASSUME PlatformStep PROVE ScholarshipInv'
  <2>1. /\ Idle
        /\ UNCHANGED <<nonce, grant, list, balance, redemption, redeeming, revoked,
                       entitled>>
    BY <1>5 DEF PlatformStep, SetScholarshipIssuer, SetScholarshipCreditCost,
                SetMaterialOnSale, CloseLedger, grantVars, accessVars
  <2>2. /\ ledger' \in 0..MaxLedger
        /\ issuers' \subseteq Issuers
        /\ cost' \in [Materials -> Costs \cup {None}]
        /\ on_sale' \subseteq Materials
    <3>1. ASSUME NEW i \in Issuers, NEW v \in BOOLEAN, SetScholarshipIssuer(i, v)
          PROVE  <2>2!:
      BY <3>1 DEF SetScholarshipIssuer, ScholarshipInv, TypeOK
    <3>2. ASSUME NEW m \in Materials, NEW c \in Costs, SetScholarshipCreditCost(m, c)
          PROVE  <2>2!:
      BY <3>2 DEF SetScholarshipCreditCost, ScholarshipInv, TypeOK
    <3>3. ASSUME NEW m \in Materials, NEW v \in BOOLEAN, SetMaterialOnSale(m, v)
          PROVE  <2>2!:
      BY <3>3 DEF SetMaterialOnSale, ScholarshipInv, TypeOK
    <3>4. ASSUME CloseLedger PROVE <2>2!:
      BY <3>4, ScholarshipConstants DEF CloseLedger, platformVars, ScholarshipInv, TypeOK
    <3> QED
      BY <1>5, <3>1, <3>2, <3>3, <3>4 DEF PlatformStep
  <2>3. TypeOK'
    BY <2>1, <2>2 DEF ScholarshipInv, TypeOK
  <2> QED
    BY <2>1, <2>3, GrantsLeftAlone
<1>6. ASSUME UNCHANGED vars PROVE ScholarshipInv'
  <2>1. UNCHANGED <<ledger, issuers, cost, on_sale, nonce, grant, list, balance,
                    entitled, redemption, redeeming, revoked>>
    BY <1>6 DEF vars
  <2>2. TypeOK'
    BY <2>1 DEF ScholarshipInv, TypeOK
  <2> QED
    BY <2>1, <2>2, GrantsLeftAlone
<1> QED
  BY <1>1, <1>2, <1>3, <1>4, <1>5, <1>6 DEF Next

\* The invariant holds of every reachable state.
LEMMA ScholarshipSound == Spec => []ScholarshipInv
<1>1. Init => ScholarshipInv
  BY InitScholarship
<1>2. ScholarshipInv /\ [Next]_vars => ScholarshipInv'
  BY ScholarshipStep
<1> QED
  BY <1>1, <1>2, PTL DEF Spec

\* The three representations of a learner's credits add up after every call:
\* issue, revoke and redeem keep the grants, the stored aggregate and the
\* records of what was used in step, whatever the amounts and expiries.
THEOREM CreditsAlwaysAddUp == Spec => []CreditsAddUp
<1>1. ScholarshipInv => CreditsAddUp
  BY DEF ScholarshipInv, CreditsAddUp
<1> QED
  BY <1>1, ScholarshipSound, PTL

\* The list a redemption scans names every open grant of the learner once, and
\* the loop of consume_scholarship_credits never runs out of spendable credits.
THEOREM RedemptionsAreCovered == Spec => []GrantsCoverRedemption
<1>1. ASSUME ScholarshipInv PROVE ListIsOpenGrants
  <2>1. ASSUME NEW l \in Learners
        PROVE  /\ StoredGrants(l) = {g \in GrantsOf(l) : grant[g].active}
               /\ Cardinality(StoredGrants(l)) = Len(list[l])
               /\ \A g \in GrantsOf(l) :
                    grant[g].active <=> grant[g].remaining_credits > 0
    <3>1. NoRepeats(list[l]) /\ StoredGrants(l) = {g \in GrantsOf(l) : grant[g].active}
      BY <1>1 DEF ScholarshipInv, ListNamesOpenGrants
    <3>2. list[l] \in Seq(GrantIds)
      BY <1>1 DEF ScholarshipInv, TypeOK
    <3>3. Cardinality(Members(list[l])) = Len(list[l])
      BY <3>1, <3>2, AsManyMembersAsPlaces
    <3>4. StoredGrants(l) = Members(list[l])
      BY DEF StoredGrants, Members
    <3>5. \A g \in GrantsOf(l) : grant[g].active <=> grant[g].remaining_credits > 0
      BY <1>1 DEF ScholarshipInv, OpenWhileCreditsRemain, GrantsOf
    <3> QED
      BY <3>1, <3>3, <3>4, <3>5
  <2> QED
    BY <2>1 DEF ListIsOpenGrants
<1>2. ScholarshipInv => GrantsCoverRedemption
  BY <1>1 DEF ScholarshipInv, GrantsCoverRedemption
<1> QED
  BY <1>2, ScholarshipSound, PTL

\* A grant is drawn on only while it is spendable and while no spendable grant
\* of the learner expires before it.
THEOREM DrawsEarliestExpiryFirst == Spec => EarliestExpiryFirst
<1>1. ASSUME ScholarshipInv, [Next]_vars, NEW g \in GrantIds, DrawnOn(g)
      PROVE  /\ Spendable(g) /\ grant[g].learner = redeeming.learner
             /\ \A h \in GrantsOf(redeeming.learner) :
                  Spendable(h) /\ grant[h].expires_at # None =>
                    /\ grant[g].expires_at # None
                    /\ grant[g].expires_at <= grant[h].expires_at
  <2>1. redeeming.left > redeeming'.left /\ g \in Grants
        /\ grant'[g].remaining_credits < grant[g].remaining_credits
    BY <1>1 DEF DrawnOn
  <2>2. grant[g].remaining_credits \in Nat /\ redeeming.left \in Nat
    BY <1>1, <2>1, GrantTypes DEF ScholarshipInv, TypeOK
  <2>3. grant' # grant
    BY <2>1, <2>2
  <2>4. redeeming' # redeeming
    BY <2>1, <2>2
  <2>5. ConsumeStep
    BY <1>1, <2>3, <2>4
       DEF Next, vars, LearnerStep, RedeemBegin, PurchaseOrRefund,
           IssueScholarshipCredits, RevokeScholarshipGrant, RedeemFinish,
           PlatformStep, SetScholarshipIssuer, SetScholarshipCreditCost,
           SetMaterialOnSale, CloseLedger, grantVars
  <2>6. PICK x \in GrantIds, take \in Nat :
          /\ redeeming.learner \in Learners
          /\ x \in StoredGrants(redeeming.learner)
          /\ Spendable(x)
          /\ \A h \in SpendableGrants(redeeming.learner) :
               ~ Dominates(grant[h].expires_at, grant[x].expires_at)
          /\ DrawnTo(x, redeeming.learner, grant[x].remaining_credits - take)
    BY <1>1, <2>5, ConsumeDraws
  <2>7. \A h \in GrantIds : h # x => grant'[h] = grant[h]
    BY <1>1, <2>6, DrawnGrants
  <2>8. g = x
    <3>1. grant'[g] # grant[g]
      BY <2>1, <2>2
    <3> QED
      BY <2>7, <3>1
  <2>9. grant[g].learner = redeeming.learner
    BY <2>6, <2>8 DEF DrawnTo
  <2>10. ASSUME NEW h \in GrantsOf(redeeming.learner), Spendable(h),
                grant[h].expires_at # None
         PROVE  /\ grant[g].expires_at # None
                /\ grant[g].expires_at <= grant[h].expires_at
    <3>1. h \in SpendableGrants(redeeming.learner)
      BY <1>1, <2>6, <2>10
         DEF Spendable, SpendableGrants, ScholarshipInv, ListNamesOpenGrants
    <3>2. ~ Dominates(grant[h].expires_at, grant[g].expires_at)
      BY <2>6, <2>8, <3>1
    <3>3. grant[g].expires_at # None /\ ~ (grant[h].expires_at < grant[g].expires_at)
      BY <2>10, <3>2 DEF Dominates
    <3>4. h \in Grants
      BY DEF GrantsOf
    <3>5. /\ grant[h].expires_at \in Expiries \cup {None}
          /\ grant[g].expires_at \in Expiries \cup {None}
      BY <1>1, <2>1, <3>4, GrantTypes DEF ScholarshipInv
    <3>6. grant[h].expires_at \in Nat /\ grant[g].expires_at \in Nat
      BY <2>10, <3>3, <3>5, ScholarshipConstants DEF Expiries
    <3> QED
      BY <3>3, <3>6
  <2> QED
    BY <2>6, <2>8, <2>9, <2>10
<1>2. ScholarshipInv /\ [Next]_vars =>
        [\A g \in GrantIds : DrawnOn(g) =>
           /\ Spendable(g) /\ grant[g].learner = redeeming.learner
           /\ \A h \in GrantsOf(redeeming.learner) :
                Spendable(h) /\ grant[h].expires_at # None =>
                  /\ grant[g].expires_at # None
                  /\ grant[g].expires_at <= grant[h].expires_at]_vars
  BY <1>1
<1> QED
  BY <1>2, ScholarshipSound, PTL DEF Spec, EarliestExpiryFirst

-----------------------------------------------------------------------------
(* Authority over the contract. *)

\* What accept_admin relies on without checking it again.
NominationIsDelayed ==
    pending # Absent =>
      pending.accept_after >= pending.initiated_at + MIN_ADMIN_TRANSFER_DELAY_SECS

AuthorityInv == AuthorityTypeOK /\ AuthorityIsSingle /\ NominationIsDelayed

\* A configuration that passes the checks of the contract is well typed.
LEMMA ValidIsConfig ==
    ASSUME NEW c \in ConfigRequests, ValidConfig(c)
    PROVE  c \in PlatformConfig
<1>1. c.treasury \in Treasuries \ {Contract} /\ c.paused \in BOOLEAN
  BY DEF ConfigRequests, ValidConfig
<1>2. c.platform_fee_bps \in 0..MAX_PLATFORM_FEE_BPS
  <2>1. c.platform_fee_bps \in Fees
    BY DEF ConfigRequests
  <2>2. c.platform_fee_bps \in Nat
    BY <2>1, AdminConstants
  <2>3. QED
    BY <2>2, AdminConstants DEF ValidConfig
<1>3. c = [treasury |-> c.treasury, platform_fee_bps |-> c.platform_fee_bps,
           paused |-> c.paused]
  BY DEF ConfigRequests
<1>4. QED
  BY <1>1, <1>2, <1>3 DEF PlatformConfig

\* initialize establishes the invariant: one administrator, nothing pending.
LEMMA InitAuthorityInv == AuthorityInit => AuthorityInv
<1>1. AuthorityInit => AuthorityTypeOK
  <2> SUFFICES ASSUME AuthorityInit PROVE AuthorityTypeOK
    OBVIOUS
  <2>1. config \in ConfigRequests /\ ValidConfig(config)
    BY DEF AuthorityInit
  <2>2. config \in PlatformConfig
    BY <2>1, ValidIsConfig
  <2>3. QED
    BY <2>2, AdminConstants DEF AuthorityInit, AuthorityTypeOK
<1>2. QED
  BY <1>1 DEF AuthorityInit, AuthorityInv, AuthorityIsSingle, NominationIsDelayed

\* transfer_admin records the caller, who holds the role, and a long enough
\* delay.
LEMMA TransferKeepsInv ==
    ASSUME AuthorityInv, NEW a \in Addresses, NEW b \in Addresses, NEW d \in Delays,
           TransferAdmin(a, b, d)
    PROVE  AuthorityInv'
<1>1. now \in Nat /\ d \in Nat /\ now + d \in Nat
  BY AdminConstants DEF AuthorityInv, AuthorityTypeOK
<1>2. pending' \in PendingAdminTransfer
  BY <1>1 DEF TransferAdmin, PendingAdminTransfer
<1>3. AuthorityTypeOK'
  BY <1>2 DEF AuthorityInv, AuthorityTypeOK, TransferAdmin
<1>4. AuthorityIsSingle'
  BY DEF AuthorityInv, AuthorityIsSingle, TransferAdmin
<1>5. NominationIsDelayed'
  BY <1>1, AdminConstants DEF NominationIsDelayed, TransferAdmin, DelayAllowed
<1>6. QED
  BY <1>3, <1>4, <1>5 DEF AuthorityInv

\* accept_admin moves the role from the one administrator there is.
LEMMA AcceptKeepsInv ==
    ASSUME AuthorityInv, NEW a \in Addresses, AcceptAdmin(a)
    PROVE  AuthorityInv' /\ admins' \subseteq {a}
<1>1. pending.from \in admins /\ \A x \in admins : x = pending.from
  BY DEF AuthorityInv, AuthorityIsSingle, AcceptAdmin
<1>2. admins' \subseteq {a}
  BY <1>1 DEF AcceptAdmin, RoleMoved
<1>3. AuthorityTypeOK'
  BY <1>2 DEF AuthorityInv, AuthorityTypeOK, AcceptAdmin
<1>4. QED
  BY <1>2, <1>3 DEF AuthorityInv, AuthorityIsSingle, NominationIsDelayed, AcceptAdmin

\* Calls that touch neither the role nor a pending transfer.
LEMMA ConfigKeepsInv ==
    ASSUME AuthorityInv, UNCHANGED <<admins, pending>>, now' \in 0..MaxTime,
           config' \in PlatformConfig,
           proposal' \in PendingPlatformConfigState \cup {Absent}
    PROVE  AuthorityInv'
BY DEF AuthorityInv, AuthorityTypeOK, AuthorityIsSingle, NominationIsDelayed

\* Every call preserves the invariant.
LEMMA NextAuthorityInv == AuthorityInv /\ [AuthorityNext]_authorityVars => AuthorityInv'
<1> SUFFICES ASSUME AuthorityInv, [AuthorityNext]_authorityVars PROVE AuthorityInv'
  OBVIOUS
<1> USE DEF AuthorityInv, AuthorityTypeOK
<1>1. ASSUME NEW a \in Addresses, NEW b \in Addresses, NEW d \in Delays,
             TransferAdmin(a, b, d)
      PROVE  AuthorityInv'
  BY <1>1, TransferKeepsInv
<1>2. ASSUME NEW a \in Addresses, AcceptAdmin(a) PROVE AuthorityInv'
  BY <1>2, AcceptKeepsInv
<1>3. ASSUME NEW a \in Addresses, CancelAdminTransfer(a) PROVE AuthorityInv'
  BY <1>3 DEF CancelAdminTransfer, AuthorityIsSingle, NominationIsDelayed
<1>4. ASSUME NEW a \in Addresses, NEW f \in Fees, UpdatePlatformFee(a, f)
      PROVE  AuthorityInv'
  <2>1. config' \in PlatformConfig
    BY <1>4, AdminConstants DEF UpdatePlatformFee, PlatformConfig, ValidConfig
  <2>2. QED
    BY <1>4, <2>1, ConfigKeepsInv DEF UpdatePlatformFee
<1>5. ASSUME NEW a \in Addresses, NEW v \in BOOLEAN, SetPaused(a, v) PROVE AuthorityInv'
  <2>1. config' \in PlatformConfig
    BY <1>5 DEF SetPaused, PlatformConfig
  <2>2. QED
    BY <1>5, <2>1, ConfigKeepsInv DEF SetPaused
<1>6. ASSUME NEW a \in Addresses, NEW c \in ConfigRequests,
             ProposePlatformConfig(a, c)
      PROVE  AuthorityInv'
  <2>1. c \in PlatformConfig
    BY <1>6, ValidIsConfig DEF ProposePlatformConfig
  <2>2. proposal' \in PendingPlatformConfigState
    BY <1>6, <2>1 DEF ProposePlatformConfig, PendingPlatformConfigState
  <2>3. QED
    BY <1>6, <2>2, ConfigKeepsInv DEF ProposePlatformConfig
<1>7. ASSUME NEW a \in Addresses, ApprovePlatformConfig(a) PROVE AuthorityInv'
  <2>1. config' \in PlatformConfig
    BY <1>7 DEF ApprovePlatformConfig, PendingPlatformConfigState
  <2>2. QED
    BY <1>7, <2>1, ConfigKeepsInv DEF ApprovePlatformConfig
<1>8. CASE TimePasses
  <2>1. now' \in 0..MaxTime
    BY <1>8, AdminConstants DEF TimePasses
  <2>2. QED
    BY <1>8, <2>1, ConfigKeepsInv DEF TimePasses
<1>9. CASE UNCHANGED authorityVars
  BY <1>9, ConfigKeepsInv DEF authorityVars
<1>10. QED
  BY <1>1, <1>2, <1>3, <1>4, <1>5, <1>6, <1>7, <1>8, <1>9 DEF AuthorityNext

\* The configuration stays valid: the fee is within MAX_PLATFORM_FEE_BPS and
\* the treasury is never the contract itself, by whichever call it was set.
THEOREM ConfigurationValid == AuthoritySpec => []AuthorityTypeOK
<1>1. AuthorityInv => AuthorityTypeOK
  BY DEF AuthorityInv
<1>2. QED
  BY <1>1, InitAuthorityInv, NextAuthorityInv, PTL DEF AuthoritySpec

\* Authority moves and never accumulates, for any number of addresses.
THEOREM OneAuthority == AuthoritySpec => []AuthorityIsSingle
<1>1. AuthorityInv => AuthorityIsSingle
  BY DEF AuthorityInv
<1>2. QED
  BY <1>1, InitAuthorityInv, NextAuthorityInv, PTL DEF AuthoritySpec

HandoverStep ==
    admins' # admins =>
      /\ pending # Absent
      /\ now >= pending.initiated_at + MIN_ADMIN_TRANSFER_DELAY_SECS
      /\ admins' = {pending.candidate} \ {pending.from}

TreasuryStep ==
    config'.treasury # config.treasury =>
      /\ proposal # Absent
      /\ config'.treasury = proposal.value.treasury
      /\ admins # {} /\ proposal.proposer \notin admins

\* No call hands the role over before the minimum delay has passed, and none
\* but the acceptance of a self-nomination leaves it with nobody.
THEOREM DelayIsRespected == AuthoritySpec => HandoverIsDelayed
<1>1. AuthorityInv /\ [AuthorityNext]_authorityVars => [HandoverStep]_authorityVars
  <2> SUFFICES ASSUME AuthorityInv, AuthorityNext, admins' # admins PROVE HandoverStep
    BY DEF HandoverStep, authorityVars
  <2>1. PICK a \in Addresses : AcceptAdmin(a)
    BY DEF AuthorityNext, TransferAdmin, CancelAdminTransfer, UpdatePlatformFee,
           SetPaused, ProposePlatformConfig, ApprovePlatformConfig, TimePasses
  <2>2. pending \in PendingAdminTransfer /\ now \in Nat
    BY <2>1, AdminConstants DEF AuthorityInv, AuthorityTypeOK, AcceptAdmin
  <2>3. /\ pending.accept_after \in Nat
        /\ pending.initiated_at + MIN_ADMIN_TRANSFER_DELAY_SECS \in Nat
    BY <2>2, AdminConstants DEF PendingAdminTransfer
  <2>4. now >= pending.initiated_at + MIN_ADMIN_TRANSFER_DELAY_SECS
    BY <2>1, <2>2, <2>3 DEF AcceptAdmin, AuthorityInv, NominationIsDelayed
  <2>5. admins = {pending.from}
    BY <2>1 DEF AcceptAdmin, AuthorityInv, AuthorityIsSingle
  <2>6. admins' = {pending.candidate} \ {pending.from}
    BY <2>1, <2>5 DEF AcceptAdmin, RoleMoved
  <2>7. QED
    BY <2>1, <2>4, <2>6 DEF AcceptAdmin, HandoverStep
<1>2. QED
  BY <1>1, InitAuthorityInv, NextAuthorityInv, PTL
     DEF AuthoritySpec, HandoverIsDelayed, HandoverStep

\* The treasury changes only by a proposal whose author no longer holds the
\* role, approved by the one who does.
THEOREM TreasuryIsGuarded == AuthoritySpec => TreasuryNeedsTwoPeople
<1>1. AuthorityInv /\ [AuthorityNext]_authorityVars => [TreasuryStep]_authorityVars
  <2> SUFFICES ASSUME AuthorityInv, AuthorityNext, config'.treasury # config.treasury
               PROVE  TreasuryStep
    BY DEF TreasuryStep, authorityVars
  <2>1. config \in PlatformConfig
    BY DEF AuthorityInv, AuthorityTypeOK
  <2>2. PICK a \in Addresses : ApprovePlatformConfig(a)
    BY <2>1 DEF AuthorityNext, TransferAdmin, AcceptAdmin, CancelAdminTransfer,
           UpdatePlatformFee, SetPaused, ProposePlatformConfig, TimePasses,
           PlatformConfig
  <2>3. \A x \in admins : x = a
    BY <2>2 DEF AuthorityInv, AuthorityIsSingle, ApprovePlatformConfig
  <2>4. QED
    BY <2>2, <2>3 DEF ApprovePlatformConfig, OtherThanProposer, TreasuryStep
<1>2. QED
  BY <1>1, InitAuthorityInv, NextAuthorityInv, PTL
     DEF AuthoritySpec, TreasuryNeedsTwoPeople, TreasuryStep
=============================================================================
