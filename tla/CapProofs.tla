------------------------------ MODULE CapProofs -------------------------------
(***************************************************************************)
(* Theorems about the caps of Desk: what the owner is told a key can spend   *)
(* at most, what a shown permission allows, what a grid may spend and says   *)
(* it earned, how the evaluator of GridBench and the engine answer alike,    *)
(* and how often a bucket of requests passes.  For any limits, prices,       *)
(* numbers of levels and fills, requests, and any span of time.              *)
(*                                                                           *)
(* The sums of the models are recursive functions.  What a sum is of a list  *)
(* with one more member follows by induction over its length, from the       *)
(* order of the natural numbers being well-founded (LeastNumber,             *)
(* Induction).  With that:                                                   *)
(* - Leash: of the spends from any start on, the validator keeps a cap for   *)
(*   every period, so that the cap times the periods left bounds them all    *)
(*   (Capped);                                                               *)
(* - GridKeeper: until a record is lost the fills add up to what left the    *)
(*   wallet and came back, one buy of one size for each level bought at      *)
(*   (GridInv);                                                              *)
(* - RateLimit: the windows of a key follow each other, and each passes no   *)
(*   more than the limit (Windows, LimitInv);                                *)
(* - GridEvaluator: its ledger books fill by fill what the sums of the       *)
(*   engine's add up to (LedgersAgree), the levels of a plan rise            *)
(*   (LevelsRise), and each list of checks finds the same reason.            *)
(***************************************************************************)
EXTENDS Desk, WellFoundedInduction, FiniteSetTheorems, SequenceTheorems, TLAPS

(* A set of naturals that is not empty has a least member.                     *)
LEMMA LeastNumber ==
  ASSUME NEW T \in SUBSET Nat, T # {}
  PROVE  \E x \in T : \A y \in T : x <= y
  <1>1. IsWellFoundedOn(OpToRel(<, Nat), Nat)
    BY NatLessThanWellFounded
  <1>2. PICK x \in T : \A y \in T : ~ (<<y, x>> \in OpToRel(<, Nat))
    BY <1>1, WFMin, Zenon
  <1>3. \A y \in T : ~ (y < x)
    BY <1>2 DEF OpToRel
  <1> QED
    BY <1>3

(* A set that holds 0, and with a number the next, holds every number.          *)
LEMMA Induction ==
  ASSUME NEW S, 0 \in S, \A n \in Nat : n \in S => n + 1 \in S
  PROVE  Nat \subseteq S
  <1> SUFFICES ASSUME Nat \ S # {} PROVE FALSE
    OBVIOUS
  <1>1. PICK x \in Nat \ S : \A y \in Nat \ S : x <= y
    BY LeastNumber
  <1>2. x # 0 /\ x - 1 \in Nat
    BY <1>1
  <1>3. x - 1 \in S
    BY <1>1, <1>2
  <1> QED
    BY <1>1, <1>2, <1>3

(* sum is the running sum of the first n terms.                               *)
Sums(sum, term, n) ==
    \A k \in 0 .. n : sum[k] = IF k = 0 THEN 0 ELSE sum[k - 1] + term[k]

(* The recursive definition of a running sum has a solution.                  *)
LEMMA SumExists ==
  ASSUME NEW term, NEW n \in Nat
  PROVE  \E h : h = [k \in 0 .. n |-> IF k = 0 THEN 0 ELSE h[k - 1] + term[k]]
  <1> DEFINE Eq(h, m) == h = [k \in 0 .. m |-> IF k = 0 THEN 0 ELSE h[k - 1] + term[k]]
             S == {m \in Nat : \E h : Eq(h, m)}
  <1>1. 0 \in S
    <2> DEFINE h0 == [k \in 0 .. 0 |-> 0]
    <2>1. Eq(h0, 0)
      OBVIOUS
    <2> QED
      BY <2>1
  <1>2. ASSUME NEW m \in Nat, m \in S PROVE m + 1 \in S
    <2>1. PICK h : Eq(h, m)
      BY <1>2
    <2> DEFINE h1 == [k \in 0 .. m + 1 |-> IF k = m + 1 THEN h[m] + term[m + 1] ELSE h[k]]
    <2>2. \A k \in 0 .. m : h[k] = IF k = 0 THEN 0 ELSE h[k - 1] + term[k]
      BY <2>1
    <2>3. ASSUME NEW k \in 0 .. m + 1
          PROVE  h1[k] = IF k = 0 THEN 0 ELSE h1[k - 1] + term[k]
      <3>1. CASE k = m + 1
        BY <3>1
      <3>2. CASE k # m + 1
        <4>1. k \in 0 .. m /\ (k # 0 => k - 1 \in 0 .. m + 1 /\ k - 1 # m + 1)
          BY <3>2
        <4> QED
          BY <4>1, <2>2, <3>2
      <3> QED
        BY <3>1, <3>2
    <2>4. Eq(h1, m + 1)
      BY <2>3
    <2>5. m + 1 \in Nat
      OBVIOUS
    <2> HIDE DEF h1, Eq
    <2>6. \E x : Eq(x, m + 1)
      BY <2>4
    <2> QED
      BY <2>5, <2>6
  <1>3. n \in S
    BY <1>1, <1>2, Induction
  <1> QED
    BY <1>3

(* Running sums of the same terms are the same.                               *)
LEMMA SumsAgree ==
  ASSUME NEW f, NEW g, NEW a, NEW b, NEW n \in Nat, Sums(f, a, n), Sums(g, b, n),
         \A k \in 1 .. n : a[k] = b[k]
  PROVE  f[n] = g[n]
  <1> DEFINE S == {m \in Nat : m <= n => f[m] = g[m]}
  <1>1. 0 \in S
    BY DEF Sums
  <1>2. ASSUME NEW m \in Nat, m \in S PROVE m + 1 \in S
    <2>1. CASE m + 1 <= n
      <3>1. m + 1 \in 0 .. n /\ m + 1 \in 1 .. n /\ m + 1 # 0 /\ m + 1 - 1 = m
        BY <2>1
      <3>2. f[m + 1] = f[m] + a[m + 1] /\ g[m + 1] = g[m] + b[m + 1]
        BY <3>1 DEF Sums
      <3> QED
        BY <1>2, <2>1, <3>1, <3>2
    <2> QED
      BY <2>1
  <1>3. n \in S
    BY <1>1, <1>2, Induction
  <1> QED
    BY <1>3

(* ------------------------------- the leash ------------------------------- *)
(* What was spent after a time, as a running sum.                             *)
Spends(spends, from) ==
    [k \in 1 .. Len(spends) |-> IF spends[k].at > from THEN spends[k].amount ELSE 0]

(* The sum of the model is that running sum, of every length.                *)
LEMMA SpentIsSum ==
  ASSUME NEW spends, Len(spends) \in Nat, NEW from
  PROVE  \E f : Sums(f, Spends(spends, from), Len(spends))
                /\ SpentSince(spends, from) = f[Len(spends)]
  <1> DEFINE total[k \in 0 .. Len(spends)] ==
               IF k = 0 THEN 0
               ELSE total[k - 1] + (IF spends[k].at > from THEN spends[k].amount ELSE 0)
  <1>1. PICK h : h = [k \in 0 .. Len(spends) |->
                        IF k = 0 THEN 0 ELSE h[k - 1] + Spends(spends, from)[k]]
    BY SumExists
  <1>2. h = [k \in 0 .. Len(spends) |->
               IF k = 0 THEN 0
               ELSE h[k - 1] + (IF spends[k].at > from THEN spends[k].amount ELSE 0)]
    <2>1. \A k \in 0 .. Len(spends) : k # 0 => k \in 1 .. Len(spends)
      OBVIOUS
    <2>2. \A k \in 0 .. Len(spends) : k # 0 => Spends(spends, from)[k] = IF spends[k].at > from THEN spends[k].amount ELSE 0
      BY <2>1 DEF Spends
    <2> QED
      BY <1>1, <2>2
  <1>3. total = [k \in 0 .. Len(spends) |->
               IF k = 0 THEN 0
               ELSE total[k - 1] + (IF spends[k].at > from THEN spends[k].amount ELSE 0)]
    BY <1>2, Zenon
  <1>4. SpentSince(spends, from) = total[Len(spends)]
    BY DEF SpentSince
  <1> HIDE DEF total
  <1>5. Sums(total, Spends(spends, from), Len(spends))
    BY <1>3 DEF Sums, Spends
  <1> QED
    BY <1>4, <1>5

LEMMA SpentNothing ==
  ASSUME NEW from
  PROVE  SpentSince(<<>>, from) = 0
  <1>1. PICK f : Sums(f, Spends(<<>>, from), 0) /\ SpentSince(<<>>, from) = f[0]
    BY SpentIsSum
  <1> QED
    BY <1>1 DEF Sums

(* One more spend adds its amount if it is late enough.                      *)
LEMMA SpentMore ==
  ASSUME NEW T, NEW spends \in Seq(T), NEW spend, NEW from
  PROVE  SpentSince(Append(spends, spend), from)
            = SpentSince(spends, from) + (IF spend.at > from THEN spend.amount ELSE 0)
  <1> DEFINE more == Append(spends, spend)
  <1>1. Len(spends) \in Nat /\ Len(more) = Len(spends) + 1 /\ more[Len(spends) + 1] = spend
        /\ \A k \in 1 .. Len(spends) : more[k] = spends[k]
    OBVIOUS
  <1> HIDE DEF more
  <1>2. PICK f : /\ Sums(f, Spends(spends, from), Len(spends))
                 /\ SpentSince(spends, from) = f[Len(spends)]
    BY <1>1, SpentIsSum
  <1>3. PICK g : /\ Sums(g, Spends(more, from), Len(spends) + 1)
                 /\ SpentSince(more, from) = g[Len(spends) + 1]
    <2>1. Len(more) \in Nat
      BY <1>1
    <2> QED
      BY <1>1, <2>1, SpentIsSum
  <1>4. \A k \in 1 .. Len(spends) : Spends(spends, from)[k] = Spends(more, from)[k]
    BY <1>1 DEF Spends
  <1>5. Spends(more, from)[Len(spends) + 1] = IF spend.at > from THEN spend.amount ELSE 0
    BY <1>1 DEF Spends
  <1>6. Sums(g, Spends(more, from), Len(spends))
    BY <1>1, <1>3 DEF Sums
  <1>7. f[Len(spends)] = g[Len(spends)]
    BY <1>1, <1>2, <1>4, <1>6, SumsAgree
  <1>8. g[Len(spends) + 1] = g[Len(spends)] + Spends(more, from)[Len(spends) + 1]
    BY <1>1, <1>3 DEF Sums
  <1> QED
    BY <1>2, <1>3, <1>5, <1>7, <1>8 DEF more

(* What the validator keeps of the spends: later starts count less, no period   *)
(* holds more than the limit, and nothing is spent from the expiry on.          *)
Capped(spends, limit, length, expiry) ==
    /\ \A x \in Int : SpentSince(spends, x) \in Nat
    /\ \A x, y \in Int : x <= y => SpentSince(spends, y) <= SpentSince(spends, x)
    /\ \A x \in Int : SpentSince(spends, x - length) <= SpentSince(spends, x) + limit
    /\ SpentSince(spends, expiry - 1) = 0

(* Nothing was spent before a time.                                          *)
NoneBefore(spends, now) ==
    \A x \in Int : -1 <= x /\ x < now => SpentSince(spends, x) = SpentSince(spends, -1)

OneKey ==
    [limit : Nat, period : DOMAIN Periods, expiry : Int, revoked : BOOLEAN,
     spends : Seq([at : Int, amount : Nat])]

(* A proposal is made from the plan as it was at some hour, before which its *)
(* key was not used; a key is the one proposed.                              *)
LeashInv ==
    /\ hour \in Nat
    /\ plan # None =>
        plan.total \in Nat /\ plan.created \in 0 .. hour /\ plan.expiry \in Int
    /\ proposal # None =>
        /\ plan # None
        /\ \E now \in plan.created .. hour :
            proposal = Proposed(now) /\ (key # None => NoneBefore(key.spends, now))
    /\ key # None =>
        /\ proposal # None
        /\ key \in OneKey
        /\ key.limit = plan.total /\ key.expiry = plan.expiry
        /\ Capped(key.spends, key.limit, Periods[key.period], key.expiry)

LEMMA CappedSpend ==
  ASSUME NEW spends \in Seq([at : Int, amount : Nat]), NEW limit \in Nat,
         NEW length \in Nat, NEW expiry \in Int, NEW now \in Int, NEW amount \in Nat,
         Capped(spends, limit, length, expiry), now < expiry,
         SpentSince(spends, now - length) + amount <= limit
  PROVE  Capped(Append(spends, [at |-> now, amount |-> amount]), limit, length, expiry)
  <1> DEFINE spend == [at |-> now, amount |-> amount]
             more == Append(spends, spend)
  <1>1. \A x \in Int : SpentSince(more, x) = SpentSince(spends, x) + (IF now > x THEN amount ELSE 0)
    BY SpentMore
  <1> HIDE DEF more
  <1>2. ASSUME NEW x \in Int PROVE SpentSince(more, x) \in Nat
    <2>1. SpentSince(spends, x) \in Nat
      BY DEF Capped
    <2>2. SpentSince(more, x) = SpentSince(spends, x) + (IF now > x THEN amount ELSE 0)
      BY <1>1
    <2> QED
      BY <2>1, <2>2
  <1>3. ASSUME NEW x \in Int, NEW y \in Int, x <= y
        PROVE  SpentSince(more, y) <= SpentSince(more, x)
    <2>1. /\ SpentSince(spends, x) \in Nat /\ SpentSince(spends, y) \in Nat
          /\ SpentSince(spends, y) <= SpentSince(spends, x)
      BY <1>3 DEF Capped
    <2>2. /\ SpentSince(more, x) = SpentSince(spends, x) + (IF now > x THEN amount ELSE 0)
          /\ SpentSince(more, y) = SpentSince(spends, y) + (IF now > y THEN amount ELSE 0)
      BY <1>1
    <2> QED
      BY <1>3, <2>1, <2>2
  <1>4. ASSUME NEW x \in Int
        PROVE  SpentSince(more, x - length) <= SpentSince(more, x) + limit
    <2>1. x - length \in Int /\ now - length \in Int
      OBVIOUS
    <2>2. SpentSince(spends, x - length) <= SpentSince(spends, x) + limit
      BY DEF Capped
    <2>3. /\ SpentSince(spends, x - length) \in Nat /\ SpentSince(spends, x) \in Nat
          /\ SpentSince(spends, now - length) \in Nat
      BY <2>1 DEF Capped
    <2>4. now <= x => SpentSince(spends, x - length) <= SpentSince(spends, now - length)
      BY <2>1 DEF Capped
    <2> QED
      BY <1>1, <2>1, <2>2, <2>3, <2>4
  <1>5. SpentSince(more, expiry - 1) = 0
    BY <1>1 DEF Capped
  <1> QED
    BY <1>2, <1>3, <1>4, <1>5 DEF more, Capped

LEMMA BeforeSpend ==
  ASSUME NEW spends \in Seq([at : Int, amount : Nat]), NEW now \in Nat, NEW start \in Nat,
         NEW amount \in Nat, start <= now, NoneBefore(spends, start)
  PROVE  NoneBefore(Append(spends, [at |-> now, amount |-> amount]), start)
  <1>1. \A x \in Int : SpentSince(Append(spends, [at |-> now, amount |-> amount]), x)
                        = SpentSince(spends, x) + (IF now > x THEN amount ELSE 0)
    BY SpentMore
  <1> QED
    BY <1>1 DEF NoneBefore

(* Over any number of periods the limit is spent at most so many times.         *)
LEMMA Periodic ==
  ASSUME NEW spends, NEW limit \in Nat, NEW length \in Nat, NEW expiry \in Int,
         Capped(spends, limit, length, expiry), NEW m \in Nat
  PROVE  SpentSince(spends, expiry - 1 - m * length) <= m * limit
  <1> DEFINE S == {k \in Nat : SpentSince(spends, expiry - 1 - k * length) <= k * limit}
  <1>1. 0 \in S
    BY DEF Capped
  <1>2. ASSUME NEW k \in Nat, k \in S PROVE k + 1 \in S
    <2> DEFINE x == expiry - 1 - k * length
    <2>1. k * length \in Nat /\ k * limit \in Nat
      OBVIOUS
    <2>2. (k + 1) * length = k * length + length /\ (k + 1) * limit = k * limit + limit
      OBVIOUS
    <2>3. x \in Int /\ expiry - 1 - (k + 1) * length = x - length
      BY <2>1, <2>2
    <2>4. SpentSince(spends, x) <= k * limit
      BY <1>2
    <2> HIDE DEF x
    <2>5. SpentSince(spends, x - length) <= SpentSince(spends, x) + limit
      <3>1. x \in Int
        BY <2>3
      <3> QED
        BY <3>1 DEF Capped
    <2>6. SpentSince(spends, x) \in Nat /\ SpentSince(spends, x - length) \in Nat
      <3>1. x \in Int /\ x - length \in Int
        BY <2>3
      <3> QED
        BY <3>1 DEF Capped
    <2> QED
      BY <2>1, <2>2, <2>3, <2>4, <2>5, <2>6
  <1>3. m \in S
    BY <1>1, <1>2, Induction
  <1> QED
    BY <1>3

(* Rounded up, the quotient covers what was divided.                           *)
LEMMA RoundedUp ==
  ASSUME NEW d \in Nat, NEW p \in Nat \ {0}
  PROVE  /\ (d + p - 1) \div p \in Nat
         /\ d <= ((d + p - 1) \div p) * p
  OBVIOUS

LEMMA WorstHolds ==
  ASSUME NEW spends, NEW limit \in Nat, NEW period \in DOMAIN Periods, NEW expiry \in Int,
         NEW now \in Nat, Capped(spends, limit, Periods[period], expiry),
         NoneBefore(spends, now)
  PROVE  SpentSince(spends, -1) <= WorstCaseSpend(limit, period, AtLeastOne(expiry - now))
  <1> DEFINE d == AtLeastOne(expiry - now)
             p == Periods[period]
             q == (d + p - 1) \div p
             m == AtLeastOne(q)
  <1>1. p \in Nat \ {0}
    BY PeriodsAssumption
  <1>2. d \in Nat /\ d >= expiry - now /\ d >= 1
    BY DEF AtLeastOne
  <1> HIDE DEF d, p
  <1>3. q \in Nat /\ d <= q * p
    BY <1>1, <1>2, RoundedUp
  <1> HIDE DEF q
  <1>4. m \in Nat /\ m >= q
    BY <1>3 DEF AtLeastOne
  <1> HIDE DEF m
  <1>5. m * p >= q * p /\ m * p \in Nat
    BY <1>1, <1>3, <1>4
  <1>6. SpentSince(spends, expiry - 1 - m * p) <= m * limit
    BY <1>1, <1>4, Periodic DEF p
  <1>7. expiry - 1 - m * p \in Int /\ expiry - 1 - m * p <= now - 1 /\ m * limit \in Nat
    <2>1. m * p >= expiry - now
      <3>1. q * p \in Nat
        BY <1>1, <1>3
      <3> QED
        BY <1>2, <1>3, <1>5, <3>1
    <2>2. m * limit \in Nat
      BY <1>4
    <2> QED
      BY <1>5, <2>1, <2>2
  <1>8. SpentSince(spends, now - 1) = SpentSince(spends, -1)
    BY DEF NoneBefore
  <1>9. SpentSince(spends, now - 1) <= SpentSince(spends, expiry - 1 - m * p)
    BY <1>7 DEF Capped
  <1>10. /\ SpentSince(spends, now - 1) \in Nat
         /\ SpentSince(spends, expiry - 1 - m * p) \in Nat
    BY <1>7 DEF Capped
  <1>11. SpentSince(spends, -1) <= m * limit
    BY <1>6, <1>7, <1>8, <1>9, <1>10
  <1>12. m * limit = limit * m
    BY <1>4
  <1> QED
    BY <1>11, <1>12 DEF WorstCaseSpend, m, q, p, d

LEMMA LeashInitOK == LeashInit => LeashInv
  BY DEF LeashInit, LeashInv


LEMMA GrantOK == ASSUME LeashInv, NEW period \in DOMAIN Periods, GrantKey(period) PROVE LeashInv'
  <1> DEFINE length == Periods[period]
  <1>1. length \in Nat
    BY PeriodsAssumption
  <1>2. plan # None /\ plan.total \in Nat /\ plan.expiry \in Int /\ plan.created \in 0 .. hour
    BY DEF LeashInv, GrantKey
  <1>3. PICK now \in plan.created .. hour : proposal = Proposed(now)
    BY DEF LeashInv, GrantKey
  <1>4. proposal.limit = plan.total /\ proposal.expiry = plan.expiry
    BY <1>3 DEF Proposed
  <1>5. /\ key'.limit = plan.total /\ key'.expiry = plan.expiry
        /\ key'.spends = <<>> /\ key'.period = period /\ key' \in OneKey
    BY <1>2, <1>4 DEF GrantKey, OneKey
  <1>6. Capped(<<>>, plan.total, length, plan.expiry) /\ \A t \in Int : NoneBefore(<<>>, t)
    BY <1>1, <1>2, SpentNothing DEF Capped, NoneBefore
  <1>7. proposal' = proposal /\ plan' = plan /\ hour' = hour /\ proposal # None
    BY DEF GrantKey
  <1>8. Proposed(now)' = Proposed(now)
    BY <1>7 DEF Proposed
  <1>9. now \in (plan.created .. hour)' /\ NoneBefore(key'.spends, now)
    BY <1>2, <1>5, <1>6, <1>7
  <1> QED
    BY <1>2, <1>3, <1>5, <1>6, <1>7, <1>8, <1>9 DEF LeashInv

LEMMA SpendOK == ASSUME LeashInv, NEW amount \in Nat, SpendKey(amount) PROVE LeashInv'
  <1>1. /\ key # None /\ key \in OneKey /\ proposal # None /\ plan # None /\ hour \in Nat
        /\ key.limit = plan.total /\ key.expiry = plan.expiry
        /\ Capped(key.spends, key.limit, Periods[key.period], key.expiry)
    BY DEF LeashInv, SpendKey
  <1> DEFINE more == Append(key.spends, [at |-> hour, amount |-> amount])
  <1>2. PICK now \in plan.created .. hour :
            proposal = Proposed(now) /\ NoneBefore(key.spends, now)
    BY <1>1 DEF LeashInv
  <1>3. now \in Nat /\ now <= hour
    BY <1>1 DEF LeashInv
  <1>4. /\ key.spends \in Seq([at : Int, amount : Nat]) /\ key.limit \in Nat
        /\ Periods[key.period] \in Nat /\ key.expiry \in Int
    BY <1>1, PeriodsAssumption DEF OneKey
  <1>5. hour < key.expiry
        /\ SpentSince(key.spends, hour - Periods[key.period]) + amount <= key.limit
    BY DEF SpendKey, WithinCap
  <1>6. Capped(more, key.limit, Periods[key.period], key.expiry)
    BY <1>1, <1>4, <1>5, CappedSpend
  <1>7. NoneBefore(more, now)
    BY <1>1, <1>2, <1>3, <1>4, BeforeSpend
  <1>8. /\ key' = [key EXCEPT !.spends = more]
        /\ proposal' = proposal /\ plan' = plan /\ hour' = hour
    BY DEF SpendKey
  <1>9. more \in Seq([at : Int, amount : Nat])
    BY <1>1, <1>4
  <1> HIDE DEF more
  <1>10. /\ key' \in OneKey /\ key'.spends = more /\ key'.limit = key.limit
         /\ key'.expiry = key.expiry /\ key'.period = key.period
    BY <1>1, <1>8, <1>9 DEF OneKey
  <1>11. Proposed(now)' = Proposed(now)
    BY <1>8 DEF Proposed
  <1>12. plan.total \in Nat /\ plan.created \in 0 .. hour /\ plan.expiry \in Int
    BY <1>1 DEF LeashInv
  <1> QED
    BY <1>1, <1>2, <1>6, <1>7, <1>8, <1>10, <1>11, <1>12 DEF LeashInv

LEMMA LeashNextOK == LeashInv /\ [LeashNext]_leashVars => LeashInv'
  <1> SUFFICES ASSUME LeashInv, [LeashNext]_leashVars PROVE LeashInv'
    OBVIOUS
  <1>1. CASE UNCHANGED leashVars
    BY <1>1 DEF leashVars, LeashInv, Proposed
  <1>2. CASE PlanLeash
    <2>1. proposal = None /\ key = None
      BY <1>2 DEF PlanLeash, LeashInv
    <2>2. PICK total \in Capitals, expiry \in hour + 1 .. LeashEnd :
            plan' = [total |-> total, created |-> hour, expiry |-> expiry]
      BY <1>2 DEF PlanLeash
    <2> QED
      BY <1>2, <2>1, <2>2, LeashAssumption DEF PlanLeash, LeashInv
  <1>3. CASE Propose
    <2>1. hour \in plan.created .. hour
      BY <1>3 DEF Propose, LeashInv
    <2>2. Proposed(hour)' = Proposed(hour) /\ key' = None
      BY <1>3 DEF Propose, Proposed
    <2> QED
      BY <1>3, <2>1, <2>2 DEF Propose, LeashInv
  <1>4. CASE RevokeKey
    <2>1. /\ key # None /\ key \in OneKey /\ proposal # None
          /\ key' = [key EXCEPT !.revoked = TRUE]
          /\ UNCHANGED <<plan, proposal, hour>>
      BY <1>4 DEF RevokeKey, LeashInv
    <2>2. /\ key' \in OneKey /\ key'.spends = key.spends /\ key'.limit = key.limit
          /\ key'.expiry = key.expiry /\ key'.period = key.period
      BY <2>1 DEF OneKey
    <2>3. \A now : Proposed(now)' = Proposed(now)
      BY <2>1 DEF Proposed
    <2> QED
      BY <2>1, <2>2, <2>3 DEF LeashInv
  <1>5. CASE LeashTick
    <2>1. hour \in Nat /\ hour' = hour + 1 /\ UNCHANGED <<plan, proposal, key>>
      BY <1>5 DEF LeashTick, LeashInv
    <2>2. \A now : Proposed(now)' = Proposed(now)
      BY <2>1 DEF Proposed
    <2>3. plan # None => plan.created \in 0 .. hour /\ plan.created .. hour \subseteq plan.created .. hour + 1
      BY <2>1 DEF LeashInv
    <2> QED
      BY <2>1, <2>2, <2>3 DEF LeashInv
  <1>6. ASSUME NEW period \in DOMAIN Periods, GrantKey(period) PROVE LeashInv'
    BY <1>6, GrantOK
  <1>7. ASSUME NEW amount \in 1 .. CHOOSE n \in Capitals : \A m \in Capitals : m <= n,
               SpendKey(amount)
        PROVE  LeashInv'
    <2>1. amount \in Nat
      OBVIOUS
    <2> QED
      BY <1>7, <2>1, SpendOK
  <1> QED
    BY <1>1, <1>2, <1>3, <1>4, <1>5, <1>6, <1>7 DEF LeashNext

LEMMA LeashHolds == LeashInv => WorstCaseHolds
  <1> SUFFICES ASSUME LeashInv, key # None PROVE WorstCaseHolds
    BY DEF WorstCaseHolds
  <1>1. /\ proposal # None /\ plan # None /\ key \in OneKey
        /\ key.limit = plan.total /\ key.expiry = plan.expiry
        /\ Capped(key.spends, key.limit, Periods[key.period], key.expiry)
        /\ hour \in Nat /\ plan.created \in 0 .. hour
    BY DEF LeashInv
  <1>2. PICK now \in plan.created .. hour :
            proposal = Proposed(now) /\ NoneBefore(key.spends, now)
    BY <1>1 DEF LeashInv
  <1>3. NoneBefore(key.spends, plan.created) /\ plan.created \in Nat /\ now \in Nat
    BY <1>1, <1>2 DEF NoneBefore
  <1>4. key.limit \in Nat /\ key.period \in DOMAIN Periods /\ key.expiry \in Int
    BY <1>1 DEF OneKey
  <1>5. SpentSince(key.spends, -1)
            <= WorstCaseSpend(key.limit, key.period, AtLeastOne(key.expiry - plan.created))
    BY <1>1, <1>3, <1>4, WorstHolds
  <1>6. SpentSince(key.spends, -1)
            <= WorstCaseSpend(key.limit, key.period, AtLeastOne(key.expiry - now))
    BY <1>1, <1>2, <1>3, <1>4, WorstHolds
  <1>7. key.period = proposal.period => proposal.worst = WorstCaseSpend(key.limit, key.period, AtLeastOne(key.expiry - now))
    BY <1>1, <1>2 DEF Proposed
  <1>8. LeashView.worst = WorstCaseSpend(key.limit, key.period, AtLeastOne(key.expiry - plan.created))
    BY <1>1 DEF LeashView
  <1> QED
    BY <1>5, <1>6, <1>7, <1>8 DEF WorstCaseHolds

LEMMA LeashPartSteps == [DeskNext]_deskVars => [LeashNext]_leashVars
  BY DEF DeskNext, deskVars, GridPart, LeashPart, ProofPart, FleetPart, LimitPart, RegistryPart,
         RangePart, ScoutPart, GradingPart

(* Whatever the holder of a key does in whatever order, for any limit, any   *)
(* period and any time granted, it spends no more than the user was told the *)
(* key can spend at most (worstCaseSpend).                                   *)
THEOREM WorstCaseTold == DeskSpec => []WorstCaseHolds
  <1>1. DeskInit => LeashInv
    BY LeashInitOK DEF DeskInit
  <1> QED
    BY <1>1, LeashNextOK, LeashPartSteps, LeashHolds, PTL DEF DeskSpec

(* A permission that is shown to be of one method allows one call.           *)
LEMMA OneReach ==
  ASSUME NEW p \in Permissions, ~ DescribeCallPermission(p).unrestricted
  PROVE  ChainAllows(p) = {[to |-> p.to, selector |-> SelectorOf(p.signature)]}
  <1>1. p.to # None /\ SelectorOf(p.signature) # None /\ p.to \in Contracts
    BY DEF Permissions, DescribeCallPermission, Either
  <1>2. SelectorOf(p.signature) \in Selectors
    BY <1>1 DEF SelectorOf, Selectors
  <1> QED
    BY <1>1, <1>2 DEF ChainAllows

LEMMA ShownHolds == ShownIsEnforced
  <1> SUFFICES ASSUME NEW p \in Permissions
               PROVE  LET shown == DescribeCallPermission(p)
                      IN  /\ DescribeCallPermission(shown) = shown
                          /\ ~ shown.unrestricted =>
                                ChainAllows(p) = {[to |-> shown.contract, selector |-> shown.selector]}
    BY DEF ShownIsEnforced
  <1> DEFINE shown == DescribeCallPermission(p)
  <1>1. p.contract = None /\ p.method = None
    BY DEF Permissions
  <1>2. /\ shown.to = None /\ shown.signature = None
        /\ shown.contract = p.to /\ shown.method = p.signature
        /\ shown.selector = SelectorOf(p.signature)
    BY <1>1 DEF DescribeCallPermission, Either
  <1>3. DescribeCallPermission(shown) = shown
    BY <1>1 DEF DescribeCallPermission, Either
  <1>4. ~ shown.unrestricted => ChainAllows(p) = {[to |-> p.to, selector |-> SelectorOf(p.signature)]}
    BY OneReach
  <1> QED
    BY <1>2, <1>3, <1>4

(* A permission that is not called unrestricted lets the key reach the one   *)
(* contract and selector that are shown, and showing it again shows the same *)
(* (describeCallPermission).                                                 *)
THEOREM ShownEnforced == DeskSpec => []ShownIsEnforced
  BY ShownHolds, PTL

(* -------------------------- sums over the fills -------------------------- *)
(* What a sum over the fills adds for each.                                   *)
TotalTerms(fs, of, field) == [k \in 1 .. Len(fs) |-> IF k \in of THEN fs[k][field] ELSE 0]

SumTerms(fs, field) ==
    [k \in 1 .. Len(fs) |-> IF fs[k].state = "FILLED" THEN Amount(fs[k], field) ELSE 0]

LEMMA TotalIsSum ==
  ASSUME NEW fs, Len(fs) \in Nat, NEW of, NEW field
  PROVE  \E f : Sums(f, TotalTerms(fs, of, field), Len(fs)) /\ Total(fs, of, field) = f[Len(fs)]
  <1> DEFINE total[k \in 0 .. Len(fs)] ==
               IF k = 0 THEN 0 ELSE total[k - 1] + (IF k \in of THEN fs[k][field] ELSE 0)
  <1>1. PICK h : h = [k \in 0 .. Len(fs) |->
                        IF k = 0 THEN 0 ELSE h[k - 1] + TotalTerms(fs, of, field)[k]]
    BY SumExists
  <1>2. h = [k \in 0 .. Len(fs) |->
               IF k = 0 THEN 0 ELSE h[k - 1] + (IF k \in of THEN fs[k][field] ELSE 0)]
    <2>1. \A k \in 0 .. Len(fs) : k # 0 =>
            TotalTerms(fs, of, field)[k] = IF k \in of THEN fs[k][field] ELSE 0
      BY DEF TotalTerms
    <2> QED
      BY <1>1, <2>1
  <1>3. total = [k \in 0 .. Len(fs) |->
               IF k = 0 THEN 0 ELSE total[k - 1] + (IF k \in of THEN fs[k][field] ELSE 0)]
    BY <1>2, Zenon
  <1>4. Total(fs, of, field) = total[Len(fs)]
    BY DEF Total
  <1> HIDE DEF total
  <1>5. Sums(total, TotalTerms(fs, of, field), Len(fs))
    BY <1>3 DEF Sums, TotalTerms
  <1> QED
    BY <1>4, <1>5

LEMMA SumIsSum ==
  ASSUME NEW fs, Len(fs) \in Nat, NEW field
  PROVE  \E f : Sums(f, SumTerms(fs, field), Len(fs)) /\ Sum(fs, field) = f[Len(fs)]
  <1> DEFINE sum[k \in 0 .. Len(fs)] ==
               IF k = 0 THEN 0
               ELSE sum[k - 1] + (IF fs[k].state = "FILLED" THEN Amount(fs[k], field) ELSE 0)
  <1>1. PICK h : h = [k \in 0 .. Len(fs) |->
                        IF k = 0 THEN 0 ELSE h[k - 1] + SumTerms(fs, field)[k]]
    BY SumExists
  <1>2. h = [k \in 0 .. Len(fs) |->
               IF k = 0 THEN 0
               ELSE h[k - 1] + (IF fs[k].state = "FILLED" THEN Amount(fs[k], field) ELSE 0)]
    <2>1. \A k \in 0 .. Len(fs) : k # 0 =>
            SumTerms(fs, field)[k] = IF fs[k].state = "FILLED" THEN Amount(fs[k], field) ELSE 0
      BY DEF SumTerms
    <2> QED
      BY <1>1, <2>1
  <1>3. sum = [k \in 0 .. Len(fs) |->
               IF k = 0 THEN 0
               ELSE sum[k - 1] + (IF fs[k].state = "FILLED" THEN Amount(fs[k], field) ELSE 0)]
    BY <1>2, Zenon
  <1>4. Sum(fs, field) = sum[Len(fs)]
    BY DEF Sum
  <1> HIDE DEF sum
  <1>5. Sums(sum, SumTerms(fs, field), Len(fs))
    BY <1>3 DEF Sums, SumTerms
  <1> QED
    BY <1>4, <1>5

(* One more fill adds its own amount and leaves the others.                    *)
LEMMA TotalMore ==
  ASSUME NEW T, NEW fs \in Seq(T), NEW fill, NEW of, NEW more, NEW field,
         NEW value, value = fill[field],
         \A k \in 1 .. Len(fs) : k \in of <=> k \in more
  PROVE  Total(Append(fs, fill), more, field)
            = Total(fs, of, field) + (IF Len(fs) + 1 \in more THEN value ELSE 0)
  <1> DEFINE longer == Append(fs, fill)
  <1>1. Len(fs) \in Nat /\ Len(longer) = Len(fs) + 1 /\ longer[Len(fs) + 1] = fill
        /\ \A k \in 1 .. Len(fs) : longer[k] = fs[k]
    OBVIOUS
  <1> HIDE DEF longer
  <1>2. PICK f : /\ Sums(f, TotalTerms(fs, of, field), Len(fs))
                 /\ Total(fs, of, field) = f[Len(fs)]
    BY <1>1, TotalIsSum
  <1>3. PICK g : /\ Sums(g, TotalTerms(longer, more, field), Len(fs) + 1)
                 /\ Total(longer, more, field) = g[Len(fs) + 1]
    <2>1. Len(longer) \in Nat
      BY <1>1
    <2> QED
      BY <1>1, <2>1, TotalIsSum
  <1>4. \A k \in 1 .. Len(fs) : TotalTerms(fs, of, field)[k] = TotalTerms(longer, more, field)[k]
    BY <1>1 DEF TotalTerms
  <1>5. TotalTerms(longer, more, field)[Len(fs) + 1]
            = IF Len(fs) + 1 \in more THEN fill[field] ELSE 0
    BY <1>1 DEF TotalTerms
  <1>6. Sums(g, TotalTerms(longer, more, field), Len(fs))
    BY <1>1, <1>3 DEF Sums
  <1>7. f[Len(fs)] = g[Len(fs)]
    BY <1>1, <1>2, <1>4, <1>6, SumsAgree
  <1>8. g[Len(fs) + 1] = g[Len(fs)] + TotalTerms(longer, more, field)[Len(fs) + 1]
    BY <1>1, <1>3 DEF Sums
  <1> QED
    BY <1>2, <1>3, <1>5, <1>7, <1>8 DEF longer

LEMMA SumMore ==
  ASSUME NEW T, NEW fs \in Seq(T), NEW fill, NEW field
  PROVE  Sum(Append(fs, fill), field)
            = Sum(fs, field) + (IF fill.state = "FILLED" THEN Amount(fill, field) ELSE 0)
  <1> DEFINE longer == Append(fs, fill)
  <1>1. Len(fs) \in Nat /\ Len(longer) = Len(fs) + 1 /\ longer[Len(fs) + 1] = fill
        /\ \A k \in 1 .. Len(fs) : longer[k] = fs[k]
    OBVIOUS
  <1> HIDE DEF longer
  <1>2. PICK f : /\ Sums(f, SumTerms(fs, field), Len(fs))
                 /\ Sum(fs, field) = f[Len(fs)]
    BY <1>1, SumIsSum
  <1>3. PICK g : /\ Sums(g, SumTerms(longer, field), Len(fs) + 1)
                 /\ Sum(longer, field) = g[Len(fs) + 1]
    <2>1. Len(longer) \in Nat
      BY <1>1
    <2> QED
      BY <1>1, <2>1, SumIsSum
  <1>4. \A k \in 1 .. Len(fs) : SumTerms(fs, field)[k] = SumTerms(longer, field)[k]
    BY <1>1 DEF SumTerms
  <1>5. SumTerms(longer, field)[Len(fs) + 1]
            = IF fill.state = "FILLED" THEN Amount(fill, field) ELSE 0
    BY <1>1 DEF SumTerms
  <1>6. Sums(g, SumTerms(longer, field), Len(fs))
    BY <1>1, <1>3 DEF Sums
  <1>7. f[Len(fs)] = g[Len(fs)]
    BY <1>1, <1>2, <1>4, <1>6, SumsAgree
  <1>8. g[Len(fs) + 1] = g[Len(fs)] + SumTerms(longer, field)[Len(fs) + 1]
    BY <1>1, <1>3 DEF Sums
  <1> QED
    BY <1>2, <1>3, <1>5, <1>7, <1>8 DEF longer

LEMMA NoSums ==
  ASSUME NEW of, NEW field
  PROVE  Total(<<>>, of, field) = 0 /\ Sum(<<>>, field) = 0
  <1>1. PICK f : Sums(f, TotalTerms(<<>>, of, field), 0) /\ Total(<<>>, of, field) = f[0]
    BY TotalIsSum
  <1>2. PICK g : Sums(g, SumTerms(<<>>, field), 0) /\ Sum(<<>>, field) = g[0]
    BY SumIsSum
  <1> QED
    BY <1>1, <1>2 DEF Sums

(* --------------------------- the checks in order ------------------------- *)

(* Where no check has a reason, none of them fails.                           *)
LEMMA NoneFails ==
  ASSUME NEW checks, DOMAIN checks \subseteq Nat, FirstOf(checks) = None,
         \A k \in DOMAIN checks : checks[k][2] # None
  PROVE  \A k \in DOMAIN checks : ~ checks[k][1]
  <1> DEFINE failing == {k \in DOMAIN checks : checks[k][1]}
  <1> SUFFICES ASSUME failing # {} PROVE FALSE
    OBVIOUS
  <1>1. \E k \in failing : \A j \in failing : k <= j
    <2>1. failing \in SUBSET Nat
      OBVIOUS
    <2> HIDE DEF failing
    <2> QED
      BY <2>1, LeastNumber
  <1>2. (CHOOSE k \in failing : \A j \in failing : k <= j) \in failing
    BY <1>1
  <1>3. FirstOf(checks) = checks[CHOOSE k \in failing : \A j \in failing : k <= j][2]
    BY DEF FirstOf
  <1> QED
    BY <1>2, <1>3

LEMMA GateOpen ==
  ASSUME NEW s, NEW i, NEW now, NEW authority, NEW ledger,
         FirstOf(Gate(s, i, now, authority, ledger)) = None
  PROVE  i \in LevelIds(s) /\ i \notin ledger.levels
  <1> DEFINE gate == Gate(s, i, now, authority, ledger)
  <1>1. DOMAIN gate = 1 .. 6
    BY DEF Gate
  <1>2. \A k \in DOMAIN gate : gate[k][2] # None
    <2>1. \A k \in 1 .. 6 : gate[k][2] \in GridRefusals
      BY DEF Gate, GridRefusals
    <2> QED
      BY <1>1, <2>1, NullAssumption
  <1>3. (~ gate[5][1] => i \in LevelIds(s)) /\ (~ gate[6][1] => i \notin ledger.levels)
    BY DEF Gate
  <1> HIDE DEF gate
  <1>4. \A k \in DOMAIN gate : ~ gate[k][1]
    BY <1>1, <1>2, NoneFails DEF gate
  <1> QED
    BY <1>1, <1>3, <1>4

(* Checks in order, each with the reason it refuses for.                     *)
Checks2 == Seq(BOOLEAN \X GridRefusals)

LEMMA Pair ==
  ASSUME NEW fails \in BOOLEAN, NEW reason \in GridRefusals
  PROVE  <<fails, reason>> \in BOOLEAN \X GridRefusals
  OBVIOUS

LEMMA FourOf ==
  ASSUME NEW T, NEW a \in T, NEW b \in T, NEW c \in T, NEW d \in T
  PROVE  <<a, b, c, d>> \in Seq(T) /\ Len(<<a, b, c, d>>) = 4
  OBVIOUS

LEMMA ChecksAre ==
  ASSUME NEW s, NEW i, NEW ob, NEW now, NEW ledger
  PROVE  /\ MarketChecks(s, i, ob, now) \in Checks2 /\ Len(MarketChecks(s, i, ob, now)) = 4
         /\ BudgetChecks(s, i, now, ledger) \in Checks2 /\ Len(BudgetChecks(s, i, now, ledger)) = 4
  <1>1. MarketChecks(s, i, ob, now) \in Checks2 /\ Len(MarketChecks(s, i, ob, now)) = 4
    <2> DEFINE a1 == <<ob.chain # None /\ ob.chain # s.chain, "chain_does_not_match_the_strategy">>
               a2 == <<ob.pair # None /\ ob.pair # s.pair, "pair_does_not_match_the_strategy">>
               a3 == <<now - ob.at > s.maxAge \/ now < ob.at, "price_observation_is_too_old">>
               a4 == <<~ Triggered(s, i, ob.price), "price_has_not_reached_this_level">>
    <2>1. /\ a1 \in BOOLEAN \X GridRefusals /\ a2 \in BOOLEAN \X GridRefusals
          /\ a3 \in BOOLEAN \X GridRefusals /\ a4 \in BOOLEAN \X GridRefusals
      BY Zenon DEF GridRefusals
    <2>2. MarketChecks(s, i, ob, now) = <<a1, a2, a3, a4>>
      BY DEF MarketChecks
    <2> HIDE DEF a1, a2, a3, a4
    <2> QED
      BY <2>1, <2>2, FourOf DEF Checks2
  <1>2. BudgetChecks(s, i, now, ledger) \in Checks2 /\ Len(BudgetChecks(s, i, now, ledger)) = 4
    <2> DEFINE a1 == <<s.maxFills # None /\ ledger.count >= s.maxFills, "maximum_fill_count_reached">>
               a2 == <<s.cooldown > 0 /\ ledger.last # None /\ now - ledger.last < s.cooldown,
                       "cooldown_has_not_elapsed">>
               a3 == <<Side(s, i) = "BUY" /\ ledger.spent + Allocation(s, i) > s.total,
                       "total_capital_cap_would_be_exceeded">>
               a4 == <<Side(s, i) = "SELL" /\ ledger.base <= 0, "not_enough_inventory_to_sell">>
    <2>1. /\ a1 \in BOOLEAN \X GridRefusals /\ a2 \in BOOLEAN \X GridRefusals
          /\ a3 \in BOOLEAN \X GridRefusals /\ a4 \in BOOLEAN \X GridRefusals
      BY Zenon DEF GridRefusals
    <2>2. BudgetChecks(s, i, now, ledger) = <<a1, a2, a3, a4>>
      BY DEF BudgetChecks
    <2> HIDE DEF a1, a2, a3, a4
    <2> QED
      BY <2>1, <2>2, FourOf DEF Checks2
  <1> QED
    BY <1>1, <1>2

LEMMA BudgetOpen ==
  ASSUME NEW s, NEW i, NEW ob, NEW now, NEW ledger, NEW rest \in Checks2,
         FirstOf(MarketChecks(s, i, ob, now) \o BudgetChecks(s, i, now, ledger) \o rest) = None
  PROVE  \A k \in 1 .. 4 : ~ BudgetChecks(s, i, now, ledger)[k][1]
  <1> DEFINE m == MarketChecks(s, i, ob, now)
             b == BudgetChecks(s, i, now, ledger)
             all == m \o b \o rest
  <1>1. /\ m \in Seq(BOOLEAN \X GridRefusals) /\ b \in Seq(BOOLEAN \X GridRefusals)
        /\ rest \in Seq(BOOLEAN \X GridRefusals) /\ Len(m) = 4 /\ Len(b) = 4
    BY ChecksAre DEF Checks2
  <1> HIDE DEF m, b
  <1>2. /\ m \o b \in Seq(BOOLEAN \X GridRefusals) /\ Len(m \o b) = 8
        /\ \A k \in 1 .. 4 : (m \o b)[k + 4] = b[k]
    <2>0. /\ m \o b \in Seq(BOOLEAN \X GridRefusals) /\ Len(m \o b) = Len(m) + Len(b)
          /\ \A k \in 1 .. Len(m) + Len(b) :
                (m \o b)[k] = IF k <= Len(m) THEN m[k] ELSE b[k - Len(m)]
      BY <1>1, ConcatProperties, Zenon
    <2>1. /\ m \o b \in Seq(BOOLEAN \X GridRefusals) /\ Len(m \o b) = 4 + 4
          /\ \A k \in 1 .. 4 + 4 : (m \o b)[k] = IF k <= 4 THEN m[k] ELSE b[k - 4]
      BY <1>1, <2>0
    <2>2. ASSUME NEW k \in 1 .. 4 PROVE (m \o b)[k + 4] = b[k]
      <3>1. k + 4 \in 1 .. 4 + 4 /\ ~ (k + 4 <= 4) /\ (k + 4) - 4 = k
        OBVIOUS
      <3> QED
        BY <2>1, <3>1
    <2>3. Len(m \o b) = 8
      BY <2>1
    <2>4. m \o b \in Seq(BOOLEAN \X GridRefusals)
      BY <2>0
    <2> QED
      BY <2>2, <2>3, <2>4
  <1>3. /\ all \in Seq(BOOLEAN \X GridRefusals) /\ Len(all) = 8 + Len(rest) /\ Len(rest) \in Nat
        /\ \A k \in 1 .. 8 : all[k] = (m \o b)[k]
    BY <1>1, <1>2, ConcatProperties
  <1> HIDE DEF all
  <1>4. DOMAIN all = 1 .. 8 + Len(rest)
    BY <1>3
  <1>5. \A k \in DOMAIN all : all[k][2] # None
    BY <1>3, NullAssumption
  <1>6. FirstOf(all) = None
    BY DEF all, m, b
  <1>7. DOMAIN all \subseteq Nat
    BY <1>3, <1>4
  <1>8. \A k \in DOMAIN all : ~ all[k][1]
    BY <1>5, <1>6, <1>7, NoneFails
  <1>9. ASSUME NEW k \in 1 .. 4 PROVE ~ b[k][1]
    <2>1. k + 4 \in 1 .. 8 /\ k + 4 \in 1 .. 8 + Len(rest)
      BY <1>3
    <2>2. k + 4 \in DOMAIN all /\ all[k + 4] = b[k]
      BY <1>2, <1>3, <1>4, <2>1
    <2> QED
      BY <2>2, <1>8
  <1> QED
    BY <1>9 DEF b

(* What a level that may act has been found to be.                            *)
LEMMA MayAct ==
  ASSUME NEW s, NEW i, NEW ob, NEW fs, NEW now, NEW authority,
         Refusal(s, i, ob, fs, now, authority, None) = None
  PROVE  /\ i \in LevelIds(s) /\ i \notin Ledger(fs).levels
         /\ ~ (s.maxFills # None /\ Ledger(fs).count >= s.maxFills)
         /\ ~ (s.cooldown > 0 /\ Ledger(fs).last # None /\ now - Ledger(fs).last < s.cooldown)
         /\ ~ (Side(s, i) = "SELL" /\ Ledger(fs).base <= 0)
  <1> DEFINE ledger == Ledger(fs)
             rest == <<>>
             gate == FirstOf(Gate(s, i, now, authority, ledger))
  <1>1. rest \in Checks2
    BY DEF Checks2
  <1>2. "no_price_observation" # None
    BY NullAssumption DEF GridRefusals
  <1>3. Refusal(s, i, ob, fs, now, authority, None) =
            IF gate # None THEN gate
            ELSE IF ob = None THEN "no_price_observation"
            ELSE FirstOf(MarketChecks(s, i, ob, now) \o BudgetChecks(s, i, now, ledger) \o rest)
    BY DEF Refusal
  <1> HIDE DEF rest
  <1>4. /\ gate = None
        /\ FirstOf(MarketChecks(s, i, ob, now) \o BudgetChecks(s, i, now, ledger) \o rest) = None
    BY <1>2, <1>3
  <1>5. i \in LevelIds(s) /\ i \notin ledger.levels
    BY <1>4, GateOpen
  <1> HIDE DEF ledger
  <1>6. \A k \in 1 .. 4 : ~ BudgetChecks(s, i, now, ledger)[k][1]
    BY <1>1, <1>4, BudgetOpen
  <1>7. /\ ~ (s.maxFills # None /\ ledger.count >= s.maxFills)
        /\ ~ (s.cooldown > 0 /\ ledger.last # None /\ now - ledger.last < s.cooldown)
        /\ ~ (Side(s, i) = "SELL" /\ ledger.base <= 0)
    <2>1. /\ ~ BudgetChecks(s, i, now, ledger)[1][1] /\ ~ BudgetChecks(s, i, now, ledger)[2][1]
          /\ ~ BudgetChecks(s, i, now, ledger)[4][1]
      BY <1>6
    <2> QED
      BY <2>1 DEF BudgetChecks
  <1> QED
    BY <1>5, <1>7 DEF ledger

(* ----------------------------- the invariant ----------------------------- *)
(* What is stored of a fill, asked of the wallet, and held by it.            *)
Fills ==
    [level : Nat, side : {"BUY", "SELL"}, at : Int, state : {"FILLED", "FAILED"}, quote : Int,
     base : Int, execution : {"simulated", "onchain"}]

SwapCalls ==
    [level : Nat, to : {"router"}, method : {"swap"}, side : {"BUY", "SELL"}, amount : Int,
     quoted : Nat, least : Int]

WalletStates == [spent : Int, got : Int, base : Int, swaps : Int]

BuyFills(fs) == OfSide(fs, Applied(fs), "BUY")
SellFills(fs) == OfSide(fs, Applied(fs), "SELL")

(* The levels that were bought at.                                            *)
Bought(fs) == {fs[k].level : k \in BuyFills(fs)}

GridTypes ==
    /\ clock \in Nat /\ dry \in BOOLEAN /\ lost \in BOOLEAN
    /\ fills \in Seq(Fills)
    /\ wallet \in WalletStates
    /\ session # None => session \in Sessions
    /\ call # None => call \in SwapCalls
    /\ strategy # None =>
        /\ strategy \in Strategies
        /\ strategy.total > 0
        /\ BuyLevels(strategy) # {} => PerLevel(strategy) > 0
    /\ strategy = None => session = None /\ call = None /\ fills = <<>> /\ ~ dry

(* What the chain knows of the session is what left the wallet, all of it       *)
(* since the grant, and never more than the limit in one period.               *)
SessionKept ==
    /\ session = None => wallet.spent = 0
    /\ session # None =>
        /\ ~ dry
        /\ session.limit = strategy.total
        /\ session.granted <= clock
        /\ wallet.spent = SpentSince(session.spends, -1)
        /\ Capped(session.spends, session.limit, Periods[session.period], session.expiry)
        /\ NoneBefore(session.spends, session.granted)

Execution == IF dry THEN "simulated" ELSE "onchain"

(* The fills that count keep what the strategy asks of them.                 *)
FillsOK ==
    /\ \A k \in Applied(fills) :
        /\ fills[k].at <= clock
        /\ fills[k].level \in LevelIds(strategy)
        /\ fills[k].side = Side(strategy, fills[k].level)
        /\ fills[k].side = "BUY" => fills[k].quote = PerLevel(strategy)
        /\ fills[k].execution = Execution
    /\ \A j, k \in Applied(fills) :
        j < k => /\ fills[j].level # fills[k].level
                 /\ fills[k].at - fills[j].at >= strategy.cooldown
    /\ strategy.maxFills # None => Cardinality(Applied(fills)) <= strategy.maxFills
    /\ Sum(fills, "base") \in Nat
    /\ Total(fills, BuyFills(fills), "quote") = PerLevel(strategy) * Cardinality(Bought(fills))

(* The call under way was found to be allowed, and stays so until it is done.   *)
CallOK ==
    call # None =>
        /\ call.level \in LevelIds(strategy)
        /\ call.side = Side(strategy, call.level)
        /\ call.side = "BUY" => call.amount = PerLevel(strategy)
        /\ call.side = "SELL" => call.amount = Sum(fills, "base")
        /\ \A k \in Applied(fills) :
            /\ fills[k].level # call.level
            /\ clock - fills[k].at >= strategy.cooldown
        /\ strategy.maxFills # None => Cardinality(Applied(fills)) < strategy.maxFills

(* While no record was lost the fills are what the swaps did.                  *)
BooksKept ==
    /\ strategy = None => ~ lost
    /\ dry \/ strategy = None => wallet.spent = 0 /\ wallet.got = 0 /\ wallet.base = 0 /\ wallet.swaps = 0
    /\ ~ dry /\ ~ lost =>
        /\ wallet.spent = Total(fills, BuyFills(fills), "quote")
        /\ wallet.got = Total(fills, SellFills(fills), "quote")
        /\ wallet.base = Total(fills, BuyFills(fills), "base") - Total(fills, SellFills(fills), "base")
        /\ wallet.base = Sum(fills, "base")
        /\ wallet.swaps = Cardinality(Applied(fills))

(* The inductive invariant of the keeper.                                    *)
GridInv ==
    /\ GridTypes /\ SessionKept /\ BooksKept
    /\ strategy # None => FillsOK /\ CallOK

(* -------------------------- one more fill -------------------------------- *)

LEMMA AppliedMore ==
  ASSUME NEW T, NEW fs \in Seq(T), NEW fill
  PROVE  /\ Applied(Append(fs, fill)) =
                Applied(fs) \cup (IF fill.state = "FILLED" THEN {Len(fs) + 1} ELSE {})
         /\ BuyFills(Append(fs, fill)) =
                BuyFills(fs) \cup (IF fill.state = "FILLED" /\ fill.side = "BUY"
                                   THEN {Len(fs) + 1} ELSE {})
         /\ SellFills(Append(fs, fill)) =
                SellFills(fs) \cup (IF fill.state = "FILLED" /\ fill.side = "SELL"
                                    THEN {Len(fs) + 1} ELSE {})
         /\ Applied(fs) \subseteq 1 .. Len(fs)
         /\ BuyFills(fs) \subseteq Applied(fs) /\ SellFills(fs) \subseteq Applied(fs)
  BY DEF Applied, BuyFills, SellFills, OfSide

LEMMA BuysMore ==
  ASSUME NEW T, NEW fs \in Seq(T), NEW fill, NEW field, NEW value, value = fill[field]
  PROVE  /\ Total(Append(fs, fill), BuyFills(Append(fs, fill)), field)
                = Total(fs, BuyFills(fs), field)
                    + (IF fill.state = "FILLED" /\ fill.side = "BUY" THEN value ELSE 0)
         /\ Total(Append(fs, fill), SellFills(Append(fs, fill)), field)
                = Total(fs, SellFills(fs), field)
                    + (IF fill.state = "FILLED" /\ fill.side = "SELL" THEN value ELSE 0)
  <1> DEFINE b == BuyFills(fs)
             s == SellFills(fs)
             b1 == BuyFills(Append(fs, fill))
             s1 == SellFills(Append(fs, fill))
  <1>1. Len(fs) \in Nat /\ b \subseteq 1 .. Len(fs) /\ s \subseteq 1 .. Len(fs)
    BY AppliedMore
  <1>2. b1 = b \cup (IF fill.state = "FILLED" /\ fill.side = "BUY" THEN {Len(fs) + 1} ELSE {})
    BY AppliedMore
  <1>3. s1 = s \cup (IF fill.state = "FILLED" /\ fill.side = "SELL" THEN {Len(fs) + 1} ELSE {})
    BY AppliedMore
  <1> HIDE DEF b, s, b1, s1
  <1>4. /\ \A k \in 1 .. Len(fs) : k \in b <=> k \in b1
        /\ Len(fs) + 1 \in b1 <=> fill.state = "FILLED" /\ fill.side = "BUY"
    BY <1>1, <1>2
  <1>5. /\ \A k \in 1 .. Len(fs) : k \in s <=> k \in s1
        /\ Len(fs) + 1 \in s1 <=> fill.state = "FILLED" /\ fill.side = "SELL"
    BY <1>1, <1>3
  <1>6. Total(Append(fs, fill), b1, field)
            = Total(fs, b, field) + (IF Len(fs) + 1 \in b1 THEN value ELSE 0)
    BY <1>4, TotalMore
  <1>7. Total(Append(fs, fill), s1, field)
            = Total(fs, s, field) + (IF Len(fs) + 1 \in s1 THEN value ELSE 0)
    BY <1>5, TotalMore
  <1> QED
    BY <1>4, <1>5, <1>6, <1>7 DEF b, b1, s, s1

LEMMA AppliedFinite ==
  ASSUME NEW T, NEW fs \in Seq(T)
  PROVE  IsFiniteSet(Applied(fs)) /\ Cardinality(Applied(fs)) \in Nat
         /\ IsFiniteSet(Bought(fs)) /\ Cardinality(Bought(fs)) \in Nat
  <1>1. Len(fs) \in Nat /\ Applied(fs) \subseteq 1 .. Len(fs) /\ BuyFills(fs) \subseteq 1 .. Len(fs)
    BY AppliedMore
  <1>2. IsFiniteSet(1 .. Len(fs))
    BY <1>1, FS_Interval
  <1>3. IsFiniteSet(Applied(fs)) /\ IsFiniteSet(BuyFills(fs))
    BY <1>1, <1>2, FS_Subset
  <1>4. IsFiniteSet(Bought(fs))
    <2> DEFINE f == [k \in BuyFills(fs) |-> fs[k].level]
    <2>1. f \in Surjection(BuyFills(fs), Bought(fs))
      BY DEF Bought, Surjection, Range
    <2> QED
      BY <1>3, <2>1, FS_Surjection
  <1> QED
    BY <1>3, <1>4, FS_CardinalityType

LEMMA LastFill ==
  ASSUME NEW fs \in Seq(Fills), NEW now \in Int, \A k \in Applied(fs) : fs[k].at <= now,
         NEW k \in Applied(fs)
  PROVE  /\ Ledger(fs).last # None /\ Ledger(fs).last \in Int
         /\ fs[k].at <= Ledger(fs).last
  <1> DEFINE at == {fs[j].at : j \in Applied(fs)}
             T == {now - t : t \in at}
  <1>1. \A t \in at : t \in Int /\ t <= now
    <2>1. \A j \in Applied(fs) : fs[j] \in Fills
      BY DEF Applied
    <2>2. \A j \in Applied(fs) : fs[j].at \in Int
      BY <2>1 DEF Fills
    <2> QED
      BY <2>2
  <1>2. T \in SUBSET Nat /\ T # {}
    BY <1>1
  <1>3. PICK x \in T : \A y \in T : x <= y
    BY <1>2, LeastNumber
  <1>4. PICK t \in at : x = now - t
    BY <1>3
  <1>5. \A u \in at : now - u \in T
    OBVIOUS
  <1>6. ASSUME NEW u \in at PROVE u <= t
    <2>1. x <= now - u
      BY <1>3, <1>5
    <2>2. u \in Int /\ t \in Int
      BY <1>1, <1>4
    <2> QED
      BY <1>4, <2>1, <2>2
  <1> DEFINE last == CHOOSE l \in at : \A u \in at : u <= l
  <1>7. last \in at /\ \A u \in at : u <= last
    BY <1>4, <1>6
  <1>8. at # {} /\ fs[k].at \in at
    OBVIOUS
  <1>9. Ledger(fs).last = last
    BY <1>8 DEF Ledger
  <1> HIDE DEF last
  <1> QED
    BY <1>1, <1>7, <1>8, <1>9, NullAssumption

(* The prices of a grid depend on its range, its count and its spacing alone.   *)
GeometricAt(lower, upper, count, i) ==
    LET n == count - 1
        power == 2 ^ n * lower ^ (n - i) * upper ^ i
    IN  CHOOSE m \in lower .. upper :
            (2 * m - 1) ^ n <= power /\ power < (2 * m + 1) ^ n

LEMMA SameLevels ==
  ASSUME NEW s, NEW t, s.lower = t.lower, s.upper = t.upper, s.count = t.count,
         s.spacing = t.spacing, s.reference = t.reference, s.total = t.total,
         s.maxPerLevel = t.maxPerLevel
  PROVE  /\ LevelIds(s) = LevelIds(t)
         /\ \A i : LevelPrice(s, i) = LevelPrice(t, i) /\ Side(s, i) = Side(t, i)
         /\ BuyLevels(s) = BuyLevels(t)
         /\ PerLevel(s) = PerLevel(t)
  <1>1. LevelIds(s) = LevelIds(t)
    BY DEF LevelIds
  <1>2. ASSUME NEW i PROVE LevelPrice(s, i) = LevelPrice(t, i) /\ Side(s, i) = Side(t, i)
    <2>1. Arithmetic(s, i) = Arithmetic(t, i)
      BY DEF Arithmetic
    <2>2. /\ Geometric(s, i) = GeometricAt(s.lower, s.upper, s.count, i)
          /\ Geometric(t, i) = GeometricAt(t.lower, t.upper, t.count, i)
      BY Zenon DEF Geometric, GeometricAt
    <2>3. Geometric(s, i) = Geometric(t, i)
      BY <2>2
    <2>4. LevelPrice(s, i) = LevelPrice(t, i)
      BY <2>1, <2>3 DEF LevelPrice
    <2>5. Middle(s) = Middle(t)
      BY DEF Middle
    <2>6. Side(s, i) = Side(t, i)
      BY <2>4, <2>5 DEF Side
    <2> QED
      BY <2>4, <2>6
  <1>3. BuyLevels(s) = BuyLevels(t)
    BY <1>1, <1>2 DEF BuyLevels
  <1>4. PerLevel(s) = PerLevel(t)
    BY <1>3 DEF PerLevel
  <1> QED
    BY <1>1, <1>2, <1>3, <1>4

LEMMA Shared ==
  ASSUME NEW total \in Nat, NEW n \in Nat \ {0}
  PROVE  total \div n \in Nat /\ (total \div n) * n <= total
  OBVIOUS

LEMMA Scaled ==
  ASSUME NEW a \in Int, NEW b \in Int, NEW n \in Nat, a <= b
  PROVE  a * n <= b * n
  OBVIOUS

(* Whatever levels are bought at, once each, the capital covers it.             *)
LEMMA Affordable ==
  ASSUME NEW s \in Strategies, s.total > 0, BuyLevels(s) # {} => PerLevel(s) > 0,
         NEW B \in SUBSET BuyLevels(s)
  PROVE  /\ IsFiniteSet(BuyLevels(s)) /\ PerLevel(s) \in Nat
         /\ PerLevel(s) * Cardinality(B) <= s.total
  <1> DEFINE n == Cardinality(BuyLevels(s))
             share == s.total \div n
  <1>1. s.total \in Int /\ s.total \in Nat /\ s.maxPerLevel \in Int \cup {None} /\ s.count \in Nat
    <2>1. s.total \in Totals /\ s.maxPerLevel \in LevelCaps /\ s.count \in Counts
      BY DEF Strategies
    <2>2. /\ Totals \subseteq Int /\ LevelCaps \subseteq Int \cup {None}
          /\ Counts \subseteq Nat \ {0, 1}
      BY GridAssumption
    <2>3. s.total \in Int /\ s.maxPerLevel \in Int \cup {None} /\ s.count \in Nat
      BY <2>1, <2>2
    <2> QED
      BY <2>3
  <1>2. IsFiniteSet(BuyLevels(s)) /\ n \in Nat /\ (n = 0 <=> BuyLevels(s) = {})
    <2>1. IsFiniteSet(LevelIds(s)) /\ BuyLevels(s) \subseteq LevelIds(s)
      <3>1. 0 \in Int /\ s.count - 1 \in Int
        BY <1>1
      <3> QED
        BY <3>1, FS_Interval DEF LevelIds, BuyLevels
    <2> QED
      BY <2>1, FS_Subset, FS_CardinalityType, FS_EmptySet
  <1>3. IsFiniteSet(B) /\ Cardinality(B) \in Nat /\ Cardinality(B) <= n
    BY <1>2, FS_Subset, FS_CardinalityType
  <1>4. CASE n = 0
    <2>1. PerLevel(s) = 0 /\ Cardinality(B) = 0
      BY <1>3, <1>4 DEF PerLevel
    <2> QED
      BY <1>1, <1>2, <2>1
  <1>5. CASE n # 0
    <2>1. share \in Nat /\ share * n <= s.total
      BY <1>1, <1>2, <1>5, Shared
    <2>2. PerLevel(s) = IF s.maxPerLevel = None \/ share < s.maxPerLevel THEN share ELSE s.maxPerLevel
      BY <1>5 DEF PerLevel
    <2>3. PerLevel(s) > 0
      BY <1>2, <1>5
    <2> DEFINE c == Cardinality(B)
    <2>0. c \in Nat /\ c <= n /\ n \in Nat
      BY <1>2, <1>3
    <2> HIDE DEF n, share, c
    <2>4. PerLevel(s) \in Int /\ PerLevel(s) <= share
      BY <1>1, <2>1, <2>2
    <2>5. PerLevel(s) \in Nat
      BY <2>3, <2>4
    <2>6. PerLevel(s) * c <= share * c
      <3>1. share \in Int /\ PerLevel(s) \in Int /\ c \in Nat /\ PerLevel(s) <= share
        BY <2>0, <2>1, <2>4
      <3> QED
        BY <3>1, Scaled
    <2>7. share * c <= share * n
      <3>1. c * share <= n * share
        <4>1. c \in Int /\ n \in Int /\ share \in Nat /\ c <= n
          BY <2>0, <2>1
        <4> QED
          BY <4>1, Scaled
      <3>2. c \in Int /\ n \in Int /\ share \in Int
        BY <2>0, <2>1
      <3> QED
        BY <3>1, <3>2
    <2>8. /\ PerLevel(s) * c \in Int /\ share * c \in Int /\ share * n \in Int
      BY <2>0, <2>1, <2>4
    <2>9. PerLevel(s) * c <= s.total
      BY <1>1, <2>1, <2>6, <2>7, <2>8
    <2> QED
      BY <1>2, <2>5, <2>9 DEF c
  <1> QED
    BY <1>4, <1>5

LEMMA StrategyFields ==
  ASSUME NEW s \in Strategies
  PROVE  /\ s.cooldown \in Int /\ s.maxFills \in Nat \cup {None} /\ s.count \in Nat
         /\ s.total \in Int /\ s.expiry = GridHorizon
         /\ LevelIds(s) \subseteq Nat
         /\ \A i : Side(s, i) \in {"BUY", "SELL"}
  <1>1. /\ s.cooldown \in Cooldowns /\ s.maxFills \in FillCaps /\ s.count \in Counts
        /\ s.total \in Totals /\ s.expiry = GridHorizon
    BY DEF Strategies
  <1>2. /\ Cooldowns \subseteq Int /\ FillCaps \subseteq Nat \cup {None}
        /\ Counts \subseteq Nat \ {0, 1} /\ Totals \subseteq Int
    BY GridAssumption
  <1>3. /\ s.cooldown \in Int /\ s.maxFills \in Nat \cup {None} /\ s.count \in Nat
        /\ s.total \in Int /\ s.expiry = GridHorizon
    BY <1>1, <1>2
  <1>4. LevelIds(s) \subseteq Nat
    BY <1>3 DEF LevelIds
  <1>5. \A i : Side(s, i) \in {"BUY", "SELL"}
    BY DEF Side
  <1> QED
    BY <1>3, <1>4, <1>5

LEMMA PerLevelIs == ASSUME GridInv, strategy # None PROVE PerLevel(strategy) \in Nat
  <1>1. /\ strategy \in Strategies /\ strategy.total > 0
        /\ BuyLevels(strategy) # {} => PerLevel(strategy) > 0
    BY DEF GridInv, GridTypes
  <1>2. {} \in SUBSET BuyLevels(strategy)
    OBVIOUS
  <1> QED
    BY <1>1, <1>2, Affordable

LEMMA NextMayAct ==
  ASSUME NEW s, LevelIds(s) \subseteq Nat, NEW ob, NEW fs, NEW now, NEW authority,
         NextAction(s, ob, fs, now, authority) # None
  PROVE  /\ NextAction(s, ob, fs, now, authority) \in LevelIds(s)
         /\ Refusal(s, NextAction(s, ob, fs, now, authority), ob, fs, now, authority, None) = None
  <1> DEFINE may == Eligible(s, ob, fs, now, authority)
  <1>1. may \in SUBSET Nat
    BY DEF Eligible
  <1>2. may # {} /\ NextAction(s, ob, fs, now, authority)
                        = CHOOSE i \in may : \A j \in may : i <= j
    BY DEF NextAction
  <1> HIDE DEF may
  <1>3. \E i \in may : \A j \in may : i <= j
    BY <1>1, <1>2, LeastNumber
  <1>4. NextAction(s, ob, fs, now, authority) \in may
    BY <1>2, <1>3
  <1> QED
    BY <1>4 DEF may, Eligible

LEMMA EvaluateOK == ASSUME GridInv, Evaluate PROVE GridInv'
  <1>1. strategy # None /\ call = None /\ strategy \in Strategies
    BY DEF Evaluate, GridInv, GridTypes
  <1>2. PICK ob \in Observed, authority \in KnownAuthority, quoted \in Quotes :
            LET next == NextAction(strategy, ob, fills, clock, authority)
            IN  next # None /\ call' = SwapCall(strategy, next, quoted)
    BY DEF Evaluate
  <1> DEFINE i == NextAction(strategy, ob, fills, clock, authority)
  <1>3. UNCHANGED <<strategy, clock, session, fills, wallet, dry, lost>>
    BY DEF Evaluate
  <1>4. /\ i \in LevelIds(strategy)
        /\ Refusal(strategy, i, ob, fills, clock, authority, None) = None
    BY <1>1, <1>2, StrategyFields, NextMayAct
  <1>5. call' = SwapCall(strategy, i, quoted)
    BY <1>2
  <1> HIDE DEF i
  <1>6. /\ i \notin Ledger(fills).levels
        /\ ~ (strategy.maxFills # None /\ Ledger(fills).count >= strategy.maxFills)
        /\ ~ (strategy.cooldown > 0 /\ Ledger(fills).last # None
              /\ clock - Ledger(fills).last < strategy.cooldown)
    BY <1>4, MayAct
  <1>7. /\ fills \in Seq(Fills) /\ clock \in Nat /\ FillsOK
        /\ PerLevel(strategy) \in Nat /\ Sum(fills, "base") \in Nat
    <2>1. fills \in Seq(Fills) /\ clock \in Nat /\ FillsOK
      BY <1>1 DEF GridInv, GridTypes
    <2>2. PerLevel(strategy) \in Nat
      BY <1>1, PerLevelIs
    <2> QED
      BY <2>1, <2>2 DEF FillsOK
  <1>8. /\ call'.level = i /\ call'.side = Side(strategy, i)
        /\ call'.amount = IF Side(strategy, i) = "BUY" THEN PerLevel(strategy) ELSE Sum(fills, "base")
    BY <1>5 DEF SwapCall, Allocation, Ledger
  <1>9. call' \in SwapCalls
    <2>1. quoted \in Nat
      BY GridAssumption
    <2>2. MinimumOut(quoted, Slippage) \in Int
      BY <2>1 DEF MinimumOut, Slippage, BasisPoints
    <2>3. /\ i \in Nat /\ Side(strategy, i) \in {"BUY", "SELL"}
      BY <1>1, <1>4, StrategyFields
    <2>4. call'.amount \in Int
      BY <1>7, <1>8
    <2> QED
      BY <1>5, <2>1, <2>2, <2>3, <2>4 DEF SwapCall, SwapCalls
  <1>10. ASSUME NEW k \in Applied(fills)
         PROVE  fills[k].level # i /\ clock - fills[k].at >= strategy.cooldown
    <2>1. fills[k].level # i
      BY <1>6 DEF Ledger
    <2>2. fills[k] \in Fills
      BY <1>7 DEF Applied
    <2>3. fills[k].at \in Int /\ fills[k].at <= clock
      BY <1>7, <2>2 DEF Fills, FillsOK
    <2>4. /\ Ledger(fills).last # None /\ Ledger(fills).last \in Int
          /\ fills[k].at <= Ledger(fills).last
      <3>1. clock \in Int /\ \A j \in Applied(fills) : fills[j].at <= clock
        BY <1>7 DEF FillsOK
      <3> QED
        BY <1>7, <3>1, LastFill
    <2>5. strategy.cooldown \in Int
      BY <1>1, StrategyFields
    <2>6. clock - fills[k].at >= strategy.cooldown
      BY <1>6, <1>7, <2>3, <2>4, <2>5
    <2> QED
      BY <2>1, <2>6
  <1>11. strategy.maxFills # None => Cardinality(Applied(fills)) < strategy.maxFills
    <2>1. Ledger(fills).count = Cardinality(Applied(fills))
      BY DEF Ledger
    <2>2. Cardinality(Applied(fills)) \in Nat
      BY <1>7, AppliedFinite
    <2>3. strategy.maxFills \in Nat \cup {None}
      BY <1>1, StrategyFields
    <2> QED
      BY <1>6, <2>1, <2>2, <2>3
  <1>12. CallOK'
    BY <1>3, <1>4, <1>8, <1>10, <1>11 DEF CallOK
  <1>13. FillsOK'
    BY <1>3, <1>7 DEF FillsOK, Execution
  <1>14. GridTypes'
    BY <1>1, <1>3, <1>9 DEF GridInv, GridTypes
  <1>15. SessionKept' /\ BooksKept'
    BY <1>3 DEF GridInv, SessionKept, BooksKept
  <1> QED
    BY <1>12, <1>13, <1>14, <1>15 DEF GridInv

LEMMA FillKept ==
  ASSUME GridInv, call # None, NEW out \in Nat, fills' = Append(fills, Fill(out, "FILLED")),
         UNCHANGED <<strategy, clock, dry>>
  PROVE  /\ strategy # None /\ fills' \in Seq(Fills) /\ FillsOK'
         /\ Applied(fills') = Applied(fills) \cup {Len(fills) + 1}
         /\ Cardinality(Applied(fills')) = Cardinality(Applied(fills)) + 1
         /\ Sum(fills', "base") = IF call.side = "BUY" THEN Sum(fills, "base") + out
                                  ELSE Sum(fills, "base") - call.amount
  <1> DEFINE fill == Fill(out, "FILLED")
             n == Len(fills)
  <1>1. /\ strategy # None /\ strategy \in Strategies /\ FillsOK /\ CallOK /\ call \in SwapCalls
        /\ fills \in Seq(Fills) /\ clock \in Nat /\ dry \in BOOLEAN
    BY DEF GridInv, GridTypes
  <1>2. /\ call.level \in Nat /\ call.side \in {"BUY", "SELL"} /\ call.amount \in Int
        /\ call.level \in LevelIds(strategy) /\ call.side = Side(strategy, call.level)
        /\ call.side = "BUY" => call.amount = PerLevel(strategy)
        /\ call.side = "SELL" => call.amount = Sum(fills, "base")
    BY <1>1 DEF SwapCalls, CallOK
  <1>3. /\ fill.level = call.level /\ fill.side = call.side /\ fill.at = clock
        /\ fill.state = "FILLED" /\ fill \in Fills
        /\ fill.quote = (IF call.side = "BUY" THEN call.amount ELSE out)
        /\ fill.base = (IF call.side = "BUY" THEN out ELSE call.amount)
        /\ fill.execution = Execution
    BY <1>1, <1>2 DEF Fill, Fills, Execution
  <1>4. fills' = Append(fills, fill)
    OBVIOUS
  <1> HIDE DEF fill
  <1>5. /\ n \in Nat /\ fills' \in Seq(Fills) /\ Len(fills') = n + 1 /\ fills'[n + 1] = fill
        /\ \A k \in 1 .. n : fills'[k] = fills[k]
    BY <1>1, <1>3, <1>4
  <1>6. /\ Applied(fills') = Applied(fills) \cup {n + 1}
        /\ BuyFills(fills') = BuyFills(fills) \cup (IF call.side = "BUY" THEN {n + 1} ELSE {})
        /\ Applied(fills) \subseteq 1 .. n /\ BuyFills(fills) \subseteq Applied(fills)
    BY <1>1, <1>3, <1>4, AppliedMore
  <1> HIDE DEF n
  <1>7. /\ n + 1 \notin Applied(fills) /\ n + 1 \notin BuyFills(fills)
        /\ \A k \in Applied(fills) : k < n + 1 /\ fills'[k] = fills[k]
        /\ \A k \in BuyFills(fills) : fills'[k] = fills[k]
    BY <1>5, <1>6
  <1>8. /\ Cardinality(Applied(fills')) = Cardinality(Applied(fills)) + 1
        /\ IsFiniteSet(Bought(fills)) /\ Cardinality(Bought(fills)) \in Nat
        /\ Cardinality(Applied(fills)) \in Nat
    BY <1>1, <1>6, <1>7, AppliedFinite, FS_AddElement
  <1>9. Sum(fills', "base") = Sum(fills, "base") + (IF call.side = "BUY" THEN out ELSE 0 - call.amount)
    <2>1. Sum(fills', "base") = Sum(fills, "base") + Amount(fill, "base")
      BY <1>1, <1>3, <1>4, SumMore
    <2> QED
      BY <1>2, <1>3, <2>1 DEF Amount
  <1>10. Sum(fills, "base") \in Nat
    BY <1>1 DEF FillsOK
  <1>11. Sum(fills', "base") = (IF call.side = "BUY" THEN Sum(fills, "base") + out
                                ELSE Sum(fills, "base") - call.amount)
         /\ Sum(fills', "base") \in Nat
    BY <1>2, <1>9, <1>10
  <1>12. ASSUME NEW k \in Applied(fills)
         PROVE  fills[k].level # call.level /\ clock - fills[k].at >= strategy.cooldown
    BY <1>1 DEF CallOK
  <1>13. Total(fills', BuyFills(fills'), "quote") = PerLevel(strategy) * Cardinality(Bought(fills'))
    <2> DEFINE c == Cardinality(Bought(fills))
    <2>1. Total(fills, BuyFills(fills), "quote") = PerLevel(strategy) * c
      BY <1>1 DEF FillsOK
    <2>2. PerLevel(strategy) \in Int
      BY <1>1, PerLevelIs
    <2>4. Total(fills', BuyFills(fills'), "quote") =
            Total(fills, BuyFills(fills), "quote")
                + (IF n + 1 \in BuyFills(fills') THEN fill.quote ELSE 0)
      <3>1. Total(Append(fills, fill), BuyFills(Append(fills, fill)), "quote") =
                Total(fills, BuyFills(fills), "quote")
                    + (IF fill.state = "FILLED" /\ fill.side = "BUY" THEN fill.quote ELSE 0)
        BY <1>1, BuysMore
      <3>2. n + 1 \in BuyFills(fills') <=> fill.state = "FILLED" /\ fill.side = "BUY"
        BY <1>3, <1>6, <1>7
      <3> QED
        BY <1>4, <3>1, <3>2
    <2>5. CASE call.side = "BUY"
      <3>1. Bought(fills') = Bought(fills) \cup {call.level}
        BY <1>3, <1>5, <1>6, <1>7, <2>5 DEF Bought
      <3>2. call.level \notin Bought(fills)
        BY <1>6, <1>12 DEF Bought
      <3>3. Cardinality(Bought(fills')) = c + 1
        BY <1>8, <3>1, <3>2, FS_AddElement
      <3>4. Total(fills', BuyFills(fills'), "quote") = PerLevel(strategy) * c + PerLevel(strategy)
        BY <1>2, <1>3, <1>6, <2>1, <2>4, <2>5
      <3>5. c \in Nat
        BY <1>8
      <3> HIDE DEF c
      <3>6. PerLevel(strategy) * (c + 1) = PerLevel(strategy) * c + PerLevel(strategy)
        BY <2>2, <3>5
      <3> QED
        BY <3>3, <3>4, <3>6
    <2>6. CASE call.side # "BUY"
      <3>1. Bought(fills') = Bought(fills)
        BY <1>6, <1>7, <2>6 DEF Bought
      <3>2. PerLevel(strategy) * c \in Int
        BY <1>8, <2>2
      <3>3. n + 1 \notin BuyFills(fills')
        BY <1>6, <1>7, <2>6
      <3> QED
        BY <2>1, <2>4, <3>1, <3>2, <3>3
    <2> QED
      BY <2>5, <2>6
  <1>14. strategy' = strategy /\ clock' = clock /\ dry' = dry
    OBVIOUS
  <1>16. Execution' = Execution
    BY DEF Execution
  <1>15. FillsOK'
    <2>1. ASSUME NEW k \in Applied(fills')
          PROVE  /\ fills'[k].at <= clock
                 /\ fills'[k].level \in LevelIds(strategy)
                 /\ fills'[k].side = Side(strategy, fills'[k].level)
                 /\ fills'[k].side = "BUY" => fills'[k].quote = PerLevel(strategy)
                 /\ fills'[k].execution = Execution
      <3>1. CASE k = n + 1
        BY <1>1, <1>2, <1>3, <1>5, <3>1
      <3>2. CASE k \in Applied(fills)
        BY <1>1, <1>7, <3>2 DEF FillsOK
      <3> QED
        BY <1>6, <3>1, <3>2
    <2>2. ASSUME NEW j \in Applied(fills'), NEW k \in Applied(fills'), j < k
          PROVE  /\ fills'[j].level # fills'[k].level
                 /\ fills'[k].at - fills'[j].at >= strategy.cooldown
      <3>1. CASE k = n + 1
        <4>1. j \in Applied(fills)
          BY <1>5, <1>6, <2>2, <3>1
        <4> QED
          BY <1>3, <1>5, <1>7, <1>12, <3>1, <4>1
      <3>2. CASE k \in Applied(fills)
        <4>1. j \in Applied(fills)
          BY <1>5, <1>6, <1>7, <2>2, <3>2
        <4> QED
          BY <1>1, <1>7, <2>2, <3>2, <4>1 DEF FillsOK
      <3> QED
        BY <1>6, <3>1, <3>2
    <2>3. strategy.maxFills # None => Cardinality(Applied(fills')) <= strategy.maxFills
      <3>1. strategy.maxFills # None => Cardinality(Applied(fills)) < strategy.maxFills
        BY <1>1 DEF CallOK
      <3>2. strategy.maxFills \in Nat \cup {None}
        BY <1>1, StrategyFields
      <3> QED
        BY <1>8, <3>1, <3>2
    <2>4. \A k \in Applied(fills') :
            /\ fills'[k].at <= clock'
            /\ fills'[k].level \in LevelIds(strategy')
            /\ fills'[k].side = Side(strategy', fills'[k].level)
            /\ fills'[k].side = "BUY" => fills'[k].quote = PerLevel(strategy')
            /\ fills'[k].execution = Execution'
      <3> SUFFICES ASSUME NEW k \in Applied(fills')
                   PROVE  /\ fills'[k].at <= clock
                          /\ fills'[k].level \in LevelIds(strategy)
                          /\ fills'[k].side = Side(strategy, fills'[k].level)
                          /\ fills'[k].side = "BUY" => fills'[k].quote = PerLevel(strategy)
                          /\ fills'[k].execution = Execution
        BY <1>14, <1>16
      <3> QED
        BY <2>1
    <2>5. \A j, k \in Applied(fills') :
            j < k => /\ fills'[j].level # fills'[k].level
                     /\ fills'[k].at - fills'[j].at >= strategy'.cooldown
      BY <1>14, <2>2
    <2>6. /\ strategy'.maxFills # None => Cardinality(Applied(fills')) <= strategy'.maxFills
          /\ Sum(fills', "base") \in Nat
          /\ Total(fills', BuyFills(fills'), "quote") = PerLevel(strategy') * Cardinality(Bought(fills'))
      BY <1>11, <1>13, <1>14, <2>3
    <2> QED
      BY <2>4, <2>5, <2>6 DEF FillsOK
  <1> QED
    BY <1>1, <1>5, <1>6, <1>8, <1>11, <1>15 DEF n

LEMMA NothingApplied ==
  /\ Applied(<<>>) = {} /\ BuyFills(<<>>) = {} /\ SellFills(<<>>) = {} /\ Bought(<<>>) = {}
  /\ Cardinality({}) = 0
  /\ Sum(<<>>, "base") = 0 /\ \A of, field : Total(<<>>, of, field) = 0
  BY NoSums, FS_EmptySet DEF Applied, BuyFills, SellFills, OfSide, Bought

LEMMA GridInitOK == GridInit => GridInv
  <1> SUFFICES ASSUME GridInit PROVE GridInv
    OBVIOUS
  <1>1. /\ strategy = None /\ clock = 0 /\ session = None /\ call = None /\ fills = <<>>
        /\ wallet = [spent |-> 0, got |-> 0, base |-> 0, swaps |-> 0] /\ ~ dry /\ ~ lost
        /\ dry \in BOOLEAN /\ lost \in BOOLEAN
    BY DEF GridInit
  <1>2. GridTypes
    BY <1>1 DEF GridTypes, WalletStates
  <1>3. SessionKept
    BY <1>1 DEF SessionKept
  <1>4. BooksKept
    <2>1. /\ \A of, field : Total(fills, of, field) = 0
          /\ Sum(fills, "base") = 0 /\ Cardinality(Applied(fills)) = 0
      BY <1>1, NothingApplied
    <2> QED
      BY <1>1, <2>1 DEF BooksKept
  <1> QED
    BY <1>1, <1>2, <1>3, <1>4 DEF GridInv

LEMMA PlannedIs ==
  ASSUME NEW p \in Plans
  PROVE  /\ Planned(p) \in Strategies /\ Planned(p).total > 0
         /\ BuyLevels(Planned(p)) # {} => PerLevel(Planned(p)) > 0
  <1> DEFINE q == Planned(p)
  <1>1. /\ p \in [lower : {1}, upper : Uppers, count : Counts,
                 spacing : {"arithmetic", "geometric"}, reference : References,
                 total : Totals, maxPerLevel : LevelCaps, maxFills : FillCaps,
                 cooldown : Cooldowns]
        /\ Accepted(p)
    BY DEF Plans
  <1>2. q \in Strategies
    BY <1>1 DEF Planned, Venue, Strategies, StrategyStates
  <1>3. /\ q.lower = p.lower /\ q.upper = p.upper /\ q.count = p.count /\ q.spacing = p.spacing
        /\ q.reference = p.reference /\ q.total = p.total /\ q.maxPerLevel = p.maxPerLevel
    BY DEF Planned
  <1>4. BuyLevels(q) = BuyLevels(p) /\ PerLevel(q) = PerLevel(p)
    BY <1>3, SameLevels
  <1> HIDE DEF q
  <1> QED
    BY <1>1, <1>2, <1>3, <1>4 DEF Accepted, q

LEMMA PlanOK == ASSUME GridInv, Plan PROVE GridInv'
  <1>1. PICK p \in Plans : strategy' = Planned(p)
    BY DEF Plan
  <1>2. /\ strategy = None /\ session = None /\ call = None /\ fills = <<>> /\ wallet.spent = 0
        /\ UNCHANGED <<clock, session, call, fills, wallet, lost>> /\ dry' \in BOOLEAN /\ ~ dry
    BY DEF Plan, GridInv, GridTypes, SessionKept
  <1>3. /\ strategy' \in Strategies /\ strategy'.total > 0
        /\ BuyLevels(strategy') # {} => PerLevel(strategy') > 0
    BY <1>1, PlannedIs
  <1>4. strategy' # None
    BY <1>3, GridAssumption
  <1>5. GridTypes'
    BY <1>2, <1>3, <1>4 DEF GridInv, GridTypes
  <1>6. SessionKept'
    BY <1>2 DEF SessionKept
  <1>7. CallOK'
    BY <1>2 DEF CallOK
  <1>8. FillsOK'
    <2>1. PerLevel(strategy') * 0 = 0
      <3>1. PerLevel(strategy') \in Nat
        <4>1. {} \in SUBSET BuyLevels(strategy')
          OBVIOUS
        <4> QED
          BY <1>3, <4>1, Affordable
      <3> QED
        BY <3>1
    <2>2. strategy'.maxFills \in Nat \cup {None}
      BY <1>3, StrategyFields
    <2>3. fills' = <<>>
      BY <1>2
    <2>4. \A k \in Applied(fills') : FALSE
      BY <2>3, NothingApplied
    <2>5. strategy'.maxFills # None => Cardinality(Applied(fills')) <= strategy'.maxFills
      BY <2>2, <2>3, NothingApplied
    <2>6. Sum(fills', "base") \in Nat
      BY <2>3, NothingApplied
    <2>7. Total(fills', BuyFills(fills'), "quote") = PerLevel(strategy') * Cardinality(Bought(fills'))
      BY <2>1, <2>3, NothingApplied
    <2> QED
      BY <2>4, <2>5, <2>6, <2>7 DEF FillsOK
  <1>9. BooksKept'
    <2>1. wallet.spent = 0 /\ wallet.got = 0 /\ wallet.base = 0 /\ wallet.swaps = 0
      BY <1>2 DEF GridInv, BooksKept
    <2>2. /\ \A of, field : Total(fills', of, field) = 0
          /\ Sum(fills', "base") = 0 /\ Cardinality(Applied(fills')) = 0
      BY <1>2, NothingApplied
    <2>3. wallet' = wallet
      BY <1>2
    <2> QED
      BY <1>4, <2>1, <2>2, <2>3 DEF BooksKept
  <1> QED
    BY <1>5, <1>6, <1>7, <1>8, <1>9 DEF GridInv

LEMMA MoveOK == ASSUME GridInv, NEW next, Move(next) PROVE GridInv'
  <1>1. /\ strategy \in Strategies /\ strategy # None /\ next \in StrategyStates
        /\ strategy' = [strategy EXCEPT !.state = next]
        /\ UNCHANGED <<clock, session, call, fills, wallet, dry, lost>>
    BY DEF Move, MayMove, GridInv, GridTypes
  <1>2. /\ strategy' \in Strategies
        /\ strategy'.lower = strategy.lower /\ strategy'.upper = strategy.upper
        /\ strategy'.count = strategy.count /\ strategy'.spacing = strategy.spacing
        /\ strategy'.reference = strategy.reference /\ strategy'.total = strategy.total
        /\ strategy'.maxPerLevel = strategy.maxPerLevel
        /\ strategy'.maxFills = strategy.maxFills /\ strategy'.cooldown = strategy.cooldown
    BY <1>1 DEF Strategies
  <1>3. strategy' # None
    BY <1>2, GridAssumption
  <1>4. /\ LevelIds(strategy') = LevelIds(strategy)
        /\ \A i : Side(strategy', i) = Side(strategy, i)
        /\ BuyLevels(strategy') = BuyLevels(strategy)
        /\ PerLevel(strategy') = PerLevel(strategy)
    BY <1>2, SameLevels
  <1>5. GridTypes'
    BY <1>1, <1>2, <1>3, <1>4 DEF GridInv, GridTypes
  <1>6. SessionKept'
    BY <1>1, <1>2 DEF GridInv, SessionKept
  <1>9. BooksKept'
    <2>1. BooksKept /\ UNCHANGED <<fills, wallet, dry, lost>>
      BY <1>1 DEF GridInv
    <2> QED
      BY <1>1, <1>3, <2>1 DEF BooksKept
  <1>7. FillsOK'
    <2>1. FillsOK /\ Execution' = Execution
      BY <1>1 DEF GridInv, Execution
    <2> QED
      BY <1>1, <1>2, <1>4, <2>1 DEF FillsOK
  <1>8. CallOK'
    BY <1>1, <1>2, <1>4 DEF GridInv, CallOK
  <1> QED
    BY <1>5, <1>6, <1>7, <1>8, <1>9 DEF GridInv

(* What no session and no clock touches.                                      *)
LEMMA Untouched ==
  ASSUME GridInv, UNCHANGED <<strategy, clock, call, fills, wallet, dry, lost>>
  PROVE  BooksKept' /\ (strategy' # None => FillsOK' /\ CallOK')
  <1>1. BooksKept'
    BY DEF GridInv, BooksKept
  <1>2. strategy # None => FillsOK'
    BY DEF GridInv, FillsOK, Execution
  <1>3. strategy # None => CallOK'
    BY DEF GridInv, CallOK
  <1> QED
    BY <1>1, <1>2, <1>3

LEMMA GrantedOK == ASSUME GridInv, NEW period \in DOMAIN Periods, Grant(period) PROVE GridInv'
  <1>1. /\ ~ dry /\ strategy # None /\ strategy \in Strategies /\ strategy.total > 0
        /\ session = None /\ wallet.spent = 0 /\ clock \in Nat
        /\ session' = [limit |-> strategy.total, period |-> period, granted |-> clock,
                       expiry |-> strategy.expiry, spends |-> <<>>, revoked |-> FALSE]
        /\ UNCHANGED <<strategy, clock, call, fills, wallet, dry, lost>>
    BY DEF Grant, SessionLimit, GridInv, GridTypes, SessionKept
  <1>2. strategy.total \in Totals /\ strategy.expiry = GridHorizon /\ strategy.total \in Nat
    BY <1>1, StrategyFields DEF Strategies
  <1>3. session' \in Sessions
    BY <1>1, <1>2 DEF Sessions
  <1>4. GridTypes'
    BY <1>1, <1>3 DEF GridInv, GridTypes
  <1>5. /\ session'.limit = strategy.total /\ session'.granted = clock /\ session'.spends = <<>>
        /\ session'.period = period /\ session'.expiry = GridHorizon
    BY <1>1, <1>2
  <1>6. Periods[period] \in Nat /\ GridHorizon \in Nat
    BY PeriodsAssumption, GridAssumption
  <1>7. /\ SpentSince(<<>>, -1) = 0 /\ NoneBefore(<<>>, clock)
        /\ Capped(<<>>, strategy.total, Periods[period], GridHorizon)
    BY <1>1, <1>2, <1>6, SpentNothing DEF Capped, NoneBefore
  <1>8. SessionKept'
    BY <1>1, <1>5, <1>7 DEF SessionKept
  <1> QED
    BY <1>1, <1>4, <1>8, Untouched DEF GridInv

LEMMA RevokedOK == ASSUME GridInv, Revoke PROVE GridInv'
  <1>1. /\ session \in Sessions /\ session # None
        /\ session' = [session EXCEPT !.revoked = TRUE]
        /\ UNCHANGED <<strategy, clock, call, fills, wallet, dry, lost>>
        /\ strategy # None
    BY DEF Revoke, GridInv, GridTypes
  <1>2. /\ session' \in Sessions /\ session'.limit = session.limit
        /\ session'.spends = session.spends /\ session'.period = session.period
        /\ session'.granted = session.granted /\ session'.expiry = session.expiry
    BY <1>1 DEF Sessions
  <1>3. session' # None
    BY <1>2, GridAssumption
  <1>4. GridTypes'
    BY <1>1, <1>2 DEF GridInv, GridTypes
  <1>5. SessionKept'
    BY <1>1, <1>2, <1>3 DEF GridInv, SessionKept
  <1> QED
    BY <1>1, <1>4, <1>5, Untouched DEF GridInv

LEMMA TickedOK == ASSUME GridInv, Tick PROVE GridInv'
  <1>1. /\ strategy # None /\ strategy \in Strategies /\ clock \in Nat /\ clock' = clock + 1
        /\ fills \in Seq(Fills)
        /\ UNCHANGED <<strategy, session, call, fills, wallet, dry, lost>>
    BY DEF Tick, GridInv, GridTypes
  <1>2. GridTypes'
    BY <1>1 DEF GridInv, GridTypes
  <1>3. SessionKept' /\ BooksKept'
    <2>1. SessionKept'
      <3>1. session # None => session.granted \in Nat
        BY DEF GridInv, GridTypes, Sessions
      <3> QED
        BY <1>1, <3>1 DEF GridInv, SessionKept
    <2>2. BooksKept'
      BY <1>1 DEF GridInv, BooksKept
    <2> QED
      BY <2>1, <2>2
  <1>4. \A k \in Applied(fills) : fills[k].at \in Int
    <2>1. \A k \in Applied(fills) : fills[k] \in Fills
      BY <1>1 DEF Applied
    <2> QED
      BY <2>1 DEF Fills
  <1>5. strategy.cooldown \in Int
    BY <1>1, StrategyFields
  <1>6. FillsOK'
    <2>1. FillsOK /\ Execution' = Execution
      BY <1>1 DEF GridInv, Execution
    <2>2. \A k \in Applied(fills) : fills[k].at <= clock'
      BY <1>1, <1>4, <2>1 DEF FillsOK
    <2> QED
      BY <1>1, <2>1, <2>2 DEF FillsOK
  <1>7. CallOK'
    <2>1. CallOK
      BY <1>1 DEF GridInv
    <2>2. call # None => \A k \in Applied(fills) : clock' - fills[k].at >= strategy.cooldown
      BY <1>1, <1>4, <1>5, <2>1 DEF CallOK
    <2> QED
      BY <1>1, <2>1, <2>2 DEF CallOK
  <1> QED
    BY <1>1, <1>2, <1>3, <1>6, <1>7 DEF GridInv

(* The running sum of integers is an integer.                                 *)
LEMMA SumIsInt ==
  ASSUME NEW f, NEW term, NEW n \in Nat, Sums(f, term, n), \A k \in 1 .. n : term[k] \in Int
  PROVE  f[n] \in Int
  <1> DEFINE S == {m \in Nat : m <= n => f[m] \in Int}
  <1>1. 0 \in S
    BY DEF Sums
  <1>2. ASSUME NEW m \in Nat, m \in S PROVE m + 1 \in S
    <2>1. CASE m + 1 <= n
      <3>1. m + 1 \in 0 .. n /\ m + 1 \in 1 .. n /\ m + 1 # 0 /\ m + 1 - 1 = m
        BY <2>1
      <3>2. f[m + 1] = f[m] + term[m + 1]
        BY <3>1 DEF Sums
      <3> QED
        BY <1>2, <2>1, <3>1, <3>2
    <2> QED
      BY <2>1
  <1>3. n \in S
    BY <1>1, <1>2, Induction
  <1> QED
    BY <1>3

LEMMA TotalIsInt ==
  ASSUME NEW fs \in Seq(Fills), NEW of, NEW field \in {"quote", "base"}
  PROVE  Total(fs, of, field) \in Int
  <1>1. Len(fs) \in Nat
    OBVIOUS
  <1>2. PICK f : /\ Sums(f, TotalTerms(fs, of, field), Len(fs))
                 /\ Total(fs, of, field) = f[Len(fs)]
    BY <1>1, TotalIsSum
  <1>3. \A k \in 1 .. Len(fs) : TotalTerms(fs, of, field)[k] \in Int
    <2> SUFFICES ASSUME NEW k \in 1 .. Len(fs) PROVE TotalTerms(fs, of, field)[k] \in Int
      OBVIOUS
    <2>1. fs[k] \in Fills
      BY <1>1
    <2>2. fs[k].quote \in Int /\ fs[k].base \in Int
      BY <2>1 DEF Fills
    <2>3. fs[k][field] \in Int
      BY <2>2
    <2>4. TotalTerms(fs, of, field)[k] = IF k \in of THEN fs[k][field] ELSE 0
      BY DEF TotalTerms
    <2> QED
      BY <2>3, <2>4
  <1> QED
    BY <1>1, <1>2, <1>3, SumIsInt

LEMMA NoTotal ==
  ASSUME NEW T, NEW fs \in Seq(T), NEW field
  PROVE  Total(fs, {}, field) = 0
  <1>1. Len(fs) \in Nat
    OBVIOUS
  <1>2. PICK f : /\ Sums(f, TotalTerms(fs, {}, field), Len(fs))
                 /\ Total(fs, {}, field) = f[Len(fs)]
    BY <1>1, TotalIsSum
  <1> DEFINE zero == [k \in 0 .. Len(fs) |-> 0]
             n == Len(fs)
  <1>3. Sums(zero, zero, n)
    BY <1>1 DEF Sums
  <1>4. \A k \in 1 .. n : TotalTerms(fs, {}, field)[k] = zero[k]
    BY <1>1 DEF TotalTerms
  <1>6. zero[n] = 0 /\ n \in Nat /\ Sums(f, TotalTerms(fs, {}, field), n)
    BY <1>1, <1>2
  <1> HIDE DEF zero, n
  <1>5. f[n] = zero[n]
    BY <1>3, <1>4, <1>6, SumsAgree
  <1> QED
    BY <1>2, <1>5, <1>6 DEF n

(* A failed fill counts for nothing.                                          *)
LEMMA FailedKept ==
  ASSUME GridInv, call # None, fills' = Append(fills, Fill(0, "FAILED")),
         UNCHANGED <<strategy, clock, dry>>
  PROVE  /\ strategy # None /\ fills' \in Seq(Fills) /\ FillsOK'
         /\ Applied(fills') = Applied(fills) /\ Sum(fills', "base") = Sum(fills, "base")
         /\ \A field \in {"quote", "base"} :
                /\ Total(fills', BuyFills(fills'), field) = Total(fills, BuyFills(fills), field)
                /\ Total(fills', SellFills(fills'), field) = Total(fills, SellFills(fills), field)
  <1> DEFINE fill == Fill(0, "FAILED")
  <1>1. /\ strategy # None /\ strategy \in Strategies /\ FillsOK /\ call \in SwapCalls
        /\ fills \in Seq(Fills) /\ clock \in Nat /\ dry \in BOOLEAN
    BY DEF GridInv, GridTypes
  <1>2. fill.state = "FAILED" /\ fill \in Fills
    BY <1>1 DEF Fill, Fills, SwapCalls
  <1>3. fills' = Append(fills, fill)
    OBVIOUS
  <1> HIDE DEF fill
  <1>4. /\ fills' \in Seq(Fills) /\ Len(fills') = Len(fills) + 1 /\ Len(fills) \in Nat
        /\ \A k \in 1 .. Len(fills) : fills'[k] = fills[k]
    BY <1>1, <1>2, <1>3
  <1>5. /\ Applied(fills') = Applied(fills) /\ BuyFills(fills') = BuyFills(fills)
        /\ Applied(fills) \subseteq 1 .. Len(fills) /\ BuyFills(fills) \subseteq Applied(fills)
    <2>1. ~ (fill.state = "FILLED")
      BY <1>2
    <2>2. /\ Applied(fills') = Applied(fills) \cup (IF fill.state = "FILLED" THEN {Len(fills) + 1} ELSE {})
          /\ BuyFills(fills') = BuyFills(fills)
                \cup (IF fill.state = "FILLED" /\ fill.side = "BUY" THEN {Len(fills) + 1} ELSE {})
          /\ Applied(fills) \subseteq 1 .. Len(fills) /\ BuyFills(fills) \subseteq Applied(fills)
      BY <1>1, <1>3, AppliedMore
    <2> QED
      BY <2>1, <2>2
  <1>6. \A k \in Applied(fills) : fills'[k] = fills[k]
    BY <1>4, <1>5
  <1>7. Bought(fills') = Bought(fills)
    BY <1>5, <1>6 DEF Bought
  <1>8. Total(fills, BuyFills(fills), "quote") \in Int /\ Sum(fills, "base") \in Int
    <2>1. PerLevel(strategy) \in Nat
      BY <1>1, PerLevelIs
    <2>2. Cardinality(Bought(fills)) \in Nat
      BY <1>1, AppliedFinite
    <2>3. PerLevel(strategy) * Cardinality(Bought(fills)) \in Int
      BY <2>1, <2>2
    <2> QED
      BY <1>1, <2>3 DEF FillsOK
  <1>9. ASSUME NEW field \in {"quote", "base"}
        PROVE  /\ Total(fills', BuyFills(fills'), field) = Total(fills, BuyFills(fills), field)
               /\ Total(fills', SellFills(fills'), field) = Total(fills, SellFills(fills), field)
    <2> DEFINE value == fill[field]
    <2>1. value = fill[field]
      OBVIOUS
    <2> HIDE DEF value
    <2>2. /\ Total(fills', BuyFills(fills'), field)
                = Total(fills, BuyFills(fills), field)
                    + (IF fill.state = "FILLED" /\ fill.side = "BUY" THEN value ELSE 0)
          /\ Total(fills', SellFills(fills'), field)
                = Total(fills, SellFills(fills), field)
                    + (IF fill.state = "FILLED" /\ fill.side = "SELL" THEN value ELSE 0)
      BY <1>1, <1>3, <2>1, BuysMore
    <2>3. ~ (fill.state = "FILLED")
      BY <1>2
    <2>4. /\ Total(fills, BuyFills(fills), field) \in Int
          /\ Total(fills, SellFills(fills), field) \in Int
      BY <1>1, TotalIsInt
    <2> HIDE DEF fill
    <2> QED
      BY <2>2, <2>3, <2>4
  <1>10. Sum(fills', "base") = Sum(fills, "base")
    <2>1. Sum(fills', "base") = Sum(fills, "base") + 0
      BY <1>1, <1>2, <1>3, SumMore
    <2> QED
      BY <1>8, <2>1
  <1>11. strategy' = strategy /\ clock' = clock /\ Execution' = Execution
    BY DEF Execution
  <1>12. FillsOK'
    <2>1. \A k \in Applied(fills') :
            /\ fills'[k].at <= clock'
            /\ fills'[k].level \in LevelIds(strategy')
            /\ fills'[k].side = Side(strategy', fills'[k].level)
            /\ fills'[k].side = "BUY" => fills'[k].quote = PerLevel(strategy')
            /\ fills'[k].execution = Execution'
      BY <1>1, <1>5, <1>6, <1>11 DEF FillsOK
    <2>2. \A j, k \in Applied(fills') :
            j < k => /\ fills'[j].level # fills'[k].level
                     /\ fills'[k].at - fills'[j].at >= strategy'.cooldown
      BY <1>1, <1>5, <1>6, <1>11 DEF FillsOK
    <2>3. strategy'.maxFills # None => Cardinality(Applied(fills')) <= strategy'.maxFills
      BY <1>1, <1>5, <1>11 DEF FillsOK
    <2>4. Sum(fills', "base") \in Nat
      BY <1>1, <1>10 DEF FillsOK
    <2>5. Total(fills', BuyFills(fills'), "quote") = PerLevel(strategy') * Cardinality(Bought(fills'))
      <3>1. Total(fills', BuyFills(fills'), "quote") = Total(fills, BuyFills(fills), "quote")
        BY <1>9
      <3> QED
        BY <1>1, <1>7, <1>11, <3>1 DEF FillsOK
    <2> QED
      BY <2>1, <2>2, <2>3, <2>4, <2>5 DEF FillsOK
  <1> QED
    BY <1>1, <1>4, <1>5, <1>9, <1>10, <1>12

(* What a fill adds to the totals of its side.                                 *)
LEMMA FillTotals ==
  ASSUME GridInv, call # None, NEW out \in Nat, fills' = Append(fills, Fill(out, "FILLED"))
  PROVE  /\ call.side = "BUY" =>
              /\ Total(fills', BuyFills(fills'), "quote") = Total(fills, BuyFills(fills), "quote") + call.amount
              /\ Total(fills', BuyFills(fills'), "base") = Total(fills, BuyFills(fills), "base") + out
              /\ Total(fills', SellFills(fills'), "quote") = Total(fills, SellFills(fills), "quote")
              /\ Total(fills', SellFills(fills'), "base") = Total(fills, SellFills(fills), "base")
         /\ call.side # "BUY" =>
              /\ Total(fills', BuyFills(fills'), "quote") = Total(fills, BuyFills(fills), "quote")
              /\ Total(fills', BuyFills(fills'), "base") = Total(fills, BuyFills(fills), "base")
              /\ Total(fills', SellFills(fills'), "quote") = Total(fills, SellFills(fills), "quote") + out
              /\ Total(fills', SellFills(fills'), "base") = Total(fills, SellFills(fills), "base") + call.amount
  <1> DEFINE fill == Fill(out, "FILLED")
  <1>1. fills \in Seq(Fills) /\ call.side \in {"BUY", "SELL"}
    BY DEF GridInv, GridTypes, SwapCalls
  <1>2. /\ fill.state = "FILLED" /\ fill.side = call.side
        /\ fill.quote = (IF call.side = "BUY" THEN call.amount ELSE out)
        /\ fill.base = (IF call.side = "BUY" THEN out ELSE call.amount)
    BY DEF Fill
  <1>3. fills' = Append(fills, fill)
    OBVIOUS
  <1> HIDE DEF fill
  <1>4. /\ Total(fills, BuyFills(fills), "quote") \in Int /\ Total(fills, BuyFills(fills), "base") \in Int
        /\ Total(fills, SellFills(fills), "quote") \in Int /\ Total(fills, SellFills(fills), "base") \in Int
    BY <1>1, TotalIsInt
  <1>5. /\ Total(fills', BuyFills(fills'), "quote") = Total(fills, BuyFills(fills), "quote")
              + (IF fill.state = "FILLED" /\ fill.side = "BUY" THEN fill.quote ELSE 0)
        /\ Total(fills', SellFills(fills'), "quote") = Total(fills, SellFills(fills), "quote")
              + (IF fill.state = "FILLED" /\ fill.side = "SELL" THEN fill.quote ELSE 0)
    <2>1. fill.quote = fill["quote"]
      OBVIOUS
    <2> QED
      BY <1>1, <1>3, <2>1, BuysMore
  <1>6. /\ Total(fills', BuyFills(fills'), "base") = Total(fills, BuyFills(fills), "base")
              + (IF fill.state = "FILLED" /\ fill.side = "BUY" THEN fill.base ELSE 0)
        /\ Total(fills', SellFills(fills'), "base") = Total(fills, SellFills(fills), "base")
              + (IF fill.state = "FILLED" /\ fill.side = "SELL" THEN fill.base ELSE 0)
    <2>1. fill.base = fill["base"]
      OBVIOUS
    <2> QED
      BY <1>1, <1>3, <2>1, BuysMore
  <1>7. CASE call.side = "BUY"
    BY <1>2, <1>4, <1>5, <1>6, <1>7
  <1>8. CASE call.side # "BUY"
    <2>1. call.side = "SELL"
      BY <1>1, <1>8
    <2> QED
      BY <1>2, <1>4, <1>5, <1>6, <2>1
  <1> QED
    BY <1>7, <1>8

(* What a mined swap does to the session and the wallet.                       *)
LEMMA Mined ==
  ASSUME GridInv, NEW out \in Nat, Swap(out)
  PROVE  /\ strategy # None /\ ~ dry /\ session' # None /\ session' \in Sessions
         /\ wallet' \in WalletStates
         /\ SessionKept'
         /\ wallet'.swaps = wallet.swaps + 1
         /\ call.side = "BUY" =>
              /\ wallet'.spent = wallet.spent + call.amount /\ wallet'.got = wallet.got
              /\ wallet'.base = wallet.base + out
         /\ call.side # "BUY" =>
              /\ wallet'.spent = wallet.spent /\ wallet'.got = wallet.got + out
              /\ wallet'.base = wallet.base - call.amount
  <1>1. /\ call # None /\ ~ dry /\ session # None /\ session \in Sessions /\ strategy # None
        /\ call \in SwapCalls /\ wallet \in WalletStates /\ SessionKept
        /\ strategy' = strategy /\ clock' = clock /\ dry' = dry /\ clock < session.expiry
    <2>1. /\ call # None /\ ~ dry /\ session # None /\ clock < session.expiry
          /\ strategy' = strategy /\ clock' = clock /\ dry' = dry
      BY DEF Swap, Permitted
    <2>2. /\ session \in Sessions /\ strategy # None /\ call \in SwapCalls
          /\ wallet \in WalletStates
      BY <2>1 DEF GridInv, GridTypes
    <2>3. SessionKept
      BY DEF GridInv
    <2> QED
      BY <2>1, <2>2, <2>3
  <1>2. /\ session.spends \in Seq([at : Int, amount : Nat]) /\ session.limit \in Totals
        /\ session.granted \in Nat /\ session.period \in DOMAIN Periods
        /\ session.expiry \in Int /\ call.amount \in Int /\ clock \in Nat
    BY <1>1, GridAssumption DEF Sessions, SwapCalls, GridInv, GridTypes
  <1>3. CASE call.side = "BUY"
    <2> DEFINE more == Append(session.spends, [at |-> clock, amount |-> call.amount])
    <2>1. /\ session' = [session EXCEPT !.spends = more]
          /\ wallet' = [wallet EXCEPT !.spent = @ + call.amount, !.base = @ + out, !.swaps = @ + 1]
          /\ SpentSince(session.spends, clock - Periods[session.period]) + call.amount
                <= session.limit
      BY <1>3 DEF Swap, Permitted, WithinCap
    <2>5. call.amount \in Nat
      BY <1>1, <1>3, PerLevelIs DEF GridInv, CallOK
    <2>6. more \in Seq([at : Int, amount : Nat])
      BY <1>2, <2>5
    <2>7. session.limit \in Nat /\ Periods[session.period] \in Nat
      <3>1. session.limit = strategy.total /\ strategy.total > 0 /\ session.limit \in Int
        BY <1>1, <1>2, GridAssumption DEF SessionKept, GridInv, GridTypes
      <3>2. \A p \in DOMAIN Periods : Periods[p] \in Nat
        BY PeriodsAssumption
      <3> QED
        BY <1>2, <3>1, <3>2
    <2>8. Capped(more, session.limit, Periods[session.period], session.expiry)
      <3>1. Capped(session.spends, session.limit, Periods[session.period], session.expiry)
        BY <1>1 DEF SessionKept
      <3> QED
        BY <1>1, <1>2, <2>1, <2>5, <2>7, <3>1, CappedSpend
    <2>9. NoneBefore(more, session.granted)
      <3>1. NoneBefore(session.spends, session.granted) /\ session.granted <= clock
        BY <1>1 DEF SessionKept
      <3> QED
        BY <1>2, <2>5, <3>1, BeforeSpend
    <2>10. SpentSince(more, -1) = SpentSince(session.spends, -1) + call.amount
      BY <1>2, <2>5, SpentMore
    <2> HIDE DEF more
    <2>2. /\ session' \in Sessions /\ session'.limit = session.limit
          /\ session'.spends = more /\ session'.period = session.period
          /\ session'.granted = session.granted /\ session'.expiry = session.expiry
      BY <1>1, <1>2, <2>1, <2>6 DEF Sessions
    <2>3. /\ wallet' \in WalletStates
          /\ wallet'.spent = wallet.spent + call.amount /\ wallet'.got = wallet.got
          /\ wallet'.base = wallet.base + out /\ wallet'.swaps = wallet.swaps + 1
      <3>1. wallet' = [wallet EXCEPT !.spent = @ + call.amount, !.base = @ + out, !.swaps = @ + 1]
        BY <2>1
      <3>2. wallet'.spent = wallet.spent + call.amount /\ wallet'.got = wallet.got
        BY <1>1, <3>1 DEF WalletStates
      <3>3. wallet'.base = wallet.base + out
        BY <1>1, <3>1 DEF WalletStates
      <3>4. wallet'.swaps = wallet.swaps + 1
        BY <1>1, <3>1 DEF WalletStates
      <3>5. wallet' = [spent |-> wallet'.spent, got |-> wallet'.got, base |-> wallet'.base,
                       swaps |-> wallet'.swaps]
        BY <1>1, <3>1 DEF WalletStates
      <3>6. wallet' \in WalletStates
        <4>1. /\ wallet.spent \in Int /\ wallet.got \in Int /\ wallet.base \in Int
              /\ wallet.swaps \in Int /\ out \in Int
          BY <1>1 DEF WalletStates
        <4>2. /\ wallet'.spent \in Int /\ wallet'.got \in Int /\ wallet'.base \in Int
              /\ wallet'.swaps \in Int
          BY <1>2, <3>2, <3>3, <3>4, <4>1
        <4> QED
          BY <3>5, <4>2 DEF WalletStates
      <3> QED
        BY <3>2, <3>3, <3>4, <3>6
    <2>4. session' # None
      BY <2>2, GridAssumption
    <2>11. SessionKept'
      BY <1>1, <2>2, <2>3, <2>4, <2>8, <2>9, <2>10 DEF SessionKept
    <2> QED
      BY <1>1, <1>3, <2>1, <2>2, <2>3, <2>4, <2>11
  <1>4. CASE call.side # "BUY"
    <2>1. /\ session' = session
          /\ wallet' = [wallet EXCEPT !.got = @ + out, !.base = @ - call.amount, !.swaps = @ + 1]
      BY <1>4 DEF Swap
    <2>2. /\ wallet' \in WalletStates
          /\ wallet'.spent = wallet.spent /\ wallet'.got = wallet.got + out
          /\ wallet'.base = wallet.base - call.amount /\ wallet'.swaps = wallet.swaps + 1
      <3>1. wallet' = [wallet EXCEPT !.got = @ + out, !.base = @ - call.amount, !.swaps = @ + 1]
        BY <2>1
      <3>2. wallet'.spent = wallet.spent /\ wallet'.got = wallet.got + out
        BY <1>1, <3>1 DEF WalletStates
      <3>3. wallet'.base = wallet.base - call.amount
        BY <1>1, <3>1 DEF WalletStates
      <3>4. wallet'.swaps = wallet.swaps + 1
        BY <1>1, <3>1 DEF WalletStates
      <3>5. wallet' = [spent |-> wallet'.spent, got |-> wallet'.got, base |-> wallet'.base,
                       swaps |-> wallet'.swaps]
        BY <1>1, <3>1 DEF WalletStates
      <3>6. wallet' \in WalletStates
        <4>1. /\ wallet.spent \in Int /\ wallet.got \in Int /\ wallet.base \in Int
              /\ wallet.swaps \in Int /\ out \in Int
          BY <1>1 DEF WalletStates
        <4>2. /\ wallet'.spent \in Int /\ wallet'.got \in Int /\ wallet'.base \in Int
              /\ wallet'.swaps \in Int
          BY <1>2, <3>2, <3>3, <3>4, <4>1
        <4> QED
          BY <3>5, <4>2 DEF WalletStates
      <3> QED
        BY <3>2, <3>3, <3>4, <3>6
    <2>3. SessionKept'
      BY <1>1, <2>1, <2>2 DEF SessionKept
    <2> QED
      BY <1>1, <1>4, <2>1, <2>2, <2>3
  <1> QED
    BY <1>3, <1>4

LEMMA SwapOK == ASSUME GridInv, NEW out \in Nat, Swap(out) PROVE GridInv'
  <1>1. /\ strategy # None /\ ~ dry /\ call # None /\ call' = None
        /\ UNCHANGED <<strategy, clock, dry>>
        /\ clock \in Nat /\ lost \in BOOLEAN /\ dry \in BOOLEAN /\ fills \in Seq(Fills) /\ call \in SwapCalls
        /\ strategy \in Strategies /\ strategy.total > 0
        /\ BuyLevels(strategy) # {} => PerLevel(strategy) > 0
    BY DEF Swap, GridInv, GridTypes
  <1>2. /\ session' # None /\ session' \in Sessions
        /\ wallet' \in WalletStates
        /\ SessionKept'
        /\ wallet'.swaps = wallet.swaps + 1
        /\ call.side = "BUY" =>
              /\ wallet'.spent = wallet.spent + call.amount /\ wallet'.got = wallet.got
              /\ wallet'.base = wallet.base + out
        /\ call.side # "BUY" =>
              /\ wallet'.spent = wallet.spent /\ wallet'.got = wallet.got + out
              /\ wallet'.base = wallet.base - call.amount
    BY Mined
  <1>3. SessionKept'
    BY <1>2
  <1>4. CallOK'
    BY <1>1 DEF CallOK
  <1>5. CASE fills' = Append(fills, Fill(out, "FILLED")) /\ lost' = lost
    <2>1. /\ fills' \in Seq(Fills) /\ FillsOK'
          /\ Cardinality(Applied(fills')) = Cardinality(Applied(fills)) + 1
          /\ Sum(fills', "base") = IF call.side = "BUY" THEN Sum(fills, "base") + out
                                   ELSE Sum(fills, "base") - call.amount
      BY <1>1, <1>5, FillKept
    <2>2. GridTypes'
      BY <1>1, <1>2, <1>5, <2>1 DEF GridTypes
    <2>3. BooksKept'
      <3> SUFFICES ASSUME ~ lost
                   PROVE  /\ wallet'.spent = Total(fills', BuyFills(fills'), "quote")
                          /\ wallet'.got = Total(fills', SellFills(fills'), "quote")
                          /\ wallet'.base = Total(fills', BuyFills(fills'), "base") - Total(fills', SellFills(fills'), "base")
                          /\ wallet'.base = Sum(fills', "base")
                          /\ wallet'.swaps = Cardinality(Applied(fills'))
        BY <1>1, <1>5 DEF BooksKept
      <3>1. /\ wallet.spent = Total(fills, BuyFills(fills), "quote")
            /\ wallet.got = Total(fills, SellFills(fills), "quote")
            /\ wallet.base = Total(fills, BuyFills(fills), "base") - Total(fills, SellFills(fills), "base")
            /\ wallet.base = Sum(fills, "base")
            /\ wallet.swaps = Cardinality(Applied(fills))
        BY <1>1 DEF GridInv, BooksKept
      <3>2. /\ Total(fills, BuyFills(fills), "base") \in Int
            /\ Total(fills, SellFills(fills), "base") \in Int
            /\ call.amount \in Int
        BY <1>1, TotalIsInt DEF SwapCalls
      <3>3. CASE call.side = "BUY"
        <4>1. /\ Total(fills', BuyFills(fills'), "quote") = Total(fills, BuyFills(fills), "quote") + call.amount
              /\ Total(fills', BuyFills(fills'), "base") = Total(fills, BuyFills(fills), "base") + out
              /\ Total(fills', SellFills(fills'), "quote") = Total(fills, SellFills(fills), "quote")
              /\ Total(fills', SellFills(fills'), "base") = Total(fills, SellFills(fills), "base")
          BY <1>1, <1>5, <3>3, FillTotals
        <4> QED
          BY <1>2, <2>1, <3>1, <3>2, <3>3, <4>1
      <3>4. CASE call.side # "BUY"
        <4>1. /\ Total(fills', BuyFills(fills'), "quote") = Total(fills, BuyFills(fills), "quote")
              /\ Total(fills', BuyFills(fills'), "base") = Total(fills, BuyFills(fills), "base")
              /\ Total(fills', SellFills(fills'), "quote") = Total(fills, SellFills(fills), "quote") + out
              /\ Total(fills', SellFills(fills'), "base") = Total(fills, SellFills(fills), "base") + call.amount
          BY <1>1, <1>5, <3>4, FillTotals
        <4> QED
          BY <1>2, <2>1, <3>1, <3>2, <3>4, <4>1
      <3> QED
        BY <3>3, <3>4
    <2> QED
      BY <1>3, <1>4, <2>1, <2>2, <2>3 DEF GridInv
  <1>6. CASE fills' = fills /\ lost' = TRUE
    <2>1. GridTypes'
      BY <1>1, <1>2, <1>6 DEF GridTypes
    <2>2. BooksKept'
      BY <1>1, <1>6 DEF BooksKept
    <2>3. FillsOK'
      BY <1>1, <1>6 DEF GridInv, FillsOK, Execution
    <2> QED
      BY <1>3, <1>4, <2>1, <2>2, <2>3 DEF GridInv
  <1> QED
    BY <1>5, <1>6 DEF Swap

LEMMA SimulateOK == ASSUME GridInv, NEW out \in Nat, Simulate(out) PROVE GridInv'
  <1>1. /\ strategy # None /\ dry /\ call # None /\ call' = None
        /\ fills' = Append(fills, Fill(out, "FILLED"))
        /\ UNCHANGED <<strategy, clock, session, wallet, dry, lost>>
    BY DEF Simulate, GridInv, GridTypes
  <1>2. fills' \in Seq(Fills) /\ FillsOK'
    BY <1>1, FillKept
  <1>3. GridTypes'
    BY <1>1, <1>2 DEF GridInv, GridTypes
  <1>4. SessionKept'
    BY <1>1 DEF GridInv, SessionKept
  <1>5. BooksKept'
    BY <1>1 DEF GridInv, BooksKept
  <1>6. CallOK'
    BY <1>1 DEF CallOK
  <1> QED
    BY <1>2, <1>3, <1>4, <1>5, <1>6 DEF GridInv

LEMMA RefusedOK == ASSUME GridInv, NEW recorded \in BOOLEAN, Refused(recorded) PROVE GridInv'
  <1>1. /\ strategy # None /\ ~ dry /\ call # None /\ call' = None
        /\ UNCHANGED <<strategy, clock, session, wallet, dry, lost>>
    BY DEF Refused, GridInv, GridTypes
  <1>2. SessionKept'
    BY <1>1 DEF GridInv, SessionKept
  <1>3. CallOK'
    BY <1>1 DEF CallOK
  <1>4. CASE fills' = Append(fills, Fill(0, "FAILED"))
    <2>1. /\ fills' \in Seq(Fills) /\ FillsOK'
          /\ Applied(fills') = Applied(fills) /\ Sum(fills', "base") = Sum(fills, "base")
          /\ Total(fills', BuyFills(fills'), "quote") = Total(fills, BuyFills(fills), "quote")
          /\ Total(fills', SellFills(fills'), "quote") = Total(fills, SellFills(fills), "quote")
          /\ Total(fills', BuyFills(fills'), "base") = Total(fills, BuyFills(fills), "base")
          /\ Total(fills', SellFills(fills'), "base") = Total(fills, SellFills(fills), "base")
      BY <1>1, <1>4, FailedKept
    <2>2. GridTypes'
      BY <1>1, <2>1 DEF GridInv, GridTypes
    <2>3. BooksKept'
      BY <1>1, <2>1 DEF GridInv, BooksKept
    <2> QED
      BY <1>2, <1>3, <2>1, <2>2, <2>3 DEF GridInv
  <1>5. CASE fills' = fills
    <2>1. GridTypes' /\ BooksKept'
      BY <1>1, <1>5 DEF GridInv, GridTypes, BooksKept
    <2>2. FillsOK'
      BY <1>1, <1>5 DEF GridInv, FillsOK, Execution
    <2> QED
      BY <1>2, <1>3, <2>1, <2>2 DEF GridInv
  <1> QED
    BY <1>4, <1>5 DEF Refused

LEMMA GridNextOK == GridInv /\ [GridNext]_gridVars => GridInv'
  <1> SUFFICES ASSUME GridInv, [GridNext]_gridVars PROVE GridInv'
    OBVIOUS
  <1>1. \A out \in Outs : out \in Nat
    BY GridAssumption
  <1>2. CASE UNCHANGED gridVars
    <2>1. /\ UNCHANGED <<strategy, clock, call, fills, wallet, dry, lost>> /\ session' = session
      BY <1>2 DEF gridVars
    <2>2. GridTypes'
      BY <2>1 DEF GridInv, GridTypes
    <2>3. SessionKept'
      BY <2>1 DEF GridInv, SessionKept
    <2> QED
      BY <2>1, <2>2, <2>3, Untouched DEF GridInv
  <1>3. CASE GridNext
    BY <1>1, <1>3, MoveOK, PlanOK, GrantedOK, RevokedOK, TickedOK, EvaluateOK, SwapOK, SimulateOK,
       RefusedOK DEF GridNext
  <1> QED
    BY <1>2, <1>3

(* ----------------------- what the invariant says ------------------------- *)

(* Over the life of the session its spends are those of the periods it begins,  *)
(* and of one period when that is as long as the life.                          *)
LEMMA LeashKept == GridInv => WithinLeash
  <1> SUFFICES ASSUME GridInv, session # None PROVE WithinLeash
    BY DEF WithinLeash
  <1> DEFINE life == AtLeastOne(session.expiry - session.granted)
             length == Periods[session.period]
  <1>1. /\ session \in Sessions /\ strategy # None /\ session.limit = strategy.total
        /\ wallet.spent = SpentSince(session.spends, -1)
        /\ Capped(session.spends, session.limit, length, session.expiry)
        /\ NoneBefore(session.spends, session.granted)
        /\ strategy.total > 0
    BY DEF GridInv, GridTypes, SessionKept
  <1>2. /\ session.limit \in Nat /\ session.period \in DOMAIN Periods /\ session.expiry \in Int
        /\ session.granted \in Nat /\ length \in Nat
    <2>1. /\ session.limit \in Totals /\ session.period \in DOMAIN Periods
          /\ session.expiry \in Int /\ session.granted \in Nat
      BY <1>1, GridAssumption DEF Sessions
    <2>2. session.limit \in Nat
      <3>1. session.limit \in Int
        BY <2>1, GridAssumption
      <3>2. session.limit > 0
        BY <1>1
      <3> QED
        BY <3>1, <3>2
    <2>3. \A p \in DOMAIN Periods : Periods[p] \in Nat
      BY PeriodsAssumption
    <2> QED
      BY <2>1, <2>2, <2>3
  <1>3. wallet.spent <= WorstCaseSpend(strategy.total, session.period, life)
    BY <1>1, <1>2, WorstHolds
  <1>4. ASSUME life <= length PROVE wallet.spent <= strategy.total
    <2> DEFINE from == session.expiry - 1 - length
    <2>1. from \in Int /\ from <= session.granted - 1
      BY <1>2, <1>4 DEF AtLeastOne
    <2>2. SpentSince(session.spends, from) <= session.limit
      <3>1. session.expiry - 1 \in Int /\ (session.expiry - 1) - length = from
        BY <1>2
      <3>2. SpentSince(session.spends, session.expiry - 1) = 0
        BY <1>1 DEF Capped
      <3>3. SpentSince(session.spends, (session.expiry - 1) - length)
              <= SpentSince(session.spends, session.expiry - 1) + session.limit
        BY <1>1, <3>1 DEF Capped
      <3> QED
        BY <1>2, <3>1, <3>2, <3>3
    <2>3. SpentSince(session.spends, session.granted - 1) = SpentSince(session.spends, -1)
      BY <1>1, <1>2 DEF NoneBefore
    <2>4. /\ SpentSince(session.spends, session.granted - 1) <= SpentSince(session.spends, from)
          /\ SpentSince(session.spends, from) \in Nat
          /\ SpentSince(session.spends, session.granted - 1) \in Nat
      <3>1. session.granted - 1 \in Int
        BY <1>2
      <3> HIDE DEF from
      <3> QED
        BY <1>1, <2>1, <3>1 DEF Capped
    <2> QED
      BY <1>1, <1>2, <2>2, <2>3, <2>4
  <1> QED
    BY <1>3, <1>4 DEF WithinLeash

LEMMA BudgetHolds == GridInv => BudgetKept
  <1> SUFFICES ASSUME GridInv, strategy # None, ~ lost PROVE BudgetKept
    BY DEF BudgetKept
  <1>1. FillsOK /\ fills \in Seq(Fills) /\ strategy \in Strategies /\ dry \in BOOLEAN
    BY DEF GridInv, GridTypes
  <1>2. Bought(fills) \in SUBSET BuyLevels(strategy)
    BY <1>1 DEF Bought, BuyFills, OfSide, BuyLevels, FillsOK
  <1>3. Total(fills, BuyFills(fills), "quote") <= strategy.total
    <2>1. /\ strategy.total > 0
          /\ BuyLevels(strategy) # {} => PerLevel(strategy) > 0
      BY DEF GridInv, GridTypes
    <2>2. PerLevel(strategy) * Cardinality(Bought(fills)) <= strategy.total
      BY <1>1, <1>2, <2>1, Affordable
    <2> QED
      BY <1>1, <2>2 DEF FillsOK
  <1>4. wallet.spent + (IF dry THEN Total(fills, OfSide(fills, Applied(fills), "BUY"), "quote") ELSE 0)
            <= strategy.total
    <2>1. Total(fills, BuyFills(fills), "quote") \in Int
      BY <1>1, TotalIsInt
    <2>2. CASE dry
      <3>1. wallet.spent = 0
        BY <2>2 DEF GridInv, BooksKept
      <3> QED
        BY <1>3, <2>1, <2>2, <3>1 DEF BuyFills
    <2>3. CASE ~ dry
      <3>1. wallet.spent = Total(fills, BuyFills(fills), "quote")
        BY <2>3 DEF GridInv, BooksKept
      <3> QED
        BY <1>3, <2>1, <2>3, <3>1
    <2> QED
      BY <2>2, <2>3
  <1>5. Ledger(fills).base >= 0
    BY <1>1 DEF FillsOK, Ledger
  <1>6. wallet.base >= 0
    <2>1. Sum(fills, "base") \in Nat
      BY <1>1 DEF FillsOK
    <2>2. wallet.base = 0 \/ wallet.base = Sum(fills, "base")
      BY <1>1 DEF GridInv, BooksKept
    <2> QED
      BY <2>1, <2>2
  <1>7. /\ \A j, k \in Applied(fills) :
            j < k => /\ fills[j].level # fills[k].level
                     /\ fills[k].at - fills[j].at >= strategy.cooldown
        /\ strategy.maxFills # None => Cardinality(Applied(fills)) <= strategy.maxFills
    BY <1>1 DEF FillsOK
  <1> QED
    BY <1>4, <1>5, <1>6, <1>7 DEF BudgetKept

LEMMA RealHolds == GridInv => RealisedIsReal
  <1> SUFFICES ASSUME GridInv, ~ lost PROVE Realised(fills) = wallet
    BY DEF RealisedIsReal
  <1>1. fills \in Seq(Fills) /\ wallet \in WalletStates
    BY DEF GridInv, GridTypes
  <1>2. CASE dry \/ strategy = None
    <2>1. Real(fills) = {}
      <3>1. CASE strategy = None
        <4>1. fills = <<>>
          BY <3>1 DEF GridInv, GridTypes
        <4> QED
          BY <4>1 DEF Real
      <3>2. CASE strategy # None
        <4>1. \A k \in Applied(fills) : fills[k].execution = Execution
          BY <3>2 DEF GridInv, FillsOK
        <4>2. Execution = "simulated"
          BY <1>2, <3>2 DEF Execution
        <4> QED
          BY <4>1, <4>2 DEF Real, Applied
      <3> QED
        BY <3>1, <3>2
    <2>2. OfSide(fills, Real(fills), "BUY") = {} /\ OfSide(fills, Real(fills), "SELL") = {}
      BY <2>1 DEF OfSide
    <2>3. Total(fills, {}, "quote") = 0 /\ Total(fills, {}, "base") = 0 /\ Cardinality({}) = 0
      BY <1>1, NoTotal, FS_EmptySet
    <2>4. /\ Realised(fills).spent = 0 /\ Realised(fills).got = 0 /\ Realised(fills).base = 0
          /\ Realised(fills).swaps = 0
      BY <2>1, <2>2, <2>3 DEF Realised
    <2>5. wallet.spent = 0 /\ wallet.got = 0 /\ wallet.base = 0 /\ wallet.swaps = 0
      BY <1>2 DEF GridInv, BooksKept
    <2>6. Realised(fills) = [spent |-> Realised(fills).spent, got |-> Realised(fills).got,
                             base |-> Realised(fills).base, swaps |-> Realised(fills).swaps]
      BY DEF Realised
    <2> QED
      BY <1>1, <2>4, <2>5, <2>6 DEF WalletStates
  <1>3. CASE ~ dry /\ strategy # None
    <2>1. Real(fills) = Applied(fills)
      <3>1. \A k \in Applied(fills) : fills[k].execution = Execution
        BY <1>3 DEF GridInv, FillsOK
      <3>2. Execution = "onchain"
        BY <1>3 DEF Execution
      <3> QED
        BY <3>1, <3>2 DEF Real, Applied
    <2>2. /\ wallet.spent = Total(fills, BuyFills(fills), "quote")
          /\ wallet.got = Total(fills, SellFills(fills), "quote")
          /\ wallet.base = Total(fills, BuyFills(fills), "base") - Total(fills, SellFills(fills), "base")
          /\ wallet.swaps = Cardinality(Applied(fills))
      BY <1>3 DEF GridInv, BooksKept
    <2>3. Realised(fills) =
            [spent |-> Total(fills, BuyFills(fills), "quote"),
             got |-> Total(fills, SellFills(fills), "quote"),
             base |-> Total(fills, BuyFills(fills), "base") - Total(fills, SellFills(fills), "base"),
             swaps |-> Cardinality(Applied(fills))]
      BY <2>1 DEF Realised, BuyFills, SellFills
    <2> QED
      BY <1>1, <2>2, <2>3 DEF WalletStates
  <1> QED
    BY <1>2, <1>3

LEMMA GridPartSteps == [DeskNext]_deskVars => [GridNext]_gridVars
  BY DEF DeskNext, deskVars, GridPart, LeashPart, ProofPart, FleetPart, LimitPart, RegistryPart,
         RangePart, ScoutPart, GradingPart

LEMMA GridInvariant == DeskSpec => []GridInv
  <1>1. DeskInit => GridInv
    BY GridInitOK DEF DeskInit
  <1> QED
    BY <1>1, GridNextOK, GridPartSteps, PTL DEF DeskSpec

(* However its records are lost and whatever it is told, the keeper spends   *)
(* no more of the wallet than the worst case over the life of the session     *)
(* that was granted, and no more than the capital the user approved when one  *)
(* period of the cap is as long as that life, for any strategy and any prices *)
(* (proposeSessionPermissions, worstCaseSpend).                              *)
THEOREM SpendsWithinLeash == DeskSpec => []WithinLeash
  BY GridInvariant, LeashKept, PTL

(* While no record is lost the engine keeps the budget, the maximum of fills *)
(* and the cooldown, fills no level twice and sells nothing it did not buy,  *)
(* along any path of any prices, simulated or not (evaluateLevel).           *)
THEOREM KeepsBudget == DeskSpec => []BudgetKept
  BY GridInvariant, BudgetHolds, PTL

(* While no record is lost, what the track record publishes as realised is   *)
(* what the swaps on chain did, for any number of fills, and a simulated one *)
(* is never part of it (summarizeGridSession).                               *)
THEOREM PublishesWhatIsReal == DeskSpec => []RealisedIsReal
  BY GridInvariant, RealHolds, PTL

(* -------------------------------- the limits ------------------------------- *)
(* The first hits of the windows of a key: a window passes no more than the     *)
(* limit, starts at the end of the one before it or later, and the last one,    *)
(* while the table holds it, has counted every hit it passed.                   *)
Windows(times, firsts, table, k, now) ==
    /\ \A n \in 1 .. Len(times) : \E m \in firsts : m <= n /\ n < m + Limit
    /\ \A p, m \in firsts : p < m => times[p] + Window <= times[m]
    /\ \A m \in firsts : times[m] + Window <= IF k \in DOMAIN table THEN table[k].until ELSE now
    /\ k \in DOMAIN table =>
        /\ table[k] \in [count : Nat, until : Nat]
        /\ \E m \in firsts : Len(times) + 1 <= m + table[k].count

PassedInOrder(times, now) ==
    /\ times \in Seq(Nat)
    /\ \A i, j \in 1 .. Len(times) : i <= j => times[i] <= times[j]
    /\ \A i \in 1 .. Len(times) : times[i] <= now

KeyOK(times, table, k, now) ==
    /\ PassedInOrder(times, now)
    /\ \E firsts \in SUBSET (1 .. Len(times)) : Windows(times, firsts, table, k, now)

(* The table is finite and bounded, and every key's windows are as above.       *)
TableOK(table) == IsFiniteSet(DOMAIN table) /\ Cardinality(DOMAIN table) <= MaxKeys

LimitInv ==
    /\ minute \in Nat
    /\ TableOK(hits)
    /\ allowed = [k \in Keys |-> allowed[k]]
    /\ \A k \in Keys : KeyOK(allowed[k], hits, k, minute)

(* What passes in two windows takes a window: the windows before the last two   *)
(* of a hit hold the hit that is twice the limit before it.                     *)
LEMMA SpanOfWindows ==
  ASSUME LimitAssumption, NEW times, NEW table, NEW k, NEW now, KeyOK(times, table, k, now),
         NEW n \in 2 * Limit .. Len(times)
  PROVE  times[n] - times[n - 2 * Limit + 1] >= Window
  <1> USE DEF LimitAssumption
  <1>1. /\ times \in Seq(Nat) /\ Len(times) \in Nat
        /\ \A i, j \in 1 .. Len(times) : i <= j => times[i] <= times[j]
        /\ \A i \in 1 .. Len(times) : times[i] \in Nat
    BY DEF KeyOK, PassedInOrder
  <1>2. PICK firsts \in SUBSET (1 .. Len(times)) : Windows(times, firsts, table, k, now)
    BY DEF KeyOK
  <1>3. n \in 1 .. Len(times) /\ n \in Nat
    BY <1>1
  <1>4. PICK m \in firsts : m <= n /\ n < m + Limit
    BY <1>2, <1>3 DEF Windows
  <1>5. m \in 1 .. Len(times) /\ m - 1 \in 1 .. Len(times)
    BY <1>1, <1>3, <1>4
  <1>6. PICK p \in firsts : p <= m - 1 /\ m - 1 < p + Limit
    BY <1>2, <1>5 DEF Windows
  <1>7. p \in 1 .. Len(times) /\ n - 2 * Limit + 1 \in 1 .. Len(times) /\ n - 2 * Limit + 1 <= p /\ p < m
    BY <1>1, <1>3, <1>4, <1>5, <1>6
  <1>8. times[p] + Window <= times[m]
    BY <1>2, <1>7 DEF Windows
  <1>9. times[n - 2 * Limit + 1] <= times[p] /\ times[m] <= times[n]
    BY <1>1, <1>3, <1>4, <1>5, <1>7
  <1>10. times[n - 2 * Limit + 1] \in Nat /\ times[p] \in Nat /\ times[m] \in Nat /\ times[n] \in Nat
    BY <1>1, <1>3, <1>5, <1>7
  <1> QED
    BY <1>8, <1>9, <1>10, SMTT(60)

(* A key's windows do not depend on what the table holds of the others, nor on   *)
(* a window that is over being dropped, nor on the time going on.                *)
LEMMA WindowsKept ==
  ASSUME LimitAssumption, NEW times, NEW table, NEW u, NEW k, NEW now \in Nat, NEW later \in Nat, now <= later,
         KeyOK(times, table, k, now),
         k \in DOMAIN u => k \in DOMAIN table /\ u[k] = table[k],
         k \in DOMAIN table /\ k \notin DOMAIN u => table[k].until <= now
  PROVE  KeyOK(times, u, k, later)
  <1> USE DEF LimitAssumption
  <1>1. PassedInOrder(times, later)
    <2>1. \A i \in 1 .. Len(times) : times[i] \in Nat /\ times[i] <= now
      BY DEF KeyOK, PassedInOrder
    <2>2. \A i \in 1 .. Len(times) : times[i] <= later
      BY <2>1
    <2> QED
      BY <2>2 DEF KeyOK, PassedInOrder
  <1>2. PICK firsts \in SUBSET (1 .. Len(times)) : Windows(times, firsts, table, k, now)
    BY DEF KeyOK
  <1>3. \A m \in firsts : times[m] \in Nat
    BY DEF KeyOK, PassedInOrder
  <1>4. \A m \in firsts : times[m] + Window <= IF k \in DOMAIN u THEN u[k].until ELSE later
    <2> SUFFICES ASSUME NEW m \in firsts
                 PROVE  times[m] + Window <= IF k \in DOMAIN u THEN u[k].until ELSE later
      OBVIOUS
    <2>1. times[m] + Window <= IF k \in DOMAIN table THEN table[k].until ELSE now
      BY <1>2 DEF Windows
    <2>2. k \in DOMAIN table => table[k].until \in Nat
      BY <1>2 DEF Windows
    <2>3. times[m] \in Nat
      BY <1>3
    <2>4. CASE k \in DOMAIN u
      BY <2>1, <2>4
    <2>5. CASE k \notin DOMAIN u
      BY <2>1, <2>2, <2>3, <2>5
    <2> QED
      BY <2>4, <2>5
  <1>5. Windows(times, firsts, u, k, later)
    BY <1>2, <1>4 DEF Windows
  <1> QED
    BY <1>1, <1>5 DEF KeyOK

(* A hit that passes comes last.                                              *)
LEMMA OneMoreInOrder ==
  ASSUME NEW times, NEW now \in Nat, PassedInOrder(times, now)
  PROVE  /\ PassedInOrder(Append(times, now), now)
         /\ Len(times) \in Nat /\ Len(Append(times, now)) = Len(times) + 1
         /\ Append(times, now)[Len(times) + 1] = now
         /\ \A i \in 1 .. Len(times) : Append(times, now)[i] = times[i]
  <1> DEFINE more == Append(times, now)
  <1>1. /\ times \in Seq(Nat) /\ Len(times) \in Nat
        /\ \A i \in 1 .. Len(times) : times[i] \in Nat
    BY DEF PassedInOrder
  <1>2. /\ more \in Seq(Nat) /\ Len(more) = Len(times) + 1
        /\ more[Len(times) + 1] = now
        /\ \A i \in 1 .. Len(times) : more[i] = times[i]
    BY <1>1
  <1> HIDE DEF more
  <1>3. \A i \in 1 .. Len(more) : more[i] <= now
    BY <1>1, <1>2 DEF PassedInOrder
  <1>4. ASSUME NEW i \in 1 .. Len(more), NEW j \in 1 .. Len(more), i <= j
        PROVE  more[i] <= more[j]
    <2>1. CASE j = Len(times) + 1
      BY <1>2, <1>3, <2>1
    <2>2. CASE j # Len(times) + 1
      <3>1. j \in 1 .. Len(times) /\ i \in 1 .. Len(times)
        BY <1>1, <1>2, <1>4, <2>2
      <3> QED
        BY <1>2, <1>4, <3>1 DEF PassedInOrder
    <2> QED
      BY <2>1, <2>2
  <1>5. PassedInOrder(more, now)
    BY <1>2, <1>3, <1>4 DEF PassedInOrder
  <1> QED
    BY <1>1, <1>2, <1>5 DEF more

(* A window opens with a hit that passes.                                     *)
LEMMA WindowOpens ==
  ASSUME LimitAssumption, NEW times, NEW table, NEW u, NEW k, NEW now \in Nat,
         KeyOK(times, table, k, now),
         k \in DOMAIN table => table[k].until <= now,
         k \in DOMAIN u, u[k] = [count |-> 1, until |-> now + Window]
  PROVE  KeyOK(Append(times, now), u, k, now)
  <1> USE DEF LimitAssumption
  <1> DEFINE more == Append(times, now)
  <1>1. /\ PassedInOrder(more, now)
        /\ Len(times) \in Nat /\ Len(more) = Len(times) + 1
        /\ more[Len(times) + 1] = now
        /\ \A i \in 1 .. Len(times) : more[i] = times[i]
    BY OneMoreInOrder DEF KeyOK
  <1> HIDE DEF more
  <1>2. PICK firsts \in SUBSET (1 .. Len(times)) : Windows(times, firsts, table, k, now)
    BY DEF KeyOK
  <1> DEFINE S == firsts \cup {Len(times) + 1}
  <1>3. S \in SUBSET (1 .. Len(more))
    <2>1. 1 .. Len(times) \subseteq 1 .. Len(more) /\ Len(times) + 1 \in 1 .. Len(more)
      BY <1>1
    <2> QED
      BY <2>1
  <1>4. \A m \in firsts : times[m] \in Nat /\ more[m] = times[m] /\ m \in 1 .. Len(times)
    BY <1>1 DEF KeyOK, PassedInOrder
  <1>5. \A m \in firsts : times[m] + Window <= now
    <2>1. k \in DOMAIN table => table[k].until \in Nat
      BY <1>2 DEF Windows
    <2>2. ASSUME NEW m \in firsts PROVE times[m] + Window <= now
      <3>1. times[m] + Window <= IF k \in DOMAIN table THEN table[k].until ELSE now
        BY <1>2 DEF Windows
      <3>2. times[m] \in Nat
        BY <1>4
      <3> QED
        BY <2>1, <3>1, <3>2
    <2> QED
      BY <2>2
  <1>6. ASSUME NEW n \in 1 .. Len(more) PROVE \E m \in S : m <= n /\ n < m + Limit
    <2>1. CASE n = Len(times) + 1
      BY <1>1, <2>1
    <2>2. CASE n # Len(times) + 1
      <3>1. n \in 1 .. Len(times)
        BY <1>1, <2>2
      <3> QED
        BY <1>2, <3>1 DEF Windows
    <2> QED
      BY <2>1, <2>2
  <1>7. ASSUME NEW p \in S, NEW m \in S, p < m PROVE more[p] + Window <= more[m]
    <2>1. CASE m = Len(times) + 1
      <3>1. p \in firsts
        BY <1>1, <1>7, <2>1
      <3> QED
        BY <1>1, <1>4, <1>5, <2>1, <3>1
    <2>2. CASE m # Len(times) + 1
      <3>1. m \in firsts /\ p \in firsts
        BY <1>1, <1>4, <1>7, <2>2
      <3> QED
        BY <1>2, <1>4, <1>7, <3>1 DEF Windows
    <2> QED
      BY <2>1, <2>2
  <1>8. \A m \in S : more[m] + Window <= u[k].until
    BY <1>1, <1>4, <1>5
  <1>9. u[k] \in [count : Nat, until : Nat] /\ \E m \in S : Len(more) + 1 <= m + u[k].count
    BY <1>1
  <1>10. Windows(more, S, u, k, now)
    BY <1>6, <1>7, <1>8, <1>9 DEF Windows
  <1> QED
    BY <1>1, <1>3, <1>10 DEF KeyOK, more

(* A hit of an open window is counted, and passes within the limit.             *)
LEMMA WindowCounts ==
  ASSUME LimitAssumption, NEW times, NEW table, NEW u, NEW k, NEW now \in Nat,
         KeyOK(times, table, k, now),
         k \in DOMAIN table, k \in DOMAIN u,
         u[k] = [count |-> table[k].count + 1, until |-> table[k].until]
  PROVE  /\ KeyOK(times, u, k, now)
         /\ u[k].count <= Limit => KeyOK(Append(times, now), u, k, now)
  <1> USE DEF LimitAssumption
  <1> DEFINE more == Append(times, now)
  <1>1. /\ PassedInOrder(more, now)
        /\ Len(times) \in Nat /\ Len(more) = Len(times) + 1
        /\ more[Len(times) + 1] = now
        /\ \A i \in 1 .. Len(times) : more[i] = times[i]
    BY OneMoreInOrder DEF KeyOK
  <1> HIDE DEF more
  <1>2. PICK firsts \in SUBSET (1 .. Len(times)) : Windows(times, firsts, table, k, now)
    BY DEF KeyOK
  <1>3. table[k] \in [count : Nat, until : Nat]
    BY <1>2 DEF Windows
  <1>4. PICK last \in firsts : Len(times) + 1 <= last + table[k].count
    BY <1>2 DEF Windows
  <1>5. /\ u[k] \in [count : Nat, until : Nat]
        /\ u[k].until = table[k].until /\ u[k].count = table[k].count + 1
    BY <1>3
  <1>6. \A m \in firsts : more[m] = times[m] /\ m \in 1 .. Len(times) /\ m \in Nat
    BY <1>1
  <1>7. Windows(times, firsts, u, k, now)
    <2>1. Len(times) + 1 <= last + u[k].count
      BY <1>1, <1>3, <1>4, <1>5, <1>6
    <2> QED
      BY <1>2, <1>5, <2>1 DEF Windows
  <1>8. ASSUME u[k].count <= Limit PROVE Windows(more, firsts, u, k, now)
    <2>1. Len(more) + 1 <= last + u[k].count
      BY <1>1, <1>3, <1>4, <1>5, <1>6
    <2>2. ASSUME NEW n \in 1 .. Len(more) PROVE \E m \in firsts : m <= n /\ n < m + Limit
      <3>1. CASE n = Len(times) + 1
        <4>1. last <= n /\ n < last + Limit
          BY <1>1, <1>3, <1>5, <1>6, <1>8, <2>1, <3>1
        <4> QED
          BY <4>1
      <3>2. CASE n # Len(times) + 1
        <4>1. n \in 1 .. Len(times)
          BY <1>1, <3>2
        <4> QED
          BY <1>2, <4>1 DEF Windows
      <3> QED
        BY <3>1, <3>2
    <2> QED
      BY <1>2, <1>5, <1>6, <2>1, <2>2 DEF Windows
  <1>9. firsts \in SUBSET (1 .. Len(more))
    BY <1>1
  <1>10. KeyOK(times, u, k, now)
    BY <1>7 DEF KeyOK
  <1> QED
    BY <1>1, <1>8, <1>9, <1>10 DEF KeyOK, more

(* A table that lost nothing but windows that are over, apart from one key.      *)
KeptBut(table, u, j) ==
    \A k \in Keys \ {j} :
        /\ k \in DOMAIN u => k \in DOMAIN table /\ u[k] = table[k]
        /\ k \in DOMAIN table /\ k \notin DOMAIN u => ~ (table[k].until > minute)

(* The table stays bounded: a key is added when there is room for one.          *)
LEMMA RoomForOne ==
  ASSUME LimitAssumption, NEW table, TableOK(table), NEW j,
         NEW D \in SUBSET DOMAIN table, j \notin D, ~ (Cardinality(D) >= MaxKeys)
  PROVE  IsFiniteSet(D \cup {j}) /\ Cardinality(D \cup {j}) <= MaxKeys
  <1>1. IsFiniteSet(D)
    BY FS_Subset DEF TableOK
  <1>2. Cardinality(D) \in Nat
    BY <1>1, FS_CardinalityType
  <1>3. IsFiniteSet(D \cup {j}) /\ Cardinality(D \cup {j}) = Cardinality(D) + 1
    BY <1>1, FS_AddElement
  <1> QED
    BY <1>2, <1>3 DEF LimitAssumption

LEMMA PruneKeeps ==
  ASSUME NEW table
  PROVE  /\ DOMAIN Prune(table) \subseteq DOMAIN table
         /\ \A k \in DOMAIN Prune(table) : Prune(table)[k] = table[k]
         /\ \A k \in DOMAIN table \ DOMAIN Prune(table) : ~ (table[k].until > minute)
  BY DEF Prune

(* A key without room is refused.                                             *)
LEMMA HitRefused ==
  ASSUME LimitAssumption, NEW table, TableOK(table), NEW j, j \notin Unruled,
         Cardinality(DOMAIN table) >= MaxKeys, j \notin DOMAIN table,
         Cardinality(DOMAIN Prune(table)) >= MaxKeys
  PROVE  /\ ~ Hit(table, j).ok /\ TableOK(Hit(table, j).table)
         /\ j \notin DOMAIN Hit(table, j).table /\ KeptBut(table, Hit(table, j).table, j)
  <1>1. Hit(table, j) = [table |-> Prune(table), ok |-> FALSE]
    BY DEF Hit
  <1>2. IsFiniteSet(DOMAIN Prune(table)) /\ Cardinality(DOMAIN Prune(table)) <= Cardinality(DOMAIN table)
    BY PruneKeeps, FS_Subset DEF TableOK
  <1>3. Cardinality(DOMAIN Prune(table)) \in Nat /\ Cardinality(DOMAIN table) \in Nat
    BY <1>2, FS_CardinalityType DEF TableOK
  <1>4. TableOK(Prune(table))
    BY <1>2, <1>3 DEF TableOK, LimitAssumption
  <1>5. KeptBut(table, Prune(table), j)
    BY PruneKeeps DEF KeptBut
  <1> QED
    BY <1>1, <1>4, <1>5, PruneKeeps

(* The entry of a key that is counted: its open window, or a new one.           *)
EntryOf(table, j) ==
    IF j \in DOMAIN table /\ table[j].until > minute THEN table[j]
    ELSE [count |-> 0, until |-> minute + Window]

(* Every other hit is counted, and passes within the limit.                     *)
LEMMA HitCounted ==
  ASSUME LimitAssumption, NEW table, TableOK(table), NEW j, j \notin Unruled,
         ~ (/\ Cardinality(DOMAIN table) >= MaxKeys
            /\ j \notin DOMAIN table
            /\ Cardinality(DOMAIN Prune(table)) >= MaxKeys)
  PROVE  LET hit == Hit(table, j)
             entry == [EntryOf(table, j) EXCEPT !.count = @ + 1]
         IN  /\ hit.ok = (entry.count <= Limit)
             /\ TableOK(hit.table)
             /\ j \in DOMAIN hit.table /\ hit.table[j] = entry
             /\ KeptBut(table, hit.table, j)
  <1> DEFINE full == Cardinality(DOMAIN table) >= MaxKeys /\ ~ (j \in DOMAIN table)
             room == IF full THEN Prune(table) ELSE table
             entry == [EntryOf(table, j) EXCEPT !.count = @ + 1]
             after == [k \in DOMAIN room \cup {j} |-> IF k = j THEN entry ELSE room[k]]
  <1>1. ~ (Cardinality(DOMAIN room) >= MaxKeys /\ ~ (j \in DOMAIN table))
    OBVIOUS
  <1>2. Hit(table, j) = [table |-> after, ok |-> entry.count <= Limit]
    BY <1>1 DEF Hit, EntryOf
  <1>3. /\ DOMAIN room \subseteq DOMAIN table
        /\ \A k \in DOMAIN room : room[k] = table[k]
        /\ \A k \in DOMAIN table \ DOMAIN room : ~ (table[k].until > minute)
    BY PruneKeeps
  <1> HIDE DEF room, entry
  <1>4. DOMAIN after = DOMAIN room \cup {j}
    OBVIOUS
  <1>5. IsFiniteSet(DOMAIN after) /\ Cardinality(DOMAIN after) <= MaxKeys
    <2>1. CASE j \in DOMAIN table
      <3>1. j \in DOMAIN room \/ full
        BY <2>1 DEF room
      <3>2. DOMAIN after = DOMAIN table
        BY <1>4, <2>1 DEF room
      <3> QED
        BY <3>2 DEF TableOK
    <2>2. CASE j \notin DOMAIN table
      <3>1. j \notin DOMAIN room /\ ~ (Cardinality(DOMAIN room) >= MaxKeys)
        BY <1>1, <1>3, <2>2
      <3> QED
        BY <1>3, <1>4, <3>1, RoomForOne
    <2> QED
      BY <2>1, <2>2
  <1>6. TableOK(after)
    BY <1>5 DEF TableOK
  <1>7. j \in DOMAIN after /\ after[j] = entry
    OBVIOUS
  <1>8. KeptBut(table, after, j)
    BY <1>3 DEF KeptBut
  <1> HIDE DEF after
  <1> QED
    BY <1>2, <1>6, <1>7, <1>8 DEF entry

(* A request amid its hits: what it passed so far, with the keys it passed.      *)
Amid(s, k) == IF k \in s.passed THEN Append(allowed[k], minute) ELSE allowed[k]

HitsOK(s) ==
    /\ TableOK(s.table)
    /\ \A k \in Keys :
        /\ KeyOK(Amid(s, k), s.table, k, minute)
        /\ k \in s.passed => k \in DOMAIN s.table /\ s.table[k].until > minute

AfterHit(s, j) ==
    LET hit == Hit(s.table, j)
    IN  [table |-> hit.table, passed |-> s.passed \cup (IF hit.ok THEN {j} ELSE {})]

(* The other keys do not notice a hit.                                        *)
LEMMA OthersUnhit ==
  ASSUME LimitAssumption, minute \in Nat, NEW s, HitsOK(s), NEW u, NEW j, KeptBut(s.table, u, j),
         NEW passed, NEW k \in Keys, k # j, k \in passed <=> k \in s.passed
  PROVE  /\ KeyOK(Amid([table |-> u, passed |-> passed], k), u, k, minute)
         /\ k \in passed => k \in DOMAIN u /\ u[k].until > minute
  <1>1. /\ k \in DOMAIN u => k \in DOMAIN s.table /\ u[k] = s.table[k]
        /\ k \in DOMAIN s.table /\ k \notin DOMAIN u => ~ (s.table[k].until > minute)
    BY DEF KeptBut
  <1>2. KeyOK(Amid(s, k), s.table, k, minute)
    BY DEF HitsOK
  <1>3. k \in DOMAIN s.table => s.table[k].until \in Nat
    BY <1>2 DEF KeyOK, Windows
  <1>4. k \in DOMAIN s.table /\ k \notin DOMAIN u => s.table[k].until <= minute
    BY <1>1, <1>3
  <1>5. KeyOK(Amid(s, k), u, k, minute)
    <2>1. minute <= minute
      OBVIOUS
    <2> QED
      BY <1>1, <1>2, <1>4, <2>1, WindowsKept
  <1>6. Amid([table |-> u, passed |-> passed], k) = Amid(s, k)
    BY DEF Amid
  <1>7. k \in passed => k \in DOMAIN u /\ u[k].until > minute
    BY <1>1 DEF HitsOK
  <1> QED
    BY <1>5, <1>6, <1>7

LEMMA HitsKept ==
  ASSUME LimitAssumption, minute \in Nat, NEW s, HitsOK(s), NEW j \in Keys \cup Unruled
  PROVE  HitsOK(AfterHit(s, j))
  <1> DEFINE hit == Hit(s.table, j)
             passed == s.passed \cup (IF hit.ok THEN {j} ELSE {})
             after == [table |-> hit.table, passed |-> passed]
  <1>1. AfterHit(s, j) = after /\ after.table = hit.table /\ after.passed = passed
    BY DEF AfterHit
  <1>2. \A k \in Keys : k # j => (k \in passed <=> k \in s.passed)
    OBVIOUS
  <1>3. TableOK(s.table) /\ IsFiniteSet(DOMAIN s.table)
    BY DEF HitsOK, TableOK
  <1>4. CASE j \in Unruled
    <2>1. hit = [table |-> s.table, ok |-> TRUE]
      BY <1>4 DEF Hit
    <2>2. j \notin Keys
      BY <1>4 DEF Keys
    <2>3. ASSUME NEW k \in Keys
          PROVE  /\ KeyOK(Amid(after, k), hit.table, k, minute)
                 /\ k \in passed => k \in DOMAIN hit.table /\ hit.table[k].until > minute
      <3>1. k # j
        BY <2>2
      <3>2. k \in passed <=> k \in s.passed
        BY <1>2, <3>1
      <3>3. Amid(after, k) = Amid(s, k) /\ hit.table = s.table
        BY <2>1, <3>2 DEF Amid
      <3>4. /\ KeyOK(Amid(s, k), s.table, k, minute)
            /\ k \in s.passed => k \in DOMAIN s.table /\ s.table[k].until > minute
        BY DEF HitsOK
      <3> HIDE DEF hit, passed, after
      <3> QED
        BY <3>2, <3>3, <3>4
    <2>4. TableOK(hit.table)
      BY <1>3, <2>1
    <2> HIDE DEF hit, after, passed
    <2> QED
      BY <1>1, <2>3, <2>4 DEF HitsOK
  <1>5. CASE /\ j \notin Unruled
             /\ Cardinality(DOMAIN s.table) >= MaxKeys
             /\ j \notin DOMAIN s.table
             /\ Cardinality(DOMAIN Prune(s.table)) >= MaxKeys
    <2>1. /\ ~ hit.ok /\ TableOK(hit.table)
          /\ j \notin DOMAIN hit.table /\ KeptBut(s.table, hit.table, j)
      BY <1>3, <1>5, HitRefused
    <2>2. passed = s.passed
      BY <2>1
    <2>3. j \in Keys
      BY <1>5
    <2>4. /\ KeyOK(Amid(s, j), s.table, j, minute)
          /\ j \notin s.passed
      BY <1>5, <2>3 DEF HitsOK
    <2>5. KeyOK(Amid(s, j), hit.table, j, minute)
      <3>1. minute <= minute
        OBVIOUS
      <3>2. j \notin DOMAIN hit.table /\ j \notin DOMAIN s.table
        BY <1>5, <2>1
      <3> HIDE DEF hit
      <3> QED
        BY <2>4, <3>1, <3>2, WindowsKept
    <2>6. Amid(after, j) = Amid(s, j)
      BY <2>2 DEF Amid
    <2>7. ASSUME NEW k \in Keys
          PROVE  /\ KeyOK(Amid(after, k), hit.table, k, minute)
                 /\ k \in passed => k \in DOMAIN hit.table /\ hit.table[k].until > minute
      <3>1. CASE k = j
        BY <2>2, <2>4, <2>5, <2>6, <3>1
      <3>2. CASE k # j
        <4>1. k \in passed <=> k \in s.passed
          BY <2>2
        <4> HIDE DEF hit, passed
        <4> QED
          BY <2>1, <3>2, <4>1, OthersUnhit
      <3> QED
        BY <3>1, <3>2
    <2> QED
      BY <1>1, <2>1, <2>7 DEF HitsOK
  <1>6. CASE /\ j \notin Unruled
             /\ ~ (/\ Cardinality(DOMAIN s.table) >= MaxKeys
                   /\ j \notin DOMAIN s.table
                   /\ Cardinality(DOMAIN Prune(s.table)) >= MaxKeys)
    <2> DEFINE entry == [EntryOf(s.table, j) EXCEPT !.count = @ + 1]
    <2>1. /\ hit.ok = (entry.count <= Limit)
          /\ TableOK(hit.table)
          /\ j \in DOMAIN hit.table /\ hit.table[j] = entry
          /\ KeptBut(s.table, hit.table, j)
      BY <1>3, <1>6, HitCounted
    <2>2. j \in Keys
      BY <1>6
    <2>3. /\ KeyOK(Amid(s, j), s.table, j, minute)
          /\ j \in s.passed => j \in DOMAIN s.table /\ s.table[j].until > minute
      BY <2>2 DEF HitsOK
    <2>4. j \in DOMAIN s.table => s.table[j] \in [count : Nat, until : Nat]
      BY <2>3 DEF KeyOK, Windows
    <2> DEFINE open == j \in DOMAIN s.table /\ s.table[j].until > minute
    <2>5. open => entry = [count |-> s.table[j].count + 1, until |-> s.table[j].until]
      BY <2>4 DEF EntryOf
    <2>6. ~ open => entry = [count |-> 1, until |-> minute + Window]
      BY DEF EntryOf
    <2>7. Amid(after, j) = IF hit.ok /\ j \notin s.passed THEN Append(Amid(s, j), minute) ELSE Amid(s, j)
      BY DEF Amid
    <2>8. KeyOK(Amid(after, j), hit.table, j, minute) /\ hit.table[j].until > minute
      <3>1. CASE open
        <4>1. /\ j \in DOMAIN s.table
              /\ hit.table[j] = [count |-> s.table[j].count + 1, until |-> s.table[j].until]
          BY <2>1, <2>5, <3>1
        <4>2. /\ hit.table[j].count = s.table[j].count + 1 /\ hit.table[j].until = s.table[j].until
              /\ s.table[j].until > minute /\ (hit.ok = (hit.table[j].count <= Limit))
          BY <2>1, <3>1, <4>1
        <4> HIDE DEF hit, after, entry, open
        <4>3. /\ KeyOK(Amid(s, j), hit.table, j, minute)
              /\ hit.table[j].count <= Limit => KeyOK(Append(Amid(s, j), minute), hit.table, j, minute)
          BY <2>1, <2>3, <4>1, WindowCounts
        <4> QED
          BY <2>7, <4>2, <4>3
      <3>2. CASE ~ open
        <4>1. hit.table[j] = [count |-> 1, until |-> minute + Window]
          BY <2>1, <2>6, <3>2
        <4>2. hit.ok /\ hit.table[j].until > minute
          <5>1. hit.table[j].count = 1 /\ hit.table[j].until = minute + Window
            BY <4>1
          <5>2. hit.ok = (hit.table[j].count <= Limit)
            BY <2>1
          <5> HIDE DEF hit
          <5>3. hit.table[j].count <= Limit /\ hit.table[j].until > minute
            BY <5>1 DEF LimitAssumption
          <5> QED
            BY <5>2, <5>3, Zenon
        <4>3. j \notin s.passed
          BY <2>3, <3>2
        <4>4. j \in DOMAIN s.table => s.table[j].until <= minute
          BY <2>4, <3>2
        <4> HIDE DEF hit, after, entry, open
        <4>5. KeyOK(Append(Amid(s, j), minute), hit.table, j, minute)
          BY <2>1, <2>3, <4>1, <4>4, WindowOpens
        <4> QED
          BY <2>7, <4>2, <4>3, <4>5
      <3> QED
        BY <3>1, <3>2
    <2>9. ASSUME NEW k \in Keys
          PROVE  /\ KeyOK(Amid(after, k), hit.table, k, minute)
                 /\ k \in passed => k \in DOMAIN hit.table /\ hit.table[k].until > minute
      <3>1. CASE k = j
        BY <2>1, <2>8, <3>1
      <3>2. CASE k # j
        <4>1. k \in passed <=> k \in s.passed
          BY <1>2, <3>2
        <4> HIDE DEF hit, passed
        <4> QED
          BY <2>1, <3>2, <4>1, OthersUnhit
      <3> QED
        BY <3>1, <3>2
    <2> HIDE DEF hit, after, passed
    <2> QED
      BY <1>1, <2>1, <2>9 DEF HitsOK
  <1> QED
    BY <1>4, <1>5, <1>6

(* The recursive definition of the hits of a request has a solution.           *)
LEMMA HitsExist ==
  ASSUME NEW check, NEW n \in Nat
  PROVE  \E h : h = [k \in 0 .. n |-> IF k = 0 THEN [table |-> hits, passed |-> {}]
                                      ELSE AfterHit(h[k - 1], check[k])]
  <1> DEFINE Eq(h, m) == h = [k \in 0 .. m |-> IF k = 0 THEN [table |-> hits, passed |-> {}]
                                               ELSE AfterHit(h[k - 1], check[k])]
             S == {m \in Nat : \E h : Eq(h, m)}
  <1>1. 0 \in S
    <2> DEFINE h0 == [k \in 0 .. 0 |-> [table |-> hits, passed |-> {}]]
    <2>1. Eq(h0, 0)
      OBVIOUS
    <2> QED
      BY <2>1
  <1>2. ASSUME NEW m \in Nat, m \in S PROVE m + 1 \in S
    <2>1. PICK h : Eq(h, m)
      BY <1>2
    <2> DEFINE h1 == [k \in 0 .. m + 1 |-> IF k = m + 1 THEN AfterHit(h[m], check[m + 1]) ELSE h[k]]
    <2>2. \A k \in 0 .. m : h[k] = IF k = 0 THEN [table |-> hits, passed |-> {}]
                                   ELSE AfterHit(h[k - 1], check[k])
      BY <2>1
    <2>3. ASSUME NEW k \in 0 .. m + 1
          PROVE  h1[k] = IF k = 0 THEN [table |-> hits, passed |-> {}]
                         ELSE AfterHit(h1[k - 1], check[k])
      <3>1. CASE k = m + 1
        <4>1. k # 0 /\ k - 1 = m /\ m \in 0 .. m + 1 /\ m # m + 1 /\ k \in 0 .. m + 1
          BY <3>1
        <4>2. h1[m] = h[m] /\ h1[k] = AfterHit(h[m], check[m + 1])
          BY <3>1, <4>1
        <4> HIDE DEF h1
        <4> QED
          BY <3>1, <4>1, <4>2
      <3>2. CASE k # m + 1
        <4>1. k \in 0 .. m /\ (k # 0 => k - 1 \in 0 .. m + 1 /\ k - 1 # m + 1)
          BY <3>2
        <4>2. h1[k] = h[k] /\ (k # 0 => h1[k - 1] = h[k - 1])
          BY <3>2, <4>1
        <4> HIDE DEF h1
        <4> QED
          BY <2>2, <4>1, <4>2
      <3> QED
        BY <3>1, <3>2
    <2>4. Eq(h1, m + 1)
      BY <2>3
    <2>5. m + 1 \in Nat
      OBVIOUS
    <2> HIDE DEF h1, Eq
    <2>6. \E x : Eq(x, m + 1)
      BY <2>4
    <2> QED
      BY <2>5, <2>6
  <1>3. n \in S
    BY <1>1, <1>2, Induction
  <1> QED
    BY <1>3

(* A request is its hits, one after the other.                                *)
LEMMA RequestIsItsHits ==
  ASSUME NEW check, Len(check) \in Nat, Request(check)
  PROVE  \E h :
           /\ h[0] = [table |-> hits, passed |-> {}]
           /\ \A k \in 1 .. Len(check) : h[k] = AfterHit(h[k - 1], check[k])
           /\ hits' = h[Len(check)].table
           /\ allowed' = [k \in Keys |-> Amid(h[Len(check)], k)]
           /\ minute' = minute
  <1> DEFINE step[k \in 0 .. Len(check)] ==
               IF k = 0 THEN [table |-> hits, passed |-> {}]
               ELSE LET hit == Hit(step[k - 1].table, check[k])
                    IN  [table |-> hit.table,
                         passed |-> step[k - 1].passed \cup (IF hit.ok THEN {check[k]} ELSE {})]
             end == step[Len(check)]
  <1>1. PICK h : h = [k \in 0 .. Len(check) |-> IF k = 0 THEN [table |-> hits, passed |-> {}]
                                                ELSE AfterHit(h[k - 1], check[k])]
    BY HitsExist
  <1>2. h = [k \in 0 .. Len(check) |->
               IF k = 0 THEN [table |-> hits, passed |-> {}]
               ELSE LET hit == Hit(h[k - 1].table, check[k])
                    IN  [table |-> hit.table,
                         passed |-> h[k - 1].passed \cup (IF hit.ok THEN {check[k]} ELSE {})]]
    BY <1>1 DEF AfterHit
  <1>3. step = [k \in 0 .. Len(check) |->
               IF k = 0 THEN [table |-> hits, passed |-> {}]
               ELSE LET hit == Hit(step[k - 1].table, check[k])
                    IN  [table |-> hit.table,
                         passed |-> step[k - 1].passed \cup (IF hit.ok THEN {check[k]} ELSE {})]]
    BY <1>2, Zenon
  <1>4. /\ hits' = end.table
        /\ allowed' = [k \in Keys |->
                IF k \in end.passed THEN Append(allowed[k], minute) ELSE allowed[k]]
        /\ minute' = minute
    BY DEF Request
  <1> HIDE DEF step
  <1>5. step[0] = [table |-> hits, passed |-> {}]
    <2>1. 0 \in 0 .. Len(check)
      OBVIOUS
    <2> QED
      BY <1>3, <2>1
  <1>6. ASSUME NEW k \in 1 .. Len(check) PROVE step[k] = AfterHit(step[k - 1], check[k])
    <2>1. k \in 0 .. Len(check) /\ k # 0
      OBVIOUS
    <2> QED
      BY <1>3, <2>1 DEF AfterHit
  <1> QED
    BY <1>4, <1>5, <1>6 DEF Amid

LEMMA LimitRequestOK ==
  ASSUME LimitAssumption, LimitInv, NEW check \in Checks, Request(check)
  PROVE  LimitInv'
  <1>1. PICK h :
           /\ h[0] = [table |-> hits, passed |-> {}]
           /\ \A k \in 1 .. Len(check) : h[k] = AfterHit(h[k - 1], check[k])
           /\ hits' = h[Len(check)].table
           /\ allowed' = [k \in Keys |-> Amid(h[Len(check)], k)]
           /\ minute' = minute
    BY RequestIsItsHits DEF LimitAssumption
  <1>2. HitsOK(h[0])
    <2> DEFINE none == [table |-> hits, passed |-> {}]
    <2>1. none.table = hits /\ \A k \in Keys : Amid(none, k) = allowed[k] /\ k \notin none.passed
      BY DEF Amid
    <2> HIDE DEF none
    <2>2. HitsOK(none)
      BY <2>1 DEF HitsOK, LimitInv
    <2> QED
      BY <1>1, <2>2 DEF none
  <1> DEFINE S == {k \in Nat : k <= Len(check) => HitsOK(h[k])}
  <1>3. 0 \in S
    BY <1>2
  <1>4. ASSUME NEW k \in Nat, k \in S PROVE k + 1 \in S
    <2> SUFFICES ASSUME k + 1 <= Len(check) PROVE HitsOK(h[k + 1])
      OBVIOUS
    <2>1. HitsOK(h[k]) /\ k + 1 \in 1 .. Len(check) /\ k + 1 - 1 = k
      BY <1>4
    <2>2. h[k + 1] = AfterHit(h[k], check[k + 1])
      BY <1>1, <2>1
    <2>3. check[k + 1] \in Keys \cup Unruled
      BY <2>1 DEF Keys, LimitAssumption
    <2>4. minute \in Nat
      BY DEF LimitInv
    <2>5. HitsOK(AfterHit(h[k], check[k + 1]))
      BY <2>1, <2>3, <2>4, HitsKept
    <2> QED
      BY <2>2, <2>5
  <1>5. Nat \subseteq S
    BY <1>3, <1>4, Induction
  <1>6. HitsOK(h[Len(check)])
    BY <1>5 DEF LimitAssumption
  <1>7. /\ TableOK(hits')
        /\ \A k \in Keys : KeyOK(allowed'[k], hits', k, minute')
    BY <1>1, <1>6 DEF HitsOK
  <1>8. minute' \in Nat /\ allowed' = [k \in Keys |-> allowed'[k]]
    BY <1>1 DEF LimitInv
  <1> QED
    BY <1>7, <1>8 DEF LimitInv, TableOK, KeyOK, Windows, PassedInOrder

LEMMA LimitInitOK == LimitAssumption /\ LimitInit => LimitInv
  <1> SUFFICES ASSUME LimitAssumption, LimitInit PROVE LimitInv
    OBVIOUS
  <1>1. DOMAIN hits = {} /\ minute = 0 /\ \A k \in Keys : allowed[k] = <<>>
    BY DEF LimitInit
  <1>2. TableOK(hits)
    BY <1>1, FS_EmptySet DEF TableOK, LimitAssumption
  <1>3. ASSUME NEW k \in Keys PROVE KeyOK(allowed[k], hits, k, minute)
    <2>1. PassedInOrder(<<>>, 0) /\ Windows(<<>>, {}, hits, k, 0)
      BY <1>1 DEF PassedInOrder, Windows
    <2> QED
      BY <1>1, <1>3, <2>1 DEF KeyOK
  <1> QED
    BY <1>1, <1>2, <1>3 DEF LimitInv, LimitInit

LEMMA LimitNextOK ==
  ASSUME LimitAssumption, LimitInv, [LimitNext]_limitVars
  PROVE  LimitInv'
  <1>1. CASE Ask
    <2>1. PICK check \in Checks : Request(check)
      BY <1>1 DEF Ask
    <2> QED
      BY <2>1, LimitRequestOK
  <1>2. CASE Pass
    <2>1. hits' = hits /\ allowed' = allowed /\ minute' = minute + 1 /\ minute \in Nat
      BY <1>2 DEF Pass, LimitInv
    <2>2. minute' \in Nat /\ minute <= minute'
      BY <2>1
    <2>3. ASSUME NEW k \in Keys PROVE KeyOK(allowed[k], hits, k, minute')
      <3>1. KeyOK(allowed[k], hits, k, minute)
        BY DEF LimitInv
      <3> QED
        BY <2>1, <2>2, <3>1, WindowsKept
    <2>4. TableOK(hits') /\ \A k \in Keys : KeyOK(allowed'[k], hits', k, minute')
      BY <2>1, <2>3 DEF LimitInv
    <2>5. allowed' = [k \in Keys |-> allowed'[k]]
      BY <2>1 DEF LimitInv
    <2> QED
      BY <2>2, <2>4, <2>5 DEF LimitInv, TableOK, KeyOK, Windows, PassedInOrder
  <1>3. CASE UNCHANGED limitVars
    <2>1. hits' = hits /\ allowed' = allowed /\ minute' = minute
      BY <1>3 DEF limitVars
    <2>2. TableOK(hits') /\ \A k \in Keys : KeyOK(allowed'[k], hits', k, minute')
      BY <2>1 DEF LimitInv
    <2>3. minute' \in Nat /\ allowed' = [k \in Keys |-> allowed'[k]]
      BY <2>1 DEF LimitInv
    <2> QED
      BY <2>2, <2>3 DEF LimitInv, TableOK, KeyOK, Windows, PassedInOrder
  <1> QED
    BY <1>1, <1>2, <1>3 DEF LimitNext

LEMMA LimitHolds == LimitAssumption /\ LimitInv => SpanBounded
  <1> SUFFICES ASSUME LimitAssumption, LimitInv PROVE SpanBounded
    OBVIOUS
  <1>1. \A k \in Keys : KeyOK(allowed[k], hits, k, minute)
    BY DEF LimitInv
  <1>2. ASSUME NEW k \in Keys, NEW n \in 2 * Limit .. Len(allowed[k])
        PROVE  allowed[k][n] - allowed[k][n - 2 * Limit + 1] >= Window
    BY <1>1, SpanOfWindows
  <1> QED
    BY <1>2 DEF SpanBounded, LimitInv, TableOK

LEMMA LimitPartSteps == [DeskNext]_deskVars => [LimitNext]_limitVars
  BY DEF DeskNext, deskVars, GridPart, LeashPart, ProofPart, FleetPart, LimitPart, RegistryPart,
         RangePart, ScoutPart, GradingPart

(* However the requests of any number of callers fall, for any limit, window     *)
(* and size of the table: a bucket passes less than twice its limit in any span  *)
(* shorter than a window, and the table stays within its size (hit, prune).     *)
THEOREM SpansBounded == DeskSpec => []SpanBounded
  <1>1. DeskInit => LimitInv
    BY LimitAssumption, LimitInitOK DEF DeskInit
  <1>2. LimitInv /\ [DeskNext]_deskVars => LimitInv'
    BY LimitAssumption, LimitNextOK, LimitPartSteps
  <1>3. LimitInv => SpanBounded
    BY LimitAssumption, LimitHolds
  <1> QED
    BY <1>1, <1>2, <1>3, PTL DEF DeskSpec

(* ----------------------- the engine and the evaluator ---------------------- *)

LEMMA FirstReasonIs == ASSUME NEW checks PROVE Truth!FirstReason(checks) = FirstOf(checks)
  BY DEF Truth!FirstReason, FirstOf

(* The first check that fails gives the reason, and where none fails there is   *)
(* none.                                                                     *)
LEMMA FirstIs ==
  ASSUME NEW checks, NEW n \in Nat, DOMAIN checks = 1 .. n
  PROVE  /\ \A k \in 1 .. n :
              checks[k][1] /\ (\A j \in 1 .. k - 1 : ~ checks[j][1]) => FirstOf(checks) = checks[k][2]
         /\ (\A k \in 1 .. n : ~ checks[k][1]) => FirstOf(checks) = None
  <1> DEFINE failing == {k \in DOMAIN checks : checks[k][1]}
             First(k) == k \in failing /\ \A j \in failing : k <= j
  <1>1. ASSUME NEW k \in 1 .. n, checks[k][1], \A j \in 1 .. k - 1 : ~ checks[j][1]
        PROVE  FirstOf(checks) = checks[k][2]
    <2>1. k \in failing
      BY <1>1
    <2>2. ASSUME NEW j \in failing PROVE k <= j
      <3>1. j \in 1 .. n /\ checks[j][1]
        OBVIOUS
      <3>2. CASE j < k
        <4>1. j \in 1 .. k - 1
          BY <3>1, <3>2
        <4> QED
          BY <1>1, <3>1, <4>1
      <3> QED
        BY <3>1, <3>2
    <2>3. \A m \in failing : (\A j \in failing : m <= j) => m = k
      BY <2>1, <2>2
    <2>4. (CHOOSE m \in failing : \A j \in failing : m <= j) = k
      <3> HIDE DEF failing
      <3> QED
        BY <2>1, <2>2, <2>3
    <2>5. FirstOf(checks) = IF failing = {} THEN None
                            ELSE checks[CHOOSE m \in failing : \A j \in failing : m <= j][2]
      BY DEF FirstOf
    <2> HIDE DEF failing
    <2> QED
      BY <2>1, <2>4, <2>5
  <1>2. ASSUME \A k \in 1 .. n : ~ checks[k][1] PROVE FirstOf(checks) = None
    BY <1>2 DEF FirstOf
  <1> QED
    BY <1>1, <1>2

(* Of two lists of checks the second is asked when the first finds nothing.     *)
LEMMA FirstOfBoth ==
  ASSUME NEW a \in Checks2, NEW b \in Checks2
  PROVE  /\ a \o b \in Checks2
         /\ FirstOf(a \o b) = IF FirstOf(a) # None THEN FirstOf(a) ELSE FirstOf(b)
  <1> DEFINE both == a \o b
  <1>1. /\ Len(a) \in Nat /\ Len(b) \in Nat /\ DOMAIN a = 1 .. Len(a) /\ DOMAIN b = 1 .. Len(b)
        /\ \A k \in 1 .. Len(a) : a[k][1] \in BOOLEAN /\ a[k][2] \in GridRefusals
        /\ \A k \in 1 .. Len(b) : b[k][1] \in BOOLEAN /\ b[k][2] \in GridRefusals
    BY DEF Checks2
  <1>2. /\ both \in Checks2 /\ Len(both) = Len(a) + Len(b)
        /\ \A k \in 1 .. Len(a) + Len(b) : both[k] = IF k <= Len(a) THEN a[k] ELSE b[k - Len(a)]
    BY ConcatProperties, Zenon DEF Checks2
  <1> HIDE DEF both
  <1>3. DOMAIN both = 1 .. Len(a) + Len(b) /\ Len(a) + Len(b) \in Nat
    BY <1>1, <1>2 DEF Checks2
  <1>4. /\ \A k \in 1 .. Len(a) : k \in 1 .. Len(a) + Len(b) /\ both[k] = a[k]
        /\ \A k \in 1 .. Len(b) : k + Len(a) \in 1 .. Len(a) + Len(b) /\ both[k + Len(a)] = b[k]
    BY <1>1, <1>2
  <1>5. CASE \E k \in 1 .. Len(a) : a[k][1]
    <2> DEFINE S == {k \in 1 .. Len(a) : a[k][1]}
    <2>1. S \in SUBSET Nat /\ S # {}
      BY <1>5
    <2>2. PICK k \in S : \A j \in S : k <= j
      <3> HIDE DEF S
      <3> QED
        BY <2>1, LeastNumber
    <2>3. k \in 1 .. Len(a) /\ a[k][1]
      OBVIOUS
    <2>4. ASSUME NEW j \in 1 .. k - 1 PROVE j \in 1 .. Len(a) /\ ~ a[j][1]
      <3>1. j \in 1 .. Len(a) /\ ~ (k <= j)
        BY <1>1, <2>3
      <3> QED
        BY <2>2, <3>1
    <2> HIDE DEF S
    <2>5. FirstOf(a) = a[k][2]
      BY <1>1, <2>3, <2>4, FirstIs
    <2>6. /\ k \in 1 .. Len(a) + Len(b) /\ both[k][1]
          /\ \A j \in 1 .. k - 1 : ~ both[j][1]
      BY <1>4, <2>3, <2>4
    <2>7. FirstOf(both) = both[k][2]
      BY <1>3, <2>6, FirstIs
    <2>8. both[k] = a[k]
      BY <1>4, <2>3
    <2>9. a[k][2] # None
      BY <1>1, <2>3, NullAssumption
    <2> QED
      BY <1>2, <2>5, <2>7, <2>8, <2>9 DEF both
  <1>6. CASE (\A k \in 1 .. Len(a) : ~ a[k][1]) /\ \E k \in 1 .. Len(b) : b[k][1]
    <2> DEFINE S == {k \in 1 .. Len(b) : b[k][1]}
    <2>1. S \in SUBSET Nat /\ S # {}
      BY <1>6
    <2>2. PICK k \in S : \A j \in S : k <= j
      <3> HIDE DEF S
      <3> QED
        BY <2>1, LeastNumber
    <2>3. k \in 1 .. Len(b) /\ b[k][1]
      OBVIOUS
    <2>4. ASSUME NEW j \in 1 .. k - 1 PROVE j \in 1 .. Len(b) /\ ~ b[j][1]
      <3>1. j \in 1 .. Len(b) /\ ~ (k <= j)
        BY <1>1, <2>3
      <3> QED
        BY <2>2, <3>1
    <2> HIDE DEF S
    <2>5. FirstOf(b) = b[k][2] /\ FirstOf(a) = None
      BY <1>1, <1>6, <2>3, <2>4, FirstIs
    <2>6. ASSUME NEW j \in 1 .. k + Len(a) - 1 PROVE ~ both[j][1]
      <3>1. CASE j <= Len(a)
        <4>1. j \in 1 .. Len(a)
          BY <1>1, <2>3, <3>1
        <4> QED
          BY <1>4, <1>6, <4>1
      <3>2. CASE ~ (j <= Len(a))
        <4>1. j - Len(a) \in 1 .. k - 1 /\ j \in 1 .. Len(a) + Len(b)
          BY <1>1, <2>3, <3>2
        <4> QED
          BY <1>2, <2>4, <3>2, <4>1
      <3> QED
        BY <3>1, <3>2
    <2>7. k + Len(a) \in 1 .. Len(a) + Len(b) /\ both[k + Len(a)] = b[k]
      BY <1>4, <2>3
    <2> DEFINE q == k + Len(a)
    <2>8. q \in 1 .. Len(a) + Len(b) /\ both[q][1] /\ \A j \in 1 .. q - 1 : ~ both[j][1]
      BY <2>3, <2>6, <2>7
    <2> HIDE DEF q
    <2>9. FirstOf(both) = both[q][2]
      BY <1>3, <2>8, FirstIs
    <2> QED
      BY <1>2, <2>5, <2>7, <2>9 DEF both, q
  <1>7. CASE (\A k \in 1 .. Len(a) : ~ a[k][1]) /\ \A k \in 1 .. Len(b) : ~ b[k][1]
    <2>1. FirstOf(a) = None /\ FirstOf(b) = None
      BY <1>1, <1>7, FirstIs
    <2>2. ASSUME NEW j \in 1 .. Len(a) + Len(b) PROVE ~ both[j][1]
      <3>1. CASE j <= Len(a)
        <4>1. j \in 1 .. Len(a)
          BY <1>1, <3>1
        <4> QED
          BY <1>4, <1>7, <4>1
      <3>2. CASE ~ (j <= Len(a))
        <4>1. j - Len(a) \in 1 .. Len(b)
          BY <1>1, <3>2
        <4> QED
          BY <1>2, <1>7, <3>2, <4>1
      <3> QED
        BY <3>1, <3>2
    <2>3. FirstOf(both) = None
      BY <1>3, <2>2, FirstIs
    <2> QED
      BY <1>2, <2>1, <2>3 DEF both
  <1> QED
    BY <1>5, <1>6, <1>7

(* What a short list of checks finds, written out.                            *)
LEMMA FirstOfThree ==
  ASSUME NEW checks, DOMAIN checks = 1 .. 3
  PROVE  FirstOf(checks) = IF checks[1][1] THEN checks[1][2] ELSE IF checks[2][1] THEN checks[2][2]
                           ELSE IF checks[3][1] THEN checks[3][2] ELSE None
  <1>1. /\ \A k \in 1 .. 3 :
              checks[k][1] /\ (\A j \in 1 .. k - 1 : ~ checks[j][1]) => FirstOf(checks) = checks[k][2]
        /\ (\A k \in 1 .. 3 : ~ checks[k][1]) => FirstOf(checks) = None
    BY FirstIs
  <1> QED
    BY <1>1

LEMMA FirstOfFour ==
  ASSUME NEW checks, DOMAIN checks = 1 .. 4
  PROVE  FirstOf(checks) = IF checks[1][1] THEN checks[1][2] ELSE IF checks[2][1] THEN checks[2][2]
                           ELSE IF checks[3][1] THEN checks[3][2]
                           ELSE IF checks[4][1] THEN checks[4][2] ELSE None
  <1>1. /\ \A k \in 1 .. 4 :
              checks[k][1] /\ (\A j \in 1 .. k - 1 : ~ checks[j][1]) => FirstOf(checks) = checks[k][2]
        /\ (\A k \in 1 .. 4 : ~ checks[k][1]) => FirstOf(checks) = None
    BY FirstIs
  <1> QED
    BY <1>1

LEMMA FirstOfSix ==
  ASSUME NEW checks, DOMAIN checks = 1 .. 6
  PROVE  FirstOf(checks) = IF checks[1][1] THEN checks[1][2] ELSE IF checks[2][1] THEN checks[2][2]
                           ELSE IF checks[3][1] THEN checks[3][2] ELSE IF checks[4][1] THEN checks[4][2]
                           ELSE IF checks[5][1] THEN checks[5][2]
                           ELSE IF checks[6][1] THEN checks[6][2] ELSE None
  <1>1. /\ \A k \in 1 .. 6 :
              checks[k][1] /\ (\A j \in 1 .. k - 1 : ~ checks[j][1]) => FirstOf(checks) = checks[k][2]
        /\ (\A k \in 1 .. 6 : ~ checks[k][1]) => FirstOf(checks) = None
    BY FirstIs
  <1> QED
    BY <1>1

LEMMA GateFinds ==
  ASSUME NEW s, NEW i, NEW now, NEW authority, NEW ledger
  PROVE  FirstOf(Gate(s, i, now, authority, ledger)) =
            IF s.state # "ACTIVE" THEN "strategy_is_not_active"
            ELSE IF s.expiry <= now THEN "strategy_expired"
            ELSE IF authority # None /\ authority.revoked THEN "authority_revoked"
            ELSE IF authority # None /\ authority.expiry # None /\ authority.expiry <= now
                 THEN "strategy_expired"
            ELSE IF i \notin LevelIds(s) THEN "level_not_in_strategy"
            ELSE IF i \in ledger.levels THEN "level_already_filled" ELSE None
  <1> DEFINE g == Gate(s, i, now, authority, ledger)
  <1>1. DOMAIN g = 1 .. 6
    BY DEF Gate
  <1>2. /\ g[1][2] = "strategy_is_not_active" /\ g[2][2] = "strategy_expired"
        /\ g[3][2] = "authority_revoked" /\ g[4][2] = "strategy_expired"
        /\ g[5][2] = "level_not_in_strategy" /\ g[6][2] = "level_already_filled"
    BY DEF Gate
  <1>3. /\ g[1][1] = (s.state # "ACTIVE")
        /\ g[2][1] = (s.expiry <= now)
        /\ g[3][1] = (authority # None /\ authority.revoked)
        /\ g[4][1] = (authority # None /\ authority.expiry # None /\ authority.expiry <= now)
        /\ g[5][1] = (i \notin LevelIds(s))
        /\ g[6][1] = (i \in ledger.levels)
    BY DEF Gate
  <1> HIDE DEF g
  <1> QED
    BY <1>1, <1>2, <1>3, FirstOfSix DEF g

LEMMA AuthorityFinds ==
  ASSUME NEW p, NEW i, NEW fs, NEW now, NEW revoked
  PROVE  Truth!FirstReason(Truth!AuthorityReasons(p, i, fs, now, revoked)) =
            IF p.expiry <= now THEN "strategy_expired"
            ELSE IF revoked THEN "authority_revoked"
            ELSE IF i < 0 \/ i >= p.count THEN "level_not_in_strategy"
            ELSE IF \E k \in DOMAIN fs : fs[k].level = i /\ fs[k].state = "FILLED"
                 THEN "level_already_filled" ELSE None
  <1> DEFINE g == Truth!AuthorityReasons(p, i, fs, now, revoked)
  <1>1. DOMAIN g = 1 .. 4
    BY DEF Truth!AuthorityReasons
  <1>2. /\ g[1][2] = "strategy_expired" /\ g[2][2] = "authority_revoked"
        /\ g[3][2] = "level_not_in_strategy" /\ g[4][2] = "level_already_filled"
    BY DEF Truth!AuthorityReasons
  <1>3. /\ g[1][1] = (p.expiry <= now)
        /\ g[2][1] <=> revoked
        /\ g[3][1] = (i < 0 \/ i >= p.count)
        /\ g[4][1] = \E k \in DOMAIN fs : fs[k].level = i /\ fs[k].state = "FILLED"
    BY DEF Truth!AuthorityReasons
  <1> HIDE DEF g
  <1> QED
    BY <1>1, <1>2, <1>3, FirstOfFour, FirstReasonIs DEF g

(* ------------------------ the prices and the checks ------------------------ *)
(* A plan the evaluator has a truth for.                                      *)
HasTruth(s) == s \in Strategies /\ s.spacing = "arithmetic" /\ s.reference # None

LEMMA SameTruth ==
  ASSUME NEW s, HasTruth(s)
  PROVE  /\ LevelIds(s) = 0 .. s.count - 1 /\ s.count \in Nat
         /\ \A i : LevelPrice(s, i) = Truth!TruthPrice(s, i) /\ Side(s, i) = Truth!TruthSide(s, i)
         /\ \A i : Side(s, i) \in {"BUY", "SELL"}
  <1>1. s.count \in Nat
    BY StrategyFields DEF HasTruth
  <1>2. ASSUME NEW i PROVE LevelPrice(s, i) = Truth!TruthPrice(s, i) /\ Side(s, i) = Truth!TruthSide(s, i)
    <2>1. LevelPrice(s, i) = Arithmetic(s, i) /\ Middle(s) = s.reference
      BY DEF LevelPrice, Middle, HasTruth
    <2>2. Arithmetic(s, i) = Truth!TruthPrice(s, i)
      BY DEF Arithmetic, Truth!TruthPrice
    <2> QED
      BY <2>1, <2>2 DEF Side, Truth!TruthSide
  <1> QED
    BY <1>1, <1>2 DEF LevelIds, Side

(* Answering, the agent takes the strategy for an active one.                 *)
LEMMA ActiveFields ==
  ASSUME NEW s \in Strategies
  PROVE  /\ Active(s).state = "ACTIVE"
         /\ Active(s).lower = s.lower /\ Active(s).upper = s.upper /\ Active(s).count = s.count
         /\ Active(s).spacing = s.spacing /\ Active(s).reference = s.reference
         /\ Active(s).total = s.total /\ Active(s).maxPerLevel = s.maxPerLevel
         /\ Active(s).maxFills = s.maxFills /\ Active(s).cooldown = s.cooldown
         /\ Active(s).expiry = s.expiry /\ Active(s).maxAge = s.maxAge
         /\ Active(s).chain = s.chain /\ Active(s).pair = s.pair
         /\ Active(s).contracts = s.contracts /\ Active(s).methods = s.methods
  BY DEF Active, Strategies

LEMMA ActiveLevels ==
  ASSUME NEW s \in Strategies
  PROVE  /\ LevelIds(Active(s)) = LevelIds(s)
         /\ \A i : LevelPrice(Active(s), i) = LevelPrice(s, i) /\ Side(Active(s), i) = Side(s, i)
         /\ PerLevel(Active(s)) = PerLevel(s)
  <1> DEFINE a == Active(s)
  <1>1. /\ a.lower = s.lower /\ a.upper = s.upper /\ a.count = s.count
        /\ a.spacing = s.spacing /\ a.reference = s.reference
        /\ a.total = s.total /\ a.maxPerLevel = s.maxPerLevel
    BY ActiveFields
  <1> HIDE DEF a
  <1> QED
    BY <1>1, SameLevels DEF a

(* Whether the agent may act at all is answered alike.                         *)
LEMMA AuthorityAgrees ==
  ASSUME NEW s, HasTruth(s), NEW i \in Int, NEW fs \in Seq(Fills), NEW now, NEW revoked \in BOOLEAN,
         NEW authority,
         authority = IF revoked THEN [revoked |-> TRUE, expiry |-> None] ELSE None,
         revoked => authority # None
  PROVE  /\ FirstOf(Gate(Active(s), i, now, authority, Ledger(fs)))
              = Truth!FirstReason(Truth!AuthorityReasons(s, i, fs, now, revoked))
         /\ FirstOf(Gate(Active(s), i, now, authority, Ledger(fs))) = None => i \in LevelIds(s)
  <1> DEFINE a == Active(s)
             filled == \E k \in DOMAIN fs : fs[k].level = i /\ fs[k].state = "FILLED"
  <1>1. a.state = "ACTIVE" /\ a.expiry = s.expiry
    BY ActiveFields DEF HasTruth
  <1>2. authority # None /\ authority.revoked <=> revoked
    <2>1. CASE revoked
      BY <2>1
    <2>2. CASE ~ revoked
      BY <2>2
    <2> QED
      BY <2>1, <2>2
  <1>3. ~ (authority # None /\ authority.expiry # None /\ authority.expiry <= now)
    <2>1. CASE revoked
      <3>1. authority.expiry = None
        BY <2>1
      <3> QED
        BY <3>1
    <2>2. CASE ~ revoked
      BY <2>2
    <2> QED
      BY <2>1, <2>2
  <1>4. /\ i \notin LevelIds(a) <=> i < 0 \/ i >= s.count
        /\ LevelIds(a) = LevelIds(s)
    <2>1. LevelIds(a) = LevelIds(s) /\ LevelIds(s) = 0 .. s.count - 1 /\ s.count \in Nat
      BY ActiveLevels, SameTruth DEF HasTruth
    <2> QED
      BY <2>1
  <1>5. i \in Ledger(fs).levels <=> filled
    BY DEF Ledger, Applied
  <1>6. FirstOf(Gate(a, i, now, authority, Ledger(fs))) =
            IF a.state # "ACTIVE" THEN "strategy_is_not_active"
            ELSE IF a.expiry <= now THEN "strategy_expired"
            ELSE IF authority # None /\ authority.revoked THEN "authority_revoked"
            ELSE IF authority # None /\ authority.expiry # None /\ authority.expiry <= now
                 THEN "strategy_expired"
            ELSE IF i \notin LevelIds(a) THEN "level_not_in_strategy"
            ELSE IF i \in Ledger(fs).levels THEN "level_already_filled" ELSE None
    BY GateFinds
  <1>7. Truth!FirstReason(Truth!AuthorityReasons(s, i, fs, now, revoked)) =
            IF s.expiry <= now THEN "strategy_expired"
            ELSE IF revoked THEN "authority_revoked"
            ELSE IF i < 0 \/ i >= s.count THEN "level_not_in_strategy"
            ELSE IF filled THEN "level_already_filled" ELSE None
    BY AuthorityFinds
  <1>8. "level_not_in_strategy" # None
    BY NullAssumption DEF GridRefusals
  <1> HIDE DEF a, filled
  <1>9. FirstOf(Gate(a, i, now, authority, Ledger(fs))) =
            IF s.expiry <= now THEN "strategy_expired"
            ELSE IF revoked THEN "authority_revoked"
            ELSE IF i \notin LevelIds(a) THEN "level_not_in_strategy"
            ELSE IF filled THEN "level_already_filled" ELSE None
    BY <1>1, <1>2, <1>3, <1>5, <1>6
  <1>10. FirstOf(Gate(a, i, now, authority, Ledger(fs))) = None => i \in LevelIds(s)
    <2>1. "strategy_expired" # None /\ "authority_revoked" # None
      BY NullAssumption DEF GridRefusals
    <2> QED
      BY <1>4, <1>8, <1>9, <2>1
  <1> QED
    BY <1>4, <1>7, <1>9, <1>10 DEF a

(* The evaluator counts with the same cardinality.                             *)
LEMMA SameCount == ASSUME NEW S PROVE Truth!Cardinality(S) = Cardinality(S)
  BY DEF Truth!Cardinality, Cardinality

(* The allocation of a level that is bought at.                               *)
LEMMA AllocationAgrees ==
  ASSUME NEW s, HasTruth(s), NEW i \in LevelIds(s), Side(s, i) = "BUY"
  PROVE  Allocation(s, i) = Truth!TruthAllocation(s)
  <1> DEFINE n == Cardinality(BuyLevels(s))
             share == s.total \div n
  <1>1. BuyLevels(s) = {j \in 0 .. s.count - 1 : Truth!TruthSide(s, j) = "BUY"}
    BY SameTruth DEF BuyLevels
  <1>2. n \in Nat \ {0}
    <2>1. IsFiniteSet(LevelIds(s))
      <3>1. 0 \in Int /\ s.count - 1 \in Int
        BY SameTruth
      <3> QED
        BY <3>1, FS_Interval DEF LevelIds
    <2>2. i \in BuyLevels(s) /\ BuyLevels(s) \subseteq LevelIds(s)
      BY DEF BuyLevels
    <2>3. IsFiniteSet(BuyLevels(s)) /\ BuyLevels(s) # {}
      BY <2>1, <2>2, FS_Subset
    <2> QED
      BY <2>3, FS_CardinalityType, FS_EmptySet
  <1>3. s.total \in Int /\ s.maxPerLevel \in Int \cup {None}
    <2>1. s.total \in Int
      BY StrategyFields DEF HasTruth
    <2>2. s.maxPerLevel \in LevelCaps
      BY DEF HasTruth, Strategies
    <2> QED
      BY <2>1, <2>2, GridAssumption
  <1>4. share \in Int
    BY <1>2, <1>3
  <1>5. Allocation(s, i) = IF s.maxPerLevel = None \/ share < s.maxPerLevel THEN share ELSE s.maxPerLevel
    BY <1>2 DEF Allocation, PerLevel
  <1>6. Truth!TruthAllocation(s) =
            IF s.maxPerLevel # None /\ s.maxPerLevel < share THEN s.maxPerLevel ELSE share
    <2> DEFINE buys == {j \in 0 .. s.count - 1 : Truth!TruthSide(s, j) = "BUY"}
    <2>1. Truth!TruthAllocation(s) =
            IF s.maxPerLevel # None /\ s.maxPerLevel < s.total \div Cardinality(buys)
            THEN s.maxPerLevel ELSE s.total \div Cardinality(buys)
      BY SameCount DEF Truth!TruthAllocation
    <2>2. buys = BuyLevels(s)
      BY <1>1
    <2> HIDE DEF buys
    <2> QED
      BY <2>1, <2>2
  <1>7. CASE s.maxPerLevel = None
    BY <1>5, <1>6, <1>7
  <1>8. CASE s.maxPerLevel # None
    <2> HIDE DEF share
    <2> QED
      BY <1>3, <1>4, <1>5, <1>6, <1>8
  <1> QED
    BY <1>7, <1>8

(* Whether the observation allows the level is answered alike.                 *)
LEMMA MarketAgrees ==
  ASSUME NEW s, HasTruth(s), NEW i, NEW ob, NEW now, ob.chain # None, ob.pair # None
  PROVE  FirstOf(MarketChecks(Active(s), i, ob, now)) = FirstOf(Truth!PriceReasons(s, i, ob, now))
  <1> DEFINE g == MarketChecks(Active(s), i, ob, now)
             h == Truth!PriceReasons(s, i, ob, now)
             reached == \/ Truth!TruthSide(s, i) = "BUY" /\ ob.price <= Truth!TruthPrice(s, i)
                        \/ Truth!TruthSide(s, i) = "SELL" /\ ob.price >= Truth!TruthPrice(s, i)
  <1>1. DOMAIN g = 1 .. 4 /\ DOMAIN h = 1 .. 4
    BY DEF MarketChecks, Truth!PriceReasons
  <1>2. /\ g[1][2] = "chain_does_not_match_the_strategy" /\ g[2][2] = "pair_does_not_match_the_strategy"
        /\ g[3][2] = "price_observation_is_too_old" /\ g[4][2] = "price_has_not_reached_this_level"
    BY DEF MarketChecks
  <1>3. /\ h[1][2] = "chain_does_not_match_the_strategy" /\ h[2][2] = "pair_does_not_match_the_strategy"
        /\ h[3][2] = "price_observation_is_too_old" /\ h[4][2] = "price_has_not_reached_this_level"
    BY DEF Truth!PriceReasons
  <1>4. /\ g[1][1] = (ob.chain # None /\ ob.chain # Active(s).chain)
        /\ g[2][1] = (ob.pair # None /\ ob.pair # Active(s).pair)
        /\ g[3][1] = (now - ob.at > Active(s).maxAge \/ now < ob.at)
        /\ g[4][1] = ~ Triggered(Active(s), i, ob.price)
    BY DEF MarketChecks
  <1>5. /\ h[1][1] = (ob.chain # s.chain)
        /\ h[2][1] = (ob.pair # s.pair)
        /\ h[3][1] = (now - ob.at > s.maxAge \/ now < ob.at)
        /\ h[4][1] = ~ reached
    BY DEF Truth!PriceReasons
  <1>6. Triggered(Active(s), i, ob.price) <=> reached
    <2>1. /\ LevelPrice(Active(s), i) = Truth!TruthPrice(s, i)
          /\ Side(Active(s), i) = Truth!TruthSide(s, i)
          /\ Truth!TruthSide(s, i) \in {"BUY", "SELL"}
      BY ActiveLevels, SameTruth DEF HasTruth
    <2> QED
      BY <2>1 DEF Triggered
  <1>7. Active(s).chain = s.chain /\ Active(s).pair = s.pair /\ Active(s).maxAge = s.maxAge
    BY ActiveFields DEF HasTruth
  <1>8. /\ g[1][1] <=> h[1][1]
        /\ g[2][1] <=> h[2][1]
        /\ g[3][1] <=> h[3][1]
        /\ g[4][1] <=> h[4][1]
    <2> HIDE DEF g, h, reached
    <2> QED
      BY <1>4, <1>5, <1>6, <1>7
  <1> HIDE DEF g, h
  <1> QED
    BY <1>1, <1>2, <1>3, <1>8, FirstOfFour DEF g, h

(* Whether the budget allows it is answered alike, on the same ledger.         *)
LEMMA BudgetAgrees ==
  ASSUME NEW s, HasTruth(s), NEW i \in LevelIds(s), NEW now, NEW ledger, NEW truth,
         ledger.count = truth.count, ledger.spent = truth.spent,
         ledger.base = truth.base, ledger.last = truth.last
  PROVE  FirstOf(BudgetChecks(Active(s), i, now, ledger)) = FirstOf(Truth!BudgetReasons(s, i, now, truth))
  <1> DEFINE a == Active(s)
             g == BudgetChecks(a, i, now, ledger)
             h == Truth!BudgetReasons(s, i, now, truth)
  <1>1. DOMAIN g = 1 .. 4 /\ DOMAIN h = 1 .. 4
    BY DEF BudgetChecks, Truth!BudgetReasons
  <1>2. /\ g[1][2] = "maximum_fill_count_reached" /\ g[2][2] = "cooldown_has_not_elapsed"
        /\ g[3][2] = "total_capital_cap_would_be_exceeded" /\ g[4][2] = "not_enough_inventory_to_sell"
    BY DEF BudgetChecks
  <1>3. /\ h[1][2] = "maximum_fill_count_reached" /\ h[2][2] = "cooldown_has_not_elapsed"
        /\ h[3][2] = "total_capital_cap_would_be_exceeded" /\ h[4][2] = "not_enough_inventory_to_sell"
    BY DEF Truth!BudgetReasons
  <1>4. /\ g[1][1] = (a.maxFills # None /\ ledger.count >= a.maxFills)
        /\ g[2][1] = (a.cooldown > 0 /\ ledger.last # None /\ now - ledger.last < a.cooldown)
        /\ g[3][1] = (Side(a, i) = "BUY" /\ ledger.spent + Allocation(a, i) > a.total)
        /\ g[4][1] = (Side(a, i) = "SELL" /\ ledger.base <= 0)
    BY DEF BudgetChecks
  <1>5. /\ h[1][1] = (s.maxFills # None /\ truth.count >= s.maxFills)
        /\ h[2][1] = (s.cooldown > 0 /\ truth.last # None /\ now - truth.last < s.cooldown)
        /\ h[3][1] = (/\ Truth!TruthSide(s, i) = "BUY"
                      /\ truth.spent + Truth!TruthAllocation(s) > s.total)
        /\ h[4][1] = (Truth!TruthSide(s, i) = "SELL" /\ truth.base <= 0)
    BY DEF Truth!BudgetReasons
  <1>6. a.maxFills = s.maxFills /\ a.cooldown = s.cooldown /\ a.total = s.total
    BY ActiveFields DEF HasTruth
  <1>7. Side(a, i) = Side(s, i) /\ Side(s, i) = Truth!TruthSide(s, i) /\ PerLevel(a) = PerLevel(s)
    BY ActiveLevels, SameTruth DEF HasTruth
  <1>8. Side(a, i) = "BUY" => Allocation(a, i) = Truth!TruthAllocation(s)
    <2>1. Allocation(a, i) = Allocation(s, i)
      BY <1>7 DEF Allocation
    <2> QED
      BY <1>7, <2>1, AllocationAgrees
  <1>9. /\ g[1][1] <=> h[1][1]
        /\ g[2][1] <=> h[2][1]
        /\ g[3][1] <=> h[3][1]
        /\ g[4][1] <=> h[4][1]
    <2> HIDE DEF g, h, a
    <2>1. (g[1][1] <=> h[1][1]) /\ (g[2][1] <=> h[2][1])
      BY <1>4, <1>5, <1>6
    <2>2. g[3][1] <=> h[3][1]
      BY <1>4, <1>5, <1>6, <1>7, <1>8
    <2>3. g[4][1] <=> h[4][1]
      BY <1>4, <1>5, <1>7
    <2> QED
      BY <2>1, <2>2, <2>3
  <1> HIDE DEF g, h
  <1> QED
    BY <1>1, <1>2, <1>3, <1>9, FirstOfFour DEF g, h, a

(* Whether the proposed call is allowed is answered alike.                     *)
LEMMA CallAgrees ==
  ASSUME NEW s, HasTruth(s), NEW i, NEW c, c # None, c.side = None
  PROVE  FirstOf(CallChecks(Active(s), i, c)) = FirstOf(Truth!CallReasons(s, c))
  <1> DEFINE a == Active(s)
             g == CallChecks(a, i, c)
             h == Truth!CallReasons(s, c)
  <1>1. DOMAIN g = 1 .. 4 /\ DOMAIN h = 1 .. 3
    BY DEF CallChecks, Truth!CallReasons
  <1>2. /\ g[1][2] = "target_contract_is_not_allowed" /\ g[2][2] = "method_is_not_allowed"
        /\ g[4][2] = "quoted_output_is_below_the_minimum"
    BY DEF CallChecks
  <1>3. /\ h[1][2] = "target_contract_is_not_allowed" /\ h[2][2] = "method_is_not_allowed"
        /\ h[3][2] = "quoted_output_is_below_the_minimum"
    BY DEF Truth!CallReasons
  <1>4. /\ g[1][1] = (c.to \notin a.contracts)
        /\ g[2][1] = (c.method \notin a.methods)
        /\ g[3][1] = (c.side # None /\ c.side # Side(a, i))
        /\ g[4][1] = (c.quoted < c.least)
    BY DEF CallChecks
  <1>5. /\ h[1][1] = (c.to \notin s.contracts)
        /\ h[2][1] = (c.method \notin s.methods)
        /\ h[3][1] = (c.quoted < c.least)
    BY DEF Truth!CallReasons
  <1>6. a.contracts = s.contracts /\ a.methods = s.methods
    BY ActiveFields DEF HasTruth
  <1>7. /\ g[1][1] <=> h[1][1]
        /\ g[2][1] <=> h[2][1]
        /\ ~ g[3][1]
        /\ g[4][1] <=> h[3][1]
    <2> HIDE DEF g, h, a
    <2> QED
      BY <1>4, <1>5, <1>6
  <1> HIDE DEF g, h
  <1> QED
    BY <1>1, <1>2, <1>3, <1>7, FirstOfFour, FirstOfThree DEF g, h, a

(* The lists of the evaluator, and those of the engine about the call.         *)
LEMMA ReasonsAre ==
  ASSUME NEW p, NEW i, NEW ob, NEW now, NEW ledger,
         NEW c, c # None => c.quoted \in Int /\ c.least \in Int
  PROVE  /\ Truth!PriceReasons(p, i, ob, now) \in Checks2
         /\ Truth!BudgetReasons(p, i, now, ledger) \in Checks2
         /\ Truth!CallReasons(p, c) \in Checks2
         /\ c # None => CallChecks(p, i, c) \in Checks2
         /\ <<>> \in Checks2 /\ FirstOf(<<>>) = None
  <1>1. Truth!PriceReasons(p, i, ob, now) \in Checks2
    <2> DEFINE a1 == <<ob.chain # p.chain, "chain_does_not_match_the_strategy">>
               a2 == <<ob.pair # p.pair, "pair_does_not_match_the_strategy">>
               a3 == <<now - ob.at > p.maxAge \/ now < ob.at, "price_observation_is_too_old">>
               a4 == <<~ (\/ Truth!TruthSide(p, i) = "BUY" /\ ob.price <= Truth!TruthPrice(p, i)
                          \/ Truth!TruthSide(p, i) = "SELL" /\ ob.price >= Truth!TruthPrice(p, i)),
                       "price_has_not_reached_this_level">>
    <2>1. /\ a1 \in BOOLEAN \X GridRefusals /\ a2 \in BOOLEAN \X GridRefusals
          /\ a3 \in BOOLEAN \X GridRefusals /\ a4 \in BOOLEAN \X GridRefusals
      BY Zenon DEF GridRefusals
    <2>2. Truth!PriceReasons(p, i, ob, now) = <<a1, a2, a3, a4>>
      BY DEF Truth!PriceReasons
    <2> HIDE DEF a1, a2, a3, a4
    <2> QED
      BY <2>1, <2>2, FourOf DEF Checks2
  <1>2. Truth!BudgetReasons(p, i, now, ledger) \in Checks2
    <2> DEFINE a1 == <<p.maxFills # None /\ ledger.count >= p.maxFills, "maximum_fill_count_reached">>
               a2 == <<p.cooldown > 0 /\ ledger.last # None /\ now - ledger.last < p.cooldown,
                       "cooldown_has_not_elapsed">>
               a3 == <<Truth!TruthSide(p, i) = "BUY" /\ ledger.spent + Truth!TruthAllocation(p) > p.total,
                       "total_capital_cap_would_be_exceeded">>
               a4 == <<Truth!TruthSide(p, i) = "SELL" /\ ledger.base <= 0, "not_enough_inventory_to_sell">>
    <2>1. /\ a1 \in BOOLEAN \X GridRefusals /\ a2 \in BOOLEAN \X GridRefusals
          /\ a3 \in BOOLEAN \X GridRefusals /\ a4 \in BOOLEAN \X GridRefusals
      BY Zenon DEF GridRefusals
    <2>2. Truth!BudgetReasons(p, i, now, ledger) = <<a1, a2, a3, a4>>
      BY DEF Truth!BudgetReasons
    <2> HIDE DEF a1, a2, a3, a4
    <2> QED
      BY <2>1, <2>2, FourOf DEF Checks2
  <1>3. ASSUME c # None PROVE CallChecks(p, i, c) \in Checks2
    <2> DEFINE a1 == <<c.to \notin p.contracts, "target_contract_is_not_allowed">>
               a2 == <<c.method \notin p.methods, "method_is_not_allowed">>
               a3 == <<c.side # None /\ c.side # Side(p, i), "side_does_not_match_the_level">>
               a4 == <<c.quoted < c.least, "quoted_output_is_below_the_minimum">>
    <2>4. a4 \in BOOLEAN \X GridRefusals
      <3>1. (c.quoted < c.least) \in BOOLEAN
        BY <1>3
      <3>2. "quoted_output_is_below_the_minimum" \in GridRefusals
        BY DEF GridRefusals
      <3> QED
        BY <3>1, <3>2, Zenon
    <2>1. a1 \in BOOLEAN \X GridRefusals /\ a2 \in BOOLEAN \X GridRefusals
      BY DEF GridRefusals
    <2>3. a3 \in BOOLEAN \X GridRefusals
      BY Zenon DEF GridRefusals
    <2>2. CallChecks(p, i, c) = <<a1, a2, a3, a4>>
      BY DEF CallChecks
    <2> HIDE DEF a1, a2, a3, a4
    <2> QED
      BY <2>1, <2>2, <2>3, <2>4, FourOf DEF Checks2
  <1>4. <<>> \in Checks2 /\ FirstOf(<<>>) = None
    <2>1. <<>> \in Checks2
      BY DEF Checks2
    <2>2. {k \in DOMAIN <<>> : <<>>[k][1]} = {}
      OBVIOUS
    <2> QED
      BY <2>1, <2>2, Zenon DEF FirstOf
  <1>5. Truth!CallReasons(p, c) \in Checks2
    <2> DEFINE a1 == <<c.to \notin p.contracts, "target_contract_is_not_allowed">>
               a2 == <<c.method \notin p.methods, "method_is_not_allowed">>
               a3 == <<c.quoted < c.least, "quoted_output_is_below_the_minimum">>
    <2>1. a1 \in BOOLEAN \X GridRefusals /\ a2 \in BOOLEAN \X GridRefusals
      BY DEF GridRefusals
    <2>4. ASSUME c # None PROVE a3 \in BOOLEAN \X GridRefusals
      <3>1. (c.quoted < c.least) \in BOOLEAN
        BY <2>4
      <3>2. "quoted_output_is_below_the_minimum" \in GridRefusals
        BY DEF GridRefusals
      <3> QED
        BY <3>1, <3>2, Zenon
    <2>2. Truth!CallReasons(p, c) = IF c = None THEN <<>> ELSE <<a1, a2, a3>>
      BY DEF Truth!CallReasons
    <2> HIDE DEF a1, a2, a3
    <2>3. c # None => <<a1, a2, a3>> \in Seq(BOOLEAN \X GridRefusals)
      BY <2>1, <2>4
    <2> QED
      BY <1>4, <2>2, <2>3 DEF Checks2
  <1> QED
    BY <1>1, <1>2, <1>3, <1>4, <1>5

(* Of three lists.                                                            *)
LEMMA FirstOfThreeLists ==
  ASSUME NEW a \in Checks2, NEW b \in Checks2, NEW c \in Checks2
  PROVE  FirstOf(a \o b \o c) = IF FirstOf(a) # None THEN FirstOf(a)
                                ELSE IF FirstOf(b) # None THEN FirstOf(b) ELSE FirstOf(c)
  <1>1. a \o b \in Checks2 /\ FirstOf(a \o b) = IF FirstOf(a) # None THEN FirstOf(a) ELSE FirstOf(b)
    BY FirstOfBoth
  <1> DEFINE ab == a \o b
  <1>2. ab \in Checks2
    BY <1>1
  <1> HIDE DEF ab
  <1>3. FirstOf(ab \o c) = IF FirstOf(ab) # None THEN FirstOf(ab) ELSE FirstOf(c)
    BY <1>2, FirstOfBoth
  <1> QED
    BY <1>1, <1>3 DEF ab

(* The engine and the evaluator give the same answer, on ledgers that agree.    *)
LEMMA DecisionAgrees ==
  ASSUME NEW s, HasTruth(s), NEW i \in Int, NEW fs \in Seq(Fills), NEW now, NEW revoked \in BOOLEAN,
         NEW authority,
         authority = IF revoked THEN [revoked |-> TRUE, expiry |-> None] ELSE None,
         revoked => authority # None,
         NEW ob, ob # None => ob.chain # None /\ ob.pair # None,
         NEW c, c # None => c.side = None /\ c.quoted \in Int /\ c.least \in Int,
         Ledger(fs).count = Truth!TruthLedger(fs).count,
         Ledger(fs).spent = Truth!TruthLedger(fs).spent,
         Ledger(fs).base = Truth!TruthLedger(fs).base,
         Ledger(fs).last = Truth!TruthLedger(fs).last
  PROVE  Refusal(Active(s), i, ob, fs, now, authority, c)
            = Truth!TruthRefusal(s, i, ob, fs, now, revoked, c)
  <1> DEFINE a == Active(s)
             gate == FirstOf(Gate(a, i, now, authority, Ledger(fs)))
             m == MarketChecks(a, i, ob, now)
             b == BudgetChecks(a, i, now, Ledger(fs))
             d == IF c = None THEN <<>> ELSE CallChecks(a, i, c)
             tm == Truth!PriceReasons(s, i, ob, now)
             tb == Truth!BudgetReasons(s, i, now, Truth!TruthLedger(fs))
             td == Truth!CallReasons(s, c)
  <1>1. /\ gate = Truth!FirstReason(Truth!AuthorityReasons(s, i, fs, now, revoked))
        /\ gate = None => i \in LevelIds(s)
    BY AuthorityAgrees
  <1>2. Refusal(a, i, ob, fs, now, authority, c)
            = IF gate # None THEN gate ELSE IF ob = None THEN "no_price_observation"
              ELSE FirstOf(m \o b \o d)
    BY Zenon DEF Refusal
  <1>3. Truth!TruthRefusal(s, i, ob, fs, now, revoked, c)
            = IF gate # None THEN gate ELSE IF ob = None THEN "no_price_observation"
              ELSE FirstOf(tm \o tb \o td)
    <2>1. Truth!TruthRefusal(s, i, ob, fs, now, revoked, c)
            = LET authorised == Truth!FirstReason(Truth!AuthorityReasons(s, i, fs, now, revoked))
              IN  IF authorised # None THEN authorised
                  ELSE IF ob = None THEN "no_price_observation"
                  ELSE Truth!FirstReason(tm \o tb \o td)
      BY Zenon DEF Truth!TruthRefusal
    <2>2. Truth!FirstReason(tm \o tb \o td) = FirstOf(tm \o tb \o td)
      BY FirstReasonIs
    <2> HIDE DEF gate, tm, tb, td
    <2> QED
      BY <1>1, <2>1, <2>2
  <1>4. ASSUME gate = None, ob # None PROVE FirstOf(m \o b \o d) = FirstOf(tm \o tb \o td)
    <2>1. /\ m \in Checks2 /\ b \in Checks2 /\ d \in Checks2
          /\ tm \in Checks2 /\ tb \in Checks2 /\ td \in Checks2
      BY ChecksAre, ReasonsAre
    <2>2. FirstOf(m) = FirstOf(tm)
      BY <1>4, MarketAgrees
    <2>3. FirstOf(b) = FirstOf(tb)
      BY <1>1, <1>4, BudgetAgrees
    <2>4. FirstOf(d) = FirstOf(td)
      <3>1. CASE c = None
        <4>1. d = <<>> /\ td = <<>>
          BY <3>1 DEF Truth!CallReasons
        <4> QED
          BY <4>1
      <3>2. CASE c # None
        <4>1. d = CallChecks(a, i, c)
          BY <3>2
        <4> QED
          BY <3>2, <4>1, CallAgrees
      <3> QED
        BY <3>1, <3>2
    <2> HIDE DEF m, b, d, tm, tb, td
    <2>5. /\ FirstOf(m \o b \o d) = IF FirstOf(m) # None THEN FirstOf(m)
                                    ELSE IF FirstOf(b) # None THEN FirstOf(b) ELSE FirstOf(d)
          /\ FirstOf(tm \o tb \o td) = IF FirstOf(tm) # None THEN FirstOf(tm)
                                       ELSE IF FirstOf(tb) # None THEN FirstOf(tb) ELSE FirstOf(td)
      BY <2>1, FirstOfThreeLists
    <2> QED
      BY <2>2, <2>3, <2>4, <2>5
  <1> HIDE DEF gate, m, b, d, tm, tb, td
  <1> QED
    BY <1>2, <1>3, <1>4 DEF a

(* ------------------------------- two ledgers ------------------------------ *)
Nothing == [count |-> 0, spent |-> 0, base |-> 0, last |-> None]

Booked(before, f) ==
    IF f.state # "FILLED" THEN before
    ELSE [count |-> before.count + 1,
          spent |-> before.spent + (IF f.side = "BUY" THEN f.quote ELSE 0 - f.quote),
          base |-> before.base + (IF f.side = "BUY" THEN f.base ELSE 0 - f.base),
          last |-> IF before.last = None \/ f.at > before.last THEN f.at ELSE before.last]

(* The recursive definition of the evaluator's ledger has a solution.          *)
LEMMA BooksExist ==
  ASSUME NEW fs, NEW n \in Nat
  PROVE  \E h : h = [k \in 0 .. n |-> IF k = 0 THEN Nothing ELSE Booked(h[k - 1], fs[k])]
  <1> DEFINE Eq(h, m) == h = [k \in 0 .. m |-> IF k = 0 THEN Nothing ELSE Booked(h[k - 1], fs[k])]
             S == {m \in Nat : \E h : Eq(h, m)}
  <1>1. 0 \in S
    <2> DEFINE h0 == [k \in 0 .. 0 |-> Nothing]
    <2>1. Eq(h0, 0)
      OBVIOUS
    <2> QED
      BY <2>1
  <1>2. ASSUME NEW m \in Nat, m \in S PROVE m + 1 \in S
    <2>1. PICK h : Eq(h, m)
      BY <1>2
    <2> DEFINE h1 == [k \in 0 .. m + 1 |-> IF k = m + 1 THEN Booked(h[m], fs[m + 1]) ELSE h[k]]
    <2>2. \A k \in 0 .. m : h[k] = IF k = 0 THEN Nothing ELSE Booked(h[k - 1], fs[k])
      BY <2>1
    <2>3. ASSUME NEW k \in 0 .. m + 1
          PROVE  h1[k] = IF k = 0 THEN Nothing ELSE Booked(h1[k - 1], fs[k])
      <3>1. CASE k = m + 1
        <4>1. k # 0 /\ k - 1 = m /\ m \in 0 .. m + 1 /\ m # m + 1 /\ k \in 0 .. m + 1
          BY <3>1
        <4>2. h1[m] = h[m] /\ h1[k] = Booked(h[m], fs[m + 1])
          BY <3>1, <4>1
        <4> HIDE DEF h1
        <4> QED
          BY <3>1, <4>1, <4>2
      <3>2. CASE k # m + 1
        <4>1. k \in 0 .. m /\ (k # 0 => k - 1 \in 0 .. m + 1 /\ k - 1 # m + 1)
          BY <3>2
        <4>2. h1[k] = h[k] /\ (k # 0 => h1[k - 1] = h[k - 1])
          BY <3>2, <4>1
        <4> HIDE DEF h1
        <4> QED
          BY <2>2, <4>1, <4>2
      <3> QED
        BY <3>1, <3>2
    <2>4. Eq(h1, m + 1)
      BY <2>3
    <2>5. m + 1 \in Nat
      OBVIOUS
    <2> HIDE DEF h1, Eq
    <2>6. \E x : Eq(x, m + 1)
      BY <2>4
    <2> QED
      BY <2>5, <2>6
  <1>3. n \in S
    BY <1>1, <1>2, Induction
  <1> QED
    BY <1>3

(* The evaluator's ledger is its fills, booked one after the other.            *)
LEMMA TruthIsItsBooks ==
  ASSUME NEW fs, Len(fs) \in Nat
  PROVE  \E h : /\ h[0] = Nothing
                /\ \A k \in 1 .. Len(fs) : h[k] = Booked(h[k - 1], fs[k])
                /\ Truth!TruthLedger(fs) = h[Len(fs)]
  <1> DEFINE after[k \in 0 .. Len(fs)] ==
               IF k = 0 THEN [count |-> 0, spent |-> 0, base |-> 0, last |-> None]
               ELSE LET f == fs[k]
                        before == after[k - 1]
                    IN  IF f.state # "FILLED" THEN before
                        ELSE [count |-> before.count + 1,
                              spent |-> before.spent + (IF f.side = "BUY" THEN f.quote ELSE 0 - f.quote),
                              base |-> before.base + (IF f.side = "BUY" THEN f.base ELSE 0 - f.base),
                              last |-> IF before.last = None \/ f.at > before.last
                                       THEN f.at ELSE before.last]
  <1>1. PICK h : h = [k \in 0 .. Len(fs) |-> IF k = 0 THEN Nothing ELSE Booked(h[k - 1], fs[k])]
    BY BooksExist
  <1>2. h = [k \in 0 .. Len(fs) |->
               IF k = 0 THEN [count |-> 0, spent |-> 0, base |-> 0, last |-> None]
               ELSE LET f == fs[k]
                        before == h[k - 1]
                    IN  IF f.state # "FILLED" THEN before
                        ELSE [count |-> before.count + 1,
                              spent |-> before.spent + (IF f.side = "BUY" THEN f.quote ELSE 0 - f.quote),
                              base |-> before.base + (IF f.side = "BUY" THEN f.base ELSE 0 - f.base),
                              last |-> IF before.last = None \/ f.at > before.last
                                       THEN f.at ELSE before.last]]
    BY <1>1 DEF Nothing, Booked
  <1>3. after = [k \in 0 .. Len(fs) |->
               IF k = 0 THEN [count |-> 0, spent |-> 0, base |-> 0, last |-> None]
               ELSE LET f == fs[k]
                        before == after[k - 1]
                    IN  IF f.state # "FILLED" THEN before
                        ELSE [count |-> before.count + 1,
                              spent |-> before.spent + (IF f.side = "BUY" THEN f.quote ELSE 0 - f.quote),
                              base |-> before.base + (IF f.side = "BUY" THEN f.base ELSE 0 - f.base),
                              last |-> IF before.last = None \/ f.at > before.last
                                       THEN f.at ELSE before.last]]
    BY <1>2, Zenon
  <1>4. Truth!TruthLedger(fs) = after[Len(fs)]
    BY DEF Truth!TruthLedger
  <1> HIDE DEF after
  <1>5. after[0] = Nothing
    <2>1. 0 \in 0 .. Len(fs)
      OBVIOUS
    <2> QED
      BY <1>3, <2>1 DEF Nothing
  <1>6. ASSUME NEW k \in 1 .. Len(fs) PROVE after[k] = Booked(after[k - 1], fs[k])
    <2>1. k \in 0 .. Len(fs) /\ k # 0
      OBVIOUS
    <2> QED
      BY <1>3, <2>1 DEF Booked
  <1> QED
    BY <1>4, <1>5, <1>6

(* The fills among the first n that were done, and what was booked of them.     *)
Done(fs, n) == {k \in 1 .. n : fs[k].state = "FILLED"}

LatestOf(fs, n, last) ==
    /\ Done(fs, n) = {} => last = None
    /\ Done(fs, n) # {} => \E j \in Done(fs, n) :
            last = fs[j].at /\ \A k \in Done(fs, n) : fs[k].at <= fs[j].at

LEMMA DoneMore ==
  ASSUME NEW fs, NEW n \in Nat
  PROVE  /\ Done(fs, n + 1) = IF fs[n + 1].state = "FILLED" THEN Done(fs, n) \cup {n + 1} ELSE Done(fs, n)
         /\ n + 1 \notin Done(fs, n)
         /\ IsFiniteSet(Done(fs, n)) /\ Cardinality(Done(fs, n)) \in Nat
         /\ Cardinality(Done(fs, n + 1))
              = IF fs[n + 1].state = "FILLED" THEN Cardinality(Done(fs, n)) + 1
                ELSE Cardinality(Done(fs, n))
  <1>1. Done(fs, n + 1) = IF fs[n + 1].state = "FILLED" THEN Done(fs, n) \cup {n + 1} ELSE Done(fs, n)
    BY DEF Done
  <1>2. n + 1 \notin Done(fs, n) /\ Done(fs, n) \subseteq 1 .. n
    BY DEF Done
  <1>3. IsFiniteSet(Done(fs, n))
    <2>1. IsFiniteSet(1 .. n)
      BY FS_Interval
    <2> QED
      BY <1>2, <2>1, FS_Subset
  <1>4. Cardinality(Done(fs, n)) \in Nat
    BY <1>3, FS_CardinalityType
  <1>5. Cardinality(Done(fs, n) \cup {n + 1}) = Cardinality(Done(fs, n)) + 1
    BY <1>2, <1>3, FS_AddElement
  <1> QED
    BY <1>1, <1>2, <1>3, <1>4, <1>5

LEMMA LatestMore ==
  ASSUME NEW fs \in Seq(Fills), NEW n \in Nat, n + 1 \in 1 .. Len(fs), NEW last, LatestOf(fs, n, last)
  PROVE  LatestOf(fs, n + 1, IF fs[n + 1].state # "FILLED" THEN last
                             ELSE IF last = None \/ fs[n + 1].at > last THEN fs[n + 1].at ELSE last)
  <1> DEFINE D == Done(fs, n)
             E == Done(fs, n + 1)
             t == fs[n + 1].at
             next == IF fs[n + 1].state # "FILLED" THEN last
                     ELSE IF last = None \/ t > last THEN t ELSE last
  <1>1. E = IF fs[n + 1].state = "FILLED" THEN D \cup {n + 1} ELSE D
    BY DoneMore
  <1>2. t \in Int /\ \A k \in E : fs[k].at \in Int
    <2>1. E \subseteq 1 .. Len(fs)
      BY DEF Done
    <2>2. \A k \in 1 .. Len(fs) : fs[k].at \in Int
      <3>1. \A k \in 1 .. Len(fs) : fs[k] \in Fills
        OBVIOUS
      <3> QED
        BY <3>1 DEF Fills
    <2> HIDE DEF E
    <2> QED
      BY <2>1, <2>2
  <1>3. /\ D = {} => last = None
        /\ D # {} => \E j \in D : last = fs[j].at /\ \A k \in D : fs[k].at <= fs[j].at
    BY DEF LatestOf
  <1> HIDE DEF D, E, t
  <1>4. CASE fs[n + 1].state # "FILLED"
    BY <1>1, <1>3, <1>4 DEF LatestOf, D, E
  <1>5. CASE fs[n + 1].state = "FILLED"
    <2>1. E = D \cup {n + 1} /\ E # {}
      BY <1>1, <1>5
    <2>2. CASE D = {}
      <3>1. next = t
        BY <1>3, <1>5, <2>2
      <3>2. next = fs[n + 1].at /\ \A k \in E : fs[k].at <= fs[n + 1].at
        BY <1>2, <2>1, <2>2, <3>1 DEF t
      <3> HIDE DEF next
      <3> QED
        BY <2>1, <3>2 DEF LatestOf, E, next, t
    <2>3. CASE D # {}
      <3>1. PICK j \in D : last = fs[j].at /\ \A k \in D : fs[k].at <= fs[j].at
        BY <1>3, <2>3
      <3>2. last \in Int /\ last # None
        BY <1>2, <2>1, <3>1, NullAssumption
      <3>3. CASE t > last
        <4>1. next = t
          BY <1>5, <3>3
        <4>2. next = fs[n + 1].at /\ \A k \in E : fs[k].at <= fs[n + 1].at
          BY <1>2, <2>1, <3>1, <3>2, <3>3, <4>1 DEF t
        <4> HIDE DEF next
        <4> QED
          BY <2>1, <4>2 DEF LatestOf, E, next, t
      <3>4. CASE ~ (t > last)
        <4>1. next = last
          BY <1>5, <3>2, <3>4
        <4>2. next = fs[j].at /\ \A k \in E : fs[k].at <= fs[j].at
          BY <1>2, <2>1, <3>1, <3>2, <3>4, <4>1 DEF t
        <4> HIDE DEF next
        <4> QED
          BY <2>1, <4>2 DEF LatestOf, E, next, t
      <3> QED
        BY <3>3, <3>4
    <2> QED
      BY <2>2, <2>3
  <1> QED
    BY <1>4, <1>5

(* Two ledgers, the engine's and the evaluator's, of the same fills.           *)
LEMMA LedgersAgree ==
  ASSUME NEW fs \in Seq(Fills)
  PROVE  /\ Ledger(fs).count = Truth!TruthLedger(fs).count
         /\ Ledger(fs).spent = Truth!TruthLedger(fs).spent
         /\ Ledger(fs).base = Truth!TruthLedger(fs).base
         /\ Ledger(fs).last = Truth!TruthLedger(fs).last
  <1> DEFINE N == Len(fs)
  <1>1. N \in Nat /\ DOMAIN fs = 1 .. N
    OBVIOUS
  <1>2. PICK h : /\ h[0] = Nothing
                 /\ \A k \in 1 .. N : h[k] = Booked(h[k - 1], fs[k])
                 /\ Truth!TruthLedger(fs) = h[N]
    BY <1>1, TruthIsItsBooks
  <1>3. PICK q : Sums(q, SumTerms(fs, "quote"), N) /\ Sum(fs, "quote") = q[N]
    BY <1>1, SumIsSum
  <1>4. PICK b : Sums(b, SumTerms(fs, "base"), N) /\ Sum(fs, "base") = b[N]
    BY <1>1, SumIsSum
  <1> HIDE DEF N
  <1> DEFINE S == {m \in Nat : m <= N =>
                     /\ h[m].count = Cardinality(Done(fs, m))
                     /\ h[m].spent = q[m]
                     /\ h[m].base = b[m]
                     /\ LatestOf(fs, m, h[m].last)}
  <1>5. 0 \in S
    <2>1. 0 \in 0 .. N
      BY <1>1
    <2>2. q[0] = 0 /\ b[0] = 0
      BY <1>3, <1>4, <2>1 DEF Sums
    <2>3. Done(fs, 0) = {} /\ Cardinality(Done(fs, 0)) = 0
      BY FS_EmptySet DEF Done
    <2>4. h[0].count = 0 /\ h[0].spent = 0 /\ h[0].base = 0 /\ h[0].last = None
      BY <1>2 DEF Nothing
    <2>5. LatestOf(fs, 0, h[0].last)
      BY <2>3, <2>4 DEF LatestOf
    <2> QED
      BY <2>2, <2>3, <2>4, <2>5
  <1>6. ASSUME NEW m \in Nat, m \in S PROVE m + 1 \in S
    <2> SUFFICES ASSUME m + 1 <= N
                 PROVE  /\ h[m + 1].count = Cardinality(Done(fs, m + 1))
                        /\ h[m + 1].spent = q[m + 1]
                        /\ h[m + 1].base = b[m + 1]
                        /\ LatestOf(fs, m + 1, h[m + 1].last)
      OBVIOUS
    <2>1. m + 1 \in 1 .. N /\ m + 1 \in 0 .. N /\ m + 1 - 1 = m /\ m + 1 # 0 /\ m <= N
      BY <1>1
    <2>2. /\ h[m].count = Cardinality(Done(fs, m)) /\ h[m].spent = q[m]
          /\ h[m].base = b[m] /\ LatestOf(fs, m, h[m].last)
      BY <1>6, <2>1
    <2>3. h[m + 1] = Booked(h[m], fs[m + 1])
      BY <1>2, <2>1
    <2>4. /\ q[m + 1] = q[m] + SumTerms(fs, "quote")[m + 1]
          /\ b[m + 1] = b[m] + SumTerms(fs, "base")[m + 1]
      BY <1>3, <1>4, <2>1 DEF Sums
    <2>5. /\ SumTerms(fs, "quote")[m + 1]
               = IF fs[m + 1].state = "FILLED" THEN Amount(fs[m + 1], "quote") ELSE 0
          /\ SumTerms(fs, "base")[m + 1]
               = IF fs[m + 1].state = "FILLED" THEN Amount(fs[m + 1], "base") ELSE 0
      BY <2>1 DEF SumTerms, N
    <2>6. q[m] \in Int /\ b[m] \in Int
      <3>1. /\ \A k \in 1 .. m : SumTerms(fs, "quote")[k] \in Int
            /\ \A k \in 1 .. m : SumTerms(fs, "base")[k] \in Int
        <4>1. \A k \in 1 .. m : k \in 1 .. N /\ fs[k] \in Fills
          BY <1>1, <2>1 DEF N
        <4>2. \A k \in 1 .. m : fs[k].quote \in Int /\ fs[k].base \in Int
          BY <4>1 DEF Fills
        <4> QED
          BY <4>1, <4>2 DEF SumTerms, Amount, N
      <3>2. Sums(q, SumTerms(fs, "quote"), m) /\ Sums(b, SumTerms(fs, "base"), m)
        <4>1. \A k \in 0 .. m : k \in 0 .. N
          BY <1>1, <2>1
        <4> QED
          BY <1>3, <1>4, <4>1 DEF Sums
      <3> QED
        BY <3>1, <3>2, SumIsInt
    <2>7. /\ Amount(fs[m + 1], "quote") = IF fs[m + 1].side = "BUY" THEN fs[m + 1].quote ELSE 0 - fs[m + 1].quote
          /\ Amount(fs[m + 1], "base") = IF fs[m + 1].side = "BUY" THEN fs[m + 1].base ELSE 0 - fs[m + 1].base
      BY DEF Amount
    <2>8. CASE fs[m + 1].state # "FILLED"
      <3>1. h[m + 1] = h[m]
        BY <2>3, <2>8 DEF Booked
      <3>2. Cardinality(Done(fs, m + 1)) = Cardinality(Done(fs, m)) /\ Done(fs, m + 1) = Done(fs, m)
        BY <2>8, DoneMore
      <3>3. q[m + 1] = q[m] /\ b[m + 1] = b[m]
        BY <2>4, <2>5, <2>6, <2>8
      <3> QED
        BY <2>2, <3>1, <3>2, <3>3 DEF LatestOf
    <2>9. CASE fs[m + 1].state = "FILLED"
      <3>1. /\ h[m + 1].count = h[m].count + 1
            /\ h[m + 1].spent = h[m].spent + Amount(fs[m + 1], "quote")
            /\ h[m + 1].base = h[m].base + Amount(fs[m + 1], "base")
            /\ h[m + 1].last = IF h[m].last = None \/ fs[m + 1].at > h[m].last
                               THEN fs[m + 1].at ELSE h[m].last
        BY <2>3, <2>7, <2>9 DEF Booked
      <3>2. Cardinality(Done(fs, m + 1)) = Cardinality(Done(fs, m)) + 1
        BY <2>9, DoneMore
      <3>3. LatestOf(fs, m + 1, IF fs[m + 1].state # "FILLED" THEN h[m].last
                                ELSE IF h[m].last = None \/ fs[m + 1].at > h[m].last
                                THEN fs[m + 1].at ELSE h[m].last)
        BY <2>1, <2>2, LatestMore DEF N
      <3>4. LatestOf(fs, m + 1, h[m + 1].last)
        BY <2>9, <3>1, <3>3
      <3>5. h[m + 1].spent = q[m + 1] /\ h[m + 1].base = b[m + 1]
        BY <2>2, <2>4, <2>5, <2>9, <3>1
      <3> QED
        BY <2>2, <3>1, <3>2, <3>4, <3>5
    <2> QED
      BY <2>8, <2>9
  <1>7. /\ h[N].count = Cardinality(Done(fs, N)) /\ h[N].spent = q[N]
        /\ h[N].base = b[N] /\ LatestOf(fs, N, h[N].last)
    <2>1. Nat \subseteq S
      <3> HIDE DEF S
      <3> QED
        BY <1>5, <1>6, Induction
    <2> QED
      BY <1>1, <2>1
  <1>8. Applied(fs) = Done(fs, N)
    BY <1>1 DEF Applied, Done
  <1>9. Ledger(fs).last = h[N].last
    <2> DEFINE at == {fs[k].at : k \in Applied(fs)}
    <2>1. Ledger(fs).last = IF at = {} THEN None ELSE CHOOSE t \in at : \A u \in at : u <= t
      BY DEF Ledger
    <2>2. CASE Done(fs, N) = {}
      BY <1>7, <1>8, <2>1, <2>2 DEF LatestOf
    <2>3. CASE Done(fs, N) # {}
      <3>1. PICK j \in Done(fs, N) : h[N].last = fs[j].at /\ \A k \in Done(fs, N) : fs[k].at <= fs[j].at
        BY <1>7, <2>3 DEF LatestOf
      <3>2. \A t \in at : t \in Int
        <4>1. \A k \in Applied(fs) : fs[k] \in Fills
          BY DEF Applied
        <4> QED
          BY <4>1 DEF Fills
      <3> DEFINE top == fs[j].at
      <3>3. top \in at /\ \A u \in at : u <= top
        BY <1>8, <3>1
      <3> HIDE DEF at, top
      <3>4. \A t \in at : (\A u \in at : u <= t) => t = top
        BY <3>2, <3>3
      <3>5. (CHOOSE t \in at : \A u \in at : u <= t) = top
        BY <3>3, <3>4
      <3>6. at # {}
        BY <3>3
      <3> QED
        BY <2>1, <3>1, <3>5, <3>6 DEF top
    <2> QED
      BY <2>2, <2>3
  <1>10. /\ Ledger(fs).count = Cardinality(Applied(fs))
         /\ Ledger(fs).spent = Sum(fs, "quote") /\ Ledger(fs).base = Sum(fs, "base")
    BY DEF Ledger
  <1> QED
    BY <1>2, <1>3, <1>4, <1>7, <1>8, <1>9, <1>10

(* The levels of an accepted plan rise, and no state of the strategy moves them. *)
LevelsRise ==
    strategy # None =>
        \A i \in LevelIds(strategy) \ {0} : LevelPrice(strategy, i) > LevelPrice(strategy, i - 1)

LEMMA LevelsRiseOK == GridInv /\ LevelsRise /\ [GridNext]_gridVars => LevelsRise'
  <1> SUFFICES ASSUME GridInv, LevelsRise, [GridNext]_gridVars PROVE LevelsRise'
    OBVIOUS
  <1>1. CASE Plan
    <2>1. PICK p \in Plans : strategy' = Planned(p)
      BY <1>1 DEF Plan
    <2>2. \A i \in LevelIds(p) \ {0} : LevelPrice(p, i) > LevelPrice(p, i - 1)
      BY DEF Plans, Accepted
    <2> DEFINE t == Planned(p)
    <2>3. /\ t.lower = p.lower /\ t.upper = p.upper /\ t.count = p.count /\ t.spacing = p.spacing
          /\ t.reference = p.reference /\ t.total = p.total /\ t.maxPerLevel = p.maxPerLevel
      BY DEF Planned
    <2> HIDE DEF t
    <2>4. LevelIds(t) = LevelIds(p) /\ \A i : LevelPrice(t, i) = LevelPrice(p, i)
      BY <2>3, SameLevels
    <2>5. \A i \in LevelIds(t) \ {0} : LevelPrice(t, i) > LevelPrice(t, i - 1)
      BY <2>2, <2>4
    <2> QED
      BY <2>1, <2>5 DEF LevelsRise, t
  <1>2. ASSUME NEW next, Move(next) PROVE LevelsRise'
    <2>1. strategy # None /\ strategy \in Strategies /\ strategy' = [strategy EXCEPT !.state = next]
      BY <1>2 DEF Move, GridInv, GridTypes
    <2>2. PICK t : t = strategy'
      OBVIOUS
    <2>3. /\ t.lower = strategy.lower /\ t.upper = strategy.upper
          /\ t.count = strategy.count /\ t.spacing = strategy.spacing
          /\ t.reference = strategy.reference /\ t.total = strategy.total
          /\ t.maxPerLevel = strategy.maxPerLevel
      BY <2>1, <2>2 DEF Strategies
    <2>4. LevelIds(t) = LevelIds(strategy) /\ \A i : LevelPrice(t, i) = LevelPrice(strategy, i)
      BY <2>3, SameLevels
    <2>5. \A i \in LevelIds(t) \ {0} : LevelPrice(t, i) > LevelPrice(t, i - 1)
      BY <2>1, <2>4 DEF LevelsRise
    <2> QED
      BY <2>2, <2>5 DEF LevelsRise
  <1>3. CASE strategy' = strategy
    BY <1>3 DEF LevelsRise
  <1>4. \/ Plan \/ (\E next : Move(next)) \/ strategy' = strategy
    BY DEF GridNext, gridVars, Grant, Revoke, Tick, Evaluate, Swap, Simulate, Refused
  <1> QED
    BY <1>1, <1>2, <1>3, <1>4

LEMMA Evaluated == GridInv /\ LevelsRise => EvaluatorAgrees
  <1> SUFFICES ASSUME GridInv, LevelsRise, strategy # None,
                      strategy.spacing = "arithmetic", strategy.reference # None
               PROVE  /\ Truth!LevelsPass(AnswerLevels(strategy), strategy)
                      /\ Truth!LedgerPasses(Ledger(fills), fills)
                      /\ \A i \in 0 .. strategy.count, sc \in Scenarios :
                           Truth!DecisionPasses(
                              Answer(strategy, i, sc[1], FALSE, sc[2]),
                              Truth!TruthRefusal(strategy, i, sc[1], fills, clock, FALSE, sc[2]))
                      /\ \A i \in 0 .. strategy.count, revoked \in BOOLEAN :
                           Truth!DecisionPasses(
                              Answer(strategy, i, None, revoked, None),
                              Truth!TruthRefusal(strategy, i, None, fills, clock, revoked, None))
    BY DEF EvaluatorAgrees
  <1>1. HasTruth(strategy) /\ fills \in Seq(Fills) /\ strategy.count \in Nat
    <2>1. HasTruth(strategy) /\ fills \in Seq(Fills)
      BY DEF HasTruth, GridInv, GridTypes
    <2> QED
      BY <2>1, SameTruth
  <1>2. Truth!LevelsPass(AnswerLevels(strategy), strategy)
    <2> DEFINE given == AnswerLevels(strategy)
    <2>1. /\ LevelIds(strategy) = 0 .. strategy.count - 1
          /\ \A i : /\ LevelPrice(strategy, i) = Truth!TruthPrice(strategy, i)
                    /\ Side(strategy, i) = Truth!TruthSide(strategy, i)
      BY <1>1, SameTruth
    <2>2. /\ DOMAIN given = LevelIds(strategy)
          /\ \A i \in LevelIds(strategy) :
                given[i] = [price |-> LevelPrice(strategy, i), side |-> Side(strategy, i)]
      BY DEF AnswerLevels
    <2>3. ASSUME NEW i \in LevelIds(strategy), i > 0 PROVE given[i].price > given[i - 1].price
      <3>1. i \in LevelIds(strategy) \ {0} /\ i - 1 \in LevelIds(strategy)
        BY <1>1, <2>1, <2>3
      <3>2. given[i].price = LevelPrice(strategy, i) /\ given[i - 1].price = LevelPrice(strategy, i - 1)
        BY <2>2, <3>1
      <3> QED
        BY <3>1, <3>2 DEF LevelsRise
    <2> HIDE DEF given
    <2>4. \A i \in LevelIds(strategy) :
            given[i] = [price |-> Truth!TruthPrice(strategy, i), side |-> Truth!TruthSide(strategy, i)]
      BY <2>1, <2>2
    <2> QED
      BY <2>1, <2>2, <2>3, <2>4 DEF Truth!LevelsPass, given
  <1>3. Truth!LedgerPasses(Ledger(fills), fills)
    BY <1>1, LedgersAgree DEF Truth!LedgerPasses
  <1>4. ASSUME NEW i \in 0 .. strategy.count, NEW ob, NEW c, NEW revoked \in BOOLEAN,
               ob # None => ob.chain # None /\ ob.pair # None,
               c # None => c.side = None /\ c.quoted \in Int /\ c.least \in Int
        PROVE  Truth!DecisionPasses(Answer(strategy, i, ob, revoked, c),
                                    Truth!TruthRefusal(strategy, i, ob, fills, clock, revoked, c))
    <2> DEFINE told == [revoked |-> TRUE, expiry |-> None]
               authority == IF revoked THEN told ELSE None
    <2>1. told # None
      <3>1. told \in Authorities
        BY DEF Authorities
      <3> HIDE DEF told
      <3> QED
        BY <3>1, GridAssumption
    <2>2. revoked => authority # None
      BY <2>1
    <2>3. i \in Int
      BY <1>1
    <2>4. Refusal(Active(strategy), i, ob, fills, clock, authority, c)
            = Truth!TruthRefusal(strategy, i, ob, fills, clock, revoked, c)
      <3>1. PICK s, fs, now : s = strategy /\ fs = fills /\ now = clock
        OBVIOUS
      <3>2. HasTruth(s) /\ fs \in Seq(Fills)
        BY <1>1, <3>1
      <3>3. /\ Ledger(fs).count = Truth!TruthLedger(fs).count
            /\ Ledger(fs).spent = Truth!TruthLedger(fs).spent
            /\ Ledger(fs).base = Truth!TruthLedger(fs).base
            /\ Ledger(fs).last = Truth!TruthLedger(fs).last
        BY <3>2, LedgersAgree
      <3>4. PICK given : given = authority
        OBVIOUS
      <3>5. given = IF revoked THEN [revoked |-> TRUE, expiry |-> None] ELSE None
        BY <3>4
      <3>6. revoked => given # None
        BY <2>2, <3>4
      <3> HIDE DEF authority
      <3>7. Refusal(Active(s), i, ob, fs, now, given, c) = Truth!TruthRefusal(s, i, ob, fs, now, revoked, c)
        BY <1>4, <2>3, <3>2, <3>3, <3>5, <3>6, DecisionAgrees
      <3> QED
        BY <3>1, <3>4, <3>7
    <2>5. Answer(strategy, i, ob, revoked, c) = Refusal(Active(strategy), i, ob, fills, clock, authority, c)
      BY Zenon DEF Answer
    <2> QED
      BY <2>4, <2>5 DEF Truth!DecisionPasses
  <1>5. ASSUME NEW sc \in Scenarios
        PROVE  /\ sc[1] # None => sc[1].chain # None /\ sc[1].pair # None
               /\ sc[2] # None => sc[2].side = None /\ sc[2].quoted \in Int /\ sc[2].least \in Int
    <2>1. \A ob \in Markets : ob.chain \in {56, 97} /\ ob.pair \in {"WBNB/USDT", "other"}
      BY DEF Markets
    <2>2. \A c \in Calls : c.side = None /\ c.quoted \in Int /\ c.least \in Int
      BY DEF Calls
    <2>3. 56 # None /\ 97 # None /\ "WBNB/USDT" # None /\ "other" # None
      BY NullAssumption, GridAssumption
    <2>4. /\ sc[1].chain \in {56, 97} /\ sc[1].pair \in {"WBNB/USDT", "other"}
          /\ sc[2] = None \/ sc[2] \in Calls
      BY <2>1 DEF Scenarios
    <2> QED
      BY <2>2, <2>3, <2>4
  <1>6. ASSUME NEW i \in 0 .. strategy.count, NEW sc \in Scenarios
        PROVE  Truth!DecisionPasses(
                  Answer(strategy, i, sc[1], FALSE, sc[2]),
                  Truth!TruthRefusal(strategy, i, sc[1], fills, clock, FALSE, sc[2]))
    <2>1. PICK ob, c : ob = sc[1] /\ c = sc[2]
      OBVIOUS
    <2>2. /\ ob # None => ob.chain # None /\ ob.pair # None
          /\ c # None => c.side = None /\ c.quoted \in Int /\ c.least \in Int
      BY <1>5, <2>1
    <2>3. Truth!DecisionPasses(Answer(strategy, i, ob, FALSE, c),
                               Truth!TruthRefusal(strategy, i, ob, fills, clock, FALSE, c))
      BY <1>4, <2>2
    <2> QED
      BY <2>1, <2>3
  <1>7. ASSUME NEW i \in 0 .. strategy.count, NEW revoked \in BOOLEAN
        PROVE  Truth!DecisionPasses(
                  Answer(strategy, i, None, revoked, None),
                  Truth!TruthRefusal(strategy, i, None, fills, clock, revoked, None))
    BY <1>4
  <1> QED
    BY <1>2, <1>3, <1>6, <1>7

(* The engine and the evaluator, two implementations, answer alike: for any     *)
(* plan the evaluator has a truth for, any fills and any moment, the agent's    *)
(* answer about every level, observation, revocation and call of the kinds      *)
(* GridBench asks about earns the point (grid-benchmark.mjs).                  *)
THEOREM AnswersAgree == DeskSpec => []EvaluatorAgrees
  <1>1. DeskInit => LevelsRise
    BY DEF DeskInit, GridInit, LevelsRise
  <1>2. DeskSpec => []LevelsRise
    BY <1>1, LevelsRiseOK, GridInvariant, GridPartSteps, PTL DEF DeskSpec
  <1> QED
    BY <1>2, GridInvariant, Evaluated, PTL

=============================================================================
