----------------------------- MODULE AdviceProofs -----------------------------
(***************************************************************************)
(* Theorems about the advice agents give and how they are graded, on Desk:   *)
(* for any rates and routes (YieldScout), any price path, spacing and width  *)
(* (RangeKeeper), any answer (Rubrics), and any number of runs and graders   *)
(* (Grading).                                                                *)
(*                                                                           *)
(* The arguments: a market a holder left is worth less to it than the one    *)
(* it is in, as long as the rates stay (ScoutInv); a range that nothing cut  *)
(* off is as wide as chosen and lies evenly around its centre, so that no    *)
(* rule that rebalances near a bound rebalances there (RangeInv); the        *)
(* documents graders hold are the stored ones up to the newest run, and the  *)
(* verified ones of them are numbered by how many there are (GradingInv).    *)
(***************************************************************************)
EXTENDS CapProofs

(* -------------------------- the best of several -------------------------- *)
(* Of numbered options there is a best one, the first of equals.                *)
LEMMA BestExists ==
  ASSUME NEW n \in Nat, NEW M \in SUBSET (1 .. n), M # {}, NEW f, \A m \in M : f[m] \in Int
  PROVE  \E x \in M : \A y \in M : f[x] > f[y] \/ (f[x] = f[y] /\ x <= y)
  <1> DEFINE Best(x, A) == \A y \in A : f[x] > f[y] \/ (f[x] = f[y] /\ x <= y)
             S == {k \in Nat : \A A \in SUBSET M : A \subseteq 1 .. k /\ A # {} => \E x \in A : Best(x, A)}
  <1>1. 0 \in S
    <2>1. 1 .. 0 = {}
      OBVIOUS
    <2> QED
      BY <2>1
  <1>2. ASSUME NEW k \in Nat, k \in S PROVE k + 1 \in S
    <2> SUFFICES ASSUME NEW A \in SUBSET M, A \subseteq 1 .. k + 1, A # {}
                 PROVE  \E x \in A : Best(x, A)
      OBVIOUS
    <2> DEFINE B == A \ {k + 1}
    <2>1. B \in SUBSET M /\ B \subseteq 1 .. k /\ A \subseteq B \cup {k + 1} /\ B \subseteq A
      OBVIOUS
    <2>2. \A y \in A : f[y] \in Int /\ y \in Int /\ y <= k + 1
      OBVIOUS
    <2>3. CASE B = {}
      <3>1. A = {k + 1}
        BY <2>1, <2>3
      <3> QED
        BY <2>2, <3>1
    <2>4. CASE B # {}
      <3>1. PICK x \in B : Best(x, B)
        BY <1>2, <2>1, <2>4
      <3>2. CASE k + 1 \notin A
        BY <2>1, <3>1, <3>2
      <3>3. CASE k + 1 \in A /\ f[k + 1] > f[x]
        <4>1. \A y \in B : f[k + 1] > f[y]
          BY <2>1, <2>2, <3>1, <3>3
        <4>2. Best(k + 1, A)
          BY <2>1, <2>2, <3>3, <4>1
        <4> QED
          BY <3>3, <4>2
      <3>4. CASE k + 1 \in A /\ ~ (f[k + 1] > f[x])
        <4>1. f[x] >= f[k + 1] /\ x <= k + 1
          BY <2>1, <2>2, <3>4
        <4>2. Best(x, A)
          BY <2>1, <2>2, <3>1, <3>4, <4>1
        <4> QED
          BY <2>1, <4>2
      <3> QED
        BY <3>2, <3>3, <3>4
    <2> HIDE DEF Best
    <2> QED
      BY <2>3, <2>4
  <1> HIDE DEF S, Best
  <1>3. n \in S
    BY <1>1, <1>2, Induction
  <1>4. \E x \in M : Best(x, M)
    BY <1>3 DEF S
  <1> QED
    BY <1>4 DEF Best

---------------------------------------------------------------------------
Assets == [gross : Int, price : Int]
Offers == [fee : Nat \cup {None}, cash : Int]

(* A market to which somebody may move costs what its swap and the gas cost.    *)
LEMMA Priced ==
  ASSUME venue.rates \in Seq(Assets), venue.terms \in [Listed -> Offers],
         NEW from \in Listed, NEW to \in Listed, OneOffCost(from, to) # None
  PROVE  /\ venue.terms[to].fee \in Nat
         /\ OneOffCost(from, to) = venue.rates[to].price - venue.rates[from].price
                                    + venue.terms[to].fee + GasCost
         /\ SwapCost(from, to) + GasCost = OneOffCost(from, to)
         /\ OneOffCost(from, to) \in Int /\ Incremental(from, to) \in Int
         /\ NetBenefit(from, to) \in Int
  <1>1. /\ venue.rates[to] \in Assets /\ venue.rates[from] \in Assets
        /\ venue.terms[to] \in Offers
    BY DEF Listed
  <1>2. /\ venue.rates[to].price \in Int /\ venue.rates[from].price \in Int
        /\ venue.rates[to].gross \in Int /\ venue.rates[from].gross \in Int
        /\ venue.terms[to].fee \in Nat \cup {None} /\ GasCost \in Nat
    BY <1>1, ScoutAssumption DEF Assets, Offers
  <1>3. SwapCost(from, to) # None /\ OneOffCost(from, to) = SwapCost(from, to) + GasCost
    BY DEF OneOffCost
  <1>4. venue.terms[to].fee # None
    BY <1>3 DEF SwapCost
  <1>5. SwapCost(from, to) = venue.rates[to].price - venue.rates[from].price + venue.terms[to].fee
    BY <1>4 DEF SwapCost
  <1>6. venue.terms[to].fee \in Nat
    BY <1>2, <1>4
  <1>7. Incremental(from, to) \in Int
    BY <1>2 DEF Incremental
  <1>8. OneOffCost(from, to) = venue.rates[to].price - venue.rates[from].price
                                + venue.terms[to].fee + GasCost
    BY <1>3, <1>5
  <1>9. OneOffCost(from, to) \in Int
    BY <1>2, <1>6, <1>8
  <1> QED
    BY <1>3, <1>6, <1>7, <1>8, <1>9 DEF NetBenefit

(* A recommendation is among the markets that qualify.                          *)
LEMMA Recommends ==
  ASSUME venue.rates \in Seq(Assets), venue.terms \in [Listed -> Offers], NEW from \in Listed
  PROVE  /\ Recommended(from) # None =>
                Recommended(from) \in Listed /\ Qualifies(from, Recommended(from))
         /\ Recommended(from) = None => \A to \in Listed : ~ Qualifies(from, to)
  <1> DEFINE movable == {to \in Listed : Qualifies(from, to)}
             f == [to \in Listed |-> NetBenefit(from, to)]
  <1>1. CASE movable = {}
    BY <1>1 DEF Recommended
  <1>2. CASE movable # {}
    <2>1. Len(venue.rates) \in Nat /\ Listed = 1 .. Len(venue.rates)
      BY DEF Listed
    <2>2. \A to \in movable : f[to] \in Int
      <3> SUFFICES ASSUME NEW to \in movable PROVE NetBenefit(from, to) \in Int
        OBVIOUS
      <3>1. to \in Listed /\ OneOffCost(from, to) # None
        BY DEF Qualifies
      <3> QED
        BY <3>1, Priced
    <2>3. \E x \in movable : \A y \in movable : f[x] > f[y] \/ (f[x] = f[y] /\ x <= y)
      <3>1. movable \in SUBSET (1 .. Len(venue.rates))
        BY <2>1
      <3> HIDE DEF movable, f
      <3> QED
        BY <1>2, <2>1, <2>2, <3>1, BestExists
    <2>4. \E x \in movable : \A y \in movable :
            \/ NetBenefit(from, x) > NetBenefit(from, y)
            \/ NetBenefit(from, x) = NetBenefit(from, y) /\ x <= y
      BY <2>3
    <2>5. Recommended(from) = CHOOSE x \in movable : \A y \in movable :
            \/ NetBenefit(from, x) > NetBenefit(from, y)
            \/ NetBenefit(from, x) = NetBenefit(from, y) /\ x <= y
      BY <1>2 DEF Recommended
    <2>6. Recommended(from) \in movable
      BY <2>4, <2>5
    <2>7. Recommended(from) # None
      <3>1. Recommended(from) \in Int
        BY <2>1, <2>6
      <3> QED
        BY <3>1, NullAssumption
    <2> QED
      BY <2>6, <2>7
  <1> QED
    BY <1>1, <1>2

(* ------------------------------ YieldScout ------------------------------- *)
(* What a market is worth to a holder, apart from how it got there.             *)
Worth(rates, market) == rates[market].gross - rates[market].price

Gain(rates, from, to) == rates[to].gross - rates[from].gross

Outcomes ==
    [rates : Rates,
     verdict : {"unmeasurable", "advantage_persisted", "advantage_did_not_persist"}]

Advised ==
    [from : Nat, to : Nat \cup {None}, rates : Rates, cost : Int, block : Nat,
     outcome : Outcomes \cup {None}]

(* The holder is ahead, and what it left is worth less than where it is.        *)
HolderAhead ==
    /\ holding.market \in Listed /\ holding.left \subseteq Listed
    /\ holding.moves \in Nat /\ holding.ahead \in Int
    /\ holding.ahead >= MinimumNetBenefit * holding.moves
    /\ \A market \in holding.left :
        Worth(venue.rates, market) < Worth(venue.rates, holding.market)

(* The advice of this block can be followed as it stands.                       *)
AdviceStands ==
    scouted.block = venue.block /\ scouted.to # None =>
        scouted.from \in Listed /\ scouted.to \in Listed /\ Qualifies(scouted.from, scouted.to)

(* It paid by the rates it was given for, and is scored by those of its outcome. *)
AdvicePaid ==
    scouted.to # None =>
        /\ Gain(scouted.rates, scouted.from, scouted.to) \in Int
        /\ Gain(scouted.rates, scouted.from, scouted.to) - scouted.cost >= MinimumNetBenefit
        /\ scouted.outcome # None =>
            scouted.outcome.verdict =
                IF Gain(scouted.outcome.rates, scouted.from, scouted.to) > 0
                THEN "advantage_persisted" ELSE "advantage_did_not_persist"

(* The inductive invariant of the yield scout.                               *)
ScoutInv ==
    /\ venue = None => holding = None /\ scouted = None
    /\ venue # None =>
        venue \in Venues /\ venue.terms \in [Listed -> Terms] /\ HolderAhead
    /\ scouted # None =>
        /\ venue # None /\ scouted \in Advised /\ scouted.block <= venue.block
        /\ AdviceStands /\ AdvicePaid

LEMMA ScoutInitOK == ScoutInit => ScoutInv
  BY DEF ScoutInit, ScoutInv

LEMMA Snapshot ==
  ASSUME ScoutInv, venue # None
  PROVE  /\ venue.rates \in Rates /\ venue.rates \in Seq(Assets)
         /\ venue.terms \in [Listed -> Offers] /\ venue.block \in Nat
         /\ \A market \in Listed : Worth(venue.rates, market) \in Int
         /\ Listed \subseteq Nat
  <1>1. venue \in Venues /\ venue.terms \in [Listed -> Terms]
    BY DEF ScoutInv
  <1>2. venue.rates \in Rates /\ venue.block \in Nat
    BY <1>1 DEF Venues
  <1>3. Rates \subseteq Seq(Assets) /\ Terms \subseteq Offers
    BY ScoutAssumption DEF Assets, Offers
  <1>4. venue.rates \in Seq(Assets) /\ venue.terms \in [Listed -> Offers]
    BY <1>1, <1>2, <1>3
  <1>5. \A market \in Listed : venue.rates[market] \in Assets /\ market \in Nat
    BY <1>4 DEF Listed
  <1>6. \A market \in Listed : Worth(venue.rates, market) \in Int
    BY <1>5 DEF Worth, Assets
  <1> QED
    BY <1>2, <1>4, <1>5, <1>6

LEMMA Dearer ==
  ASSUME NEW a \in Int, NEW b \in Int, NEW c \in Int, NEW d \in Int, NEW f \in Nat, NEW g \in Nat,
         (c - a) - (d - b + f + g) >= 5
  PROVE  c - d > a - b
  OBVIOUS

LEMMA Qualified ==
  ASSUME venue.rates \in Seq(Assets), venue.terms \in [Listed -> Offers],
         NEW from \in Listed, NEW to \in Listed, Qualifies(from, to)
  PROVE  /\ OneOffCost(from, to) \in Int /\ Incremental(from, to) \in Int
         /\ Incremental(from, to) - OneOffCost(from, to) >= MinimumNetBenefit
         /\ SwapCost(from, to) + GasCost = OneOffCost(from, to)
         /\ Worth(venue.rates, from) \in Int /\ Worth(venue.rates, to) \in Int
         /\ Worth(venue.rates, to) > Worth(venue.rates, from)
  <1>1. OneOffCost(from, to) # None /\ NetBenefit(from, to) >= MinimumNetBenefit
    BY DEF Qualifies
  <1>2. /\ venue.terms[to].fee \in Nat
        /\ OneOffCost(from, to) = venue.rates[to].price - venue.rates[from].price
                                    + venue.terms[to].fee + GasCost
        /\ SwapCost(from, to) + GasCost = OneOffCost(from, to)
        /\ OneOffCost(from, to) \in Int /\ Incremental(from, to) \in Int
    BY <1>1, Priced
  <1>3. venue.rates[to] \in Assets /\ venue.rates[from] \in Assets /\ GasCost \in Nat
    BY ScoutAssumption DEF Listed
  <1>4. /\ venue.rates[to].price \in Int /\ venue.rates[from].price \in Int
        /\ venue.rates[to].gross \in Int /\ venue.rates[from].gross \in Int
    BY <1>3 DEF Assets
  <1>5. Worth(venue.rates, from) \in Int /\ Worth(venue.rates, to) \in Int
    BY <1>4, SMTT(60) DEF Worth
  <1>6. Incremental(from, to) - OneOffCost(from, to) >= 5
    BY <1>1 DEF NetBenefit, MinimumNetBenefit
  <1>7. Worth(venue.rates, to) > Worth(venue.rates, from)
    <2>1. (venue.rates[to].gross - venue.rates[from].gross)
            - (venue.rates[to].price - venue.rates[from].price + venue.terms[to].fee + GasCost) >= 5
      BY <1>2, <1>6 DEF Incremental
    <2>2. venue.rates[to].gross - venue.rates[to].price > venue.rates[from].gross - venue.rates[from].price
      BY <1>2, <1>3, <1>4, <2>1, Dearer
    <2> QED
      BY <2>2 DEF Worth
  <1> QED
    BY <1>2, <1>5, <1>6, <1>7 DEF MinimumNetBenefit

LEMMA SupplyOK == ASSUME ScoutInv, Supply PROVE ScoutInv'
  <1>1. PICK rates \in Rates, terms \in Terms : \E market \in DOMAIN rates :
            /\ venue' = [rates |-> rates, terms |-> [m \in DOMAIN rates |-> terms], block |-> 0]
            /\ holding' = AtRest(market)
    BY DEF Supply
  <1>2. PICK market \in DOMAIN rates :
            /\ venue' = [rates |-> rates, terms |-> [m \in DOMAIN rates |-> terms], block |-> 0]
            /\ holding' = [market |-> market, left |-> {}, moves |-> 0, ahead |-> 0]
    BY <1>1 DEF AtRest
  <1>4. Listed' = DOMAIN rates
    BY <1>2 DEF Listed
  <1>5. scouted' = None
    BY DEF Supply, ScoutInv
  <1>7. /\ venue' \in Venues /\ venue'.terms \in [Listed' -> Terms]
    BY <1>2, <1>4 DEF Venues
  <1>8. HolderAhead'
    <2>1. /\ holding'.market \in Listed' /\ holding'.left = {} /\ holding'.moves = 0
          /\ holding'.ahead = 0
      BY <1>2, <1>4
    <2> QED
      BY <2>1 DEF HolderAhead, MinimumNetBenefit
  <1>9. venue' # None
    BY <1>7, ScoutAssumption
  <1> QED
    BY <1>5, <1>7, <1>8, <1>9 DEF ScoutInv

LEMMA SameQualifies ==
  ASSUME UNCHANGED venue, NEW from, NEW to
  PROVE  /\ Qualifies(from, to)' = Qualifies(from, to) /\ Listed' = Listed
  BY DEF Qualifies, OneOffCost, SwapCost, BreaksEven, NetBenefit, Incremental, Listed

LEMMA ChangeTermsOK == ASSUME ScoutInv, ChangeTerms PROVE ScoutInv'
  <1>1. PICK market \in Listed, terms \in Terms :
            venue' = [venue EXCEPT !.terms[market] = terms, !.block = @ + 1]
    BY DEF ChangeTerms
  <1>2. /\ venue # None /\ holding' = holding /\ scouted' = scouted
        /\ venue \in Venues /\ venue.terms \in [Listed -> Terms] /\ venue.block \in Nat
        /\ HolderAhead
    BY Snapshot DEF ChangeTerms, ScoutInv
  <1>3. /\ venue'.rates = venue.rates /\ venue'.block = venue.block + 1
        /\ venue'.terms = [venue.terms EXCEPT ![market] = terms]
    BY <1>1, <1>2 DEF Venues
  <1>4. Listed' = Listed /\ Listed = DOMAIN venue.rates
    BY <1>3 DEF Listed
  <1>5. venue'.terms \in [Listed' -> Terms]
    BY <1>2, <1>3, <1>4
  <1>6. venue' \in Venues
    <2>1. venue' = [rates |-> venue'.rates, terms |-> venue'.terms, block |-> venue'.block]
      BY <1>1, <1>2 DEF Venues
    <2>2. /\ venue'.rates \in Rates /\ venue'.block \in Nat
          /\ venue'.terms \in UNION {[DOMAIN rates -> Terms] : rates \in Rates}
      BY <1>2, <1>3, <1>4, <1>5 DEF Venues
    <2> QED
      BY <2>1, <2>2 DEF Venues
  <1>7. HolderAhead'
    BY <1>2, <1>3, <1>4 DEF HolderAhead
  <1>8. venue' # None
    BY <1>6, ScoutAssumption
  <1>9. scouted' # None =>
            scouted' \in Advised /\ scouted'.block <= venue'.block /\ scouted'.block # venue'.block
    BY <1>2, <1>3 DEF ScoutInv, Advised
  <1>10. scouted' # None => AdviceStands' /\ AdvicePaid'
    BY <1>2, <1>9 DEF ScoutInv, AdviceStands, AdvicePaid
  <1> QED
    BY <1>5, <1>6, <1>7, <1>8, <1>9, <1>10 DEF ScoutInv

LEMMA ChangeRatesOK == ASSUME ScoutInv, ChangeRates PROVE ScoutInv'
  <1>1. PICK rates \in Rates :
            DOMAIN rates = Listed /\ venue' = [venue EXCEPT !.rates = rates, !.block = @ + 1]
    BY DEF ChangeRates
  <1>2. /\ venue # None /\ scouted' = scouted
        /\ holding' = [market |-> holding.market, left |-> {}, moves |-> 0, ahead |-> 0]
        /\ venue \in Venues /\ venue.terms \in [Listed -> Terms] /\ venue.block \in Nat
        /\ HolderAhead
    BY Snapshot DEF ChangeRates, ScoutInv, AtRest
  <1>3. /\ venue'.rates = rates /\ venue'.block = venue.block + 1 /\ venue'.terms = venue.terms
    BY <1>1, <1>2 DEF Venues
  <1>4. Listed' = Listed
    BY <1>1, <1>3 DEF Listed
  <1>5. venue'.terms \in [Listed' -> Terms]
    BY <1>2, <1>3, <1>4
  <1>6. venue' \in Venues
    <2>1. venue' = [rates |-> venue'.rates, terms |-> venue'.terms, block |-> venue'.block]
      BY <1>1, <1>2 DEF Venues
    <2>2. /\ venue'.rates \in Rates /\ venue'.block \in Nat
          /\ venue'.terms \in UNION {[DOMAIN r -> Terms] : r \in Rates}
      BY <1>2, <1>3, <1>4, <1>5 DEF Venues
    <2> QED
      BY <2>1, <2>2 DEF Venues
  <1>7. HolderAhead'
    <2>1. /\ holding'.market \in Listed' /\ holding'.left = {} /\ holding'.moves = 0
          /\ holding'.ahead = 0
      BY <1>2, <1>4 DEF HolderAhead
    <2> QED
      BY <2>1 DEF HolderAhead, MinimumNetBenefit
  <1>8. venue' # None
    BY <1>6, ScoutAssumption
  <1>9. scouted' # None =>
            scouted' \in Advised /\ scouted'.block <= venue'.block /\ scouted'.block # venue'.block
    BY <1>2, <1>3 DEF ScoutInv, Advised
  <1>10. scouted' # None => AdviceStands' /\ AdvicePaid'
    BY <1>2, <1>9 DEF ScoutInv, AdviceStands, AdvicePaid
  <1> QED
    BY <1>5, <1>6, <1>7, <1>8, <1>9, <1>10 DEF ScoutInv

LEMMA ScoutOK == ASSUME ScoutInv, Scout PROVE ScoutInv'
  <1> DEFINE from == holding.market
             to == Recommended(from)
  <1>1. /\ venue # None /\ UNCHANGED <<venue, holding>> /\ HolderAhead /\ from \in Listed
        /\ venue \in Venues /\ venue.terms \in [Listed -> Terms]
        /\ scouted' = [from |-> from, to |-> to, rates |-> venue.rates,
                       cost |-> IF to = None THEN 0 ELSE OneOffCost(from, to),
                       block |-> venue.block, outcome |-> None]
    BY DEF Scout, ScoutInv, HolderAhead
  <1>2. /\ venue.rates \in Rates /\ venue.rates \in Seq(Assets)
        /\ venue.terms \in [Listed -> Offers] /\ venue.block \in Nat /\ Listed \subseteq Nat
    BY <1>1, Snapshot
  <1>3. to # None => to \in Listed /\ Qualifies(from, to)
    BY <1>1, <1>2, Recommends
  <1> HIDE DEF from, to
  <1>4. to # None => /\ OneOffCost(from, to) \in Int /\ Incremental(from, to) \in Int
                     /\ Incremental(from, to) - OneOffCost(from, to) >= MinimumNetBenefit
    BY <1>1, <1>2, <1>3, Qualified
  <1>5. /\ scouted'.from = from /\ scouted'.to = to /\ scouted'.rates = venue.rates
        /\ scouted'.block = venue.block /\ scouted'.outcome = None
        /\ to # None => scouted'.cost = OneOffCost(from, to)
    BY <1>1
  <1>6. scouted' \in Advised
    <2>1. (IF to = None THEN 0 ELSE OneOffCost(from, to)) \in Int
      BY <1>4
    <2>2. from \in Nat /\ to \in Nat \cup {None}
      BY <1>1, <1>2, <1>3
    <2> QED
      BY <1>1, <1>2, <2>1, <2>2 DEF Advised
  <1>7. HolderAhead'
    BY <1>1, SameQualifies DEF HolderAhead
  <1>8. AdviceStands'
    BY <1>1, <1>3, <1>5, SameQualifies DEF AdviceStands
  <1>9. AdvicePaid'
    BY <1>4, <1>5 DEF AdvicePaid, Gain, Incremental
  <1>10. venue'.terms \in [Listed' -> Terms]
    BY <1>1, SameQualifies
  <1> QED
    BY <1>1, <1>2, <1>5, <1>6, <1>7, <1>8, <1>9, <1>10 DEF ScoutInv

LEMMA FollowScoutOK == ASSUME ScoutInv, FollowScout PROVE ScoutInv'
  <1> DEFINE from == holding.market
             to == scouted.to
             benefit == Incremental(from, to) - OneOffCost(from, to)
  <1>1. /\ scouted # None /\ to # None /\ scouted.from = from /\ scouted.block = venue.block
        /\ UNCHANGED <<venue, scouted>> /\ venue # None
        /\ AdviceStands /\ AdvicePaid /\ HolderAhead
    BY DEF FollowScout, ScoutInv
  <1>2. from \in Listed /\ to \in Listed /\ Qualifies(from, to)
    BY <1>1 DEF AdviceStands
  <1>3. /\ venue.rates \in Seq(Assets) /\ venue.terms \in [Listed -> Offers]
        /\ \A market \in Listed : Worth(venue.rates, market) \in Int
    BY <1>1, Snapshot
  <1>4. /\ OneOffCost(from, to) \in Int /\ Incremental(from, to) \in Int
        /\ Incremental(from, to) - OneOffCost(from, to) >= MinimumNetBenefit
        /\ SwapCost(from, to) + GasCost = OneOffCost(from, to)
        /\ Worth(venue.rates, to) > Worth(venue.rates, from)
    BY <1>2, <1>3, Qualified
  <1>5. holding' = [market |-> to, left |-> holding.left \cup {from}, moves |-> holding.moves + 1,
                    ahead |-> holding.ahead + Incremental(from, to) - OneOffCost(from, to)]
    BY <1>4 DEF FollowScout
  <1> HIDE DEF from, to
  <1>6. HolderAhead'
    <2>1. /\ holding'.market = to /\ holding'.left = holding.left \cup {from}
          /\ holding'.moves = holding.moves + 1
          /\ holding'.ahead = holding.ahead + Incremental(from, to) - OneOffCost(from, to)
      BY <1>5
    <2>2. /\ from = holding.market /\ holding.left \subseteq Listed
          /\ holding.moves \in Nat /\ holding.ahead \in Int
          /\ holding.ahead >= 5 * holding.moves
          /\ \A market \in holding.left : Worth(venue.rates, market) < Worth(venue.rates, from)
      BY <1>1 DEF HolderAhead, MinimumNetBenefit, from
    <2>3. Incremental(from, to) - OneOffCost(from, to) >= 5
      BY <1>4 DEF MinimumNetBenefit
    <2>4. holding'.ahead \in Int /\ holding'.ahead >= 5 * holding'.moves
      BY <1>4, <2>1, <2>2, <2>3
    <2>5. ASSUME NEW market \in holding'.left
          PROVE  Worth(venue.rates, market) < Worth(venue.rates, to)
      <3>1. CASE market = from
        BY <1>4, <3>1
      <3>2. CASE market \in holding.left
        <4>1. Worth(venue.rates, market) < Worth(venue.rates, from)
          BY <2>2, <3>2
        <4>2. market \in Listed
          BY <2>2, <3>2
        <4> QED
          BY <1>2, <1>3, <1>4, <4>1, <4>2
      <3> QED
        BY <2>1, <3>1, <3>2
    <2>6. venue' = venue /\ Listed' = Listed
      BY <1>1, SameQualifies
    <2>7. holding'.market \in Listed' /\ holding'.left \subseteq Listed' /\ holding'.moves \in Nat
      BY <1>2, <2>1, <2>2, <2>6
    <2>8. \A market \in holding'.left :
            Worth(venue'.rates, market) < Worth(venue'.rates, holding'.market)
      BY <2>1, <2>5, <2>6
    <2> QED
      BY <2>4, <2>7, <2>8 DEF HolderAhead, MinimumNetBenefit
  <1>7. AdviceStands' /\ AdvicePaid'
    <2>1. AdviceStands'
      BY <1>1, SameQualifies DEF AdviceStands
    <2>2. AdvicePaid'
      BY <1>1 DEF AdvicePaid
    <2> QED
      BY <2>1, <2>2
  <1>8. venue'.terms \in [Listed' -> Terms] /\ venue' \in Venues
    BY <1>1, SameQualifies DEF ScoutInv
  <1> QED
    BY <1>1, <1>6, <1>7, <1>8 DEF ScoutInv

LEMMA SettleScoutedOK == ASSUME ScoutInv, SettleScouted PROVE ScoutInv'
  <1>1. /\ scouted # None /\ UNCHANGED <<venue, holding>> /\ venue # None
        /\ scouted \in Advised /\ venue.block > scouted.block
        /\ AdviceStands /\ AdvicePaid /\ HolderAhead /\ scouted.block <= venue.block
    BY DEF SettleScouted, ScoutInv
  <1> DEFINE verdict == IF scouted.to = None THEN "unmeasurable"
                        ELSE IF Incremental(scouted.from, scouted.to) > 0
                        THEN "advantage_persisted" ELSE "advantage_did_not_persist"
             outcome == [rates |-> venue.rates, verdict |-> verdict]
  <1>2. scouted' = [scouted EXCEPT !.outcome = outcome]
    BY DEF SettleScouted
  <1>3. outcome \in Outcomes /\ outcome.rates = venue.rates /\ outcome.verdict = verdict
    BY <1>1, Snapshot DEF Outcomes
  <1> HIDE DEF outcome
  <1>4. /\ scouted' \in Advised /\ scouted'.from = scouted.from /\ scouted'.to = scouted.to
        /\ scouted'.rates = scouted.rates /\ scouted'.cost = scouted.cost
        /\ scouted'.block = scouted.block /\ scouted'.outcome = outcome
    BY <1>1, <1>2, <1>3 DEF Advised
  <1>5. AdviceStands'
    BY <1>1, <1>4, Snapshot, SameQualifies DEF AdviceStands, Advised
  <1>6. AdvicePaid'
    BY <1>1, <1>3, <1>4 DEF AdvicePaid, Gain, Incremental
  <1>7. HolderAhead'
    BY <1>1, SameQualifies DEF HolderAhead
  <1>8. venue'.terms \in [Listed' -> Terms] /\ venue' \in Venues
    BY <1>1, SameQualifies DEF ScoutInv
  <1> QED
    BY <1>1, <1>4, <1>5, <1>6, <1>7, <1>8 DEF ScoutInv

LEMMA ScoutNextOK == ScoutInv /\ [ScoutNext]_scoutVars => ScoutInv'
  <1> SUFFICES ASSUME ScoutInv, [ScoutNext]_scoutVars PROVE ScoutInv'
    OBVIOUS
  <1>1. CASE UNCHANGED scoutVars
    <2>1. venue' = venue /\ holding' = holding /\ scouted' = scouted /\ UNCHANGED venue
      BY <1>1 DEF scoutVars
    <2>2. HolderAhead' = HolderAhead
      BY <2>1, SameQualifies DEF HolderAhead
    <2>3. AdviceStands' = AdviceStands
      BY <2>1, SameQualifies DEF AdviceStands
    <2>4. AdvicePaid' = AdvicePaid
      BY <2>1 DEF AdvicePaid
    <2>5. Listed' = Listed
      BY <2>1, SameQualifies
    <2> QED
      BY <2>1, <2>2, <2>3, <2>4, <2>5 DEF ScoutInv
  <1>2. CASE ScoutNext
    BY <1>2, SupplyOK, ChangeTermsOK, ChangeRatesOK, ScoutOK, FollowScoutOK, SettleScoutedOK
    DEF ScoutNext
  <1> QED
    BY <1>1, <1>2

LEMMA ScoutHolds == ScoutInv => MovesPay
  <1> SUFFICES ASSUME ScoutInv, holding # None PROVE MovesPay
    BY DEF MovesPay
  <1>1. venue # None /\ HolderAhead
    BY DEF ScoutInv
  <1>2. holding.market \notin holding.left
    <2>1. Worth(venue.rates, holding.market) \in Int
      BY <1>1, Snapshot DEF HolderAhead
    <2> QED
      BY <1>1, <2>1 DEF HolderAhead
  <1>3. ASSUME scouted # None, scouted.to # None, scouted.outcome # None,
               scouted.outcome.rates = scouted.rates, scouted.cost > 0
        PROVE  scouted.outcome.verdict = "advantage_persisted"
    <2>1. AdvicePaid /\ scouted.cost \in Int
      BY <1>3 DEF ScoutInv, Advised
    <2>2. Gain(scouted.rates, scouted.from, scouted.to) > 0
      BY <1>3, <2>1 DEF AdvicePaid, MinimumNetBenefit
    <2> QED
      BY <1>3, <2>1, <2>2 DEF AdvicePaid
  <1> QED
    BY <1>1, <1>2, <1>3 DEF MovesPay, HolderAhead

LEMMA ScoutPartSteps == [DeskNext]_deskVars => [ScoutNext]_scoutVars
  BY DEF DeskNext, deskVars, GridPart, LeashPart, ProofPart, FleetPart, LimitPart, RegistryPart,
         RangePart, ScoutPart, GradingPart

LEMMA ScoutInvariant == DeskSpec => []ScoutInv
  <1>1. DeskInit => ScoutInv
    BY ScoutInitOK DEF DeskInit
  <1> QED
    BY <1>1, ScoutNextOK, ScoutPartSteps, PTL DEF DeskSpec

(* While the rates stay, a holder who takes every recommendation is ahead by *)
(* the minimum for each move and is never sent back to a market it left,     *)
(* whatever the routes and the liquidity do (buildYieldScoutDeliverable,     *)
(* settleYieldDecision).                                                     *)
THEOREM EveryMovePays == DeskSpec => []MovesPay
  BY ScoutInvariant, ScoutHolds, PTL

(* ------------------------------ RangeKeeper ------------------------------ *)
LEMMA Rounded ==
  ASSUME NEW t \in Int, NEW s \in Nat \ {0}
  PROVE  /\ t \div s \in Int /\ (t \div s) * s \in Int
         /\ (t \div s) * s <= t /\ t < (t \div s) * s + s
  OBVIOUS

(* Where a bound comes to lie, unless it is put on a limit.                     *)
LEMMA Down ==
  ASSUME NEW t \in Int, NEW s \in Nat \ {0}, NEW tick \in MinTick .. MaxTick - 1, t <= tick
  PROVE  /\ AlignDown(t, s) \in Ticks /\ AlignDown(t, s) <= tick
         /\ AlignDown(t, s) > MinTick => AlignDown(t, s) <= t /\ t - s < AlignDown(t, s)
  <1> DEFINE x == (t \div s) * s
  <1>1. x \in Int /\ x <= t /\ t < x + s
    BY Rounded
  <1>2. AlignDown(t, s) = Clamp(x)
    BY DEF AlignDown
  <1>3. MinTick \in Int /\ MaxTick \in Int
    BY RangeAssumption
  <1> HIDE DEF x
  <1> QED
    BY <1>1, <1>2, <1>3 DEF Clamp, Ticks

LEMMA Up ==
  ASSUME NEW t \in Int, NEW s \in Nat \ {0}, NEW tick \in MinTick .. MaxTick - 1, tick < t
  PROVE  /\ AlignUp(t, s) \in Ticks /\ tick < AlignUp(t, s)
         /\ AlignUp(t, s) < MaxTick => t <= AlignUp(t, s) /\ AlignUp(t, s) < t + s
  <1> DEFINE u == t + s - 1
             x == (u \div s) * s
  <1>0. u \in Int /\ u = t + s - 1
    OBVIOUS
  <1>2. AlignUp(t, s) = Clamp(x)
    BY DEF AlignUp
  <1> HIDE DEF u
  <1>1. x \in Int /\ x <= u /\ u < x + s
    BY <1>0, Rounded
  <1>3. MinTick \in Int /\ MaxTick \in Int
    BY RangeAssumption
  <1> HIDE DEF x
  <1> QED
    BY <1>0, <1>1, <1>2, <1>3 DEF Clamp, Ticks

(* The range that is proposed for a tick.                                      *)
LEMMA Proposes ==
  ASSUME NEW range, range.lower \in Int, range.upper \in Int, range.lower < range.upper,
         NEW tick \in MinTick .. MaxTick - 1, NEW s \in Nat \ {0}
  PROVE  LET p == ProposeRange(range, tick, s)
             w == WidthOf(range)
         IN  /\ p \in Bounds /\ p.lower \in Ticks /\ p.upper \in Ticks
             /\ p.lower <= tick /\ tick < p.upper
             /\ Uncut(p) =>
                  /\ 2 * (tick - p.lower) >= w /\ 2 * (p.upper - tick) >= w
                  /\ (tick - p.lower) - (p.upper - tick) < s
                  /\ (p.upper - tick) - (tick - p.lower) < s
                  /\ w <= WidthOf(p) /\ WidthOf(p) <= w + 2 * s
  <1> DEFINE p == ProposeRange(range, tick, s)
             w == WidthOf(range)
             half == (w + 1) \div 2
             low == tick - half
             high == tick + half
  <1>1. w \in Int /\ w >= 1
    BY DEF WidthOf
  <1> HIDE DEF w
  <1>2. half \in Int /\ half >= 1 /\ 2 * half >= w /\ 2 * half <= w + 1
    BY <1>1
  <1>3. p = [lower |-> AlignDown(low, s), upper |-> AlignUp(high, s)]
    BY DEF ProposeRange, w
  <1>4. MinTick \in Int /\ MaxTick \in Int /\ tick \in Int
    BY RangeAssumption
  <1> HIDE DEF half, p
  <1>5. low \in Int /\ low <= tick /\ high \in Int /\ tick < high
    BY <1>2, <1>4
  <1>6. p.lower = AlignDown(low, s) /\ p.upper = AlignUp(high, s)
    BY <1>3
  <1>7. low = tick - half /\ high = tick + half
    OBVIOUS
  <1> HIDE DEF low, high
  <1>8. /\ p.lower \in Ticks /\ p.lower <= tick
        /\ p.lower > MinTick => p.lower <= low /\ low - s < p.lower
    BY <1>5, <1>6, Down
  <1>9. /\ p.upper \in Ticks /\ tick < p.upper
        /\ p.upper < MaxTick => high <= p.upper /\ p.upper < high + s
    BY <1>5, <1>6, Up
  <1>10. p.lower \in Int /\ p.upper \in Int
    BY <1>4, <1>8, <1>9 DEF Ticks
  <1>11. p \in Bounds
    BY <1>3, <1>6, <1>10 DEF Bounds
  <1>12. ASSUME Uncut(p)
         PROVE  /\ 2 * (tick - p.lower) >= w /\ 2 * (p.upper - tick) >= w
                /\ (tick - p.lower) - (p.upper - tick) < s
                /\ (p.upper - tick) - (tick - p.lower) < s
                /\ w <= WidthOf(p) /\ WidthOf(p) <= w + 2 * s
    <2>1. /\ p.lower <= tick - half /\ tick - half - s < p.lower
          /\ tick + half <= p.upper /\ p.upper < tick + half + s
      BY <1>7, <1>8, <1>9, <1>12 DEF Uncut
    <2>2. WidthOf(p) = p.upper - p.lower
      BY DEF WidthOf
    <2> QED
      BY <1>1, <1>2, <1>4, <1>10, <2>1, <2>2
  <1> QED
    BY <1>8, <1>9, <1>11, <1>12 DEF p, w

(* What a holder has, and what it may be advised.                            *)
Positions ==
    [lower : Int, upper : Int, chosen : Nat, count : Nat, centre : Int \cup {None}, uncut : BOOLEAN]

Advices ==
    [action : {"HOLD"}, range : Positions] \cup [action : {"REBALANCE"}, range : Bounds]

Decisions ==
    [advice : Advices, block : Nat, outcome : [tick : Int, kept : BOOLEAN] \cup {None},
     followed : BOOLEAN]

(* A position that was never cut off is as wide as its holder chose, and lies    *)
(* evenly around the tick it was last centred on.                               *)
WellPlaced ==
    position.uncut =>
        /\ pool.spacing <= position.chosen
        /\ position.chosen <= WidthOf(position)
        /\ WidthOf(position) <= position.chosen + 2 * pool.spacing * position.count
        /\ position.centre # None =>
            /\ 2 * (position.centre - position.lower) >= position.chosen
            /\ 2 * (position.upper - position.centre) >= position.chosen
            /\ (position.centre - position.lower) - (position.upper - position.centre) < pool.spacing
            /\ (position.upper - position.centre) - (position.centre - position.lower) < pool.spacing

(* A decision that was followed is what the holder has; one that may be followed  *)
(* is the proposal for what it has.                                            *)
DecisionKept ==
    /\ decision.block <= pool.block
    /\ decision.followed =>
        /\ decision.advice.range.lower = position.lower
        /\ decision.advice.range.upper = position.upper
    /\ ~ decision.followed /\ decision.block = pool.block =>
        decision.advice.range = ProposeRange(position, pool.tick, pool.spacing)
    /\ decision.outcome # None =>
        decision.outcome.kept = Inside(decision.advice.range, decision.outcome.tick)

(* The inductive invariant of the range keeper.                              *)
RangeInv ==
    /\ pool = None => position = None /\ decision = None
    /\ pool # None =>
        /\ pool \in Pools /\ pool.tick \in MinTick .. MaxTick - 1
        /\ position \in Positions /\ position.lower < position.upper /\ WellPlaced
    /\ decision # None => pool # None /\ decision \in Decisions /\ DecisionKept

LEMMA RangeInitOK == RangeInit => RangeInv
  BY DEF RangeInit, RangeInv

LEMMA Wide ==
  ASSUME NEW width \in Nat \ {0}, NEW s \in Nat \ {0}
  PROVE  width * s \in Nat /\ s <= width * s /\ 0 < width * s
  <1>1. 1 * s <= width * s
    BY Scaled
  <1>2. width * s \in Int
    OBVIOUS
  <1> QED
    BY <1>1, <1>2

LEMMA PoolFields ==
  ASSUME RangeInv, pool # None
  PROVE  /\ pool.spacing \in Nat \ {0} /\ pool.spacing \in Spacings /\ pool.block \in Nat
         /\ pool.tick \in Int /\ pool.tick \in MinTick .. MaxTick - 1
         /\ position \in Positions /\ position.lower \in Int /\ position.upper \in Int
         /\ position.lower < position.upper /\ WellPlaced
  <1>1. /\ pool \in Pools /\ pool.tick \in MinTick .. MaxTick - 1
        /\ position \in Positions /\ position.lower < position.upper /\ WellPlaced
    BY DEF RangeInv
  <1>2. pool.spacing \in Spacings /\ pool.block \in Nat /\ pool.tick \in Int
    BY <1>1 DEF Pools
  <1>3. pool.spacing \in Nat \ {0}
    BY <1>2, RangeAssumption
  <1>4. position.lower \in Int /\ position.upper \in Int
    BY <1>1 DEF Positions
  <1> QED
    BY <1>1, <1>2, <1>3, <1>4

LEMMA OpenPositionOK == ASSUME RangeInv, OpenPosition PROVE RangeInv'
  <1>1. PICK s \in Spacings, width \in FirstWidths, tick \in Jumps, shift \in -1 .. 0 :
            LET lower == ((tick \div s) + shift) * s
            IN  /\ pool' = [spacing |-> s, tick |-> tick, block |-> 0]
                /\ position' = [lower |-> lower, upper |-> lower + width * s,
                                chosen |-> width * s, count |-> 0, centre |-> None,
                                uncut |-> TRUE]
    BY DEF OpenPosition
  <1> DEFINE lower == ((tick \div s) + shift) * s
             w == width * s
  <1>2. s \in Nat \ {0} /\ width \in Nat \ {0} /\ tick \in MinTick .. MaxTick - 1 /\ tick \in Int
        /\ shift \in Int
    BY RangeAssumption
  <1>3. lower \in Int
    <2>1. tick \div s \in Int
      BY <1>2
    <2>2. (tick \div s) + shift \in Int
      BY <1>2, <2>1
    <2> QED
      BY <1>2, <2>2
  <1>4. w \in Nat /\ s <= w /\ 0 < w
    BY <1>2, Wide
  <1>5. /\ pool' = [spacing |-> s, tick |-> tick, block |-> 0]
        /\ position' = [lower |-> lower, upper |-> lower + w, chosen |-> w, count |-> 0,
                        centre |-> None, uncut |-> TRUE]
    BY <1>1
  <1> HIDE DEF lower, w
  <1>6. decision' = None
    BY DEF OpenPosition, RangeInv
  <1>7. pool' \in Pools /\ pool'.tick \in MinTick .. MaxTick - 1 /\ pool'.spacing = s
    BY <1>2, <1>5 DEF Pools
  <1>8. position' \in Positions /\ position'.lower < position'.upper
    BY <1>3, <1>4, <1>5 DEF Positions
  <1>9. WellPlaced'
    <2>1. /\ position'.chosen = w /\ WidthOf(position') = (lower + w) - lower
          /\ position'.count = 0 /\ position'.centre = None
      BY <1>5 DEF WidthOf
    <2>2. 2 * s * 0 = 0
      BY <1>2
    <2> QED
      BY <1>3, <1>4, <1>7, <2>1, <2>2 DEF WellPlaced
  <1>10. pool' # None
    BY <1>7, RangeAssumption
  <1> QED
    BY <1>6, <1>7, <1>8, <1>9, <1>10 DEF RangeInv

LEMMA MovePoolOK == ASSUME RangeInv, MovePool PROVE RangeInv'
  <1>1. PICK jump \in Jumps :
            /\ pool.tick + jump \in MinTick .. MaxTick - 1
            /\ pool' = [pool EXCEPT !.tick = @ + jump, !.block = @ + 1]
    BY DEF MovePool
  <1>2. /\ pool # None /\ pool \in Pools /\ position' = position /\ decision' = decision
        /\ pool.block \in Nat /\ position \in Positions /\ position.lower < position.upper
        /\ WellPlaced /\ pool.spacing \in Spacings
    BY PoolFields DEF MovePool, RangeInv
  <1>3. /\ pool'.spacing = pool.spacing /\ pool'.block = pool.block + 1
        /\ pool'.tick = pool.tick + jump
        /\ pool' = [spacing |-> pool'.spacing, tick |-> pool'.tick, block |-> pool'.block]
    BY <1>1, <1>2 DEF Pools
  <1>4. pool' \in Pools /\ pool'.tick \in MinTick .. MaxTick - 1
    <2>1. pool'.tick \in MinTick .. MaxTick - 1 /\ pool'.tick \in Int
      BY <1>1, <1>3, RangeAssumption
    <2> QED
      BY <1>2, <1>3, <2>1 DEF Pools
  <1>5. WellPlaced'
    BY <1>2, <1>3 DEF WellPlaced
  <1>6. decision # None => decision \in Decisions /\ DecisionKept
    BY DEF RangeInv
  <1>7. decision # None => DecisionKept'
    <2> SUFFICES ASSUME decision # None PROVE DecisionKept'
      OBVIOUS
    <2>1. decision.block \in Nat /\ decision.block <= pool.block /\ decision.block # pool'.block
      BY <1>2, <1>3, <1>6 DEF Decisions, DecisionKept
    <2>2. decision'.block <= pool'.block
      BY <1>2, <1>3, <2>1
    <2> QED
      BY <1>2, <1>6, <2>1, <2>2 DEF DecisionKept
  <1>8. pool' # None
    BY <1>4, RangeAssumption
  <1> QED
    BY <1>2, <1>4, <1>5, <1>6, <1>7, <1>8 DEF RangeInv

LEMMA RecordDecisionOK == ASSUME RangeInv, RecordDecision PROVE RangeInv'
  <1>1. PICK mean \in Means(pool.tick) :
            LET advice == Advice(position, pool.tick, mean)
            IN  decision' = [advice |-> advice, block |-> pool.block, outcome |-> None,
                             followed |-> advice.action = "HOLD"]
    BY DEF RecordDecision
  <1> DEFINE advice == Advice(position, pool.tick, mean)
  <1>2. decision' = [advice |-> advice, block |-> pool.block, outcome |-> None,
                     followed |-> advice.action = "HOLD"]
    BY <1>1
  <1>3. pool # None /\ UNCHANGED <<pool, position>>
    BY DEF RecordDecision
  <1>4. /\ pool.spacing \in Nat \ {0} /\ pool.block \in Nat
        /\ pool.tick \in MinTick .. MaxTick - 1
        /\ position \in Positions /\ position.lower \in Int /\ position.upper \in Int
        /\ position.lower < position.upper /\ WellPlaced /\ pool \in Pools
    BY <1>3, PoolFields DEF RangeInv
  <1>5. ProposeRange(position, pool.tick, pool.spacing) \in Bounds
    BY <1>4, Proposes
  <1>6. advice = IF Rebalance(position, pool.tick, mean)
                 THEN [action |-> "REBALANCE", range |-> ProposeRange(position, pool.tick, pool.spacing)]
                 ELSE [action |-> "HOLD", range |-> position]
    BY DEF Advice
  <1> HIDE DEF advice
  <1>7. /\ advice \in Advices
        /\ advice.action = "HOLD" => advice.range = position
        /\ advice.action # "HOLD" => advice.range = ProposeRange(position, pool.tick, pool.spacing)
    BY <1>4, <1>5, <1>6 DEF Advices
  <1>8. decision' \in Decisions
    BY <1>2, <1>4, <1>7 DEF Decisions
  <1>9. DecisionKept'
    <2>1. /\ decision'.advice = advice /\ decision'.block = pool.block /\ decision'.outcome = None
          /\ decision'.followed = (advice.action = "HOLD")
      BY <1>2
    <2>2. pool' = pool /\ position' = position /\ pool.block <= pool.block
      BY <1>3, <1>4
    <2> QED
      BY <1>7, <2>1, <2>2 DEF DecisionKept
  <1>10. WellPlaced'
    BY <1>3, <1>4 DEF WellPlaced
  <1> QED
    BY <1>3, <1>4, <1>8, <1>9, <1>10 DEF RangeInv

(* One rebalance more adds at most two spacings.                               *)
LEMMA OneMore ==
  ASSUME NEW s \in Nat, NEW count \in Nat, NEW chosen \in Nat, NEW w \in Int, NEW v \in Int,
         w <= chosen + 2 * s * count, v <= w + 2 * s
  PROVE  v <= chosen + 2 * s * (count + 1)
  <1>1. 2 * s * (count + 1) = 2 * s * count + 2 * s /\ 2 * s * count \in Int
    OBVIOUS
  <1> QED
    BY <1>1

LEMMA FollowAdviceOK == ASSUME RangeInv, FollowAdvice PROVE RangeInv'
  <1> DEFINE to == decision.advice.range
             s == pool.spacing
             w == WidthOf(position)
  <1>1. /\ decision # None /\ ~ decision.followed /\ decision.block = pool.block
        /\ position' = [position EXCEPT !.lower = to.lower, !.upper = to.upper,
                        !.count = @ + 1, !.centre = pool.tick, !.uncut = @ /\ Uncut(to)]
        /\ decision' = [decision EXCEPT !.followed = TRUE]
        /\ pool' = pool
    BY DEF FollowAdvice
  <1>2. /\ pool # None /\ decision \in Decisions /\ DecisionKept /\ pool \in Pools
    BY <1>1 DEF RangeInv
  <1>3. /\ s \in Nat \ {0} /\ pool.block \in Nat /\ pool.tick \in Int
        /\ pool.tick \in MinTick .. MaxTick - 1
        /\ position \in Positions /\ position.lower \in Int /\ position.upper \in Int
        /\ position.lower < position.upper /\ WellPlaced
    BY <1>2, PoolFields
  <1>4. to = ProposeRange(position, pool.tick, s)
    BY <1>1, <1>2 DEF DecisionKept
  <1>5. /\ to \in Bounds /\ to.lower <= pool.tick /\ pool.tick < to.upper
        /\ Uncut(to) =>
             /\ 2 * (pool.tick - to.lower) >= w /\ 2 * (to.upper - pool.tick) >= w
             /\ (pool.tick - to.lower) - (to.upper - pool.tick) < s
             /\ (to.upper - pool.tick) - (pool.tick - to.lower) < s
             /\ w <= WidthOf(to) /\ WidthOf(to) <= w + 2 * s
    BY <1>3, <1>4, Proposes
  <1> HIDE DEF to, s
  <1>6. to.lower \in Int /\ to.upper \in Int /\ Uncut(to) \in BOOLEAN
    BY <1>5 DEF Bounds, Uncut
  <1>7. /\ position'.lower = to.lower /\ position'.upper = to.upper
        /\ position'.chosen = position.chosen /\ position'.count = position.count + 1
        /\ position'.centre = pool.tick
        /\ position'.uncut = (position.uncut /\ Uncut(to))
        /\ position' = [lower |-> position'.lower, upper |-> position'.upper,
                        chosen |-> position'.chosen, count |-> position'.count,
                        centre |-> position'.centre, uncut |-> position'.uncut]
    BY <1>1, <1>3 DEF Positions
  <1>8. /\ position.chosen \in Nat /\ position.count \in Nat /\ position.uncut \in BOOLEAN
    BY <1>3 DEF Positions
  <1>9. position' \in Positions /\ position'.lower < position'.upper
    <2>1. position'.count \in Nat /\ position'.uncut \in BOOLEAN
      BY <1>7, <1>8
    <2>2. position' \in Positions
      BY <1>3, <1>6, <1>7, <1>8, <2>1 DEF Positions
    <2> QED
      BY <1>3, <1>5, <1>6, <1>7, <2>2
  <1>10. WellPlaced'
    <2> SUFFICES ASSUME position'.uncut
                 PROVE  /\ s <= position'.chosen
                        /\ position'.chosen <= WidthOf(position')
                        /\ WidthOf(position') <= position'.chosen + 2 * s * position'.count
                        /\ 2 * (position'.centre - position'.lower) >= position'.chosen
                        /\ 2 * (position'.upper - position'.centre) >= position'.chosen
                        /\ (position'.centre - position'.lower) - (position'.upper - position'.centre) < s
                        /\ (position'.upper - position'.centre) - (position'.centre - position'.lower) < s
      BY <1>1 DEF WellPlaced, s
    <2>1. position.uncut /\ Uncut(to)
      BY <1>7
    <2>2. /\ s <= position.chosen /\ position.chosen <= w
          /\ w <= position.chosen + 2 * s * position.count
      BY <1>3, <2>1 DEF WellPlaced, s
    <2>3. /\ 2 * (pool.tick - to.lower) >= w /\ 2 * (to.upper - pool.tick) >= w
          /\ (pool.tick - to.lower) - (to.upper - pool.tick) < s
          /\ (to.upper - pool.tick) - (pool.tick - to.lower) < s
          /\ w <= WidthOf(to) /\ WidthOf(to) <= w + 2 * s
      BY <1>5, <2>1
    <2>4. WidthOf(position') = WidthOf(to) /\ WidthOf(to) \in Int /\ w \in Int
      BY <1>3, <1>6, <1>7 DEF WidthOf
    <2> HIDE DEF w
    <2>5. WidthOf(to) <= position.chosen + 2 * s * (position.count + 1)
      BY <1>3, <1>8, <2>2, <2>3, <2>4, OneMore
    <2>6. position.chosen <= WidthOf(to)
      BY <1>8, <2>2, <2>3, <2>4
    <2>7. /\ 2 * (pool.tick - to.lower) >= position.chosen
          /\ 2 * (to.upper - pool.tick) >= position.chosen
      BY <1>3, <1>6, <1>8, <2>2, <2>3, <2>4
    <2> QED
      BY <1>7, <2>2, <2>3, <2>4, <2>5, <2>6, <2>7
  <1>11. /\ decision' \in Decisions /\ decision'.advice = decision.advice
         /\ decision'.block = decision.block /\ decision'.outcome = decision.outcome
         /\ decision'.followed
    BY <1>1, <1>2 DEF Decisions
  <1>12. DecisionKept'
    <2>1. decision'.advice.range = to
      BY <1>11 DEF to
    <2>2. decision.outcome # None => decision.outcome.kept = Inside(to, decision.outcome.tick)
      BY <1>2 DEF DecisionKept, to
    <2>3. decision'.block <= pool'.block
      BY <1>1, <1>2, <1>11 DEF DecisionKept
    <2> QED
      BY <1>7, <1>11, <2>1, <2>2, <2>3 DEF DecisionKept
  <1>13. pool' = pool /\ pool'.tick \in MinTick .. MaxTick - 1 /\ pool' \in Pools /\ pool' # None
    BY <1>1, <1>2, <1>3
  <1> QED
    BY <1>9, <1>10, <1>11, <1>12, <1>13 DEF RangeInv

LEMMA SettleDecisionOK == ASSUME RangeInv, SettleDecision PROVE RangeInv'
  <1> DEFINE outcome == [tick |-> pool.tick, kept |-> Inside(decision.advice.range, pool.tick)]
  <1>1. /\ decision # None /\ UNCHANGED <<pool, position>>
        /\ decision' = [decision EXCEPT !.outcome = outcome]
    BY DEF SettleDecision
  <1>2. /\ pool # None /\ decision \in Decisions /\ DecisionKept /\ pool \in Pools
        /\ pool.tick \in MinTick .. MaxTick - 1 /\ pool.tick \in Int
        /\ position \in Positions /\ position.lower < position.upper /\ WellPlaced
    BY <1>1, PoolFields DEF RangeInv
  <1>3. outcome \in [tick : Int, kept : BOOLEAN]
    BY <1>2 DEF Inside
  <1>4. outcome.tick = pool.tick /\ outcome.kept = Inside(decision.advice.range, pool.tick)
    OBVIOUS
  <1> HIDE DEF outcome
  <1>5. /\ decision' \in Decisions /\ decision'.advice = decision.advice
        /\ decision'.block = decision.block /\ decision'.outcome = outcome
        /\ decision'.followed = decision.followed
    BY <1>1, <1>2, <1>3 DEF Decisions
  <1>6. DecisionKept'
    BY <1>1, <1>2, <1>4, <1>5 DEF DecisionKept
  <1>7. WellPlaced'
    BY <1>1, <1>2 DEF WellPlaced
  <1> QED
    BY <1>1, <1>2, <1>5, <1>6, <1>7 DEF RangeInv

LEMMA RangeNextOK == RangeInv /\ [RangeNext]_rangeVars => RangeInv'
  <1> SUFFICES ASSUME RangeInv, [RangeNext]_rangeVars PROVE RangeInv'
    OBVIOUS
  <1>1. CASE UNCHANGED rangeVars
    <2>1. UNCHANGED <<pool, position, decision>>
      BY <1>1 DEF rangeVars
    <2>2. WellPlaced' = WellPlaced
      BY <2>1 DEF WellPlaced
    <2>3. DecisionKept' = DecisionKept
      BY <2>1 DEF DecisionKept
    <2> QED
      BY <2>1, <2>2, <2>3 DEF RangeInv
  <1>2. CASE RangeNext
    BY <1>2, OpenPositionOK, MovePoolOK, RecordDecisionOK, FollowAdviceOK, SettleDecisionOK
    DEF RangeNext
  <1> QED
    BY <1>1, <1>2

LEMMA Settled ==
  ASSUME RangeInv, pool # None, position.uncut, position.centre = pool.tick, NEW mean
  PROVE  ~ Rebalance(position, pool.tick, mean)
  <1> DEFINE a == pool.tick - position.lower
             b == position.upper - pool.tick
             s == pool.spacing
  <1>1. /\ s \in Nat \ {0} /\ pool.tick \in Int /\ position \in Positions
        /\ position.lower \in Int /\ position.upper \in Int /\ WellPlaced
    BY PoolFields
  <1>2. position.centre # None
    BY <1>1, NullAssumption
  <1>3. position.chosen \in Nat
    BY <1>1 DEF Positions
  <1>4. /\ s <= position.chosen /\ 2 * a >= position.chosen /\ 2 * b >= position.chosen
        /\ a - b < s /\ b - a < s
    BY <1>1, <1>2 DEF WellPlaced
  <1>5. a \in Int /\ b \in Int
    BY <1>1
  <1>6. Inside(position, pool.tick)
    <2>1. 1 <= s
      BY <1>1
    <2>2. a >= 1 /\ b >= 1
      BY <1>1, <1>3, <1>4, <1>5, <2>1
    <2> QED
      BY <1>1, <2>2 DEF Inside
  <1>7. WidthOf(position) = a + b
    BY <1>1 DEF WidthOf
  <1>8. EdgeDistance(position, pool.tick) = a \/ EdgeDistance(position, pool.tick) = b
    BY DEF EdgeDistance
  <1> HIDE DEF a, b, s
  <1>9. ~ (200 * a <= 10 * (a + b)) /\ ~ (200 * b <= 10 * (a + b))
    BY <1>1, <1>3, <1>4, <1>5
  <1>10. ~ WithinPct(position, pool.tick, 10)
    BY <1>7, <1>8, <1>9 DEF WithinPct
  <1> QED
    BY <1>6, <1>10 DEF Rebalance, EdgeProximityActPct

LEMMA RangeHolds == RangeInv => AdviceSettles
  <1> SUFFICES ASSUME RangeInv, position # None PROVE AdviceSettles
    BY DEF AdviceSettles
  <1>1. pool # None
    BY DEF RangeInv
  <1>2. /\ pool.spacing \in Nat \ {0} /\ pool.tick \in MinTick .. MaxTick - 1
        /\ position.lower \in Int /\ position.upper \in Int /\ position.lower < position.upper
        /\ WellPlaced
    BY <1>1, PoolFields
  <1>3. decision # None /\ decision.followed /\ decision.outcome # None =>
            decision.outcome.kept = Inside(position, decision.outcome.tick)
    BY DEF RangeInv, DecisionKept, Inside
  <1>4. position.uncut =>
            /\ position.chosen <= WidthOf(position)
            /\ WidthOf(position) <= position.chosen + 2 * pool.spacing * position.count
            /\ position.centre = pool.tick =>
                \A mean \in Means(pool.tick) : ~ Rebalance(position, pool.tick, mean)
    BY <1>1, <1>2, Settled DEF WellPlaced
  <1> DEFINE p == ProposeRange(position, pool.tick, pool.spacing)
  <1>5. /\ p \in Bounds /\ p.lower \in Ticks /\ p.upper \in Ticks
        /\ p.lower <= pool.tick /\ pool.tick < p.upper
        /\ Uncut(p) => WidthOf(position) <= WidthOf(p)
                       /\ WidthOf(p) <= WidthOf(position) + 2 * pool.spacing
    BY <1>2, Proposes
  <1>6. p.lower \in Int /\ p.upper \in Int /\ pool.tick \in Int
    BY <1>1, <1>5, PoolFields DEF Bounds
  <1> HIDE DEF p
  <1>7. AlignedToSpacing(p) => Mintable(p) /\ Inside(p, pool.tick)
    BY <1>5, <1>6 DEF AlignedToSpacing, Mintable, Inside
  <1>8. Uncut(p) => PreservesOriginalWidth(p, position)
    <2>1. WidthOf(p) \in Int /\ WidthOf(position) \in Int
      BY <1>2, <1>6 DEF WidthOf
    <2> QED
      BY <1>2, <1>5, <2>1 DEF PreservesOriginalWidth
  <1> QED
    BY <1>3, <1>4, <1>7, <1>8 DEF AdviceSettles, p

LEMMA RangePartSteps == [DeskNext]_deskVars => [RangeNext]_rangeVars
  BY DEF DeskNext, deskVars, GridPart, LeashPart, ProofPart, FleetPart, LimitPart, RegistryPart,
         RangePart, ScoutPart, GradingPart

LEMMA RangeInvariant == DeskSpec => []RangeInv
  <1>1. DeskInit => RangeInv
    BY RangeInitOK DEF DeskInit
  <1> QED
    BY <1>1, RangeNextOK, RangePartSteps, PTL DEF DeskSpec

(* Along any path of the price a position that follows the advice is never   *)
(* narrower than chosen and grows by at most two spacings a rebalance, is    *)
(* told to hold right after one, and a proposal that is called aligned can   *)
(* be minted (proposeRange, settleRangeDecision).                            *)
THEOREM AdviceComesToRest == DeskSpec => []AdviceSettles
  BY RangeInvariant, RangeHolds, PTL

(* -------------------------------- Rubrics -------------------------------- *)
(* Which checks an answer misses.                                            *)
LEMMA RebalanceMissed ==
  ASSUME NEW answer, NEW truth, NEW item
  PROVE  item \in Missed(RebalanceChecks(answer, truth)) <=>
            \/ item = "range_state_correct" /\ ~ (answer.inRange = truth.inRange)
            \/ item = "nearest_bound_identified" /\ ~ (answer.nearest = truth.nearest)
            \/ item = "proximity_assessment_correct"
               /\ ~ (truth.inRange => answer.close = truth.close)
            \/ item = "movement_relative_to_range_correct"
               /\ ~ (truth.drift # None /\ answer.drift.toward = truth.drift.toward)
            \/ item = "movement_magnitude_correct"
               /\ ~ (truth.drift # None => answer.drift.materiality = truth.drift.materiality)
            \/ item = "decision_matches_policy" /\ ~ (answer.action = truth.action)
            \/ item = "proposal_consistent_with_decision"
               /\ ~ (IF truth.action = "REBALANCE" THEN answer.proposed # None
                     ELSE answer.proposed # None => LegalBounds(answer.proposed))
            \/ item = "proposal_legal_and_contains_price"
               /\ ~ (IF answer.proposed = None THEN truth.action = "HOLD"
                     ELSE LegalAround(answer.proposed, truth.tick))
  <1> DEFINE checks == RebalanceChecks(answer, truth)
  <1>1. DOMAIN checks =
            {"range_state_correct", "nearest_bound_identified", "proximity_assessment_correct",
             "movement_relative_to_range_correct", "movement_magnitude_correct",
             "decision_matches_policy", "proposal_consistent_with_decision",
             "proposal_legal_and_contains_price"}
    BY DEF RebalanceChecks
  <1>2. /\ checks.range_state_correct <=> (answer.inRange = truth.inRange)
        /\ checks.nearest_bound_identified <=> (answer.nearest = truth.nearest)
        /\ checks.proximity_assessment_correct <=> (truth.inRange => answer.close = truth.close)
        /\ checks.movement_relative_to_range_correct <=>
                (truth.drift # None /\ answer.drift.toward = truth.drift.toward)
        /\ checks.movement_magnitude_correct <=>
                (truth.drift # None => answer.drift.materiality = truth.drift.materiality)
        /\ checks.decision_matches_policy <=> (answer.action = truth.action)
        /\ checks.proposal_consistent_with_decision <=>
                (IF truth.action = "REBALANCE" THEN answer.proposed # None
                 ELSE answer.proposed # None => LegalBounds(answer.proposed))
        /\ checks.proposal_legal_and_contains_price <=>
                (IF answer.proposed = None THEN truth.action = "HOLD"
                 ELSE LegalAround(answer.proposed, truth.tick))
    BY DEF RebalanceChecks
  <1> HIDE DEF checks
  <1>3. Missed(checks) = {k \in DOMAIN checks : ~ checks[k]}
    BY DEF Missed
  <1> QED
    BY <1>1, <1>2, <1>3 DEF checks

LEMMA YieldMissed ==
  ASSUME NEW to, NEW truth, NEW item
  PROVE  item \in Missed(YieldChecks(to, truth)) <=>
            \/ item = "names_the_correct_option" /\ ~ (Chosen(truth, to) = Chosen(truth, truth.best))
            \/ item = "does_not_pick_a_disqualified_option" /\ ~ (to # None => Qualifies(truth.from, to))
            \/ item = "move_decision_correct" /\ ~ ((to = None) = (truth.best = None))
            \/ item = "yield_advantage_correct" /\ ~ (truth.best # None)
            \/ item = "worth_it_conclusion_correct" /\ ~ ((to = None) = (truth.best = None))
            \/ item = "action_matches_decision" /\ ~ ((to = None) = (truth.best = None))
  <1> DEFINE checks == YieldChecks(to, truth)
  <1>1. DOMAIN checks =
            {"names_the_correct_option", "does_not_pick_a_disqualified_option",
             "move_decision_correct", "yield_advantage_correct", "worth_it_conclusion_correct",
             "action_matches_decision"}
    BY DEF YieldChecks
  <1>2. /\ checks.names_the_correct_option <=> (Chosen(truth, to) = Chosen(truth, truth.best))
        /\ checks.does_not_pick_a_disqualified_option <=> (to # None => Qualifies(truth.from, to))
        /\ checks.move_decision_correct <=> ((to = None) = (truth.best = None))
        /\ checks.yield_advantage_correct <=> (truth.best # None)
        /\ checks.worth_it_conclusion_correct <=> ((to = None) = (truth.best = None))
        /\ checks.action_matches_decision <=> ((to = None) = (truth.best = None))
    BY DEF YieldChecks
  <1> HIDE DEF checks
  <1>3. Missed(checks) = {k \in DOMAIN checks : ~ checks[k]}
    BY DEF Missed
  <1> QED
    BY <1>1, <1>2, <1>3 DEF checks

LEMMA HealthMissed ==
  ASSUME NEW answer, NEW truth, NEW item
  PROVE  item \in Missed(HealthChecks(answer, truth)) <=>
            \/ item = "proximity_direction_correct" /\ ~ (truth.shortfall \/ ~ answer.atRisk)
            \/ item = "change_status_correct" /\ ~ (answer.compared = truth.compared)
            \/ item = "action_matches_truth" /\ ~ (answer.intervene = truth.intervene)
  <1> DEFINE checks == HealthChecks(answer, truth)
  <1>1. DOMAIN checks =
            {"proximity_direction_correct", "change_status_correct", "action_matches_truth"}
    BY DEF HealthChecks
  <1>2. /\ checks.proximity_direction_correct <=> (truth.shortfall \/ ~ answer.atRisk)
        /\ checks.change_status_correct <=> (answer.compared = truth.compared)
        /\ checks.action_matches_truth <=> (answer.intervene = truth.intervene)
    BY DEF HealthChecks
  <1> HIDE DEF checks
  <1>3. Missed(checks) = {k \in DOMAIN checks : ~ checks[k]}
    BY DEF Missed
  <1> QED
    BY <1>1, <1>2, <1>3 DEF checks

LEMMA HealthScores ==
  ASSUME NEW shortfall \in BOOLEAN, NEW prior \in BOOLEAN, NEW job \in BOOLEAN
  PROVE  Missed(HealthChecks(HealthAnswer(shortfall, prior, job), HealthTruth(shortfall, prior)))
            = IF prior /\ job THEN {"change_status_correct"} ELSE {}
  <1> DEFINE answer == HealthAnswer(shortfall, prior, job)
             truth == HealthTruth(shortfall, prior)
  <1>1. /\ truth.shortfall = shortfall /\ answer.atRisk = shortfall
        /\ answer.intervene = truth.intervene
        /\ answer.compared = (prior /\ ~ job) /\ truth.compared = prior
    BY DEF HealthAnswer, HealthTruth, Handed
  <1> HIDE DEF answer, truth
  <1>2. \A item : item \in Missed(HealthChecks(answer, truth)) <=>
                    item = "change_status_correct" /\ prior /\ job
    BY <1>1, HealthMissed
  <1> QED
    BY <1>2 DEF answer, truth

LEMMA YieldScores ==
  ASSUME ScoutInv, holding # None
  PROVE  LET truth == YieldTruth(holding.market)
             missed == Missed(YieldChecks(truth.best, truth))
         IN  /\ missed = (IF truth.best = None THEN {"yield_advantage_correct"} ELSE {})
             /\ \A to \in (Listed \cup {None}) \ {holding.market, truth.best} :
                 /\ missed \subseteq Missed(YieldChecks(to, truth))
                 /\ missed # Missed(YieldChecks(to, truth))
  <1> DEFINE from == holding.market
             truth == YieldTruth(from)
             best == truth.best
  <1>1. venue # None /\ from \in Listed
    BY DEF ScoutInv, HolderAhead
  <1>2. /\ venue.rates \in Seq(Assets) /\ venue.terms \in [Listed -> Offers] /\ Listed \subseteq Nat
    BY <1>1, Snapshot
  <1>3. /\ best = Recommended(from) /\ truth.from = from
    BY DEF YieldTruth
  <1>4. /\ best # None => best \in Listed /\ Qualifies(from, best) /\ best # from
        /\ best = None => \A to \in Listed : ~ Qualifies(from, to)
    BY <1>1, <1>2, <1>3, Recommends DEF Qualifies
  <1>5. \A to \in Listed : to # None
    BY <1>2, NullAssumption
  <1> DEFINE missed == Missed(YieldChecks(best, truth))
  <1> HIDE DEF truth, from
  <1>6. \A item : item \in missed <=> item = "yield_advantage_correct" /\ best = None
    BY <1>3, <1>4, YieldMissed
  <1>7. ASSUME NEW to \in (Listed \cup {None}) \ {from, best}
        PROVE  /\ missed \subseteq Missed(YieldChecks(to, truth))
               /\ missed # Missed(YieldChecks(to, truth))
    <2> DEFINE other == Missed(YieldChecks(to, truth))
    <2>1. "yield_advantage_correct" \in other <=> best = None
      BY YieldMissed
    <2>2. CASE best = None
      <3>1. to # None /\ ~ Qualifies(from, to)
        BY <1>4, <1>5, <2>2
      <3>2. "does_not_pick_a_disqualified_option" \in other
        BY <1>3, <3>1, YieldMissed
      <3> HIDE DEF other
      <3>3. "does_not_pick_a_disqualified_option" \notin missed
        BY <1>6
      <3> HIDE DEF missed
      <3>4. missed \subseteq other
        BY <1>6, <2>1
      <3> QED
        BY <3>2, <3>3, <3>4 DEF other
    <2>3. CASE best # None
      <3>1. Chosen(truth, to) # Chosen(truth, best)
        BY <1>3, <1>4, <1>5, <2>3 DEF Chosen
      <3>2. "names_the_correct_option" \in other
        BY <3>1, YieldMissed
      <3> HIDE DEF other, missed
      <3>3. \A item : item \notin missed
        BY <1>6, <2>3
      <3> QED
        BY <3>2, <3>3 DEF other
    <2> QED
      BY <2>2, <2>3
  <1>8. missed = IF best = None THEN {"yield_advantage_correct"} ELSE {}
    <2> HIDE DEF missed
    <2> QED
      BY <1>6
  <1> QED
    BY <1>7, <1>8 DEF truth, from

LEMMA RangeScores ==
  ASSUME RangeInv, position # None, NEW mean
  PROVE  LET truth == RangeTruth(position, pool.tick, mean)
             own == RangeAnswer(position, pool.tick, mean)
             missed == Missed(RebalanceChecks(own, truth))
             cut == own.proposed # None /\ ~ AlignedToSpacing(own.proposed)
         IN  /\ missed =
                 (IF mean = None THEN {"movement_relative_to_range_correct"} ELSE {})
                 \cup (IF cut THEN {"proposal_legal_and_contains_price"} ELSE {})
             /\ \A action \in {"HOLD", "REBALANCE"},
                   proposed \in Proposals(position, pool.tick) :
                 LET other == [own EXCEPT !.action = action, !.proposed = proposed]
                     otherMissed == Missed(RebalanceChecks(other, truth))
                 IN  /\ ~ cut => missed \subseteq otherMissed
                     /\ action # own.action =>
                         "decision_matches_policy" \in otherMissed
                     /\ otherMissed = {} /\ action = "REBALANCE" =>
                         /\ Inside(InOrder(proposed), pool.tick)
                         /\ InOrder(proposed).lower \in Ticks
                            /\ InOrder(proposed).upper \in Ticks => Mintable(InOrder(proposed))
  <1> DEFINE tick == pool.tick
             truth == RangeTruth(position, tick, mean)
             own == RangeAnswer(position, tick, mean)
             advice == Advice(position, tick, mean)
             rule == ProposeRange(position, tick, pool.spacing)
             missed == Missed(RebalanceChecks(own, truth))
             cut == own.proposed # None /\ ~ AlignedToSpacing(own.proposed)
  <1>1. /\ pool.spacing \in Nat \ {0} /\ tick \in MinTick .. MaxTick - 1 /\ tick \in Int
        /\ position.lower \in Int /\ position.upper \in Int /\ position.lower < position.upper
    <2>1. pool # None
      BY DEF RangeInv
    <2> QED
      BY <2>1, PoolFields
  <1>2. /\ rule \in Bounds /\ rule.lower <= tick /\ tick < rule.upper
        /\ rule.lower \in Int /\ rule.upper \in Int
    <2>1. rule \in Bounds /\ rule.lower <= tick /\ tick < rule.upper
      BY <1>1, Proposes
    <2>2. rule.lower \in Int /\ rule.upper \in Int
      BY <2>1 DEF Bounds
    <2> QED
      BY <2>1, <2>2
  <1>3. /\ advice.action \in {"HOLD", "REBALANCE"}
        /\ advice.action = "REBALANCE" => advice.range = rule
    BY DEF Advice
  <1>4. /\ truth.inRange = own.inRange /\ truth.nearest = own.nearest /\ truth.close = own.close
        /\ truth.drift = own.drift /\ truth.action = own.action /\ truth.tick = tick
        /\ own.action = advice.action
        /\ own.proposed = IF advice.action = "HOLD" THEN None ELSE advice.range
        /\ truth.drift = IF mean = None THEN None
                         ELSE [toward |-> TowardEdge(position, tick, mean),
                               materiality |-> Materiality(position, tick, mean)]
    BY DEF RangeTruth, RangeAnswer
  <1>5. truth.drift = None <=> mean = None
    <2>1. [toward |-> TowardEdge(position, tick, mean),
           materiality |-> Materiality(position, tick, mean)] \in Drifts
      BY DEF Drifts, TowardEdge, Materiality
    <2>2. [toward |-> TowardEdge(position, tick, mean),
           materiality |-> Materiality(position, tick, mean)] # None
      BY <2>1, AnswerAssumption
    <2> QED
      BY <1>4, <2>2
  <1>6. /\ own.proposed = None <=> own.action = "HOLD"
        /\ own.proposed # None => own.proposed = rule
    <2>1. rule # None
      BY <1>2, AnswerAssumption
    <2> QED
      BY <1>3, <1>4, <2>1
  <1>7. LegalAround(rule, tick) <=> AlignedToSpacing(rule)
    <2>1. InOrder(rule) = rule
      BY <1>1, <1>2 DEF InOrder
    <2>2. rule.lower # rule.upper
      BY <1>1, <1>2
    <2> QED
      BY <1>2, <2>1, <2>2 DEF LegalAround, LegalBounds, Inside
  <1>8. ASSUME NEW proposed \in Proposals(position, tick), proposed # None
        PROVE  proposed.lower \in Int /\ proposed.upper \in Int
    <2> DEFINE far == 3 * WidthOf(rule)
    <2>1. far \in Int
      BY <1>2 DEF WidthOf
    <2>2. \/ proposed = rule
          \/ proposed = [lower |-> position.lower, upper |-> position.upper]
          \/ proposed = [lower |-> rule.lower + 1, upper |-> rule.upper + 1]
          \/ proposed = [lower |-> rule.lower + far, upper |-> rule.upper + far]
          \/ proposed = [lower |-> rule.upper, upper |-> rule.lower]
      BY <1>8 DEF Proposals
    <2> HIDE DEF far, rule
    <2> QED
      BY <1>1, <1>2, <2>1, <2>2
  <1>9. own = [inRange |-> own.inRange, nearest |-> own.nearest, close |-> own.close,
               drift |-> own.drift, action |-> own.action, proposed |-> own.proposed]
    BY DEF RangeAnswer
  <1> HIDE DEF truth, own, advice, rule
  <1>10. \A item : item \in missed <=>
            \/ item = "movement_relative_to_range_correct" /\ mean = None
            \/ item = "proposal_legal_and_contains_price" /\ cut
    <2>1. truth.drift # None /\ own.drift.toward = truth.drift.toward <=> mean # None
      BY <1>4, <1>5
    <2>2. /\ own.inRange = truth.inRange /\ own.nearest = truth.nearest
          /\ truth.inRange => own.close = truth.close
          /\ truth.drift # None => own.drift.materiality = truth.drift.materiality
          /\ own.action = truth.action
      BY <1>4
    <2>3. own.action = "HOLD" \/ own.action = "REBALANCE"
      BY <1>3, <1>4
    <2>4. IF truth.action = "REBALANCE" THEN own.proposed # None
          ELSE own.proposed # None => LegalBounds(own.proposed)
      BY <1>4, <1>6, <2>3
    <2>5. (IF own.proposed = None THEN truth.action = "HOLD"
           ELSE LegalAround(own.proposed, truth.tick)) <=> ~ cut
      BY <1>4, <1>6, <1>7
    <2> HIDE DEF cut
    <2> QED
      BY <2>1, <2>2, <2>4, <2>5, RebalanceMissed
  <1> HIDE DEF missed
  <1>11. missed = (IF mean = None THEN {"movement_relative_to_range_correct"} ELSE {})
                  \cup (IF cut THEN {"proposal_legal_and_contains_price"} ELSE {})
    <2> HIDE DEF cut
    <2> QED
      BY <1>10
  <1>12. ASSUME NEW action \in {"HOLD", "REBALANCE"},
                NEW proposed \in Proposals(position, tick)
         PROVE  LET other == [own EXCEPT !.action = action, !.proposed = proposed]
                    otherMissed == Missed(RebalanceChecks(other, truth))
                IN  /\ ~ cut => missed \subseteq otherMissed
                    /\ action # own.action =>
                        "decision_matches_policy" \in otherMissed
                    /\ otherMissed = {} /\ action = "REBALANCE" =>
                        /\ Inside(InOrder(proposed), tick)
                        /\ InOrder(proposed).lower \in Ticks
                           /\ InOrder(proposed).upper \in Ticks => Mintable(InOrder(proposed))
    <2> DEFINE other == [own EXCEPT !.action = action, !.proposed = proposed]
               otherMissed == Missed(RebalanceChecks(other, truth))
    <2>1. other.drift = own.drift /\ other.action = action /\ other.proposed = proposed
      BY <1>9
    <2> HIDE DEF other
    <2>2. ~ cut => missed \subseteq otherMissed
      <3>1. mean = None => "movement_relative_to_range_correct" \in otherMissed
        BY <1>5, RebalanceMissed
      <3> HIDE DEF otherMissed, cut
      <3> QED
        BY <1>10, <3>1
    <2>3. action # own.action => "decision_matches_policy" \in otherMissed
      BY <1>4, <2>1, RebalanceMissed
    <2>4. ASSUME otherMissed = {}, action = "REBALANCE"
          PROVE  /\ Inside(InOrder(proposed), tick)
                 /\ InOrder(proposed).lower \in Ticks
                    /\ InOrder(proposed).upper \in Ticks => Mintable(InOrder(proposed))
      <3>1. truth.action = "REBALANCE"
        <4>1. "decision_matches_policy" \notin otherMissed
          BY <2>4
        <4> QED
          BY <2>1, <2>4, <4>1, RebalanceMissed
      <3>2. proposed # None /\ LegalAround(proposed, tick)
        <4>1. "proposal_legal_and_contains_price" \notin otherMissed
          BY <2>4
        <4>2. IF proposed = None THEN truth.action = "HOLD" ELSE LegalAround(proposed, tick)
          BY <1>4, <2>1, <4>1, RebalanceMissed
        <4> QED
          BY <3>1, <4>2
      <3>3. /\ Inside(InOrder(proposed), tick) /\ proposed.lower # proposed.upper
            /\ AlignedToSpacing(proposed)
        BY <3>2 DEF LegalAround, LegalBounds
      <3>4. proposed.lower \in Int /\ proposed.upper \in Int
        BY <1>8, <3>2
      <3>5. CASE proposed.lower <= proposed.upper
        <4>1. InOrder(proposed) = proposed
          BY <3>5 DEF InOrder
        <4> QED
          BY <3>3, <3>4, <3>5, <4>1 DEF Mintable, AlignedToSpacing
      <3>6. CASE ~ (proposed.lower <= proposed.upper)
        <4>1. InOrder(proposed).lower = proposed.upper /\ InOrder(proposed).upper = proposed.lower
          BY <3>6 DEF InOrder
        <4>2. InOrder(proposed).lower < InOrder(proposed).upper
          BY <3>4, <3>6, <4>1
        <4> QED
          BY <3>3, <4>1, <4>2 DEF Mintable, AlignedToSpacing
      <3> QED
        BY <3>5, <3>6
    <2> QED
      BY <2>2, <2>3, <2>4 DEF other
  <1> QED
    BY <1>11, <1>12 DEF truth, own, missed

LEMMA ScoresHold == RangeInv /\ ScoutInv => RuleScoresBest
  <1> SUFFICES ASSUME RangeInv, ScoutInv PROVE RuleScoresBest
    OBVIOUS
  <1> QED
    BY RangeScores, YieldScores, HealthScores DEF RuleScoresBest

(* In every situation of any market the answer of the rule misses only what  *)
(* it cannot say and what it gets wrong at a limit of the protocol, and no   *)
(* other answer does better (rebalanceRubric, yieldRubric,                   *)
(* healthBenchRubric).                                                       *)
THEOREM TheRuleScoresBest == DeskSpec => []RuleScoresBest
  BY RangeInvariant, ScoutInvariant, ScoresHold, PTL

(* -------------------------------- Grading -------------------------------- *)
(* What is stored of a run.                                                  *)
Runs ==
    [family : Families, delivered : BOOLEAN, settled : BOOLEAN, graded : BOOLEAN,
     number : Nat \cup {None}]

(* The Verified Runs of a list were completed.                                  *)
Sound(list) == \A k \in VerifiedRuns(list) : Completed(list[k])

UpTo(set, k) == {j \in set : j <= k}

(* Verified Runs, and candidate pairs, are numbered in order.                *)
OrderedRuns(list) ==
    \A k \in VerifiedRuns(list) : list[k].number = Cardinality(UpTo(VerifiedRuns(list), k))

OrderedPairs(stored) ==
    \A k \in DOMAIN stored : stored[k] = Cardinality(UpTo(DOMAIN stored, k))

(* What a grader holds is as good as what it was read from.                     *)
TaskOK(t) ==
    /\ t = [kind |-> t.kind, run |-> t.run, step |-> t.step, gates |-> t.gates,
            runs |-> t.runs, pairs |-> t.pairs]
    /\ t.run \in Nat \ {0} /\ t.gates \in BOOLEAN /\ t.runs \in Seq(Runs) /\ Sound(t.runs)
    /\ careful =>
        /\ t.run = Len(runs)
        /\ OrderedRuns(t.runs)
        /\ t.step = "save runs" => Len(t.runs) = t.run
        /\ OrderedPairs(t.pairs) /\ DOMAIN t.pairs \subseteq 1 .. t.run

(* The run a hire will append, and what it has read: for a careful operator      *)
(* nothing was written since, and the number is the next one.                  *)
HireOK(t) ==
    /\ t = [step |-> t.step, run |-> t.run, runs |-> t.runs]
    /\ t.run \in Runs /\ (t.run.number # None => Completed(t.run))
    /\ t.runs \in Seq(Runs) /\ Sound(t.runs)
    /\ careful =>
        /\ t.runs = runs
        /\ t.run.number = None
            \/ t.run.number = Cardinality({j \in VerifiedRuns(runs) : j < Len(runs) + 1}) + 1

(* A careful operator's hire runs alone.                                       *)
HirersOK ==
    /\ DOMAIN hirer = Hirers[careful] /\ DOMAIN grader = Graders[careful] /\ careful \in BOOLEAN
    /\ \A h \in DOMAIN hirer : hirer[h] # None => HireOK(hirer[h])
    /\ careful /\ Hiring # {} =>
        (\A g \in DOMAIN grader : Resting(g)) /\ \A h, i \in Hiring : h = i

(* Who has read the runs since they were written, and is about to write, has them. *)
Fresh ==
    /\ \A h \in DOMAIN hirer \ behind :
        hirer[h] # None /\ hirer[h].step = "save runs" => hirer[h].runs = runs
    /\ \A g \in DOMAIN grader \ behind :
        grader[g] # None /\ grader[g].step = "save runs" => grader[g].runs = runs

(* The inductive invariant of the graders.                                   *)
GradingInv ==
    /\ runs \in Seq(Runs) /\ Sound(runs)
    /\ careful =>
        OrderedRuns(runs) /\ OrderedPairs(pairs) /\ DOMAIN pairs \subseteq 1 .. Len(runs)
    /\ \A g \in DOMAIN grader : grader[g] # None => TaskOK(grader[g])

LEMMA NothingGraded ==
  /\ <<>> \in Seq(Runs) /\ Sound(<<>>) /\ OrderedRuns(<<>>) /\ OrderedPairs(<<>>)
  /\ \A n : DOMAIN <<>> \subseteq n
  /\ Len(<<>>) = 0
  BY DEF Sound, OrderedRuns, OrderedPairs, VerifiedRuns

LEMMA GradingInitOK == GradingInit => GradingInv
  BY NothingGraded DEF GradingInit, GradingInv

LEMMA FiniteVerified ==
  ASSUME NEW list \in Seq(Runs), NEW A, A \subseteq VerifiedRuns(list)
  PROVE  IsFiniteSet(A) /\ Cardinality(A) \in Nat /\ A \subseteq 1 .. Len(list)
  <1>1. Len(list) \in Nat /\ A \subseteq 1 .. Len(list)
    BY DEF VerifiedRuns
  <1>2. IsFiniteSet(1 .. Len(list))
    BY <1>1, FS_Interval
  <1> QED
    BY <1>1, <1>2, FS_Subset, FS_CardinalityType

(* The newest run may be replaced, or a run added, with the next number.         *)
LEMMA Numbered ==
  ASSUME NEW old \in Seq(Runs), NEW new \in Seq(Runs), Len(new) # 0, OrderedRuns(old),
         \A j \in 1 .. Len(new) - 1 : j \in DOMAIN old /\ new[j] = old[j],
         \/ new[Len(new)].number = None
         \/ new[Len(new)].number = Cardinality({j \in VerifiedRuns(old) : j < Len(new)}) + 1
  PROVE  OrderedRuns(new)
  <1> DEFINE m == Len(new)
             before == {j \in VerifiedRuns(old) : j < m}
  <1>1. m \in Nat \ {0} /\ DOMAIN new = 1 .. m /\ DOMAIN old \subseteq Nat \ {0}
    OBVIOUS
  <1>2. IsFiniteSet(before) /\ Cardinality(before) \in Nat /\ m \notin before
    BY FiniteVerified
  <1>3. /\ \A j \in 1 .. m - 1 : j \in DOMAIN old /\ new[j] = old[j]
        /\ new[m].number = None \/ new[m].number = Cardinality(before) + 1
    OBVIOUS
  <1>4. before = {j \in VerifiedRuns(new) : j < m}
    <2> HIDE DEF m
    <2>1. ASSUME NEW j PROVE j \in before <=> j \in VerifiedRuns(new) /\ j < m
      <3>1. j \in before => j \in 1 .. m - 1
        BY <1>1 DEF VerifiedRuns
      <3>2. j \in VerifiedRuns(new) /\ j < m => j \in 1 .. m - 1
        BY <1>1 DEF VerifiedRuns
      <3>3. j \in 1 .. m - 1 => j \in DOMAIN new /\ j < m
        BY <1>1
      <3> QED
        BY <1>3, <3>1, <3>2, <3>3 DEF VerifiedRuns
    <2> HIDE DEF before
    <2> QED
      BY <2>1
  <1> HIDE DEF m, before
  <1>5. SUFFICES ASSUME NEW k \in VerifiedRuns(new)
                 PROVE  new[k].number = Cardinality(UpTo(VerifiedRuns(new), k))
    BY DEF OrderedRuns
  <1>6. k \in 1 .. m /\ new[k].number # None
    BY <1>1 DEF VerifiedRuns
  <1>7. CASE k = m
    <2>1. UpTo(VerifiedRuns(new), k) = before \cup {m}
      <3>1. \A j \in VerifiedRuns(new) : j \in 1 .. m
        BY <1>1 DEF VerifiedRuns
      <3>2. \A j \in before : j \in VerifiedRuns(new) /\ j < m /\ j \in 1 .. m
        BY <1>4, <3>1
      <3>3. \A j \in VerifiedRuns(new) : j # m => j \in before
        BY <1>1, <1>4, <3>1
      <3> QED
        BY <1>5, <1>7, <3>1, <3>2, <3>3 DEF UpTo
    <2>2. Cardinality(before \cup {m}) = Cardinality(before) + 1
      BY <1>2, FS_AddElement
    <2> QED
      BY <1>3, <1>6, <1>7, <2>1, <2>2
  <1>8. CASE k # m
    <2>1. k \in 1 .. m - 1 /\ k < m
      BY <1>1, <1>6, <1>8
    <2>2. k \in before
      BY <1>4, <1>5, <2>1
    <2>3. k \in VerifiedRuns(old) /\ new[k] = old[k]
      BY <1>3, <2>1, <2>2 DEF before
    <2>4. UpTo(VerifiedRuns(new), k) = UpTo(VerifiedRuns(old), k)
      <3>1. ASSUME NEW j PROVE j \in UpTo(VerifiedRuns(new), k) <=> j \in UpTo(VerifiedRuns(old), k)
        <4>1. j \in UpTo(VerifiedRuns(new), k) => j \in Nat /\ j <= k
          BY <1>1 DEF UpTo, VerifiedRuns
        <4>2. j \in UpTo(VerifiedRuns(old), k) => j \in Nat /\ j <= k
          BY <1>1 DEF UpTo, VerifiedRuns
        <4>3. j \in Nat /\ j <= k => j < m
          BY <1>1, <2>1
        <4>4. j \in UpTo(VerifiedRuns(new), k) <=> j \in before /\ j <= k
          BY <1>4, <4>1, <4>3 DEF UpTo
        <4>5. j \in UpTo(VerifiedRuns(old), k) <=> j \in before /\ j <= k
          BY <4>2, <4>3 DEF UpTo, before
        <4> QED
          BY <4>4, <4>5
      <3> QED
        BY <3>1
    <2> QED
      BY <2>3, <2>4 DEF OrderedRuns
  <1> QED
    BY <1>7, <1>8

(* A candidate pair added for the newest run gets the next number.               *)
LEMMA PairAdded ==
  ASSUME NEW n \in Nat \ {0}, NEW stored, DOMAIN stored \subseteq 1 .. n, OrderedPairs(stored),
         NEW new, new = [j \in DOMAIN stored \cup {n} |->
                            IF j = n THEN CandidateNumber(stored, n) ELSE stored[j]]
  PROVE  OrderedPairs(new) /\ DOMAIN new \subseteq 1 .. n
  <1> DEFINE D == DOMAIN stored
             before == {j \in D : j < n}
  <1>1. IsFiniteSet(before) /\ Cardinality(before) \in Nat /\ n \notin before
    <2>1. IsFiniteSet(1 .. n) /\ before \subseteq 1 .. n
      BY FS_Interval
    <2> QED
      BY <2>1, FS_Subset, FS_CardinalityType
  <1>2. DOMAIN new = D \cup {n} /\ DOMAIN new \subseteq 1 .. n
    OBVIOUS
  <1>3. new[n] = Cardinality(before) + 1
    BY DEF CandidateNumber
  <1>4. \A k \in D : k # n => new[k] = Cardinality(UpTo(D, k))
    BY DEF OrderedPairs
  <1>5. D \subseteq 1 .. n
    OBVIOUS
  <1>6. UpTo(DOMAIN new, n) = before \cup {n}
    BY <1>2, <1>5 DEF UpTo
  <1>7. Cardinality(before \cup {n}) = Cardinality(before) + 1
    BY <1>1, FS_AddElement
  <1>8. ASSUME NEW k \in D, k # n PROVE UpTo(DOMAIN new, k) = UpTo(D, k)
    <2>1. k < n /\ k \in 1 .. n
      BY <1>5, <1>8
    <2> HIDE DEF D
    <2> QED
      BY <1>2, <2>1 DEF UpTo
  <1> HIDE DEF D, before
  <1> QED
    BY <1>2, <1>3, <1>4, <1>6, <1>7, <1>8 DEF OrderedPairs

VerifiedBefore(list, k) == {j \in VerifiedRuns(list) : j < k}

(* One run of a list replaced by one that is numbered only if it was completed.   *)
LEMMA Replaced ==
  ASSUME NEW list \in Seq(Runs), Sound(list), NEW k \in Nat \ {0}, NEW r,
         k \in DOMAIN list => r \in Runs /\ (r.number # None => Completed(r)),
         NEW new, new = [j \in DOMAIN list |-> IF j = k THEN r ELSE list[j]]
  PROVE  /\ new \in Seq(Runs) /\ Sound(new) /\ Len(new) = Len(list)
         /\ (/\ OrderedRuns(list) /\ k = Len(list)
             /\ r.number = None \/ r.number = Cardinality(VerifiedBefore(list, k)) + 1)
            => OrderedRuns(new)
  <1>1. /\ DOMAIN new = 1 .. Len(list) /\ DOMAIN list = 1 .. Len(list) /\ Len(list) \in Nat
        /\ \A j \in DOMAIN list : new[j] = IF j = k THEN r ELSE list[j]
    OBVIOUS
  <1>2. \A j \in DOMAIN list : new[j] \in Runs
    <2>1. ASSUME NEW j \in DOMAIN list PROVE new[j] \in Runs
      <3>1. list[j] \in Runs
        BY <1>1
      <3> QED
        BY <1>1, <3>1
    <2> QED
      BY <2>1
  <1>3. new = [j \in 1 .. Len(list) |-> new[j]]
    BY <1>1
  <1>4. new \in Seq(Runs) /\ Len(new) = Len(list)
    BY <1>1, <1>2, <1>3
  <1>5. Sound(new)
    <2>1. SUFFICES ASSUME NEW j \in VerifiedRuns(new) PROVE Completed(new[j])
      BY DEF Sound
    <2>2. j \in DOMAIN list /\ new[j].number # None
      BY <1>1, <2>1 DEF VerifiedRuns
    <2>3. CASE j = k
      BY <1>1, <2>2, <2>3
    <2>4. CASE j # k
      BY <1>1, <2>2, <2>4 DEF Sound, VerifiedRuns
    <2> QED
      BY <2>3, <2>4
  <1>6. ASSUME OrderedRuns(list), k = Len(list),
               r.number = None \/ r.number = Cardinality(VerifiedBefore(list, k)) + 1
        PROVE  OrderedRuns(new)
    <2>1. Len(new) = k /\ k # 0 /\ k \in DOMAIN list
      BY <1>1, <1>4, <1>6
    <2>2. \A j \in 1 .. Len(new) - 1 : j \in DOMAIN list /\ new[j] = list[j]
      BY <1>1, <1>6, <2>1
    <2>3. \/ new[Len(new)].number = None
          \/ new[Len(new)].number = Cardinality({j \in VerifiedRuns(list) : j < Len(new)}) + 1
      BY <1>1, <1>6, <2>1 DEF VerifiedBefore
    <2> QED
      BY <1>4, <1>6, <2>1, <2>2, <2>3, Numbered
  <1> QED
    BY <1>4, <1>5, <1>6

(* The numbers the scripts give are those of an ordered list.                    *)
LEMMA GivenNumbers ==
  ASSUME NEW list \in Seq(Runs), NEW k \in Nat \ {0}
  PROVE  /\ Cardinality(VerifiedBefore(list, k)) \in Nat
         /\ VerifiedRuns(list) \subseteq {k} => Cardinality(VerifiedBefore(list, k)) = 0
         /\ Len(list) <= k => VerifiedRuns(list) \ {k} = VerifiedBefore(list, k)
         /\ OrderedRuns(list) /\ k = Len(list) /\ list[k].number # None
            => list[k].number = Cardinality(VerifiedBefore(list, k)) + 1
         /\ Cardinality(VerifiedRuns(list) \ {k}) \in Nat
  <1>1. /\ IsFiniteSet(VerifiedBefore(list, k)) /\ Cardinality(VerifiedBefore(list, k)) \in Nat
        /\ VerifiedBefore(list, k) \subseteq VerifiedRuns(list)
    <2>1. VerifiedBefore(list, k) \subseteq VerifiedRuns(list)
      BY DEF VerifiedBefore
    <2> QED
      BY <2>1, FiniteVerified
  <1>2. VerifiedRuns(list) \subseteq 1 .. Len(list) /\ Len(list) \in Nat
    BY DEF VerifiedRuns
  <1>3. ASSUME VerifiedRuns(list) \subseteq {k} PROVE Cardinality(VerifiedBefore(list, k)) = 0
    <2>1. VerifiedBefore(list, k) = {}
      BY <1>2, <1>3 DEF VerifiedBefore
    <2> QED
      BY <2>1, FS_EmptySet
  <1>4. Len(list) <= k => VerifiedRuns(list) \ {k} = VerifiedBefore(list, k)
    BY <1>2 DEF VerifiedBefore
  <1>5. ASSUME OrderedRuns(list), k = Len(list), list[k].number # None
        PROVE  list[k].number = Cardinality(VerifiedBefore(list, k)) + 1
    <2>1. k \in VerifiedRuns(list)
      BY <1>5 DEF VerifiedRuns
    <2>2. UpTo(VerifiedRuns(list), k) = VerifiedBefore(list, k) \cup {k}
      BY <1>2, <1>5, <2>1 DEF UpTo, VerifiedBefore
    <2>3. k \notin VerifiedBefore(list, k)
      BY DEF VerifiedBefore
    <2>4. Cardinality(VerifiedBefore(list, k) \cup {k}) = Cardinality(VerifiedBefore(list, k)) + 1
      BY <1>1, <2>3, FS_AddElement
    <2> QED
      BY <1>5, <2>1, <2>2, <2>4 DEF OrderedRuns
  <1>6. Cardinality(VerifiedRuns(list) \ {k}) \in Nat
    BY FiniteVerified
  <1> QED
    BY <1>1, <1>3, <1>4, <1>5, <1>6

LEMMA GradedOK ==
  ASSUME NEW list \in Seq(Runs), Sound(list), NEW k \in Nat \ {0}, NEW kind, NEW gates \in BOOLEAN
  PROVE  /\ Graded(list, k, kind, gates) \in Seq(Runs) /\ Sound(Graded(list, k, kind, gates))
         /\ Len(Graded(list, k, kind, gates)) = Len(list)
         /\ OrderedRuns(list) /\ k = Len(list) => OrderedRuns(Graded(list, k, kind, gates))
  <1> DEFINE number == IF kind \in {"health", "grid"} THEN list[k].number
                       ELSE VerifiedRunNumber(list, k, gates)
             r == [list[k] EXCEPT !.graded = TRUE, !.number = number]
             new == [j \in DOMAIN list |-> IF j = k THEN r ELSE list[j]]
  <1>1. Graded(list, k, kind, gates) = new
    BY DEF Graded
  <1>2. Cardinality(VerifiedRuns(list) \ {k}) \in Nat
    BY GivenNumbers
  <1>3. ASSUME k \in DOMAIN list PROVE r \in Runs /\ (r.number # None => Completed(r))
    <2>1. list[k] \in Runs
      BY <1>3
    <2>2. number \in Nat \cup {None}
      <3>1. list[k].number \in Nat \cup {None}
        BY <2>1 DEF Runs
      <3>2. VerifiedRunNumber(list, k, gates) \in Nat \cup {None}
        BY <1>2 DEF VerifiedRunNumber
      <3> QED
        BY <3>1, <3>2
    <2>3. number # None => Completed(list[k])
      <3>1. list[k].number # None => Completed(list[k])
        BY <1>3 DEF Sound, VerifiedRuns
      <3>2. VerifiedRunNumber(list, k, gates) # None => Completed(list[k])
        BY DEF VerifiedRunNumber
      <3> QED
        BY <3>1, <3>2
    <2> HIDE DEF number
    <2>4. r \in Runs /\ r.number = number /\ r.delivered = list[k].delivered
          /\ r.settled = list[k].settled
      BY <2>1, <2>2 DEF Runs
    <2> QED
      BY <2>3, <2>4 DEF Completed
  <1>4. ASSUME OrderedRuns(list), k = Len(list)
        PROVE  r.number = None \/ r.number = Cardinality(VerifiedBefore(list, k)) + 1
    <2>1. k \in DOMAIN list /\ list[k] \in Runs
      BY <1>4
    <2>2. r.number = number
      <3> HIDE DEF number
      <3> QED
        BY <2>1 DEF Runs
    <2>3. VerifiedRuns(list) \ {k} = VerifiedBefore(list, k)
      <3>1. Len(list) <= k
        BY <1>4
      <3> QED
        BY <3>1, GivenNumbers
    <2>4. \/ VerifiedRunNumber(list, k, gates) = None
          \/ VerifiedRunNumber(list, k, gates) = Cardinality(VerifiedBefore(list, k)) + 1
      BY <2>3 DEF VerifiedRunNumber
    <2>5. list[k].number = None \/ list[k].number = Cardinality(VerifiedBefore(list, k)) + 1
      BY <1>4, GivenNumbers
    <2> QED
      BY <2>2, <2>4, <2>5
  <1> HIDE DEF r
  <1>5. /\ new \in Seq(Runs) /\ Sound(new) /\ Len(new) = Len(list)
        /\ (/\ OrderedRuns(list) /\ k = Len(list)
            /\ r.number = None \/ r.number = Cardinality(VerifiedBefore(list, k)) + 1)
           => OrderedRuns(new)
    <2> DEFINE given == new
    <2>1. given = [j \in DOMAIN list |-> IF j = k THEN r ELSE list[j]]
      OBVIOUS
    <2> HIDE DEF given
    <2> QED
      BY <1>3, <2>1, Replaced
  <1> QED
    BY <1>1, <1>4, <1>5

(* A run that was reconciled, as it is written.                                  *)
LEMMA MovedOn ==
  ASSUME NEW old \in Runs, NEW delivered \in BOOLEAN, NEW settled \in BOOLEAN
  PROVE  [old EXCEPT !.delivered = @ \/ delivered, !.settled = @ \/ settled] \in Runs
  <1>1. old.delivered \in BOOLEAN /\ old.settled \in BOOLEAN
    BY DEF Runs
  <1>2. (old.delivered \/ delivered) \in BOOLEAN /\ (old.settled \/ settled) \in BOOLEAN
    BY <1>1
  <1> QED
    BY <1>2 DEF Runs

LEMMA ReconciledOK ==
  ASSUME NEW list \in Seq(Runs), Sound(list), NEW k \in Nat \ {0}, NEW run,
         k \in DOMAIN list => run \in Runs,
         NEW new,
         new = [j \in DOMAIN list |->
                   IF j = k THEN [run EXCEPT !.number = FirstNumber(list, k, run)] ELSE list[j]]
  PROVE  /\ new \in Seq(Runs) /\ Sound(new) /\ Len(new) = Len(list)
         /\ OrderedRuns(list) /\ k = Len(list) => OrderedRuns(new)
  <1> DEFINE number == FirstNumber(list, k, run)
             r == [run EXCEPT !.number = number]
  <1>1. new = [j \in DOMAIN list |-> IF j = k THEN r ELSE list[j]]
    OBVIOUS
  <1>2. number \in Nat \cup {None} /\ (number # None => Completed(run) /\ number = 1)
    BY DEF FirstNumber
  <1>3. k \in DOMAIN list => r \in Runs /\ (r.number # None => Completed(r))
    <2> HIDE DEF number
    <2>1. SUFFICES ASSUME k \in DOMAIN list
                   PROVE  r \in Runs /\ (r.number # None => Completed(r))
      OBVIOUS
    <2>2. r \in Runs /\ r.number = number /\ r.delivered = run.delivered
          /\ r.settled = run.settled
      BY <1>2, <2>1 DEF Runs
    <2> QED
      BY <1>2, <2>2 DEF Completed
  <1>4. ASSUME k = Len(list)
        PROVE  r.number = None \/ r.number = Cardinality(VerifiedBefore(list, k)) + 1
    <2>1. run \in Runs
      BY <1>4
    <2>2. number = None \/ (number = 1 /\ Cardinality(VerifiedBefore(list, k)) = 0)
      BY GivenNumbers DEF FirstNumber
    <2>3. r.number = number
      <3> HIDE DEF number
      <3> QED
        BY <2>1 DEF Runs
    <2> QED
      BY <2>2, <2>3
  <1> HIDE DEF r, number
  <1>5. /\ new \in Seq(Runs) /\ Sound(new) /\ Len(new) = Len(list)
        /\ (/\ OrderedRuns(list) /\ k = Len(list)
            /\ r.number = None \/ r.number = Cardinality(VerifiedBefore(list, k)) + 1)
           => OrderedRuns(new)
    BY <1>1, <1>3, Replaced, SMTT(60)
  <1> QED
    BY <1>4, <1>5

LEMMA StaysInv ==
  ASSUME GradingInv, UNCHANGED <<runs, pairs, grader, careful>> PROVE GradingInv'
  <1>1. ASSUME NEW g \in DOMAIN grader, grader[g] # None PROVE TaskOK(grader[g])'
    BY <1>1 DEF GradingInv, TaskOK
  <1> QED
    BY <1>1 DEF GradingInv

LEMMA HireStays ==
  ASSUME NEW t, HireOK(t), careful' = careful, careful => runs' = runs
  PROVE  HireOK(t)'
  BY DEF HireOK

(* One hire's step that leaves the runs alone, or a careful operator without hires. *)
LEMMA HirersMoved ==
  ASSUME HirersOK, NEW h \in DOMAIN hirer, NEW t, hirer' = [hirer EXCEPT ![h] = t],
         t # None => HireOK(t), careful' = careful,
         careful => runs' = runs \/ Hiring' = {}
  PROVE  \A i \in DOMAIN hirer' : hirer'[i] # None => HireOK(hirer[i])'
  <1>1. ASSUME NEW i \in DOMAIN hirer', hirer'[i] # None PROVE HireOK(hirer'[i])
    <2>1. CASE i = h
      BY <1>1, <2>1
    <2>2. CASE i # h
      BY <1>1, <2>2 DEF HirersOK
    <2> QED
      BY <2>1, <2>2
  <1>2. ASSUME NEW i \in DOMAIN hirer', hirer'[i] # None PROVE HireOK(hirer[i])'
    <2>1. careful => runs' = runs
      BY <1>2 DEF Hiring
    <2> QED
      BY <1>1, <1>2, <2>1, HireStays
  <1> QED
    BY <1>2

LEMMA LoadForAppendOK ==
  ASSUME GradingInv, HirersOK, NEW h \in DOMAIN hirer, LoadForAppend(h)
  PROVE  GradingInv' /\ HirersOK'
  <1>1. PICK t : t = hirer[h]
    OBVIOUS
  <1>2. /\ t # None /\ HireOK(t) /\ h \in Hiring
        /\ hirer' = [hirer EXCEPT ![h] = [t EXCEPT !.step = "save runs", !.runs = runs]]
        /\ UNCHANGED <<runs, pairs, grader, careful>>
    BY <1>1 DEF LoadForAppend, HirersOK, Hiring
  <1>3. PICK new : new = [step |-> "save runs", run |-> t.run, runs |-> runs]
    OBVIOUS
  <1>4. [t EXCEPT !.step = "save runs", !.runs = runs] = new
    <2>1. t \in [step : {t.step}, run : {t.run}, runs : {t.runs}]
      BY <1>2 DEF HireOK
    <2> DEFINE moved == [t EXCEPT !.step = "save runs", !.runs = runs]
    <2>2. moved \in [step : {"save runs"}, run : {t.run}, runs : {runs}]
      BY <2>1
    <2> HIDE DEF moved
    <2>3. moved = new
      BY <1>3, <2>2
    <2> QED
      BY <2>3 DEF moved
  <1>5. runs \in Seq(Runs) /\ Sound(runs)
    BY DEF GradingInv
  <1>6. HireOK(new)
    BY <1>2, <1>3, <1>5 DEF HireOK
  <1>7. \A i \in DOMAIN hirer' : hirer'[i] # None => HireOK(hirer[i])'
    BY <1>2, <1>4, <1>6, HirersMoved
  <1>8. Hiring' \subseteq Hiring
    BY <1>2 DEF Hiring
  <1>9. GradingInv'
    BY <1>2, StaysInv
  <1> QED
    BY <1>2, <1>7, <1>8, <1>9 DEF HirersOK, Resting

LEMMA KillHireOK ==
  ASSUME GradingInv, HirersOK, NEW h \in DOMAIN hirer, KillHire(h)
  PROVE  GradingInv' /\ HirersOK'
  <1>1. GradingInv'
    BY StaysInv DEF KillHire
  <1>2. /\ hirer' = [hirer EXCEPT ![h] = None] /\ Hiring' \subseteq Hiring
        /\ UNCHANGED <<runs, pairs, grader, careful>>
    BY DEF KillHire, Hiring
  <1>3. \A i \in DOMAIN hirer' : hirer'[i] # None => HireOK(hirer[i])'
    BY <1>2, HirersMoved
  <1> QED
    BY <1>1, <1>2, <1>3 DEF HirersOK, Resting

(* The number a hire takes from the runs before.                                *)
LEMMA StartHireOK ==
  ASSUME GradingInv, HirersOK, NEW h \in DOMAIN hirer, StartHire(h) PROVE GradingInv' /\ HirersOK'
  <1>1. PICK family \in Families, delivered \in BOOLEAN, settled \in BOOLEAN :
          hirer' = [hirer EXCEPT ![h] =
            [step |-> "load runs",
             run |-> [[family |-> family, delivered |-> delivered, settled |-> settled,
                       graded |-> FALSE, number |-> None] EXCEPT
                     !.number = FirstNumber(runs, Len(runs) + 1,
                        [family |-> family, delivered |-> delivered, settled |-> settled,
                         graded |-> FALSE, number |-> None])],
             runs |-> runs]]
    BY DEF StartHire
  <1> DEFINE run == [family |-> family, delivered |-> delivered, settled |-> settled,
                     graded |-> FALSE, number |-> None]
             n == Len(runs) + 1
             number == FirstNumber(runs, n, run)
             r == [run EXCEPT !.number = number]
             t == [step |-> "load runs", run |-> r, runs |-> runs]
  <1>2. /\ runs \in Seq(Runs) /\ Sound(runs) /\ n \in Nat \ {0} /\ Len(runs) \in Nat
        /\ careful => Hiring = {} /\ \A g \in DOMAIN grader : Resting(g)
        /\ UNCHANGED <<runs, pairs, grader, behind, careful>>
    <2>1. runs \in Seq(Runs) /\ Sound(runs)
      BY DEF GradingInv
    <2>2. /\ careful => Hiring = {} /\ \A g \in DOMAIN grader : Resting(g)
          /\ UNCHANGED <<runs, pairs, grader, behind, careful>>
      BY DEF StartHire
    <2> QED
      BY <2>1, <2>2
  <1>3. number \in Nat \cup {None} /\ (number # None => Completed(run) /\ number = 1)
    BY DEF FirstNumber
  <1>4. r \in Runs /\ r.number = number /\ (r.number # None => Completed(r))
    <2> HIDE DEF number
    <2> QED
      BY <1>3 DEF Runs, Completed
  <1>5. number = None \/ number = Cardinality(VerifiedBefore(runs, n)) + 1
    <2>1. VerifiedRuns(runs) \subseteq {n} => Cardinality(VerifiedBefore(runs, n)) = 0
      <3> HIDE DEF n
      <3> QED
        BY <1>2, GivenNumbers
    <2>2. number = None \/ (number = 1 /\ VerifiedRuns(runs) \subseteq {n})
      BY DEF FirstNumber
    <2> QED
      BY <2>1, <2>2
  <1>6. hirer' = [hirer EXCEPT ![h] = t]
    BY <1>1
  <1> HIDE DEF number, run, r
  <1>7. /\ t.run = r /\ t.runs = runs /\ t = [step |-> t.step, run |-> t.run, runs |-> t.runs]
    OBVIOUS
  <1>8. HireOK(t)
    <2>1. careful => r.number = None
                     \/ r.number = Cardinality({j \in VerifiedRuns(runs) : j < Len(runs) + 1}) + 1
      BY <1>4, <1>5 DEF VerifiedBefore
    <2> HIDE DEF t
    <2> QED
      BY <1>2, <1>4, <1>7, <2>1 DEF HireOK
  <1> HIDE DEF t
  <1>9. GradingInv'
    BY <1>2, StaysInv
  <1>10. \A i \in DOMAIN hirer' : hirer'[i] # None => HireOK(hirer[i])'
    BY <1>2, <1>6, <1>8, HirersMoved
  <1>11. careful /\ Hiring' # {} => \A i \in Hiring' : i = h
    BY <1>2, <1>6 DEF Hiring
  <1> QED
    BY <1>2, <1>6, <1>9, <1>10, <1>11 DEF HirersOK, Resting

(* The run is appended to what was read; the copy need not be what is stored.     *)
LEMMA SaveRunOK ==
  ASSUME GradingInv, HirersOK, NEW h \in DOMAIN hirer, SaveRun(h) PROVE GradingInv' /\ HirersOK'
  <1>1. PICK list, r : list = hirer[h].runs /\ r = hirer[h].run
    OBVIOUS
  <1>2. /\ list \in Seq(Runs) /\ Sound(list) /\ r \in Runs /\ (r.number # None => Completed(r))
        /\ runs' = Append(list, r) /\ hirer' = [hirer EXCEPT ![h] = None]
        /\ UNCHANGED <<pairs, grader, careful>> /\ h \in Hiring
    BY <1>1 DEF SaveRun, HirersOK, HireOK, Hiring
  <1>3. careful => /\ list = runs /\ (\A g \in DOMAIN grader : Resting(g))
                   /\ r.number = None
                      \/ r.number = Cardinality({j \in VerifiedRuns(list) : j < Len(list) + 1}) + 1
    BY <1>1, <1>2 DEF SaveRun, HirersOK, HireOK
  <1>4. PICK n : n = Len(list) + 1
    OBVIOUS
  <1>5. /\ runs' \in Seq(Runs) /\ Len(runs') = n /\ DOMAIN runs' = 1 .. n /\ n \in Nat \ {0}
        /\ runs'[n] = r
        /\ \A j \in 1 .. n - 1 : j \in DOMAIN list /\ runs'[j] = list[j]
    BY <1>2, <1>4
  <1>6. Sound(runs')
    <2>1. SUFFICES ASSUME NEW j \in VerifiedRuns(runs') PROVE Completed(runs'[j])
      BY DEF Sound
    <2>2. j \in 1 .. n /\ runs'[j].number # None
      BY <1>5, <2>1 DEF VerifiedRuns
    <2>3. CASE j = n
      BY <1>2, <1>5, <2>2, <2>3
    <2>4. CASE j # n
      <3>1. j \in 1 .. n - 1
        BY <1>5, <2>2, <2>4
      <3> QED
        BY <1>2, <1>5, <2>2, <3>1 DEF Sound, VerifiedRuns
    <2> QED
      BY <2>3, <2>4
  <1>7. ASSUME careful
        PROVE  OrderedRuns(runs') /\ OrderedPairs(pairs) /\ DOMAIN pairs \subseteq 1 .. Len(runs')
    <2>1. OrderedRuns(list) /\ OrderedPairs(pairs) /\ DOMAIN pairs \subseteq 1 .. Len(list)
      BY <1>3, <1>7 DEF GradingInv
    <2>2. Len(runs') # 0
          /\ \A j \in 1 .. Len(runs') - 1 : j \in DOMAIN list /\ runs'[j] = list[j]
      BY <1>5
    <2>3. \/ runs'[Len(runs')].number = None
          \/ runs'[Len(runs')].number
                = Cardinality({j \in VerifiedRuns(list) : j < Len(runs')}) + 1
      BY <1>3, <1>4, <1>5, <1>7
    <2>4. OrderedRuns(runs')
      BY <1>2, <1>5, <2>1, <2>2, <2>3, Numbered
    <2>5. Len(list) \in Nat /\ Len(list) <= Len(runs')
      BY <1>2, <1>4, <1>5
    <2> QED
      BY <1>5, <2>1, <2>4, <2>5
  <1>8. ASSUME NEW g \in DOMAIN grader, grader[g] # None PROVE TaskOK(grader[g])'
    <2>1. TaskOK(grader[g]) /\ ~ careful
      BY <1>3, <1>8 DEF GradingInv, Resting
    <2> QED
      BY <1>2, <2>1 DEF TaskOK
  <1>9. GradingInv'
    BY <1>2, <1>5, <1>6, <1>7, <1>8 DEF GradingInv
  <1>10. careful => Hiring' = {}
    BY <1>2 DEF HirersOK, Hiring
  <1>11. \A i \in DOMAIN hirer' : hirer'[i] # None => HireOK(hirer[i])'
    BY <1>2, <1>10, HirersMoved
  <1> QED
    BY <1>2, <1>9, <1>10, <1>11 DEF HirersOK

(* The tasks that another process's step does not touch stay as they were.       *)
LEMMA OthersOK ==
  ASSUME GradingInv, careful' = careful, Len(runs') = Len(runs),
         NEW t, TaskOK(t)
  PROVE  TaskOK(t)'
  BY DEF TaskOK

(* One process's step that leaves the documents alone.                           *)
LEMMA OneTask ==
  ASSUME GradingInv, UNCHANGED <<runs, pairs, careful>>, NEW g \in DOMAIN grader, NEW t,
         grader' = [grader EXCEPT ![g] = t], t # None => TaskOK(t)
  PROVE  GradingInv'
  <1>1. ASSUME NEW h \in DOMAIN grader', grader'[h] # None PROVE TaskOK(grader'[h])
    <2>1. CASE h = g
      BY <1>1, <2>1
    <2>2. CASE h # g
      BY <1>1, <2>2 DEF GradingInv
    <2> QED
      BY <2>1, <2>2
  <1>2. ASSUME NEW h \in DOMAIN grader', grader'[h] # None PROVE TaskOK(grader[h])'
    BY <1>1, <1>2, OthersOK
  <1> QED
    BY <1>2 DEF GradingInv

(* One process's step that writes the documents, and keeps the runs' length.      *)
LEMMA OneSave ==
  ASSUME GradingInv, careful' = careful, runs' \in Seq(Runs), Sound(runs'),
         careful => /\ Len(runs') = Len(runs) /\ OrderedRuns(runs')
                    /\ OrderedPairs(pairs') /\ DOMAIN pairs' \subseteq 1 .. Len(runs),
         NEW g \in DOMAIN grader, NEW t, grader' = [grader EXCEPT ![g] = t],
         t # None => TaskOK(t)
  PROVE  GradingInv'
  <1>1. ASSUME NEW h \in DOMAIN grader', grader'[h] # None PROVE TaskOK(grader'[h])
    <2>1. CASE h = g
      BY <1>1, <2>1
    <2>2. CASE h # g
      BY <1>1, <2>2 DEF GradingInv
    <2> QED
      BY <2>1, <2>2
  <1>2. ASSUME NEW h \in DOMAIN grader', grader'[h] # None PROVE TaskOK(grader[h])'
    BY <1>1, <1>2 DEF TaskOK
  <1> QED
    BY <1>2 DEF GradingInv

LEMMA RunAt ==
  ASSUME NEW list \in Seq(Runs), NEW k \in DOMAIN list
  PROVE  list[k] \in Runs /\ k \in Nat \ {0}
  <1>1. DOMAIN list = 1 .. Len(list) /\ Len(list) \in Nat
    OBVIOUS
  <1> QED
    BY <1>1

LEMMA OpenOK ==
  ASSUME GradingInv, NEW g \in DOMAIN grader, NEW k \in DOMAIN runs, NEW kind, NEW step, NEW copy,
         copy = runs \/ (copy = <<>> /\ step # "save runs"), Open(g, kind, k, step, copy)
  PROVE  GradingInv'
  <1> DEFINE t == [kind |-> kind, run |-> k, step |-> step, gates |-> GatesPassed(runs[k]),
                   runs |-> copy, pairs |-> <<>>]
  <1>1. /\ runs \in Seq(Runs) /\ Sound(runs)
        /\ careful => OrderedRuns(runs)
        /\ careful => k = Len(runs)
        /\ grader' = [grader EXCEPT ![g] = t] /\ UNCHANGED <<runs, pairs, careful>>
    BY DEF GradingInv, Open
  <1>2. k \in Nat \ {0} /\ GatesPassed(runs[k]) \in BOOLEAN
    <2>1. runs[k] \in Runs /\ k \in Nat \ {0}
      BY <1>1, RunAt
    <2>2. runs[k].delivered \in BOOLEAN /\ runs[k].settled \in BOOLEAN
      BY <2>1 DEF Runs
    <2> QED
      BY <2>1, <2>2 DEF GatesPassed, Completed
  <1>3. /\ copy \in Seq(Runs) /\ Sound(copy)
        /\ careful => OrderedRuns(copy) /\ (step = "save runs" => Len(copy) = k)
    BY <1>1, NothingGraded
  <1>4. OrderedPairs(<<>>) /\ DOMAIN <<>> \subseteq 1 .. k
    BY NothingGraded
  <1>5. TaskOK(t)
    BY <1>1, <1>2, <1>3, <1>4 DEF TaskOK
  <1> HIDE DEF t
  <1> QED
    BY <1>1, <1>5, OneTask

(* What a grader has read, and the step it is at.                                *)
LEMMA ReadOK ==
  ASSUME GradingInv, NEW t, TaskOK(t), NEW new, DOMAIN new = DOMAIN t,
         new = [kind |-> new.kind, run |-> new.run, step |-> new.step, gates |-> new.gates,
                runs |-> new.runs, pairs |-> new.pairs],
         new.run = t.run, new.gates = t.gates,
         \/ new.runs = runs \/ (new.runs = t.runs /\ new.step # "save runs")
         \/ new.runs = <<>> /\ new.step # "save runs",
         new.pairs = pairs \/ new.pairs = t.pairs
  PROVE  TaskOK(new)
  <1>1. /\ t.run \in Nat \ {0} /\ t.gates \in BOOLEAN /\ t.runs \in Seq(Runs) /\ Sound(t.runs)
        /\ careful => /\ t.run = Len(runs) /\ OrderedRuns(t.runs)
                      /\ OrderedPairs(t.pairs) /\ DOMAIN t.pairs \subseteq 1 .. t.run
    BY DEF TaskOK
  <1>2. /\ runs \in Seq(Runs) /\ Sound(runs)
        /\ careful => /\ OrderedRuns(runs) /\ OrderedPairs(pairs)
                      /\ DOMAIN pairs \subseteq 1 .. Len(runs)
    BY DEF GradingInv
  <1>3. /\ new.runs \in Seq(Runs) /\ Sound(new.runs)
        /\ careful => OrderedRuns(new.runs) /\ (new.step = "save runs" => Len(new.runs) = new.run)
    BY <1>1, <1>2, NothingGraded
  <1>4. careful => /\ new.run = Len(runs)
                   /\ OrderedPairs(new.pairs) /\ DOMAIN new.pairs \subseteq 1 .. new.run
    BY <1>1, <1>2
  <1> QED
    BY <1>1, <1>3, <1>4 DEF TaskOK

LEMMA LoadPairsOK ==
  ASSUME GradingInv, NEW g \in DOMAIN grader, LoadPairs(g) PROVE GradingInv'
  <1> DEFINE t == grader[g]
             new == [t EXCEPT !.step = "load runs", !.pairs = pairs]
  <1>1. /\ grader' = [grader EXCEPT ![g] = new] /\ UNCHANGED <<runs, pairs, careful>>
        /\ TaskOK(t)
    BY DEF LoadPairs, At, Resting, GradingInv
  <1>2. new = [kind |-> t.kind, run |-> t.run, step |-> "load runs", gates |-> t.gates,
               runs |-> t.runs, pairs |-> pairs] /\ DOMAIN new = DOMAIN t
    <2>1. t = [kind |-> t.kind, run |-> t.run, step |-> t.step, gates |-> t.gates,
               runs |-> t.runs, pairs |-> t.pairs]
      BY <1>1 DEF TaskOK
    <2> HIDE DEF t
    <2>2. t \in [kind : {t.kind}, run : {t.run}, step : {t.step}, gates : {t.gates},
                 runs : {t.runs}, pairs : {t.pairs}]
      BY <2>1
    <2>3. new \in [kind : {t.kind}, run : {t.run}, step : {"load runs"}, gates : {t.gates},
                   runs : {t.runs}, pairs : {pairs}] /\ DOMAIN new = DOMAIN t
      BY <2>2
    <2> HIDE DEF new
    <2> QED
      BY <2>3
  <1> HIDE DEF new
  <1>3. TaskOK(new)
    BY <1>1, <1>2, ReadOK
  <1> QED
    BY <1>1, <1>3, OneTask

LEMMA LoadRunsOK ==
  ASSUME GradingInv, NEW g \in DOMAIN grader, LoadRuns(g) PROVE GradingInv'
  <1> DEFINE t == grader[g]
             new == [t EXCEPT !.step = "save runs", !.runs = runs]
  <1>1. /\ grader' = [grader EXCEPT ![g] = new] /\ UNCHANGED <<runs, pairs, careful>>
        /\ TaskOK(t)
    BY DEF LoadRuns, At, Resting, GradingInv
  <1>2. new = [kind |-> t.kind, run |-> t.run, step |-> "save runs", gates |-> t.gates,
               runs |-> runs, pairs |-> t.pairs] /\ DOMAIN new = DOMAIN t
    <2>1. t = [kind |-> t.kind, run |-> t.run, step |-> t.step, gates |-> t.gates,
               runs |-> t.runs, pairs |-> t.pairs]
      BY <1>1 DEF TaskOK
    <2> HIDE DEF t
    <2>2. t \in [kind : {t.kind}, run : {t.run}, step : {t.step}, gates : {t.gates},
                 runs : {t.runs}, pairs : {t.pairs}]
      BY <2>1
    <2>3. new \in [kind : {t.kind}, run : {t.run}, step : {"save runs"}, gates : {t.gates},
                   runs : {runs}, pairs : {t.pairs}] /\ DOMAIN new = DOMAIN t
      BY <2>2
    <2> HIDE DEF new
    <2> QED
      BY <2>3
  <1> HIDE DEF new
  <1>3. TaskOK(new)
    BY <1>1, <1>2, ReadOK
  <1> QED
    BY <1>1, <1>3, OneTask

LEMMA SaveGradedOK ==
  ASSUME GradingInv, NEW g \in DOMAIN grader, SaveGraded(g) PROVE GradingInv'
  <1> DEFINE t == grader[g]
             new == [t EXCEPT !.step = "save pairs", !.runs = <<>>]
             next == IF t.kind = "grid" THEN None ELSE new
             list == Graded(t.runs, t.run, t.kind, t.gates)
  <1>1. /\ grader' = [grader EXCEPT ![g] = next] /\ runs' = list
        /\ UNCHANGED <<pairs, careful>> /\ TaskOK(t) /\ t.step = "save runs"
    BY DEF SaveGraded, At, Resting, GradingInv
  <1>2. new = [kind |-> t.kind, run |-> t.run, step |-> "save pairs", gates |-> t.gates,
               runs |-> <<>>, pairs |-> t.pairs] /\ DOMAIN new = DOMAIN t
    <2>1. t = [kind |-> t.kind, run |-> t.run, step |-> t.step, gates |-> t.gates,
               runs |-> t.runs, pairs |-> t.pairs]
      BY <1>1 DEF TaskOK
    <2> HIDE DEF t
    <2>2. t \in [kind : {t.kind}, run : {t.run}, step : {t.step}, gates : {t.gates},
                 runs : {t.runs}, pairs : {t.pairs}]
      BY <2>1
    <2>3. new \in [kind : {t.kind}, run : {t.run}, step : {"save pairs"}, gates : {t.gates},
                   runs : {<<>>}, pairs : {t.pairs}] /\ DOMAIN new = DOMAIN t
      BY <2>2
    <2> HIDE DEF new
    <2> QED
      BY <2>3
  <1>3. /\ t.run \in Nat \ {0} /\ t.gates \in BOOLEAN /\ t.runs \in Seq(Runs) /\ Sound(t.runs)
        /\ careful => /\ t.run = Len(runs) /\ OrderedRuns(t.runs) /\ Len(t.runs) = t.run
    BY <1>1 DEF TaskOK
  <1> HIDE DEF new
  <1>4. TaskOK(new)
    BY <1>1, <1>2, ReadOK
  <1>5. next # None => TaskOK(next)
    BY <1>4
  <1>6. /\ list \in Seq(Runs) /\ Sound(list) /\ Len(list) = Len(t.runs)
        /\ OrderedRuns(t.runs) /\ t.run = Len(t.runs) => OrderedRuns(list)
    BY <1>3, GradedOK
  <1>7. careful => /\ Len(runs') = Len(runs) /\ OrderedRuns(runs')
                   /\ OrderedPairs(pairs') /\ DOMAIN pairs' \subseteq 1 .. Len(runs)
    <2> HIDE DEF list
    <2> QED
      BY <1>1, <1>3, <1>6 DEF GradingInv
  <1> HIDE DEF next, list
  <1> QED
    BY <1>1, <1>5, <1>6, <1>7, OneSave

LEMMA SaveReconciledOK ==
  ASSUME GradingInv, NEW g \in DOMAIN grader, SaveReconciled(g) PROVE GradingInv'
  <1> DEFINE t == grader[g]
             list == t.runs
             k == t.run
  <1>1. /\ grader' = [grader EXCEPT ![g] = None]
        /\ UNCHANGED <<pairs, careful>> /\ TaskOK(t) /\ t.step = "save runs"
    BY DEF SaveReconciled, At, Resting, GradingInv
  <1>2. PICK delivered \in BOOLEAN, settled \in BOOLEAN :
          runs' = [list EXCEPT ![k] =
                    [[list[k] EXCEPT !.delivered = @ \/ delivered, !.settled = @ \/ settled]
                     EXCEPT !.number = FirstNumber(list, k,
                        [list[k] EXCEPT !.delivered = @ \/ delivered, !.settled = @ \/ settled])]]
    BY DEF SaveReconciled
  <1>3. /\ k \in Nat \ {0} /\ list \in Seq(Runs) /\ Sound(list)
        /\ careful => /\ k = Len(runs) /\ OrderedRuns(list) /\ Len(list) = k
    BY <1>1 DEF TaskOK
  <1> DEFINE run == [list[k] EXCEPT !.delivered = @ \/ delivered, !.settled = @ \/ settled]
             new == [j \in DOMAIN list |->
                       IF j = k THEN [run EXCEPT !.number = FirstNumber(list, k, run)] ELSE list[j]]
  <1>4. ASSUME k \in DOMAIN list PROVE run \in Runs
    <2>1. list[k] \in Runs
      BY <1>3, <1>4, RunAt
    <2> QED
      BY <2>1, MovedOn
  <1>5. runs' = new
    BY <1>2
  <1> HIDE DEF run, list, k
  <1>6. /\ new \in Seq(Runs) /\ Sound(new) /\ Len(new) = Len(list)
        /\ OrderedRuns(list) /\ k = Len(list) => OrderedRuns(new)
    BY <1>3, <1>4, ReconciledOK
  <1> HIDE DEF new
  <1>7. careful => /\ Len(runs') = Len(runs) /\ OrderedRuns(runs')
                   /\ OrderedPairs(pairs') /\ DOMAIN pairs' \subseteq 1 .. Len(runs)
    BY <1>1, <1>3, <1>5, <1>6 DEF GradingInv
  <1> QED
    BY <1>1, <1>5, <1>6, <1>7, OneSave

LEMMA SavePairsOK ==
  ASSUME GradingInv, NEW g \in DOMAIN grader, SavePairs(g) PROVE GradingInv'
  <1> DEFINE t == grader[g]
             stored == t.pairs
             k == t.run
  <1>1. /\ grader' = [grader EXCEPT ![g] = None] /\ TaskOK(t)
        /\ pairs' = [j \in DOMAIN stored \cup {k} |->
                        IF j = k THEN CandidateNumber(stored, k) ELSE stored[j]]
        /\ UNCHANGED <<runs, careful>>
    BY DEF SavePairs, At, Resting, GradingInv
  <1>2. /\ k \in Nat \ {0}
        /\ careful => /\ k = Len(runs) /\ OrderedPairs(stored) /\ DOMAIN stored \subseteq 1 .. k
    BY <1>1 DEF TaskOK
  <1> HIDE DEF stored, k
  <1>3. careful => OrderedPairs(pairs') /\ DOMAIN pairs' \subseteq 1 .. k
    BY <1>1, <1>2, PairAdded
  <1>4. /\ runs' \in Seq(Runs) /\ Sound(runs')
        /\ careful => /\ Len(runs') = Len(runs) /\ OrderedRuns(runs')
                      /\ OrderedPairs(pairs') /\ DOMAIN pairs' \subseteq 1 .. Len(runs)
    BY <1>1, <1>2, <1>3 DEF GradingInv
  <1> QED
    BY <1>1, <1>4, OneSave

LEMMA KillGraderOK ==
  ASSUME GradingInv, NEW g \in DOMAIN grader, KillGrader(g) PROVE GradingInv'
  BY OneTask DEF KillGrader

(* A grader's step leaves the hires as they are.                                 *)
LEMMA HirersStay ==
  ASSUME HirersOK, hirer' = hirer, careful' = careful, DOMAIN grader' = DOMAIN grader,
         careful => Hiring = {}
  PROVE  HirersOK'
  <1>1. \A i \in DOMAIN hirer : hirer[i] # None => HireOK(hirer[i])'
    <2>1. SUFFICES ASSUME NEW i \in DOMAIN hirer, hirer[i] # None PROVE HireOK(hirer[i])'
      OBVIOUS
    <2>2. HireOK(hirer[i]) /\ ~ careful
      BY <2>1 DEF HirersOK, Hiring
    <2> QED
      BY <2>2, HireStays
  <1> QED
    BY <1>1 DEF HirersOK, Hiring

(* One step of one grader.                                                       *)
GraderStep(g) ==
    \/ \E k \in DOMAIN runs : StartGrading(g, k) \/ StartReconcile(g, k)
    \/ LoadPairs(g) \/ LoadRuns(g) \/ SaveGraded(g) \/ SaveReconciled(g)
    \/ SavePairs(g) \/ KillGrader(g)

LEMMA GraderStepOK ==
  ASSUME GradingInv, HirersOK, NEW g \in DOMAIN grader, GraderStep(g)
  PROVE  GradingInv' /\ HirersOK'
  <1>1. /\ hirer' = hirer /\ careful' = careful /\ DOMAIN grader' = DOMAIN grader
    BY DEF GraderStep, StartGrading, StartReconcile, Open, LoadPairs, LoadRuns, SaveGraded,
           SaveReconciled, SavePairs, KillGrader
  <1>2. careful => Hiring = {}
    <2>1. CASE Resting(g)
      BY <2>1 DEF GraderStep, StartGrading, StartReconcile, Open, LoadPairs, LoadRuns, SaveGraded,
                  SaveReconciled, SavePairs, KillGrader, At
    <2>2. CASE ~ Resting(g)
      BY <2>2 DEF HirersOK
    <2> QED
      BY <2>1, <2>2
  <1>3. HirersOK'
    BY <1>1, <1>2, HirersStay
  <1>4. ASSUME NEW k \in DOMAIN runs, StartGrading(g, k) PROVE GradingInv'
    <2>1. (IF runs[k].family = "grid" THEN "load runs" ELSE "load pairs") # "save runs"
      OBVIOUS
    <2> QED
      BY <1>4, <2>1, OpenOK DEF StartGrading
  <1>5. ASSUME NEW k \in DOMAIN runs, StartReconcile(g, k) PROVE GradingInv'
    BY <1>5, OpenOK DEF StartReconcile
  <1>6. CASE \/ LoadPairs(g) \/ LoadRuns(g) \/ SaveGraded(g) \/ SaveReconciled(g)
             \/ SavePairs(g) \/ KillGrader(g)
    <2>1. GradingInv'
      BY <1>6, LoadPairsOK, LoadRunsOK, SaveGradedOK, SaveReconciledOK, SavePairsOK, KillGraderOK
    <2> QED
      BY <1>3, <2>1
  <1> QED
    BY <1>3, <1>4, <1>5, <1>6 DEF GraderStep

HireStep(h) == StartHire(h) \/ LoadForAppend(h) \/ SaveRun(h) \/ KillHire(h)

LEMMA GradingSteps ==
  GradingNext => (\E h \in DOMAIN hirer : HireStep(h)) \/ \E g \in DOMAIN grader : GraderStep(g)
  BY DEF GradingNext, HireStep, GraderStep

LEMMA GradingNextOK ==
  GradingInv /\ HirersOK /\ [GradingNext]_gradeVars => GradingInv' /\ HirersOK'
  <1> SUFFICES ASSUME GradingInv, HirersOK, [GradingNext]_gradeVars PROVE GradingInv' /\ HirersOK'
    OBVIOUS
  <1>1. CASE UNCHANGED gradeVars
    <2>1. UNCHANGED <<runs, pairs, hirer, grader, careful>>
      BY <1>1 DEF gradeVars
    <2>2. \A i \in DOMAIN hirer : hirer[i] # None => HireOK(hirer[i])'
      BY <2>1, HireStays DEF HirersOK
    <2> QED
      BY <2>1, <2>2, StaysInv DEF HirersOK, Hiring, Resting
  <1>2. ASSUME NEW h \in DOMAIN hirer, HireStep(h) PROVE GradingInv' /\ HirersOK'
    BY <1>2, StartHireOK, LoadForAppendOK, SaveRunOK, KillHireOK DEF HireStep
  <1>3. ASSUME NEW g \in DOMAIN grader, GraderStep(g) PROVE GradingInv' /\ HirersOK'
    BY <1>3, GraderStepOK
  <1> QED
    BY <1>1, <1>2, <1>3, GradingSteps

LEMMA GradingHolds == GradingInv => VerifiedInOrder
  BY DEF GradingInv, VerifiedInOrder, Sound, OrderedRuns, OrderedPairs, UpTo

(* ------------------------- who has read last writes ---------------------- *)

(* The document is written: nobody has read it since.                            *)
LEMMA AllBehind ==
  ASSUME behind' = Processes, DOMAIN hirer' = DOMAIN hirer, DOMAIN grader' = DOMAIN grader
  PROVE  Fresh'
  BY DEF Processes, Fresh

LEMMA HirerFresh ==
  ASSUME HirersOK, Fresh, NEW h \in DOMAIN hirer, HireStep(h)
  PROVE  Fresh'
  <1>1. DOMAIN hirer \cap DOMAIN grader = {}
    BY ProcessesAssumption DEF HirersOK
  <1>2. CASE SaveRun(h)
    BY <1>2, AllBehind DEF SaveRun
  <1>3. CASE StartHire(h) \/ KillHire(h)
    <2>1. PICK t : hirer' = [hirer EXCEPT ![h] = t] /\ (t = None \/ t.step # "save runs")
      BY <1>3 DEF StartHire, KillHire
    <2> QED
      BY <1>3, <2>1 DEF StartHire, KillHire, Fresh
  <1>4. CASE LoadForAppend(h)
    <2>1. PICK t : /\ hirer' = [hirer EXCEPT ![h] = t] /\ t.runs = runs
                   /\ behind' = behind \ {h} /\ UNCHANGED <<runs, grader>>
      <3>1. HireOK(hirer[h])
        BY <1>4 DEF LoadForAppend, HirersOK
      <3>2. [hirer[h] EXCEPT !.step = "save runs", !.runs = runs].runs = runs
        BY <3>1 DEF HireOK
      <3> QED
        BY <1>4, <3>2 DEF LoadForAppend
    <2> QED
      BY <1>1, <2>1 DEF Fresh
  <1> QED
    BY <1>2, <1>3, <1>4 DEF HireStep

LEMMA GraderFresh ==
  ASSUME GradingInv, HirersOK, Fresh, NEW g \in DOMAIN grader, GraderStep(g)
  PROVE  Fresh'
  <1>1. DOMAIN hirer \cap DOMAIN grader = {}
    BY ProcessesAssumption DEF HirersOK
  <1>2. CASE SaveGraded(g) \/ SaveReconciled(g)
    BY <1>2, AllBehind DEF SaveGraded, SaveReconciled
  <1>3. ASSUME NEW k \in DOMAIN runs, StartGrading(g, k) PROVE Fresh'
    <2>1. PICK step : step = IF runs[k].family = "grid" THEN "load runs" ELSE "load pairs"
      OBVIOUS
    <2>2. step # "save runs" /\ Open(g, runs[k].family, k, step, <<>>)
      BY <1>3, <2>1 DEF StartGrading
    <2>3. PICK t : grader' = [grader EXCEPT ![g] = t] /\ t.step = step
      <3> DEFINE u == [kind |-> runs[k].family, run |-> k, step |-> step,
                       gates |-> GatesPassed(runs[k]), runs |-> <<>>, pairs |-> <<>>]
      <3>1. grader' = [grader EXCEPT ![g] = u]
        BY <2>2 DEF Open
      <3>2. u.step = step
        OBVIOUS
      <3> HIDE DEF u
      <3> QED
        BY <3>1, <3>2
    <2> QED
      <3>1. UNCHANGED <<runs, hirer, behind>>
        BY <1>3 DEF StartGrading, Open
      <3> QED
        BY <2>2, <2>3, <3>1 DEF Fresh
  <1>4. ASSUME NEW k \in DOMAIN runs, StartReconcile(g, k) PROVE Fresh'
    <2>1. PICK t : grader' = [grader EXCEPT ![g] = t] /\ t.runs = runs
      <3> DEFINE u == [kind |-> "reconcile", run |-> k, step |-> "save runs",
                       gates |-> GatesPassed(runs[k]), runs |-> runs, pairs |-> <<>>]
      <3>1. grader' = [grader EXCEPT ![g] = u]
        BY <1>4 DEF StartReconcile, Open
      <3>2. u.runs = runs
        OBVIOUS
      <3> HIDE DEF u
      <3> QED
        BY <3>1, <3>2
    <2> QED
      BY <1>1, <1>4, <2>1 DEF StartReconcile, Open, Fresh
  <1>5. CASE LoadPairs(g) \/ SavePairs(g) \/ KillGrader(g)
    <2>1. PICK t : grader' = [grader EXCEPT ![g] = t] /\ (t = None \/ t.step # "save runs")
      <3>1. ASSUME LoadPairs(g) PROVE [grader[g] EXCEPT !.step = "load runs", !.pairs = pairs].step
                                        # "save runs"
        <4>1. TaskOK(grader[g])
          BY <3>1 DEF LoadPairs, At, Resting, GradingInv
        <4> QED
          BY <4>1 DEF TaskOK
      <3> QED
        BY <1>5, <3>1 DEF LoadPairs, SavePairs, KillGrader
    <2> QED
      BY <1>5, <2>1 DEF LoadPairs, SavePairs, KillGrader, Fresh
  <1>6. CASE LoadRuns(g)
    <2>1. PICK t : /\ grader' = [grader EXCEPT ![g] = t] /\ t.runs = runs
                   /\ behind' = behind \ {g} /\ UNCHANGED <<runs, hirer>>
      <3>1. TaskOK(grader[g])
        BY <1>6 DEF LoadRuns, At, Resting, GradingInv
      <3>2. [grader[g] EXCEPT !.step = "save runs", !.runs = runs].runs = runs
        BY <3>1 DEF TaskOK
      <3> QED
        BY <1>6, <3>2 DEF LoadRuns
    <2> QED
      BY <1>1, <2>1 DEF Fresh
  <1> QED
    BY <1>2, <1>3, <1>4, <1>5, <1>6 DEF GraderStep

LEMMA FreshOK == GradingInv /\ HirersOK /\ Fresh /\ [GradingNext]_gradeVars => Fresh'
  <1> SUFFICES ASSUME GradingInv, HirersOK, Fresh, [GradingNext]_gradeVars PROVE Fresh'
    OBVIOUS
  <1>1. CASE UNCHANGED gradeVars
    BY <1>1 DEF gradeVars, Fresh
  <1>2. CASE GradingNext
    BY <1>2, GradingSteps, HirerFresh, GraderFresh
  <1> QED
    BY <1>1, <1>2

(* What is stored of the runs of a list stays in the other.                      *)
Keeps(old, new) ==
    \A k \in DOMAIN old :
        /\ k \in DOMAIN new
        /\ new[k].family = old[k].family
        /\ old[k].delivered => new[k].delivered
        /\ old[k].settled => new[k].settled
        /\ old[k].graded => new[k].graded

LEMMA SaveKeeps ==
  ASSUME GradingInv, HirersOK, Fresh, GradingNext, Informed
  PROVE  Keeps(runs, runs')
  <1>0. runs \in Seq(Runs)
    BY DEF GradingInv
  <1>1. ASSUME NEW h \in DOMAIN hirer, SaveRun(h) PROVE Keeps(runs, runs')
    <2>1. h \notin behind
      BY <1>1 DEF SaveRun, Informed
    <2>2. hirer[h].runs = runs
      BY <1>1, <2>1 DEF SaveRun, Fresh
    <2>3. runs' = Append(runs, hirer[h].run) /\ hirer[h].run \in Runs
      BY <1>1, <2>2 DEF SaveRun, HirersOK, HireOK
    <2> QED
      BY <1>0, <2>3 DEF Keeps
  <1>2. ASSUME NEW g \in DOMAIN grader, SaveGraded(g) PROVE Keeps(runs, runs')
    <2>1. g \notin behind
      <3>1. TaskOK(grader[g]) /\ grader[g].step = "save runs" /\ grader[g] # None
        BY <1>2 DEF SaveGraded, At, Resting, GradingInv
      <3>2. [grader[g] EXCEPT !.step = "save pairs", !.runs = <<>>].step = "save pairs"
        BY <3>1 DEF TaskOK
      <3>3. grader'[g] # grader[g]
        BY <1>2, <3>1, <3>2 DEF SaveGraded
      <3> QED
        BY <3>3 DEF Informed
    <2>2. grader[g].runs = runs
      BY <1>2, <2>1 DEF SaveGraded, At, Resting, Fresh
    <2>3. runs' = Graded(runs, grader[g].run, grader[g].kind, grader[g].gates)
      BY <1>2, <2>2 DEF SaveGraded
    <2>4. \A k \in DOMAIN runs : runs[k] \in Runs
      BY <1>0
    <2> QED
      BY <2>3, <2>4 DEF Graded, Keeps, Runs
  <1>3. ASSUME NEW g \in DOMAIN grader, SaveReconciled(g) PROVE Keeps(runs, runs')
    <2>1. g \notin behind
      BY <1>3 DEF SaveReconciled, At, Resting, Informed
    <2>2. grader[g].runs = runs
      BY <1>3, <2>1 DEF SaveReconciled, At, Resting, Fresh
    <2>3. PICK k, run : k = grader[g].run /\ run = runs[k]
      OBVIOUS
    <2>4. PICK delivered \in BOOLEAN, settled \in BOOLEAN :
            runs' = [runs EXCEPT ![k] =
              [[run EXCEPT !.delivered = @ \/ delivered, !.settled = @ \/ settled]
               EXCEPT !.number = FirstNumber(runs, k,
                  [run EXCEPT !.delivered = @ \/ delivered, !.settled = @ \/ settled])]]
      BY <1>3, <2>2, <2>3 DEF SaveReconciled
    <2>5. \A j \in DOMAIN runs : runs[j] \in Runs
      BY <1>0
    <2> QED
      BY <2>3, <2>4, <2>5 DEF Keeps, Runs
  <1>4. CASE runs' = runs
    BY <1>4 DEF Keeps
  <1>5. ASSUME NEW h \in DOMAIN hirer, HireStep(h) PROVE SaveRun(h) \/ runs' = runs
    BY <1>5 DEF HireStep, StartHire, LoadForAppend, KillHire
  <1>6. ASSUME NEW g \in DOMAIN grader, GraderStep(g)
        PROVE  SaveGraded(g) \/ SaveReconciled(g) \/ runs' = runs
    BY <1>6 DEF GraderStep, StartGrading, StartReconcile, Open, LoadPairs, LoadRuns, SavePairs,
                KillGrader
  <1> QED
    BY <1>1, <1>2, <1>3, <1>4, <1>5, <1>6, GradingSteps

LEMMA GradingPartSteps == [DeskNext]_deskVars => [GradingNext]_gradeVars
  BY DEF DeskNext, deskVars, GridPart, LeashPart, ProofPart, FleetPart, LimitPart, RegistryPart,
         RangePart, ScoutPart, GradingPart

LEMMA GradingInvariant == DeskSpec => [](GradingInv /\ HirersOK /\ Fresh)
  <1>1. DeskInit => GradingInv /\ HirersOK /\ Fresh
    BY GradingInitOK DEF DeskInit, GradingInit, HirersOK, Fresh, Hiring
  <1> QED
    BY <1>1, GradingNextOK, FreshOK, GradingPartSteps, PTL DEF DeskSpec

(* For any number of runs and of graders that die and are started again,     *)
(* Verified Runs are numbered in the order of their hires while only the     *)
(* newest is graded and hires end while nothing else runs, and a Verified Run *)
(* was always completed on chain (verifiedRunNumber,                         *)
(* termixCandidateQualification).                                            *)
THEOREM RunsAreNumberedInOrder == DeskSpec => []VerifiedInOrder
  BY GradingInvariant, GradingHolds, PTL

(* For any number of hires, graders and reconciliations at once: a step loses *)
(* a run, or what was seen of one, only if its process read the runs before   *)
(* another wrote them (appendJsonArray).                                     *)
THEOREM RunsStay == DeskSpec => RunsKept
  <1>1. GradingInv /\ HirersOK /\ Fresh /\ [GradingNext]_gradeVars
        => [Informed => Keeps(runs, runs')]_gradeVars
    BY SaveKeeps
  <1>2. GradingInv /\ HirersOK /\ Fresh /\ [DeskNext]_deskVars
        => [Informed =>
              \A k \in DOMAIN runs :
                  /\ k \in DOMAIN runs'
                  /\ runs'[k].family = runs[k].family
                  /\ runs[k].delivered => runs'[k].delivered
                  /\ runs[k].settled => runs'[k].settled
                  /\ runs[k].graded => runs'[k].graded ]_gradeVars
    BY <1>1, GradingPartSteps DEF Keeps
  <1> QED
    BY <1>2, GradingInvariant, PTL DEF DeskSpec, RunsKept

=============================================================================
