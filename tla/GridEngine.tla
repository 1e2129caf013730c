------------------------------ MODULE GridEngine ------------------------------
(***************************************************************************)
(* The arithmetic and the decisions of a grid strategy.  Prices, amounts and  *)
(* times are integers.                                                       *)
(*                                                                          *)
(* A definition whose comment starts with "Slip:" is not part of the system. *)
(***************************************************************************)
EXTENDS Absent, Integers, Sequences, FiniteSets

StrategyStates ==
    {"CREATED", "ARMED", "ACTIVE", "EXPIRED", "REVOKED", "COMPLETED", "FAILED"}

TerminalStates == {"EXPIRED", "REVOKED", "COMPLETED", "FAILED"}

(* No terminal state is left again.                                          *)
MayMove(s, next) == s.state \notin TerminalStates /\ next \in StrategyStates

(* ------------------------------- the levels ------------------------------ *)

LevelIds(p) == 0 .. p.count - 1

Arithmetic(p, i) == p.lower + ((p.upper - p.lower) * i) \div (p.count - 1)

(* lower * (upper / lower) ^ (i / n), rounded to the nearest integer.         *)
Geometric(p, i) ==
    LET n == p.count - 1
        power == 2 ^ n * p.lower ^ (n - i) * p.upper ^ i
    IN  CHOOSE m \in p.lower .. p.upper :
            (2 * m - 1) ^ n <= power /\ power < (2 * m + 1) ^ n

LevelPrice(p, i) ==
    IF p.spacing = "arithmetic" THEN Arithmetic(p, i) ELSE Geometric(p, i)

Middle(p) == IF p.reference = None THEN (p.lower + p.upper) \div 2 ELSE p.reference

Side(p, i) == IF LevelPrice(p, i) < Middle(p) THEN "BUY" ELSE "SELL"

BuyLevels(p) == {i \in LevelIds(p) : Side(p, i) = "BUY"}

(* Slip: the capital is shared out rounding up.                              *)
ShareUp(p) ==
    LET n == Cardinality(BuyLevels(p))
    IN  IF n = 0 THEN 0
        ELSE LET share == (p.total + n - 1) \div n
             IN  IF p.maxPerLevel = None \/ share < p.maxPerLevel THEN share ELSE p.maxPerLevel

(* The remainder of the division is dropped.                                 *)
PerLevel(p) ==
    LET n == Cardinality(BuyLevels(p))
    IN  IF n = 0 THEN 0
        ELSE LET share == p.total \div n
             IN  IF p.maxPerLevel = None \/ share < p.maxPerLevel THEN share ELSE p.maxPerLevel

Allocation(p, i) == IF Side(p, i) = "BUY" THEN PerLevel(p) ELSE 0

(* What createStrategy does not throw on.                                    *)
Accepted(p) ==
    /\ p.lower > 0
    /\ p.lower < p.upper
    /\ \A i \in LevelIds(p) \ {0} : LevelPrice(p, i) > LevelPrice(p, i - 1)
    /\ p.total > 0
    /\ BuyLevels(p) # {} => PerLevel(p) > 0

(* ------------------------------- the ledger ------------------------------ *)

Amount(fill, field) == IF fill.side = "BUY" THEN fill[field] ELSE 0 - fill[field]

Sum(fills, field) ==
    LET sum[k \in 0 .. Len(fills)] ==
            IF k = 0 THEN 0
            ELSE sum[k - 1] + (IF fills[k].state = "FILLED" THEN Amount(fills[k], field) ELSE 0)
    IN  sum[Len(fills)]

Applied(fills) == {k \in DOMAIN fills : fills[k].state = "FILLED"}

(* Derived from the fills.  What is spent is net: a sale gives it back.       *)
Ledger(fills) ==
    LET at == {fills[k].at : k \in Applied(fills)}
    IN  [count |-> Cardinality(Applied(fills)),
         levels |-> {fills[k].level : k \in Applied(fills)},
         spent |-> Sum(fills, "quote"),
         base |-> Sum(fills, "base"),
         last |-> IF at = {} THEN None ELSE CHOOSE t \in at : \A u \in at : u <= t]

(* ------------------------------ the decision ----------------------------- *)

GridRefusals ==
    {"strategy_is_not_active", "strategy_expired", "authority_revoked", "level_not_in_strategy",
     "level_already_filled", "price_has_not_reached_this_level",
     "total_capital_cap_would_be_exceeded", "maximum_fill_count_reached",
     "cooldown_has_not_elapsed", "price_observation_is_too_old", "no_price_observation",
     "quoted_output_is_below_the_minimum", "pair_does_not_match_the_strategy",
     "chain_does_not_match_the_strategy", "target_contract_is_not_allowed",
     "method_is_not_allowed", "side_does_not_match_the_level", "not_enough_inventory_to_sell"}

ASSUME NullAssumption == None \notin GridRefusals \cup Int

(* The reason of the first check that fails.                                 *)
FirstOf(checks) ==
    LET failing == {k \in DOMAIN checks : checks[k][1]}
    IN  IF failing = {} THEN None
        ELSE checks[CHOOSE k \in failing : \A j \in failing : k <= j][2]

Triggered(s, i, price) ==
    IF Side(s, i) = "BUY" THEN price <= LevelPrice(s, i) ELSE price >= LevelPrice(s, i)

Gate(s, i, now, authority, ledger) ==
    << <<s.state # "ACTIVE", "strategy_is_not_active">>,
       <<s.expiry <= now, "strategy_expired">>,
       <<authority # None /\ authority.revoked, "authority_revoked">>,
       <<authority # None /\ authority.expiry # None /\ authority.expiry <= now, "strategy_expired">>,
       <<i \notin LevelIds(s), "level_not_in_strategy">>,
       <<i \in ledger.levels, "level_already_filled">> >>

(* Equality counts as reached; an observation of the future is as bad as an   *)
(* old one.                                                                  *)
MarketChecks(s, i, ob, now) ==
    << <<ob.chain # None /\ ob.chain # s.chain, "chain_does_not_match_the_strategy">>,
       <<ob.pair # None /\ ob.pair # s.pair, "pair_does_not_match_the_strategy">>,
       <<now - ob.at > s.maxAge \/ now < ob.at, "price_observation_is_too_old">>,
       <<~ Triggered(s, i, ob.price), "price_has_not_reached_this_level">> >>

(* Slip: anything but an empty inventory may be sold.                        *)
BudgetChecksLoose(s, i, now, ledger) ==
    << <<s.maxFills # None /\ ledger.count >= s.maxFills, "maximum_fill_count_reached">>,
       <<s.cooldown > 0 /\ ledger.last # None /\ now - ledger.last < s.cooldown,
         "cooldown_has_not_elapsed">>,
       <<Side(s, i) = "BUY" /\ ledger.spent + Allocation(s, i) > s.total,
         "total_capital_cap_would_be_exceeded">>,
       <<Side(s, i) = "SELL" /\ ledger.base < 0, "not_enough_inventory_to_sell">> >>

(* An allocation is never above the cap per level (PerLevel).                 *)
BudgetChecks(s, i, now, ledger) ==
    << <<s.maxFills # None /\ ledger.count >= s.maxFills, "maximum_fill_count_reached">>,
       <<s.cooldown > 0 /\ ledger.last # None /\ now - ledger.last < s.cooldown,
         "cooldown_has_not_elapsed">>,
       <<Side(s, i) = "BUY" /\ ledger.spent + Allocation(s, i) > s.total,
         "total_capital_cap_would_be_exceeded">>,
       <<Side(s, i) = "SELL" /\ ledger.base <= 0, "not_enough_inventory_to_sell">> >>

CallChecks(s, i, call) ==
    << <<call.to \notin s.contracts, "target_contract_is_not_allowed">>,
       <<call.method \notin s.methods, "method_is_not_allowed">>,
       <<call.side # None /\ call.side # Side(s, i), "side_does_not_match_the_level">>,
       <<call.quoted < call.least, "quoted_output_is_below_the_minimum">> >>

(* evaluateLevel: the reason why level i may not act, None if it may.         *)
Refusal(s, i, ob, fills, now, authority, call) ==
    LET ledger == Ledger(fills)
        gate == FirstOf(Gate(s, i, now, authority, ledger))
    IN  IF gate # None THEN gate
        ELSE IF ob = None THEN "no_price_observation"
        ELSE FirstOf(MarketChecks(s, i, ob, now) \o BudgetChecks(s, i, now, ledger) \o
                     (IF call = None THEN <<>> ELSE CallChecks(s, i, call)))

(* evaluateStrategy: the levels that may act; one acts, the lowest.           *)
Eligible(s, ob, fills, now, authority) ==
    {i \in LevelIds(s) : Refusal(s, i, ob, fills, now, authority, None) = None}

NextAction(s, ob, fills, now, authority) ==
    LET may == Eligible(s, ob, fills, now, authority)
    IN  IF may = {} THEN None ELSE CHOOSE i \in may : \A j \in may : i <= j

BasisPoints == 10000

MinimumOut(quoted, slippage) == (quoted * (BasisPoints - slippage)) \div BasisPoints

=============================================================================
