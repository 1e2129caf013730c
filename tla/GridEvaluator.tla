----------------------------- MODULE GridEvaluator -----------------------------
(***************************************************************************)
(* The ground truth of GridBench, computed from the frozen specification of a *)
(* scenario and not by the engine: another ledger, another order of checks.   *)
(* Only arithmetic grids with a reference price have one.                    *)
(***************************************************************************)
EXTENDS Integers, Sequences, FiniteSets

CONSTANT None

TruthPrice(p, i) == p.lower + ((p.upper - p.lower) * i) \div (p.count - 1)

TruthSide(p, i) == IF TruthPrice(p, i) < p.reference THEN "BUY" ELSE "SELL"

(* One pass over the fills, with the time of the latest one.                  *)
TruthLedger(fills) ==
    LET Later(t, u) == IF t = None \/ u > t THEN u ELSE t
        Signed(f, n) == IF f.side = "BUY" THEN n ELSE 0 - n
        after[k \in 0 .. Len(fills)] ==
            IF k = 0 THEN [count |-> 0, spent |-> 0, base |-> 0, last |-> None]
            ELSE LET f == fills[k]
                     before == after[k - 1]
                 IN  IF f.state # "FILLED" THEN before
                     ELSE [count |-> before.count + 1,
                           spent |-> before.spent + Signed(f, f.quote),
                           base |-> before.base + Signed(f, f.base),
                           last |-> Later(before.last, f.at)]
    IN  after[Len(fills)]

TruthAllocation(p) ==
    LET buys == Cardinality({i \in 0 .. p.count - 1 : TruthSide(p, i) = "BUY"})
        share == p.total \div buys
    IN  IF p.maxPerLevel # None /\ p.maxPerLevel < share THEN p.maxPerLevel ELSE share

(* The first of the reasons that holds.                                      *)
FirstReason(checks) ==
    LET holding == {k \in DOMAIN checks : checks[k][1]}
    IN  IF holding = {} THEN None
        ELSE checks[CHOOSE k \in holding : \A j \in holding : k <= j][2]

AuthorityReasons(p, i, fills, now, revoked) ==
    << <<p.expiry <= now, "strategy_expired">>,
       <<revoked, "authority_revoked">>,
       <<i < 0 \/ i >= p.count, "level_not_in_strategy">>,
       <<\E k \in DOMAIN fills : fills[k].level = i /\ fills[k].state = "FILLED",
         "level_already_filled">> >>

PriceReasons(p, i, ob, now) ==
    << <<ob.chain # p.chain, "chain_does_not_match_the_strategy">>,
       <<ob.pair # p.pair, "pair_does_not_match_the_strategy">>,
       <<now - ob.at > p.maxAge \/ now < ob.at, "price_observation_is_too_old">>,
       <<~ (\/ TruthSide(p, i) = "BUY" /\ ob.price <= TruthPrice(p, i)
            \/ TruthSide(p, i) = "SELL" /\ ob.price >= TruthPrice(p, i)),
         "price_has_not_reached_this_level">> >>

BudgetReasons(p, i, now, ledger) ==
    << <<p.maxFills # None /\ ledger.count >= p.maxFills, "maximum_fill_count_reached">>,
       <<p.cooldown > 0 /\ ledger.last # None /\ now - ledger.last < p.cooldown,
         "cooldown_has_not_elapsed">>,
       <<TruthSide(p, i) = "BUY" /\ ledger.spent + TruthAllocation(p) > p.total,
         "total_capital_cap_would_be_exceeded">>,
       <<TruthSide(p, i) = "SELL" /\ ledger.base <= 0, "not_enough_inventory_to_sell">> >>

CallReasons(p, call) ==
    IF call = None THEN <<>>
    ELSE << <<call.to \notin p.contracts, "target_contract_is_not_allowed">>,
            <<call.method \notin p.methods, "method_is_not_allowed">>,
            <<call.quoted < call.least, "quoted_output_is_below_the_minimum">> >>

(* groundTruthDecision: the reason of a refusal, None when allowed.           *)
TruthRefusal(p, i, ob, fills, now, revoked, call) ==
    LET authority == FirstReason(AuthorityReasons(p, i, fills, now, revoked))
    IN  IF authority # None THEN authority
        ELSE IF ob = None THEN "no_price_observation"
        ELSE FirstReason(PriceReasons(p, i, ob, now) \o
                         BudgetReasons(p, i, now, TruthLedger(fills)) \o
                         CallReasons(p, call))

(* gradeGridBenchResponse, a decision scenario: verdict and reason both match. *)
DecisionPasses(answer, truth) == answer = truth

LevelsPass(given, p) ==
    /\ DOMAIN given = 0 .. p.count - 1
    /\ \A i \in DOMAIN given : i > 0 => given[i].price > given[i - 1].price
    /\ \A i \in DOMAIN given :
        given[i] = [price |-> TruthPrice(p, i), side |-> TruthSide(p, i)]

LedgerPasses(given, fills) ==
    LET truth == TruthLedger(fills)
    IN  /\ given.count = truth.count
        /\ given.spent = truth.spent
        /\ given.base = truth.base

=============================================================================
