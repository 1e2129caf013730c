------------------------------ MODULE YieldScout ------------------------------
(***************************************************************************)
(* The Yield Scout and a holder who follows its advice: markets with a rate,  *)
(* the price of getting from one to another, the advice for a snapshot, and   *)
(* the record in which the advice is scored against a later snapshot.         *)
(*                                                                          *)
(* Returns over the horizon, prices and costs are in basis points of the      *)
(* position; liquidity is in multiples of it.                                *)
(*                                                                          *)
(* A definition whose comment starts with "Slip:" is not part of the system. *)
(***************************************************************************)
EXTENDS Absent, Integers, Sequences, FiniteSets

CONSTANTS
    Rates,          \* the markets: return over the horizon and price of the asset, in order
    Terms,          \* what a market offers: the fee of the best route (or None) and its cash
    GasCost,        \* the gas of the declared steps
    MaxMoves,       \* a bound on the moves of the holder
    LastBlock       \* a bound on the changes of the venue

(* The markets, what they offer and the block of a snapshot.                   *)
Venues ==
    [rates : Rates, terms : UNION {[DOMAIN rates -> Terms] : rates \in Rates}, block : Nat]

ASSUME ScoutAssumption ==
    /\ Rates \subseteq Seq([gross : Int, price : Int])
    /\ Terms \subseteq [fee : Nat \cup {None}, cash : Int]
    /\ GasCost \in Nat
    /\ None \notin Venues

VARIABLES
    venue,      \* rates, terms and block
    holding,    \* where the position is, where it was, and what the moves brought
    scouted     \* the recorded recommendation, scored or not

scoutVars == <<venue, holding, scouted>>

Listed == DOMAIN venue.rates

MinimumNetBenefit == 5
LiquidityCover == 20

(* A swap back is never better than free: prices cancel and fees are paid.     *)
SwapCost(from, to) ==
    IF venue.terms[to].fee = None THEN None
    ELSE venue.rates[to].price - venue.rates[from].price + venue.terms[to].fee

Incremental(from, to) == venue.rates[to].gross - venue.rates[from].gross

(* Slip: a move is priced by its gas alone.                                  *)
GasOnly(from, to) == IF SwapCost(from, to) = None THEN None ELSE GasCost

OneOffCost(from, to) ==
    IF SwapCost(from, to) = None THEN None ELSE SwapCost(from, to) + GasCost

NetBenefit(from, to) == Incremental(from, to) - OneOffCost(from, to)

(* breakEvenDays: at once if it costs nothing, never if it gains nothing.      *)
BreaksEven(from, to) ==
    \/ OneOffCost(from, to) <= 0
    \/ Incremental(from, to) > 0 /\ OneOffCost(from, to) <= Incremental(from, to)

(* Twenty times the position and a share of 500 bps are one test.             *)
Qualifies(from, to) ==
    /\ to # from
    /\ OneOffCost(from, to) # None
    /\ venue.terms[to].cash >= LiquidityCover
    /\ BreaksEven(from, to)
    /\ NetBenefit(from, to) >= MinimumNetBenefit

(* The highest net benefit; of equal ones the first in the snapshot.          *)
Recommended(from) ==
    LET movable == {to \in Listed : Qualifies(from, to)}
    IN  IF movable = {} THEN None
        ELSE CHOOSE to \in movable : \A other \in movable :
                \/ NetBenefit(from, to) > NetBenefit(from, other)
                \/ NetBenefit(from, to) = NetBenefit(from, other) /\ to <= other

(* -------------------------------- the steps ------------------------------ *)

AtRest(market) == [market |-> market, left |-> {}, moves |-> 0, ahead |-> 0]

ScoutInit ==
    /\ venue = None
    /\ holding = None
    /\ scouted = None

Supply ==
    /\ venue = None
    /\ \E rates \in Rates, terms \in Terms : \E market \in DOMAIN rates :
        /\ venue' = [rates |-> rates, terms |-> [m \in DOMAIN rates |-> terms], block |-> 0]
        /\ holding' = AtRest(market)
    /\ UNCHANGED scouted

(* Liquidity comes and goes, pools open and close.                           *)
ChangeTerms ==
    /\ venue # None
    /\ venue.block < LastBlock
    /\ \E market \in Listed, terms \in Terms :
        venue' = [venue EXCEPT !.terms[market] = terms, !.block = @ + 1]
    /\ UNCHANGED <<holding, scouted>>

(* What the moves brought is counted anew.                                   *)
ChangeRates ==
    /\ venue # None
    /\ venue.block < LastBlock
    /\ \E rates \in Rates :
        /\ DOMAIN rates = Listed
        /\ venue' = [venue EXCEPT !.rates = rates, !.block = @ + 1]
    /\ holding' = AtRest(holding.market)
    /\ UNCHANGED scouted

(* The deliverable is recorded when it is graded; its outcome is open.        *)
Scout ==
    /\ venue # None
    /\ LET to == Recommended(holding.market)
       IN  scouted' = [from |-> holding.market, to |-> to, rates |-> venue.rates,
                       cost |-> IF to = None THEN 0 ELSE OneOffCost(holding.market, to),
                       block |-> venue.block, outcome |-> None]
    /\ UNCHANGED <<venue, holding>>

(* The holder moves while the quotes stand, and pays what the swap and the gas *)
(* cost.                                                                    *)
FollowScout ==
    /\ scouted # None
    /\ scouted.to # None
    /\ scouted.from = holding.market
    /\ scouted.block = venue.block
    /\ holding.moves < MaxMoves
    /\ LET paid == SwapCost(holding.market, scouted.to) + GasCost
       IN  holding' = [market |-> scouted.to, left |-> holding.left \cup {holding.market},
                       moves |-> holding.moves + 1,
                       ahead |-> holding.ahead + Incremental(holding.market, scouted.to) - paid]
    /\ UNCHANGED <<venue, scouted>>

(* Only a later block scores, by the rates alone; HOLD has no alternative that *)
(* could be looked up.                                                      *)
SettleScouted ==
    /\ scouted # None
    /\ scouted.outcome = None
    /\ venue.block > scouted.block
    /\ scouted' = [scouted EXCEPT !.outcome =
            [rates |-> venue.rates,
             verdict |->
                IF scouted.to = None THEN "unmeasurable"
                ELSE IF Incremental(scouted.from, scouted.to) > 0
                THEN "advantage_persisted" ELSE "advantage_did_not_persist"]]
    /\ UNCHANGED <<venue, holding>>

ScoutNext ==
    \/ Supply \/ ChangeTerms \/ ChangeRates \/ Scout \/ FollowScout \/ SettleScouted

----------------------------------------------------------------------------
(* While the rates stay, a holder who takes every recommendation, however the   *)
(* routes and the liquidity change in between, is ahead by the minimum for each  *)
(* move once swaps and gas are paid, and is never sent back to a market it left;  *)
(* and a move that cost something is scored as one whose advantage persisted      *)
(* (buildYieldScoutDeliverable: "recommends holding whenever moving does not      *)
(* pay"; settleYieldDecision).                                                *)
MovesPay ==
    holding # None =>
        /\ holding.ahead >= MinimumNetBenefit * holding.moves
        /\ holding.market \notin holding.left
        /\ scouted # None /\ scouted.to # None /\ scouted.outcome # None
           /\ scouted.outcome.rates = scouted.rates /\ scouted.cost > 0 =>
                scouted.outcome.verdict = "advantage_persisted"

=============================================================================
