-------------------------------- MODULE MCDesk --------------------------------
(* The values of the instance that TLC explores: see DeskRun.cfg.             *)
EXTENDS Desk, TLC

(* Requests, and scripts that create wallets, are interchangeable.            *)
MCAlike == Permutations(Handlers) \cup Permutations(Makers)

MCPeriods == <<1, 2, 3>>

(* A request is limited by its address and by its identity, or by one of them, *)
(* or asks for a bucket without a rule.                                      *)
MCChecks == {<<"a", "b">>, <<"c", "b">>, <<"c">>, <<"d">>}

MCFirstOwner == [a |-> "u", b |-> "u"]

MCMinTick == -14
MCJumps == {-7, -1, 0, 3, 6}

Asset(gross, price) == [gross |-> gross, price |-> price]

(* The best rate may be behind a bad price, and a bad rate behind a good one;   *)
(* two rates may be equal.                                                   *)
MCRates ==
    {<<Asset(0, 0), Asset(8, 0), Asset(20, 3)>>,
     <<Asset(10, 0), Asset(4, -12), Asset(30, 9)>>,
     <<Asset(20, 5), Asset(20, 0), Asset(13, 0)>>}

Term(fee, cash) == [fee |-> fee, cash |-> cash]

(* No route; a market too thin by one; free and paid routes.                  *)
MCTerms == {Term(None, 20), Term(0, 19), Term(0, 20), Term(4, 20)}

(* A careful operator may have two graders running, any operator two hires.    *)
MCGraders == [c \in BOOLEAN |-> IF c THEN {1, 2} ELSE {1}]
MCHirers == [c \in BOOLEAN |-> Handlers]

=============================================================================
