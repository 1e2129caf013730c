-------------------------------- MODULE Rubrics --------------------------------
(***************************************************************************)
(* The rubrics by which a deliverable is graded.  The truth is computed from  *)
(* the frozen snapshot; the checks read the structured view of the answer.    *)
(* Left out are the checks that every deliverable passes by the text it always *)
(* carries (the pair, the limitations, the costs), and how prose is read.      *)
(*                                                                          *)
(* A definition whose comment starts with "Slip:" is not part of the system. *)
(***************************************************************************)
EXTENDS RangeKeeper, YieldScout

(* missedItems of a graded answer: a check is a condition under its key.       *)
Missed(checks) == {key \in DOMAIN checks : ~ checks[key]}

(* What a drift is, and a range that is proposed.                             *)
Drifts == [toward : BOOLEAN, materiality : {"small", "moderate", "large"}]
Bounds == [lower : Int, upper : Int]

ASSUME AnswerAssumption == None \notin Drifts \cup Bounds

(* -------------------------- RebalanceBench ------------------------------- *)

EdgeProximityWarnPct == 25

(* The move since the window's mean, against the width of the range.          *)
Materiality(range, tick, mean) ==
    LET moved == 100 * (IF tick < mean THEN mean - tick ELSE tick - mean)
    IN  IF moved < 10 * WidthOf(range) THEN "small"
        ELSE IF moved < 33 * WidthOf(range) THEN "moderate" ELSE "large"

RangeTruth(range, tick, mean) ==
    [inRange |-> Inside(range, tick), nearest |-> NearestEdge(range, tick),
     close |-> WithinPct(range, tick, EdgeProximityWarnPct),
     drift |-> IF mean = None THEN None
               ELSE [toward |-> TowardEdge(range, tick, mean),
                     materiality |-> Materiality(range, tick, mean)],
     action |-> Advice(range, tick, mean).action, tick |-> tick]

(* The Range Keeper reads the snapshot as the truth does, and answers for it.  *)
RangeAnswer(range, tick, mean) ==
    LET advice == Advice(range, tick, mean)
        truth == RangeTruth(range, tick, mean)
    IN  [inRange |-> truth.inRange, nearest |-> truth.nearest, close |-> truth.close,
         drift |-> truth.drift, action |-> advice.action,
         proposed |-> IF advice.action = "HOLD" THEN None ELSE advice.range]

(* Two bounds are taken in either order.                                     *)
InOrder(range) ==
    IF range.lower <= range.upper THEN range ELSE [lower |-> range.upper, upper |-> range.lower]

LegalBounds(range) == range.lower # range.upper /\ AlignedToSpacing(range)

(* Slip: the tick may be anywhere.                                           *)
LegalAnywhere(range, tick) == LegalBounds(range)

LegalAround(range, tick) == LegalBounds(range) /\ Inside(InOrder(range), tick)

(* Where the oracle has no history the words asked for are in no deliverable.   *)
RebalanceChecks(answer, truth) ==
    [range_state_correct |-> answer.inRange = truth.inRange,
     nearest_bound_identified |-> answer.nearest = truth.nearest,
     proximity_assessment_correct |-> truth.inRange => answer.close = truth.close,
     movement_relative_to_range_correct |->
        truth.drift # None /\ answer.drift.toward = truth.drift.toward,
     movement_magnitude_correct |->
        truth.drift # None => answer.drift.materiality = truth.drift.materiality,
     decision_matches_policy |-> answer.action = truth.action,
     proposal_consistent_with_decision |->
        IF truth.action = "REBALANCE" THEN answer.proposed # None
        ELSE answer.proposed # None => LegalBounds(answer.proposed),
     proposal_legal_and_contains_price |->
        IF answer.proposed = None THEN truth.action = "HOLD"
        ELSE LegalAround(answer.proposed, truth.tick)]

(* ----------------------------- YieldBench -------------------------------- *)

YieldTruth(from) == [from |-> from, best |-> Recommended(from)]

Chosen(truth, to) == IF to = None THEN truth.from ELSE to

(* An answer is the market it moves to, or None; its comparison is that of the  *)
(* snapshot.  The advantage of an option is asked for, and when there is none    *)
(* the words asked for are in no deliverable.                                *)
YieldChecks(to, truth) ==
    [names_the_correct_option |-> Chosen(truth, to) = Chosen(truth, truth.best),
     does_not_pick_a_disqualified_option |-> to # None => Qualifies(truth.from, to),
     move_decision_correct |-> (to = None) = (truth.best = None),
     yield_advantage_correct |-> truth.best # None,
     worth_it_conclusion_correct |-> (to = None) = (truth.best = None),
     action_matches_decision |-> (to = None) = (truth.best = None)]

(* ---------------------------- HealthBench -------------------------------- *)

HealthTruth(shortfall, prior) ==
    [shortfall |-> shortfall, compared |-> prior, intervene |-> shortfall]

(* A job hands over the task alone, and the previous snapshot inside it is not   *)
(* compared; a paid report hands over both.                                   *)
Handed(prior, job) == prior /\ ~ job

HealthAnswer(shortfall, prior, job) ==
    [atRisk |-> shortfall, compared |-> Handed(prior, job), intervene |-> shortfall]

(* With a shortfall the word is in every assessment.                          *)
HealthChecks(answer, truth) ==
    [proximity_direction_correct |-> truth.shortfall \/ ~ answer.atRisk,
     change_status_correct |-> answer.compared = truth.compared,
     action_matches_truth |-> answer.intervene = truth.intervene]

----------------------------------------------------------------------------
(* Replacement ranges an answer may name: none, the rule's, the one the holder   *)
(* has, one moved by a tick, one far away, and the rule's with its bounds        *)
(* exchanged.                                                               *)
Proposals(range, tick) ==
    LET rule == ProposeRange(range, tick, pool.spacing)
        moved(n) == [lower |-> rule.lower + n, upper |-> rule.upper + n]
    IN  {None, rule, [lower |-> range.lower, upper |-> range.upper], moved(1),
         moved(3 * WidthOf(rule)), [lower |-> rule.upper, upper |-> rule.lower]}

(* In every situation a graded agent can meet, the answer of the rule misses     *)
(* only what it cannot say (the words for a drift the oracle has not, an          *)
(* advantage when it holds, a comparison a job did not hand over) and what it     *)
(* gets wrong at a limit of the protocol; no other answer does better, one with   *)
(* the other action or another market does worse, and a replacement range that     *)
(* misses nothing can be minted around the tick, its bounds in order              *)
(* (rebalanceRubric, yieldRubric, healthBenchRubric).                          *)
RuleScoresBest ==
    /\ position # None =>
        \A mean \in Means(pool.tick) :
            LET truth == RangeTruth(position, pool.tick, mean)
                own == RangeAnswer(position, pool.tick, mean)
                missed == Missed(RebalanceChecks(own, truth))
                cut == own.proposed # None /\ ~ AlignedToSpacing(own.proposed)
            IN  /\ missed =
                    (IF mean = None THEN {"movement_relative_to_range_correct"} ELSE {})
                    \cup (IF cut THEN {"proposal_legal_and_contains_price"} ELSE {})
                /\ \A action \in {"HOLD", "REBALANCE"},
                      proposed \in Proposals(position, pool.tick) :
                    LET other == [own EXCEPT !.action = action, !.proposed = proposed]
                        otherMissed == Missed(RebalanceChecks(other, truth))
                    IN  /\ ~ cut => missed \subseteq otherMissed
                        /\ action # own.action =>
                            "decision_matches_policy" \in otherMissed
                        /\ otherMissed = {} /\ action = "REBALANCE" =>
                            /\ Inside(InOrder(proposed), pool.tick)
                            /\ InOrder(proposed).lower \in Ticks
                               /\ InOrder(proposed).upper \in Ticks => Mintable(InOrder(proposed))
    /\ holding # None =>
        LET truth == YieldTruth(holding.market)
            missed == Missed(YieldChecks(truth.best, truth))
        IN  /\ missed = (IF truth.best = None THEN {"yield_advantage_correct"} ELSE {})
            /\ \A to \in (Listed \cup {None}) \ {holding.market, truth.best} :
                /\ missed \subseteq Missed(YieldChecks(to, truth))
                /\ missed # Missed(YieldChecks(to, truth))
    /\ \A shortfall, prior, job \in BOOLEAN :
        Missed(HealthChecks(HealthAnswer(shortfall, prior, job), HealthTruth(shortfall, prior)))
            = (IF prior /\ job THEN {"change_status_correct"} ELSE {})

=============================================================================
