------------------------------ MODULE RangeKeeper ------------------------------
(***************************************************************************)
(* The Range Keeper and a holder who follows its advice: a pool whose tick     *)
(* moves, a position in it, the advice for a snapshot, the range that is       *)
(* proposed, and the record in which the advice is scored later.              *)
(*                                                                          *)
(* A definition whose comment starts with "Slip:" is not part of the system. *)
(***************************************************************************)
EXTENDS Absent, Integers, Sequences, FiniteSets

CONSTANTS
    MinTick, MaxTick,   \* the bounds of the protocol
    Spacings,           \* the tick spacings of pools
    FirstWidths,        \* the widths the holder chose, in spacings
    Jumps,              \* how far the tick moves at once
    MaxRebalances,      \* a bound on the rebalances
    MaxBlocks           \* a bound on the moves of the pool

Pools == [spacing : Spacings, tick : Int, block : Nat]

ASSUME RangeAssumption ==
    /\ MinTick \in Int /\ MaxTick \in Int
    /\ Spacings \subseteq Nat \ {0} /\ FirstWidths \subseteq Nat \ {0}
    /\ Jumps \subseteq MinTick .. MaxTick - 1
    /\ None \notin Pools

VARIABLES
    pool,       \* its spacing, tick and block
    position,   \* the range the holder has, and how it came to it
    decision    \* the recorded decision, scored or not

rangeVars == <<pool, position, decision>>

Ticks == MinTick .. MaxTick

IsAligned(tick, spacing) == tick % spacing = 0

(* What the protocol mints.                                                  *)
Mintable(range) ==
    /\ range.lower \in Ticks /\ range.upper \in Ticks
    /\ range.lower < range.upper
    /\ IsAligned(range.lower, pool.spacing) /\ IsAligned(range.upper, pool.spacing)

Clamp(tick) == IF tick < MinTick THEN MinTick ELSE IF tick > MaxTick THEN MaxTick ELSE tick

(* A bound that is outside the protocol is put on its limit, aligned or not.   *)
AlignDown(tick, spacing) == Clamp((tick \div spacing) * spacing)

(* Slip: both bounds are rounded the same way.                               *)
AlignUpDown(tick, spacing) == AlignDown(tick, spacing)

AlignUp(tick, spacing) == Clamp(((tick + spacing - 1) \div spacing) * spacing)

(* ------------------------------- the advice ------------------------------ *)

Inside(range, tick) == range.lower <= tick /\ tick < range.upper

WidthOf(range) == range.upper - range.lower

NearestEdge(range, tick) ==
    IF tick - range.lower <= range.upper - tick THEN "lower" ELSE "upper"

EdgeDistance(range, tick) ==
    IF NearestEdge(range, tick) = "lower" THEN tick - range.lower ELSE range.upper - tick

(* edgeProximityPct: 0 at an edge, 100 in the middle.                        *)
WithinPct(range, tick, pct) ==
    Inside(range, tick) /\ 200 * EdgeDistance(range, tick) <= pct * WidthOf(range)

(* Away from the pool's mean tick over the longest window it can answer for.   *)
TowardEdge(range, tick, mean) ==
    /\ mean # None
    /\ \/ NearestEdge(range, tick) = "upper" /\ tick > mean
       \/ NearestEdge(range, tick) = "lower" /\ tick < mean

EdgeProximityActPct == 10

Rebalance(range, tick, mean) ==
    \/ ~ Inside(range, tick)
    \/ WithinPct(range, tick, EdgeProximityActPct) /\ TowardEdge(range, tick, mean)

(* The width halved, rounded up, to either side of the tick.                  *)
ProposeRange(range, tick, spacing) ==
    LET half == (WidthOf(range) + 1) \div 2
    IN  [lower |-> AlignDown(tick - half, spacing), upper |-> AlignUp(tick + half, spacing)]

Advice(range, tick, mean) ==
    IF Rebalance(range, tick, mean)
    THEN [action |-> "REBALANCE", range |-> ProposeRange(range, tick, pool.spacing)]
    ELSE [action |-> "HOLD", range |-> range]

AlignedToSpacing(range) == IsAligned(range.lower, pool.spacing) /\ IsAligned(range.upper, pool.spacing)

PreservesOriginalWidth(proposed, range) ==
    LET change == WidthOf(proposed) - WidthOf(range)
    IN  -2 * pool.spacing <= change /\ change <= 2 * pool.spacing

(* Not cut off at a limit.                                                   *)
Uncut(range) == range.lower > MinTick /\ range.upper < MaxTick

(* -------------------------------- the steps ------------------------------ *)

RangeInit ==
    /\ pool = None
    /\ position = None
    /\ decision = None

(* The holder mints a range of a width of its choice around some tick.         *)
OpenPosition ==
    /\ pool = None
    /\ \E spacing \in Spacings, width \in FirstWidths, tick \in Jumps, shift \in -1 .. 0 :
        LET lower == ((tick \div spacing) + shift) * spacing
        IN  /\ pool' = [spacing |-> spacing, tick |-> tick, block |-> 0]
            /\ position' = [lower |-> lower, upper |-> lower + width * spacing,
                            chosen |-> width * spacing, count |-> 0, centre |-> None,
                            uncut |-> TRUE]
    /\ UNCHANGED decision

(* The price moves; blocks go by.                                            *)
MovePool ==
    /\ pool # None
    /\ pool.block < MaxBlocks
    /\ \E jump \in Jumps :
        /\ pool.tick + jump \in MinTick .. MaxTick - 1
        /\ pool' = [pool EXCEPT !.tick = @ + jump, !.block = @ + 1]
    /\ UNCHANGED <<position, decision>>

Means(tick) == {None, tick - 1, tick, tick + 1}

(* The deliverable is recorded as a decision when it is graded; it is pending. *)
RecordDecision ==
    /\ pool # None
    /\ \E mean \in Means(pool.tick) :
        LET advice == Advice(position, pool.tick, mean)
        IN  decision' = [advice |-> advice, block |-> pool.block, outcome |-> None,
                         followed |-> advice.action = "HOLD"]
    /\ UNCHANGED <<pool, position>>

(* The holder does what it was told, at the tick it was told for; a range the  *)
(* protocol refuses cannot be minted.                                        *)
FollowAdvice ==
    /\ decision # None
    /\ ~ decision.followed
    /\ decision.block = pool.block
    /\ position.count < MaxRebalances
    /\ Mintable(decision.advice.range)
    /\ position' = [position EXCEPT
            !.lower = decision.advice.range.lower, !.upper = decision.advice.range.upper,
            !.count = @ + 1, !.centre = pool.tick, !.uncut = @ /\ Uncut(decision.advice.range)]
    /\ decision' = [decision EXCEPT !.followed = TRUE]
    /\ UNCHANGED pool

(* settleRangeDecision refuses a block that is not later than the decision's.   *)
SettleDecision ==
    /\ decision # None
    /\ decision.outcome = None
    /\ pool.block > decision.block
    /\ decision' = [decision EXCEPT !.outcome =
            [tick |-> pool.tick, kept |-> Inside(decision.advice.range, pool.tick)]]
    /\ UNCHANGED <<pool, position>>

RangeNext ==
    \/ OpenPosition \/ MovePool \/ RecordDecision \/ FollowAdvice \/ SettleDecision

----------------------------------------------------------------------------
(* A holder who follows the advice, along any path of the price, until a range  *)
(* touches a limit of the protocol: the position is never narrower than the      *)
(* width it chose and grows by at most two spacings a rebalance; right after one *)
(* the advice is to hold, whatever the drift, so that nobody is sent back and    *)
(* forth; and any proposal that is called aligned can be minted and contains     *)
(* the tick (proposeRange).  A decision that was followed is scored by what the  *)
(* holder has (settleRangeDecision).                                         *)
AdviceSettles ==
    position # None =>
        /\ decision # None /\ decision.followed /\ decision.outcome # None =>
            decision.outcome.kept = Inside(position, decision.outcome.tick)
        /\ position.uncut =>
            /\ position.chosen <= WidthOf(position)
            /\ WidthOf(position) <= position.chosen + 2 * pool.spacing * position.count
            /\ position.centre = pool.tick =>
                \A mean \in Means(pool.tick) : ~ Rebalance(position, pool.tick, mean)
        /\ LET proposed == ProposeRange(position, pool.tick, pool.spacing)
           IN  /\ AlignedToSpacing(proposed) => Mintable(proposed) /\ Inside(proposed, pool.tick)
               /\ Uncut(proposed) => PreservesOriginalWidth(proposed, position)

=============================================================================
