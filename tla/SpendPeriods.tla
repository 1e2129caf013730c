----------------------------- MODULE SpendPeriods -----------------------------
(***************************************************************************)
(* The arithmetic of a spend permission: a cap that is renewed in every        *)
(* rolling period, and the total it allows over the life of a session.         *)
(*                                                                          *)
(* A definition whose comment starts with "Slip:" is not part of the system. *)
(***************************************************************************)
EXTENDS Integers, Sequences

CONSTANT Periods    \* the lengths of the spend periods, shortest first

ASSUME PeriodsAssumption == Periods \in Seq(Nat \ {0})

AtLeastOne(n) == IF n < 1 THEN 1 ELSE n

(* The year stands for what no period covers.                                *)
SmallestCoveringPeriod(duration) ==
    LET covering == {k \in DOMAIN Periods : Periods[k] >= duration}
    IN  IF covering = {} THEN Len(Periods)
        ELSE CHOOSE k \in covering : \A j \in covering : k <= j

(* Slip: a period that was begun is not counted.                             *)
WorstCaseBegun(limit, period, duration) ==
    limit * AtLeastOne(duration \div Periods[period])

WorstCaseSpend(limit, period, duration) ==
    limit * AtLeastOne((duration + Periods[period] - 1) \div Periods[period])

(* The cap of a session is on what was spent in the last period, and so is     *)
(* renewed as earlier spends drop out of it.                                  *)
SpentSince(spends, from) ==
    LET total[k \in 0 .. Len(spends)] ==
            IF k = 0 THEN 0
            ELSE total[k - 1] + (IF spends[k].at > from THEN spends[k].amount ELSE 0)
    IN  total[Len(spends)]

WithinCap(spends, now, amount, limit, period) ==
    SpentSince(spends, now - Periods[period]) + amount <= limit

=============================================================================
