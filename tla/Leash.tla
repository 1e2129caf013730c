-------------------------------- MODULE Leash --------------------------------
(***************************************************************************)
(* What a user is shown of the authority of a session key, before and after   *)
(* signing, beside what the chain lets a holder of that key do: spend up to a *)
(* cap in every rolling period, call what the call permissions name.          *)
(*                                                                          *)
(* A definition whose comment starts with "Slip:" is not part of the system. *)
(***************************************************************************)
EXTENDS Absent, SpendPeriods, FiniteSets

CONSTANTS
    Capitals,       \* the capital of a strategy
    LeashEnd        \* the latest expiry, a bound on time

ASSUME LeashAssumption == Capitals \subseteq Nat

VARIABLES
    plan,           \* the strategy: its capital, creation and expiry
    proposal,       \* what the user was shown before signing
    key,            \* the session key on chain
    hour            \* the time

leashVars == <<plan, proposal, key, hour>>

LeashInit ==
    /\ plan = None
    /\ proposal = None
    /\ key = None
    /\ hour = 0

PlanLeash ==
    /\ plan = None
    /\ \E total \in Capitals, expiry \in hour + 1 .. LeashEnd :
        plan' = [total |-> total, created |-> hour, expiry |-> expiry]
    /\ UNCHANGED <<proposal, key, hour>>

(* proposeSessionPermissions at some time: cap and period come from the       *)
(* strategy, the worst case from what is left of its life.                   *)
Proposed(now) ==
    LET duration == AtLeastOne(plan.expiry - now)
        period == SmallestCoveringPeriod(duration)
    IN  [limit |-> plan.total, period |-> period, expiry |-> plan.expiry,
         worst |-> WorstCaseSpend(plan.total, period, duration)]

Propose ==
    /\ plan # None
    /\ key = None
    /\ proposal' = Proposed(hour)
    /\ UNCHANGED <<plan, key, hour>>

(* The wallet grants what was proposed, or, as the operator's scripts do, the  *)
(* same cap over a period of their own choice.                               *)
GrantKey(period) ==
    /\ proposal # None
    /\ key = None
    /\ hour < proposal.expiry
    /\ key' = [limit |-> proposal.limit, period |-> period, expiry |-> proposal.expiry,
               revoked |-> FALSE, spends |-> <<>>]
    /\ UNCHANGED <<plan, proposal, hour>>

(* The holder may do anything the validator of the key lets through.          *)
SpendKey(amount) ==
    /\ key # None
    /\ ~ key.revoked
    /\ hour < key.expiry
    /\ WithinCap(key.spends, hour, amount, key.limit, key.period)
    /\ key' = [key EXCEPT !.spends = Append(@, [at |-> hour, amount |-> amount])]
    /\ UNCHANGED <<plan, proposal, hour>>

RevokeKey ==
    /\ key # None
    /\ key' = [key EXCEPT !.revoked = TRUE]
    /\ UNCHANGED <<plan, proposal, hour>>

LeashTick ==
    /\ hour < LeashEnd
    /\ hour' = hour + 1
    /\ UNCHANGED <<plan, proposal, key>>

LeashNext ==
    \/ PlanLeash \/ Propose \/ RevokeKey \/ LeashTick
    \/ \E period \in DOMAIN Periods : GrantKey(period)
    \/ \E amount \in 1 .. CHOOSE n \in Capitals : \A m \in Capitals : m <= n : SpendKey(amount)

(* buildLeash: the life of a session is counted from the strategy's creation. *)
LeashView ==
    [state |-> IF plan = None \/ key = None THEN "NOT_CONFIGURED"
               ELSE IF key.revoked THEN "REVOKED"
               ELSE IF key.expiry <= hour THEN "EXPIRED" ELSE "ACTIVE",
     worst |-> IF plan = None \/ key = None THEN 0
               ELSE WorstCaseSpend(key.limit, key.period, AtLeastOne(key.expiry - plan.created))]

(* ---------------------------- call permissions --------------------------- *)

Contracts == {"router", "other"}

(* A signature is readable, a selector already, or neither.                  *)
Signatures == {"swap()", "0xswap", "???"}

Selectors == {"0xswap", "0xother"}

(* What a permission may look like: as granted, or as described before.       *)
Permissions ==
    [to : Contracts \cup {None}, signature : Signatures \cup {None},
     contract : {None}, method : {None}]

Either(a, b) == IF a # None THEN a ELSE b

SelectorOf(signature) ==
    CASE signature \in {"swap()", "0xswap"} -> "0xswap"
      [] OTHER -> None

(* Slip: only the granted shape is understood.                               *)
DescribeGranted(p) ==
    LET selector == SelectorOf(p.signature)
    IN  [to |-> None, signature |-> None, contract |-> p.to, method |-> p.signature,
         selector |-> selector,
         unrestricted |-> p.to = None \/ p.signature = None \/ selector = None]

(* Described again, a permission reads the same.                             *)
DescribeCallPermission(p) ==
    LET to == Either(p.to, p.contract)
        signature == Either(p.signature, p.method)
        selector == SelectorOf(signature)
    IN  [to |-> None, signature |-> None, contract |-> to, method |-> signature,
         selector |-> selector,
         unrestricted |-> to = None \/ signature = None \/ selector = None]

(* What the chain lets a permission call; of a signature nobody can read it    *)
(* may be anything.                                                          *)
ChainAllows(p) ==
    {c \in [to : Contracts, selector : Selectors] :
        /\ p.to \in {None, c.to}
        /\ SelectorOf(p.signature) \in {None, c.selector}}

----------------------------------------------------------------------------
(* Whatever the holder of a key does in whatever order, until the key ends it  *)
(* spends no more than the total the user was shown: on the page of the agent  *)
(* under any period, and in the proposal when the proposal was granted         *)
(* (worstCaseSpend, "the number a user needs before signing").                *)
WorstCaseHolds ==
    key # None =>
        /\ SpentSince(key.spends, -1) <= LeashView.worst
        /\ key.period = proposal.period => SpentSince(key.spends, -1) <= proposal.worst

(* A permission that is not called unrestricted lets the key reach the one     *)
(* contract and the one selector that are shown and nothing else, also when a  *)
(* page describes what was described before (describeCallPermission).         *)
ShownIsEnforced ==
    proposal # None /\ key = None =>
        \A p \in Permissions :
            LET shown == DescribeCallPermission(p)
            IN  /\ DescribeCallPermission(shown) = shown
                /\ ~ shown.unrestricted =>
                    ChainAllows(p) = {[to |-> shown.contract, selector |-> shown.selector]}

=============================================================================
