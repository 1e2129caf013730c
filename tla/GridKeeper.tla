------------------------------ MODULE GridKeeper ------------------------------
(***************************************************************************)
(* A grid strategy from its arming to its end: the market is observed, the    *)
(* engine decides, a caller that holds a session submits the call it was      *)
(* given and records the fill, and the agent answers questions about it all.  *)
(* The caller and the chain are not in the repository; how they use the       *)
(* engine is what its comments and tests say.                                *)
(*                                                                          *)
(* A definition whose comment starts with "Slip:" is not part of the system. *)
(***************************************************************************)
EXTENDS GridEngine, SpendPeriods

CONSTANTS
    Prices,         \* the market prices
    Uppers,         \* the upper bounds of a plan; the lower bound is 1
    Counts,         \* how many levels a plan may have
    References,     \* its reference prices, None for the midpoint
    Totals,         \* its capital
    LevelCaps,      \* its cap per level, or None
    FillCaps,       \* its maximum of fills, or None
    Cooldowns,      \* its cooldown
    Quotes,         \* what a router may quote for a swap
    Outs,           \* what the swap may return
    Moves,          \* the states a caller moves a strategy to
    GridHorizon     \* when the strategy expires, a bound on time

(* A frozen strategy.                                                        *)
Strategies ==
    [chain : {97}, pair : {"WBNB/USDT"}, contracts : {{"router"}}, methods : {{"swap"}},
     lower : {1}, upper : Uppers, count : Counts, spacing : {"arithmetic", "geometric"},
     reference : References, total : Totals, maxPerLevel : LevelCaps, maxFills : FillCaps,
     cooldown : Cooldowns, state : StrategyStates, expiry : {GridHorizon}, maxAge : {1}]

Sessions ==
    [limit : Totals, period : DOMAIN Periods, granted : Nat, expiry : {GridHorizon},
     spends : Seq([at : Int, amount : Nat]), revoked : BOOLEAN]

(* What an agent is told of its session; without an expiry in a question.      *)
Authorities == [revoked : BOOLEAN, expiry : {GridHorizon, None}]

ASSUME GridAssumption ==
    /\ Uppers \subseteq Int /\ Counts \subseteq Nat \ {0, 1} /\ Totals \subseteq Int
    /\ References \subseteq Int \cup {None} /\ LevelCaps \subseteq Int \cup {None}
    /\ FillCaps \subseteq Nat \cup {None} /\ Cooldowns \subseteq Int
    /\ Prices \subseteq Int /\ Quotes \subseteq Nat /\ Outs \subseteq Nat /\ GridHorizon \in Nat
    /\ None \notin Strategies \cup Sessions \cup Authorities \cup {"WBNB/USDT", "other"}

VARIABLES
    strategy,   \* the frozen plan and its state
    clock,
    session,    \* what the chain knows of the session key
    call,       \* the call the caller has under way, or None
    fills,      \* the fills the caller recorded
    wallet,     \* what the swaps on chain really moved
    dry,        \* the caller simulates its swaps
    lost        \* a swap was mined and never recorded

gridVars == <<strategy, clock, session, call, fills, wallet, dry, lost>>

Truth == INSTANCE GridEvaluator

Venue == [chain |-> 97, pair |-> "WBNB/USDT", contracts |-> {"router"}, methods |-> {"swap"}]

Slippage == 1000

Plans ==
    {p \in [lower : {1}, upper : Uppers, count : Counts, spacing : {"arithmetic", "geometric"},
            reference : References, total : Totals, maxPerLevel : LevelCaps,
            maxFills : FillCaps, cooldown : Cooldowns] : Accepted(p)}

(* planGridStrategy fixes the venue; the caller cannot widen it.              *)
Planned(p) ==
    [chain |-> Venue.chain, pair |-> Venue.pair, contracts |-> Venue.contracts,
     methods |-> Venue.methods, lower |-> p.lower, upper |-> p.upper, count |-> p.count,
     spacing |-> p.spacing, reference |-> p.reference, total |-> p.total,
     maxPerLevel |-> p.maxPerLevel, maxFills |-> p.maxFills, cooldown |-> p.cooldown,
     state |-> "CREATED", expiry |-> GridHorizon, maxAge |-> 1]

GridInit ==
    /\ strategy = None
    /\ clock = 0
    /\ session = None
    /\ call = None
    /\ fills = <<>>
    /\ wallet = [spent |-> 0, got |-> 0, base |-> 0, swaps |-> 0]
    /\ dry = FALSE
    /\ lost = FALSE

Plan ==
    /\ strategy = None
    /\ \E p \in Plans : strategy' = Planned(p)
    /\ dry' \in BOOLEAN
    /\ UNCHANGED <<clock, session, call, fills, wallet, lost>>

Move(next) ==
    /\ strategy # None
    /\ MayMove(strategy, next)
    /\ strategy.state # next
    /\ strategy' = [strategy EXCEPT !.state = next]
    /\ UNCHANGED <<clock, session, call, fills, wallet, dry, lost>>

(* Slip: the limit of the session is a limit per level.                      *)
LimitPerLevel(s) == PerLevel(s) * s.count

(* proposeSessionPermissions: the capital, in every period.                    *)
SessionLimit(s) == s.total

(* The period is the one proposed, the smallest to cover what is left of the   *)
(* strategy, or another one that the wallet granted.                         *)
Grant(period) ==
    /\ ~ dry /\ strategy # None
    /\ strategy.state = "CREATED"
    /\ session = None
    /\ session' = [limit |-> SessionLimit(strategy), period |-> period, granted |-> clock,
                   expiry |-> strategy.expiry, spends |-> <<>>, revoked |-> FALSE]
    /\ UNCHANGED <<strategy, clock, call, fills, wallet, dry, lost>>

Revoke ==
    /\ session # None
    /\ session' = [session EXCEPT !.revoked = TRUE]
    /\ UNCHANGED <<strategy, clock, call, fills, wallet, dry, lost>>

Tick ==
    /\ strategy # None
    /\ clock < GridHorizon
    /\ clock' = clock + 1
    /\ UNCHANGED <<strategy, session, call, fills, wallet, dry, lost>>

(* What the caller knows of its session may be out of date.                   *)
KnownAuthority ==
    IF session = None THEN {None}
    ELSE {[revoked |-> r, expiry |-> session.expiry] : r \in {FALSE, session.revoked}}

(* buildLevelSwapCall: a buy spends its allocation, a sale all there is.      *)
SwapCall(s, i, quoted) ==
    [level |-> i, to |-> "router", method |-> "swap", side |-> Side(s, i),
     amount |-> IF Side(s, i) = "BUY" THEN Allocation(s, i) ELSE Ledger(fills).base,
     quoted |-> quoted, least |-> MinimumOut(quoted, Slippage)]

(* A price that was observed now or lately.                                   *)
Observed ==
    [price : Prices, at : {clock - 2, clock}, chain : {97}, pair : {"WBNB/USDT"}]

(* One evaluation of one observation yields at most one call.                 *)
Evaluate ==
    /\ strategy # None
    /\ call = None
    /\ \E ob \in Observed, authority \in KnownAuthority, quoted \in Quotes :
        LET next == NextAction(strategy, ob, fills, clock, authority)
        IN  /\ next # None
            /\ Refusal(strategy, next, ob, fills, clock, authority,
                       SwapCall(strategy, next, quoted)) = None
            /\ call' = SwapCall(strategy, next, quoted)
    /\ UNCHANGED <<strategy, clock, session, fills, wallet, dry, lost>>

Fill(out, state) ==
    [level |-> call.level, side |-> call.side, at |-> clock, state |-> state,
     quote |-> IF call.side = "BUY" THEN call.amount ELSE out,
     base |-> IF call.side = "BUY" THEN out ELSE call.amount,
     execution |-> IF dry THEN "simulated" ELSE "onchain"]

(* The validator of the session key on chain: its cap is renewed as time goes. *)
Permitted ==
    /\ session # None
    /\ ~ session.revoked
    /\ clock < session.expiry
    /\ call.side = "BUY" =>
        WithinCap(session.spends, clock, call.amount, session.limit, session.period)

(* The swap is mined; then its fill is recorded, or the caller dies first
   (once, a bound).                                                          *)
Swap(out) ==
    /\ call # None
    /\ ~ dry
    /\ Permitted
    /\ out >= call.least
    /\ IF call.side = "BUY"
       THEN /\ session' = [session EXCEPT !.spends = Append(@, [at |-> clock, amount |-> call.amount])]
            /\ wallet' = [wallet EXCEPT !.spent = @ + call.amount, !.base = @ + out, !.swaps = @ + 1]
       ELSE /\ session' = session
            /\ wallet' = [wallet EXCEPT !.got = @ + out, !.base = @ - call.amount, !.swaps = @ + 1]
    /\ \/ fills' = Append(fills, Fill(out, "FILLED")) /\ lost' = lost
       \/ ~ lost /\ fills' = fills /\ lost' = TRUE
    /\ call' = None
    /\ UNCHANGED <<strategy, clock, dry>>

(* The chain refuses it, or returns too little and reverts.                   *)
Refused(recorded) ==
    /\ call # None
    /\ ~ dry
    /\ fills' = IF recorded THEN Append(fills, Fill(0, "FAILED")) ELSE fills
    /\ recorded => \A k \in DOMAIN fills : fills[k].state = "FILLED"
    /\ call' = None
    /\ UNCHANGED <<strategy, clock, session, wallet, dry, lost>>

Simulate(out) ==
    /\ call # None
    /\ dry
    /\ fills' = Append(fills, Fill(out, "FILLED"))
    /\ call' = None
    /\ UNCHANGED <<strategy, clock, session, wallet, dry, lost>>

GridNext ==
    \/ \E next \in Moves : Move(next)
    \/ \E period \in DOMAIN Periods : Grant(period)
    \/ Plan \/ Revoke \/ Tick \/ Evaluate
    \/ \E out \in Outs : Swap(out) \/ Simulate(out)
    \/ \E recorded \in BOOLEAN : Refused(recorded)

GridSpec == GridInit /\ [][GridNext]_gridVars

(* --------------------------- the track record ---------------------------- *)

(* Slip: what was simulated is counted as well.                              *)
RealAny(fs) == {k \in DOMAIN fs : fs[k].state = "FILLED"}

Real(fs) == {k \in DOMAIN fs : fs[k].execution = "onchain" /\ fs[k].state = "FILLED"}

(* The sum of a field over some of the fills.                                *)
Total(fs, of, field) ==
    LET total[k \in 0 .. Len(fs)] ==
            IF k = 0 THEN 0 ELSE total[k - 1] + (IF k \in of THEN fs[k][field] ELSE 0)
    IN  total[Len(fs)]

OfSide(fs, of, side) == {k \in of : fs[k].side = side}

(* summarizeGridSession: the realised part.                                  *)
Realised(fs) ==
    LET buys == OfSide(fs, Real(fs), "BUY")
        sells == OfSide(fs, Real(fs), "SELL")
    IN  [spent |-> Total(fs, buys, "quote"), got |-> Total(fs, sells, "quote"),
         base |-> Total(fs, buys, "base") - Total(fs, sells, "base"),
         swaps |-> Cardinality(Real(fs))]

(* -------------------------- the agent's answers -------------------------- *)

Active(s) == [s EXCEPT !.state = "ACTIVE"]

(* buildGridBenchAnswers, for a question about one level.                    *)
Answer(s, i, ob, revoked, c) ==
    Refusal(Active(s), i, ob, fills, clock,
            IF revoked THEN [revoked |-> TRUE, expiry |-> None] ELSE None, c)

AnswerLevels(s) ==
    [i \in LevelIds(s) |-> [price |-> LevelPrice(s, i), side |-> Side(s, i)]]

(* What a scenario may put in front of the agent besides the fills.           *)
Markets ==
    [price : {LevelPrice(strategy, i) : i \in LevelIds(strategy)} \cup {strategy.upper - 1},
     at : clock - 2 .. clock + 1, chain : {97}, pair : {"WBNB/USDT"}]
    \cup [price : {1, 3}, at : {clock}, chain : {56, 97}, pair : {"WBNB/USDT", "other"}]

Calls ==
    {c \in [to : {"router", "other"}, method : {"swap", "other"}, side : {None},
            quoted : {1}, least : {1, 2}] : c.to = "router" \/ c.method = "swap"}

Scenarios ==
    (Markets \X {None}) \cup ([price : {1, 3}, at : {clock}, chain : {97}, pair : {"WBNB/USDT"}] \X Calls)

----------------------------------------------------------------------------
(* However its records are lost and whatever the engine is told, the agent     *)
(* never spends more of the wallet than the user was told: the capital once   *)
(* for every spend period that its session begins, and the capital itself      *)
(* when the period covers the session, as the proposed one does               *)
(* (proposeSessionPermissions, "one cap means one lifetime total").            *)
WithinLeash == session # None =>
    LET life == AtLeastOne(session.expiry - session.granted)
    IN  /\ wallet.spent <= WorstCaseSpend(strategy.total, session.period, life)
        /\ life <= Periods[session.period] => wallet.spent <= strategy.total

(* While no record was lost the engine keeps the budget by itself, along any   *)
(* path of prices: no level is filled twice, all buys together cost no more    *)
(* than the capital, although a sale in between lowers what the ledger counts  *)
(* as spent, no more than the maximum of fills was done, no two within the     *)
(* cooldown, and nothing was sold that was not bought (evaluateLevel).        *)
BudgetKept == strategy # None /\ ~ lost =>
    /\ \A j, k \in Applied(fills) :
        j < k => /\ fills[j].level # fills[k].level
                 /\ fills[k].at - fills[j].at >= strategy.cooldown
    /\ wallet.spent + (IF dry THEN Total(fills, OfSide(fills, Applied(fills), "BUY"), "quote") ELSE 0)
        <= strategy.total
    /\ strategy.maxFills # None => Cardinality(Applied(fills)) <= strategy.maxFills
    /\ Ledger(fills).base >= 0
    /\ wallet.base >= 0

(* The engine and the evaluator, two implementations, answer alike: in every   *)
(* situation a strategy can get into, the agent's answer about every level,    *)
(* observation, revocation and call of the kinds GridBench asks about earns    *)
(* the point ("If the two ever disagree, that disagreement is a finding",      *)
(* grid-benchmark.mjs).                                                       *)
EvaluatorAgrees ==
    (/\ strategy # None
     /\ strategy.spacing = "arithmetic" /\ strategy.reference # None
     /\ call = None /\ (session = None \/ session.revoked)) =>
        /\ Truth!LevelsPass(AnswerLevels(strategy), strategy)
        /\ Truth!LedgerPasses(Ledger(fills), fills)
        /\ \A i \in 0 .. strategy.count, sc \in Scenarios :
            Truth!DecisionPasses(
                Answer(strategy, i, sc[1], FALSE, sc[2]),
                Truth!TruthRefusal(strategy, i, sc[1], fills, clock, FALSE, sc[2]))
        /\ \A i \in 0 .. strategy.count, revoked \in BOOLEAN :
            Truth!DecisionPasses(
                Answer(strategy, i, None, revoked, None),
                Truth!TruthRefusal(strategy, i, None, fills, clock, revoked, None))

(* What the track record publishes as realised is what the chain did, as long  *)
(* as no record was lost; a simulated swap is never part of it                *)
(* (summarizeGridSession).                                                   *)
RealisedIsReal == ~ lost => Realised(fills) = wallet

=============================================================================
