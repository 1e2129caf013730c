----------------------------- MODULE SessionProof -----------------------------
(***************************************************************************)
(* The operator's scripts around the action wallet: one buys the test USDT    *)
(* and moves it there, two prove on chain that a session key is bounded and   *)
(* can be revoked.  Each step is one call that an error or a kill may follow. *)
(* Amounts are tenths of a USDT.                                             *)
(*                                                                          *)
(* A definition whose comment starts with "Slip:" is not part of the system. *)
(***************************************************************************)
EXTENDS Absent, Integers, Sequences, FiniteSets

CONSTANTS
    Proofs,         \* the scripts the operator may run: "run", "final"
    MaxSessions,    \* a bound on the sessions ever granted
    MaxAcquired,    \* a bound on the starts of the acquisition
    ProofEnd,       \* a bound on time
    Kills           \* TRUE: a script may be killed at any point

VARIABLES
    usdt,       \* the tokens of the action wallet
    router,     \* what the router may still take of them
    buyer,      \* the buyer's side of the acquisition
    sessions,   \* the sessions on chain
    record,     \* grid-session.json
    proof,      \* the proof script: where it is and what it knows
    chainTime        \* the time

proofVars == <<usdt, router, buyer, sessions, record, proof, chainTime>>

Trade == 10             \* TRADE_INPUT_RAW, SWAP_INPUT_RAW
MinimumUsdt == 12
TransferToAction == 13

Smaller(a, b) == IF a < b THEN a ELSE b

Cap(script) == IF script = "run" THEN 15 ELSE 10

Duration(script) == IF script = "run" THEN 2 ELSE 1

Idle ==
    [at |-> "off", script |-> "final", session |-> 0, tried |-> FALSE, executed |-> FALSE]

SessionProofInit ==
    /\ usdt = 0
    /\ router = 0
    /\ buyer = [at |-> "off", wbnb |-> 0, allowed |-> 0, received |-> 0, starts |-> 0]
    /\ sessions = <<>>
    /\ record = None
    /\ proof = Idle
    /\ chainTime = 0

ProofTick ==
    /\ chainTime < ProofEnd
    /\ chainTime' = chainTime + 1
    /\ UNCHANGED <<usdt, router, buyer, sessions, record, proof>>

(* ------------------------------ acquisition ------------------------------ *)

Acquiring(from, to) ==
    /\ buyer.at = from
    /\ buyer' = [buyer EXCEPT !.at = to]

BuyStart ==
    /\ buyer.at = "off" /\ buyer.starts < MaxAcquired
    /\ buyer' = [buyer EXCEPT !.at = "wrap", !.starts = @ + 1, !.received = 0]
    /\ UNCHANGED <<usdt, router, sessions, record, proof, chainTime>>

(* Wrap, then approve exactly what was wrapped; a swap takes what it spends   *)
(* off the allowance; too small a proceed stops the script.                  *)
BuyStep ==
    /\ \/ /\ buyer.at = "wrap"
          /\ buyer' = [buyer EXCEPT !.at = "approve", !.wbnb = @ + 1]
       \/ /\ buyer.at = "approve"
          /\ buyer' = [buyer EXCEPT !.at = "swap", !.allowed = 1]
       \/ /\ buyer.at = "swap"
          /\ \E got \in {MinimumUsdt - 1, MinimumUsdt, TransferToAction + 2} :
                buyer' = [buyer EXCEPT
                    !.at = IF got < MinimumUsdt THEN "off" ELSE "zero",
                    !.wbnb = @ - 1, !.allowed = @ - 1, !.received = got]
       \/ /\ buyer.at = "zero"
          /\ buyer' = [buyer EXCEPT !.at = "transfer", !.allowed = 0]
    /\ UNCHANGED <<usdt, router, sessions, record, proof, chainTime>>

BuyTransfer ==
    /\ Acquiring("transfer", "bought")
    /\ usdt' = usdt + Smaller(buyer.received, TransferToAction)
    /\ UNCHANGED <<router, sessions, record, proof, chainTime>>

BuyEnd ==
    /\ Acquiring("bought", "off")
    /\ UNCHANGED <<usdt, router, sessions, record, proof, chainTime>>

(* A step that throws, or a kill: the next start begins anew.                 *)
BuyBreak ==
    /\ buyer.at \notin {"off", "bought"}
    /\ buyer' = [buyer EXCEPT !.at = "off"]
    /\ UNCHANGED <<usdt, router, sessions, record, proof, chainTime>>

(* --------------------------- the proof scripts --------------------------- *)

Ended(at) == at \in {"off", "done", "left"}

Go(at) == proof' = [proof EXCEPT !.at = at]

(* The session that an earlier, retired script granted and wrote down.        *)
OldSession ==
    /\ sessions = <<>> /\ record = None
    /\ sessions' = <<[limit |-> 15, fee |-> FALSE, expiry |-> Duration("run"), revoked |-> FALSE,
                      used |-> 0]>>
    /\ record' = [session |-> 1, revoked |-> FALSE, executed |-> FALSE, residual |-> 0]
    /\ UNCHANGED <<usdt, router, buyer, proof, chainTime>>

ProofStart ==
    /\ Ended(proof.at)
    /\ \E script \in Proofs :
        proof' = [Idle EXCEPT !.at = IF script = "run" THEN "retire" ELSE "funds",
                              !.script = script]
    /\ Len(sessions) < MaxSessions
    /\ UNCHANGED <<usdt, router, buyer, sessions, record, chainTime>>

(* altana-proof-run retires the session it finds written down.                *)
Retire ==
    /\ proof.at = "retire"
    /\ sessions' = IF record # None /\ ~ record.revoked
                   THEN [sessions EXCEPT ![record.session].revoked = TRUE] ELSE sessions
    /\ Go("grant")
    /\ UNCHANGED <<usdt, router, buyer, record, chainTime>>

(* altana-final-proof looks at the funds and approves before it grants.       *)
Funds ==
    /\ proof.at = "funds"
    /\ IF usdt < Trade THEN Go("left") /\ router' = router
       ELSE Go("fee") /\ router' = IF router < Trade THEN Trade ELSE router
    /\ UNCHANGED <<usdt, buyer, sessions, record, chainTime>>

(* The relay's fee is measured and the terms are written, or the script stops. *)
MeasureFee ==
    /\ proof.at = "fee"
    /\ \/ Go("grant") \/ Go("left")
    /\ UNCHANGED <<usdt, router, buyer, sessions, record, chainTime>>

(* The chain registers what was asked for or, if something is amiss, more.    *)
GrantSession ==
    /\ proof.at = "grant"
    /\ \E wider \in BOOLEAN :
        sessions' = Append(sessions,
            [limit |-> Cap(proof.script) + (IF wider THEN 1 ELSE 0), fee |-> proof.script = "final",
             expiry |-> chainTime + Duration(proof.script), revoked |-> FALSE, used |-> 0])
    /\ proof' = [proof EXCEPT !.at = "verify", !.session = Len(sessions) + 1]
    /\ UNCHANGED <<usdt, router, buyer, record, chainTime>>

Mine == sessions[proof.session]

(* What is broader than intended is revoked at once.                         *)
VerifySession ==
    /\ proof.at = "verify"
    /\ IF Mine.limit > Cap(proof.script) \/ Mine.expiry <= chainTime
       THEN Go("left") /\ sessions' = [sessions EXCEPT ![proof.session].revoked = TRUE]
       ELSE Go("before") /\ UNCHANGED sessions
    /\ UNCHANGED <<usdt, router, buyer, record, chainTime>>

(* altana-proof-run looks at the funds only now; both stop on expiry.         *)
Before ==
    /\ proof.at = "before"
    /\ IF \/ proof.script = "run" /\ (usdt < Trade \/ router < Trade)
          \/ proof.script = "final" /\ Mine.expiry <= chainTime
       THEN Go("left") ELSE Go("execute")
    /\ UNCHANGED <<usdt, router, buyer, sessions, record, chainTime>>

(* The validator of the key, the relay's fee and the router's allowance.      *)
Executable(s) ==
    /\ ~ s.revoked /\ chainTime < s.expiry
    /\ s.fee /\ s.used + Trade <= s.limit
    /\ usdt >= Trade /\ router >= Trade

Spend ==
    /\ Executable(Mine)
    /\ usdt' = usdt - Trade
    /\ router' = router - Trade
    /\ sessions' = [sessions EXCEPT ![proof.session].used = @ + Trade]

(* The swap is mined and its answer comes or is lost, or nothing happens.     *)
ExecuteSwap ==
    /\ proof.at = "execute"
    /\ \/ Spend /\ \E heard \in BOOLEAN :
            proof' = [proof EXCEPT !.at = "after", !.tried = TRUE, !.executed = heard]
       \/ /\ proof' = [proof EXCEPT !.at = "after", !.tried = TRUE]
          /\ UNCHANGED <<usdt, router, sessions>>
    /\ UNCHANGED <<buyer, record, chainTime>>

(* The balances are read again, inside no try.                               *)
After ==
    /\ proof.at = "after"
    /\ Go("revoke")
    /\ UNCHANGED <<usdt, router, buyer, sessions, record, chainTime>>

(* Slip: a session whose swap failed is taken for dead.                      *)
RevokeExecuted ==
    /\ proof.at = "revoke"
    /\ sessions' = IF proof.executed THEN [sessions EXCEPT ![proof.session].revoked = TRUE]
                   ELSE sessions
    /\ Go("probe")
    /\ UNCHANGED <<usdt, router, buyer, record, chainTime>>

(* "revoke, success or failure" of the swap.                                 *)
RevokeSession ==
    /\ proof.at = "revoke"
    /\ sessions' = [sessions EXCEPT ![proof.session].revoked = TRUE]
    /\ Go("probe")
    /\ UNCHANGED <<usdt, router, buyer, record, chainTime>>

(* The key is tried once more; what is thrown is caught.                       *)
ProbeKey ==
    /\ proof.at = "probe"
    /\ Go("clear")
    /\ Spend \/ UNCHANGED <<usdt, router, sessions>>
    /\ UNCHANGED <<buyer, record, chainTime>>

(* Slip: the allowance is taken back when the swap is known to have been done.  *)
ClearUnused ==
    /\ proof.at = "clear"
    /\ router' = IF proof.executed THEN 0 ELSE router
    /\ Go("write")
    /\ UNCHANGED <<usdt, buyer, sessions, record, chainTime>>

(* An allowance that is left is approved down to zero.  If that transaction is   *)
(* mined reverted, altana-final-proof throws, while altana-proof-run notes the  *)
(* receipt's status and goes on.                                             *)
ClearAllowance ==
    /\ proof.at = "clear"
    /\ \/ router' = 0 /\ Go("write")
       \/ /\ router > 0
          /\ router' = router
          /\ Go(IF proof.script = "final" THEN "left" ELSE "write")
    /\ UNCHANGED <<usdt, buyer, sessions, record, chainTime>>

(* The document is written once, over whatever it said before.                *)
WriteRecord ==
    /\ proof.at = "write"
    /\ record' = [session |-> proof.session, revoked |-> TRUE, executed |-> proof.executed,
                  residual |-> router]
    /\ Go("done")
    /\ UNCHANGED <<usdt, router, buyer, sessions, chainTime>>

(* A call to the chain throws before or after it took effect: the script ends  *)
(* where it is.  The swap and the probe catch their own errors.              *)
ProofBreak ==
    /\ ~ Ended(proof.at) /\ proof.at \notin {"execute", "probe"}
    /\ Go("left")
    /\ UNCHANGED <<usdt, router, buyer, sessions, record, chainTime>>

ProofKill ==
    /\ Kills /\ ~ Ended(proof.at)
    /\ Go("left")
    /\ UNCHANGED <<usdt, router, buyer, sessions, record, chainTime>>

SessionProofNext ==
    \/ ProofTick \/ OldSession
    \/ BuyStart \/ BuyStep \/ BuyTransfer \/ BuyEnd \/ BuyBreak
    \/ ProofStart \/ Retire \/ Funds \/ MeasureFee \/ GrantSession \/ VerifySession \/ Before
    \/ ExecuteSwap \/ After \/ RevokeSession \/ ProbeKey \/ ClearAllowance \/ WriteRecord
    \/ ProofBreak \/ ProofKill

----------------------------------------------------------------------------
(* What the page of the agent says of a session is so on chain: a session it   *)
(* calls revoked is revoked, a swap it lists was done by that session, and no   *)
(* more than one swap was, although the document is written last and from what  *)
(* the script remembers (grid-session.json).                                 *)
RecordIsTrue ==
    record # None /\ record.revoked =>
        /\ sessions[record.session].revoked
        /\ record.executed => sessions[record.session].used = Trade
        /\ sessions[record.session].used <= Trade

(* altana-final-proof and the acquisition, once they came to their end, left    *)
(* the router no allowance, whether the swap was done, failed or was done       *)
(* unheard ("leave no standing approval"); altana-proof-run may leave one, and   *)
(* then its document says how much, from which the public summary takes whether  *)
(* the allowance was cleared (build-public-summary-bundle).                   *)
NoStandingApproval ==
    /\ proof.at = "done" =>
        /\ router = record.residual
        /\ proof.script = "final" => router = 0
    /\ buyer.at = "bought" => buyer.allowed = 0

(* Once the swap was tried, a script that is over left its session revoked,     *)
(* however the swap went ("15. revoke, success or failure",                   *)
(* scripts/altana-final-proof.mjs:316).                                       *)
RevokedInTheEnd ==
    Ended(proof.at) /\ proof.tried => sessions[proof.session].revoked

=============================================================================
