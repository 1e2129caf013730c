----------------------------- MODULE WalletProofs -----------------------------
(***************************************************************************)
(* Theorems about who holds whose money, on Desk: the session scripts, for   *)
(* any scripts, any number of sessions and acquisitions and any span of      *)
(* time (SessionProof), and the wallets of the agents, for any agents and    *)
(* any number of wallets, transfers and registrations (Fleet).               *)
(***************************************************************************)
EXTENDS Desk, FiniteSetTheorems, TLAPS

(* ----------------------------- SessionProof ------------------------------ *)

OneSession ==
    [limit : {10, 11, 15, 16}, fee : BOOLEAN, expiry : Int, revoked : BOOLEAN, used : {0, Trade}]

SessionTypes ==
    /\ chainTime \in Int
    /\ DOMAIN buyer = {"at", "wbnb", "allowed", "received", "starts"}
    /\ sessions \in Seq(OneSession)
    /\ DOMAIN proof = {"at", "script", "session", "tried", "executed"}

(* The script knows its session from the grant on, has revoked it when it asks   *)
(* whether the key still works, and says of the swap what was done.            *)
ScriptOK ==
    /\ proof.at \in {"verify", "before", "execute", "after", "revoke", "probe", "clear", "write",
                    "done"}
        => proof.session \in DOMAIN sessions
    /\ proof.at \in {"probe", "clear", "write"} => sessions[proof.session].revoked
    /\ proof.at \in {"write", "done"} /\ proof.script = "final" => router = 0
    /\ proof.at = "done" => router = record.residual
    /\ proof.executed =>
        /\ proof.at \in {"after", "revoke", "probe", "clear", "write", "done", "left"}
        /\ proof.session \in DOMAIN sessions
        /\ sessions[proof.session].used = Trade

RecordOK ==
    record # None =>
        /\ record.session \in DOMAIN sessions
        /\ record.revoked =>
            /\ sessions[record.session].revoked
            /\ record.executed => sessions[record.session].used = Trade

BuyerOK == buyer.at \in {"transfer", "bought"} => buyer.allowed = 0

SessionInv == SessionTypes /\ ScriptOK /\ RecordOK /\ BuyerOK

LEMMA SessionInitOK == SessionProofInit => SessionInv
  <1> SUFFICES ASSUME SessionProofInit PROVE SessionInv
    OBVIOUS
  <1>1. SessionTypes
    BY DEF SessionProofInit, SessionTypes, OneSession, Idle
  <1>2. ScriptOK /\ RecordOK /\ BuyerOK
    BY DEF SessionProofInit, ScriptOK, RecordOK, BuyerOK, Idle
  <1> QED
    BY <1>1, <1>2 DEF SessionInv

(* No step takes a session away, makes one live again or undoes its swap.        *)
SessionsKept ==
    /\ DOMAIN sessions \subseteq DOMAIN sessions'
    /\ \A k \in DOMAIN sessions :
        /\ sessions[k].revoked => sessions'[k].revoked
        /\ sessions[k].used = Trade => sessions'[k].used = Trade

LEMMA RevokeKeeps ==
    ASSUME SessionTypes, NEW k \in DOMAIN sessions,
           sessions' = [sessions EXCEPT ![k].revoked = TRUE]
    PROVE  /\ sessions' \in Seq(OneSession)
           /\ SessionsKept
           /\ sessions'[k].revoked
  <1>1. sessions[k] \in OneSession
    BY DEF SessionTypes
  <1>2. [sessions[k] EXCEPT !.revoked = TRUE] \in OneSession
    BY <1>1 DEF OneSession
  <1>3. sessions' = [sessions EXCEPT ![k] = [sessions[k] EXCEPT !.revoked = TRUE]]
    OBVIOUS
  <1>4. sessions' \in Seq(OneSession) /\ DOMAIN sessions' = DOMAIN sessions
    BY <1>2, <1>3 DEF SessionTypes
  <1>5. sessions'[k].revoked /\ sessions'[k].used = sessions[k].used
    BY <1>1, <1>3 DEF SessionTypes, OneSession
  <1> QED
    BY <1>3, <1>4, <1>5 DEF SessionTypes, SessionsKept

LEMMA GrantKeeps ==
    ASSUME SessionTypes, NEW s \in OneSession, sessions' = Append(sessions, s)
    PROVE  /\ sessions' \in Seq(OneSession)
           /\ SessionsKept
           /\ Len(sessions) + 1 \in DOMAIN sessions'
  BY DEF SessionTypes, SessionsKept

(* A bound is below two swaps, and the key is alive: the swap is its first.      *)
LEMMA SpendOnce ==
    ASSUME SessionTypes, Spend, proof.session \in DOMAIN sessions
    PROVE  /\ sessions' \in Seq(OneSession)
           /\ SessionsKept
           /\ ~ sessions[proof.session].revoked
           /\ sessions'[proof.session].used = Trade
  <1> DEFINE k == proof.session
  <1>1. sessions[k] \in OneSession
    BY DEF SessionTypes
  <1>2. sessions[k].used + Trade <= sessions[k].limit /\ ~ sessions[k].revoked
    BY DEF Spend, Executable, Mine
  <1>3. sessions[k].used = 0
    BY <1>1, <1>2 DEF OneSession, Trade
  <1>4. [sessions[k] EXCEPT !.used = @ + Trade] \in OneSession
    BY <1>1, <1>3 DEF OneSession, Trade
  <1>5. sessions' = [sessions EXCEPT ![k] = [sessions[k] EXCEPT !.used = @ + Trade]]
    BY DEF Spend
  <1>6. sessions' \in Seq(OneSession) /\ sessions'[k].used = Trade
    BY <1>1, <1>3, <1>4, <1>5 DEF SessionTypes, OneSession, Trade
  <1>7. SessionsKept
    BY <1>1, <1>2, <1>3, <1>5 DEF SessionTypes, SessionsKept, OneSession, Trade
  <1> QED
    BY <1>2, <1>6, <1>6, <1>7

LEMMA AcquisitionStep ==
    ASSUME SessionInv, BuyStart \/ BuyStep \/ BuyTransfer \/ BuyEnd \/ BuyBreak
    PROVE  SessionInv'
  <1>1. UNCHANGED <<router, sessions, record, proof, chainTime>>
    BY DEF BuyStart, BuyStep, BuyTransfer, BuyEnd, BuyBreak
  <1>2. DOMAIN buyer' = DOMAIN buyer /\ BuyerOK'
    <2> USE DEF SessionInv, SessionTypes, BuyerOK
    <2>1. CASE BuyStart
      BY <2>1 DEF BuyStart
    <2>2. CASE BuyStep
      BY <2>2 DEF BuyStep
    <2>3. CASE BuyTransfer \/ BuyEnd \/ BuyBreak
      BY <2>3 DEF BuyTransfer, BuyEnd, BuyBreak, Acquiring
    <2> QED
      BY <2>1, <2>2, <2>3
  <1> QED
    BY <1>1, <1>2 DEF SessionInv, SessionTypes, ScriptOK, RecordOK

LEMMA OutsideStep ==
    ASSUME SessionInv, ProofTick \/ OldSession
    PROVE  SessionInv'
  <1> USE DEF SessionInv
  <1>1. CASE ProofTick
    BY <1>1 DEF ProofTick, SessionTypes, ScriptOK, RecordOK, BuyerOK
  <1>2. CASE OldSession
    <2>1. ~ proof.executed /\ proof.at # "done"
          /\ proof.at \notin {"verify", "before", "execute", "after", "revoke", "probe", "clear",
                              "write"}
      BY <1>2 DEF OldSession, ScriptOK
    <2>2. sessions' \in Seq(OneSession)
      BY <1>2 DEF OldSession, Duration, Trade, OneSession
    <2>3. record' = [session |-> 1, revoked |-> FALSE, executed |-> FALSE, residual |-> 0]
      BY <1>2 DEF OldSession
    <2>4. SessionTypes'
      BY <1>2, <2>2, <2>3 DEF OldSession, SessionTypes
    <2> QED
      BY <1>2, <2>1, <2>3, <2>4 DEF OldSession, ScriptOK, RecordOK, BuyerOK
  <1> QED
    BY <1>1, <1>2

(* A step that only takes the script on to a place where it need know nothing   *)
(* new: it stops, or has looked at the chain.                                *)
LEMMA MoveStep ==
    ASSUME SessionInv, NEW at, Go(at), UNCHANGED <<buyer, sessions, record, chainTime>>,
           \/ at = "left"
           \/ proof.at = "funds" /\ at = "fee"
           \/ proof.at = "fee" /\ at = "grant"
           \/ proof.at = "verify" /\ at = "before"
           \/ proof.at = "before" /\ at = "execute"
           \/ proof.at = "after" /\ at = "revoke"
    PROVE  SessionInv'
  <1>1. SessionTypes' /\ BuyerOK' /\ RecordOK'
    BY DEF SessionInv, SessionTypes, BuyerOK, RecordOK, Go
  <1>2. proof'.at = at /\ proof'.session = proof.session /\ proof'.executed = proof.executed
        /\ proof'.script = proof.script
    BY DEF SessionInv, SessionTypes, Go
  <1>3. ScriptOK'
    BY <1>2 DEF SessionInv, ScriptOK
  <1> QED
    BY <1>1, <1>3 DEF SessionInv

LEMMA RecordKept ==
    ASSUME RecordOK, SessionsKept, record' = record
    PROVE  RecordOK'
  BY DEF RecordOK, SessionsKept

LEMMA BeforeGrantStep ==
    ASSUME SessionInv, ProofStart \/ Retire \/ Funds \/ MeasureFee
    PROVE  SessionInv'
  <1> USE DEF SessionInv
  <1>1. CASE ProofStart
    <2>1. /\ proof'.at \in {"retire", "funds"} /\ ~ proof'.executed
          /\ DOMAIN proof' = DOMAIN proof
      BY <1>1 DEF ProofStart, Idle, SessionTypes
    <2> QED
      BY <1>1, <2>1 DEF ProofStart, SessionTypes, ScriptOK, RecordOK, BuyerOK
  <1>2. CASE Retire
    <2>1. sessions' \in Seq(OneSession) /\ SessionsKept
      <3>1. CASE record # None /\ ~ record.revoked
        BY <1>2, <3>1, RevokeKeeps DEF Retire, RecordOK
      <3>2. CASE ~ (record # None /\ ~ record.revoked)
        BY <1>2, <3>2 DEF Retire, SessionTypes, SessionsKept
      <3> QED
        BY <3>1, <3>2
    <2>2. proof'.at = "grant" /\ DOMAIN proof' = DOMAIN proof
          /\ ~ proof'.executed
      BY <1>2 DEF Retire, Go, SessionTypes, ScriptOK
    <2>3. SessionTypes' /\ ScriptOK' /\ BuyerOK'
      BY <1>2, <2>1, <2>2 DEF Retire, SessionTypes, ScriptOK, BuyerOK
    <2> QED
      BY <1>2, <2>1, <2>3, RecordKept DEF Retire
  <1>3. CASE Funds
    BY <1>3, MoveStep DEF Funds
  <1>4. CASE MeasureFee
    BY <1>4, MoveStep DEF MeasureFee
  <1> QED
    BY <1>1, <1>2, <1>3, <1>4

LEMMA GrantStep == SessionInv /\ GrantSession => SessionInv'
  <1> SUFFICES ASSUME SessionInv, GrantSession PROVE SessionInv'
    OBVIOUS
  <1> USE DEF SessionInv
  <1> DEFINE granted(wider) ==
        [limit |-> Cap(proof.script) + (IF wider THEN 1 ELSE 0), fee |-> proof.script = "final",
         expiry |-> chainTime + Duration(proof.script), revoked |-> FALSE, used |-> 0]
  <1>1. PICK wider \in BOOLEAN : sessions' = Append(sessions, granted(wider))
    BY DEF GrantSession
  <1>2. granted(wider) \in OneSession
    <2>1. Cap(proof.script) + (IF wider THEN 1 ELSE 0) \in {10, 11, 15, 16}
      BY DEF Cap
    <2>2. chainTime + Duration(proof.script) \in Int
      BY DEF Duration, SessionTypes
    <2>3. (proof.script = "final") \in BOOLEAN
      OBVIOUS
    <2> QED
      BY <2>1, <2>2, <2>3 DEF OneSession
  <1> HIDE DEF granted
  <1>3. sessions' \in Seq(OneSession) /\ SessionsKept /\ Len(sessions) + 1 \in DOMAIN sessions'
    BY <1>1, <1>2, GrantKeeps
  <1>4. /\ proof'.at = "verify" /\ proof'.session = Len(sessions) + 1
        /\ DOMAIN proof' = DOMAIN proof /\ ~ proof'.executed
    BY DEF GrantSession, SessionTypes, ScriptOK
  <1>5. SessionTypes' /\ ScriptOK' /\ BuyerOK'
    BY <1>3, <1>4 DEF GrantSession, SessionTypes, ScriptOK, BuyerOK
  <1> QED
    BY <1>3, <1>5, RecordKept DEF GrantSession

(* The session of the script is revoked and nothing of it is known yet but what  *)
(* was done with it.                                                         *)
LEMMA RevokeStep ==
    ASSUME SessionInv, proof.session \in DOMAIN sessions, NEW at \in {"left", "probe"}, Go(at),
           proof.at \notin {"clear", "write", "done", "left"},
           at = "left" => ~ proof.executed,
           sessions' = [sessions EXCEPT ![proof.session].revoked = TRUE],
           UNCHANGED <<buyer, record, chainTime>>
    PROVE  SessionInv'
  <1>1. sessions' \in Seq(OneSession) /\ SessionsKept /\ sessions'[proof.session].revoked
    BY RevokeKeeps DEF SessionInv
  <1>2. /\ proof'.at = at /\ proof'.session = proof.session /\ DOMAIN proof' = DOMAIN proof
        /\ proof'.executed = proof.executed
    BY DEF Go, SessionInv, SessionTypes, ScriptOK
  <1>3. SessionTypes' /\ BuyerOK'
    BY <1>1, <1>2 DEF SessionInv, SessionTypes, BuyerOK
  <1>4. ScriptOK'
    BY <1>1, <1>2 DEF SessionInv, ScriptOK, SessionsKept
  <1> QED
    BY <1>1, <1>3, <1>4, RecordKept DEF SessionInv

LEMMA VerifyStep ==
    ASSUME SessionInv, VerifySession \/ Before \/ After \/ RevokeSession \/ ProofBreak \/ ProofKill
    PROVE  SessionInv'
  <1>1. CASE VerifySession
    <2>1. CASE Go("before") /\ UNCHANGED sessions
      BY <1>1, <2>1, MoveStep DEF VerifySession
    <2>2. CASE Go("left") /\ sessions' = [sessions EXCEPT ![proof.session].revoked = TRUE]
      <3>1. proof.session \in DOMAIN sessions /\ ~ proof.executed
        BY <1>1 DEF VerifySession, SessionInv, ScriptOK
      <3> QED
        BY <1>1, <2>2, <3>1, RevokeStep DEF VerifySession
    <2> QED
      BY <1>1, <2>1, <2>2 DEF VerifySession
  <1>2. CASE Before
    BY <1>2, MoveStep DEF Before
  <1>3. CASE After
    BY <1>3, MoveStep DEF After
  <1>4. CASE RevokeSession
    <2>1. proof.session \in DOMAIN sessions
      BY <1>4 DEF RevokeSession, SessionInv, ScriptOK
    <2> QED
      BY <1>4, <2>1, RevokeStep DEF RevokeSession
  <1>5. CASE ProofBreak \/ ProofKill
    BY <1>5, MoveStep DEF ProofBreak, ProofKill
  <1> QED
    BY <1>1, <1>2, <1>3, <1>4, <1>5

LEMMA SwapStep == SessionInv /\ ExecuteSwap => SessionInv'
  <1> SUFFICES ASSUME SessionInv, ExecuteSwap PROVE SessionInv'
    OBVIOUS
  <1> USE DEF SessionInv
  <1>1. proof.session \in DOMAIN sessions /\ ~ proof.executed
    BY DEF ExecuteSwap, ScriptOK
  <1>2. /\ proof'.at = "after" /\ proof'.session = proof.session /\ DOMAIN proof' = DOMAIN proof
        /\ proof'.executed => Spend
    BY <1>1 DEF ExecuteSwap, SessionTypes
  <1>3. /\ sessions' \in Seq(OneSession) /\ SessionsKept
        /\ Spend => sessions'[proof.session].used = Trade
    <2>1. CASE Spend
      BY <1>1, <2>1, SpendOnce
    <2>2. CASE ~ Spend
      BY <2>2 DEF ExecuteSwap, SessionTypes, SessionsKept
    <2> QED
      BY <2>1, <2>2
  <1>4. SessionTypes' /\ ScriptOK' /\ BuyerOK'
    BY <1>1, <1>2, <1>3 DEF ExecuteSwap, SessionTypes, ScriptOK, BuyerOK, SessionsKept
  <1> QED
    BY <1>3, <1>4, RecordKept DEF ExecuteSwap

(* The key that is asked again is revoked, so the second swap is refused.        *)
LEMMA ProbeStep == SessionInv /\ ProbeKey => SessionInv'
  <1> SUFFICES ASSUME SessionInv, ProbeKey PROVE SessionInv'
    OBVIOUS
  <1> USE DEF SessionInv
  <1>1. proof.session \in DOMAIN sessions /\ sessions[proof.session].revoked
    BY DEF ProbeKey, ScriptOK
  <1>2. ~ Spend
    BY <1>1, SpendOnce
  <1>3. UNCHANGED <<usdt, router, sessions, buyer, record, chainTime>>
    BY <1>2 DEF ProbeKey
  <1>4. /\ proof'.at = "clear" /\ proof'.session = proof.session /\ DOMAIN proof' = DOMAIN proof
        /\ proof'.executed = proof.executed
    BY <1>2 DEF ProbeKey, Go, SessionTypes
  <1> QED
    BY <1>1, <1>3, <1>4 DEF ProbeKey, SessionTypes, ScriptOK, RecordOK, BuyerOK

LEMMA EndStep ==
    ASSUME SessionInv, ClearAllowance \/ WriteRecord
    PROVE  SessionInv'
  <1> USE DEF SessionInv
  <1>1. UNCHANGED <<buyer, sessions, chainTime>>
    BY DEF ClearAllowance, WriteRecord
  <1>2. proof.session \in DOMAIN sessions /\ sessions[proof.session].revoked
    BY DEF ClearAllowance, WriteRecord, ScriptOK
  <1>3. /\ proof'.session = proof.session /\ DOMAIN proof' = DOMAIN proof
        /\ proof'.executed = proof.executed /\ proof'.script = proof.script
        /\ proof'.at \in {"write", "done", "left"}
    BY DEF ClearAllowance, WriteRecord, Go, SessionTypes
  <1>4. SessionTypes' /\ BuyerOK'
    BY <1>1, <1>3 DEF SessionTypes, BuyerOK
  <1>5. proof.executed => sessions[proof.session].used = Trade
    BY DEF ScriptOK
  <1>6. CASE ClearAllowance
    <2>1. record' = record /\ proof'.at \in {"write", "left"}
          /\ (proof'.at = "write" /\ proof.script = "final" => router' = 0)
      BY <1>6 DEF ClearAllowance, Go, SessionTypes
    <2>2. ScriptOK'
      BY <1>1, <1>2, <1>3, <1>5, <2>1 DEF ScriptOK
    <2>3. RecordOK'
      BY <1>1, <2>1 DEF RecordOK
    <2> QED
      BY <1>4, <2>2, <2>3
  <1>7. CASE WriteRecord
    <2>1. /\ proof'.at = "done" /\ router' = router
          /\ record' = [session |-> proof.session, revoked |-> TRUE,
                        executed |-> proof.executed, residual |-> router]
          /\ (proof.script = "final" => router = 0)
      BY <1>7 DEF WriteRecord, Go, SessionTypes, ScriptOK
    <2>2. ScriptOK'
      BY <1>1, <1>2, <1>3, <1>5, <2>1 DEF ScriptOK
    <2>3. RecordOK'
      BY <1>1, <1>2, <1>5, <2>1 DEF RecordOK
    <2> QED
      BY <1>4, <2>2, <2>3
  <1> QED
    BY <1>6, <1>7

LEMMA SessionNextOK == SessionInv /\ [SessionProofNext]_proofVars => SessionInv'
  <1> SUFFICES ASSUME SessionInv, [SessionProofNext]_proofVars PROVE SessionInv'
    OBVIOUS
  <1>1. CASE UNCHANGED proofVars
    BY <1>1 DEF proofVars, SessionInv, SessionTypes, ScriptOK, RecordOK, BuyerOK
  <1>2. CASE SessionProofNext
    BY <1>2, AcquisitionStep, OutsideStep, BeforeGrantStep, GrantStep, VerifyStep, SwapStep,
       ProbeStep, EndStep DEF SessionProofNext
  <1> QED
    BY <1>1, <1>2

LEMMA SessionProven == DeskSpec => []SessionInv
  <1>1. DeskInit => SessionInv
    BY SessionInitOK DEF DeskInit
  <1>2. [DeskNext]_deskVars => [SessionProofNext]_proofVars
    BY DEF DeskNext, deskVars, GridPart, LeashPart, ProofPart, FleetPart, LimitPart, RegistryPart,
           RangePart, ScoutPart, GradingPart
  <1> QED
    BY <1>1, <1>2, SessionNextOK, PTL DEF DeskSpec

(* Whatever call fails and wherever a script is killed, and however many scripts  *)
(* follow each other, grid-session.json says of a session only what is so on    *)
(* chain: it is revoked, and it did the swap that is listed and no more than one *)
(* (altana-final-proof, altana-proof-run).                                    *)
THEOREM RecordsTrue == DeskSpec => []RecordIsTrue
  <1>1. SessionInv => RecordIsTrue
    <2> SUFFICES ASSUME SessionInv, record # None, record.revoked
                 PROVE  RecordIsTrue
      BY DEF RecordIsTrue
    <2>1. record.session \in DOMAIN sessions
      BY DEF SessionInv, RecordOK
    <2>2. sessions[record.session] \in OneSession
      BY <2>1 DEF SessionInv, SessionTypes
    <2>3. sessions[record.session].used \in {0, Trade}
      BY <2>2 DEF OneSession
    <2> QED
      BY <2>1, <2>3 DEF SessionInv, RecordOK, RecordIsTrue, Trade
  <1> QED
    BY <1>1, SessionProven, PTL

(* However its swap went, for any amounts received and although the transaction  *)
(* that takes an allowance back may be mined reverted: altana-final-proof and the *)
(* acquisition leave none at their end, and altana-proof-run leaves none but what *)
(* its document states.                                                      *)
THEOREM ApprovalsCleared == DeskSpec => []NoStandingApproval
  <1>1. SessionInv => NoStandingApproval
    BY DEF SessionInv, ScriptOK, BuyerOK, NoStandingApproval
  <1> QED
    BY <1>1, SessionProven, PTL

(* --------------------------------- Fleet --------------------------------- *)

FleetTypes ==
    /\ made \in Seq(Roles)
    /\ dir \in [Roles -> [keys : SUBSET Nat, pass : Nat \cup {None}]]
    /\ signed \in [Providers -> Seq(Nat)]
    /\ DOMAIN records = Providers
    /\ DOMAIN makers = Makers
    /\ \A m \in Makers : DOMAIN makers[m] = {"at", "role", "wallet"}
    /\ DOMAIN registrar = {"at", "role", "url", "live", "wallet"}

Created(w, r) == w \in Wallets /\ made[w] = r

(* A keystore is listed under the role it was created for.                     *)
KeysOK ==
    \A r \in Roles : IsFiniteSet(dir[r].keys) /\ \A w \in dir[r].keys : Created(w, r)

MakersOK ==
    \A m \in Makers :
        /\ makers[m].at \in {"persist", "password"} => makers[m].role \in Roles
        /\ makers[m].at = "password" => makers[m].wallet \in Nat
        /\ makers[m].at \in {"off", "persist", "password"}

SignersOK == \A p \in Providers : \A w \in Range(signed[p]) : Created(w, p)

FundsOK ==
    /\ funded \in Seq([role : Roles, to : Nat, asked : Roles])
    /\ \A k \in DOMAIN funded :
        /\ Created(funded[k].to, funded[k].asked)
        /\ funded[k].role \in Providers =>
            funded[k].asked \in Providers /\ funded[k].to \in Range(signed[funded[k].asked])
        /\ funded[k].role = "action" => funded[k].asked = "action"

(* What a registrar of any agent but the health agent knows.                   *)
RegistrarOK ==
    /\ identities \in Seq([owner : Nat \cup {None}, endpoint : Providers])
    /\ registrar.at # "off" =>
        /\ registrar.role \in Providers /\ registrar.url \in Providers
        /\ registrar.at \in {"mine", "record"} => registrar.wallet \in Nat
        /\ registrar.role # "health" =>
            /\ registrar.url = registrar.role
            /\ registrar.live \in Range(signed[registrar.role])
            /\ registrar.at \in {"mine", "record"} => registrar.wallet = registrar.live
            /\ registrar.at = "record" => \E k \in DOMAIN identities :
                identities[k] = [owner |-> registrar.wallet, endpoint |-> registrar.url]

FleetInv ==
    FleetTypes /\ KeysOK /\ MakersOK /\ SignersOK /\ FundsOK /\ RegistrarOK /\ RecordServed

LEMMA FleetInitOK == FleetInit => FleetInv
  <1> SUFFICES ASSUME FleetInit PROVE FleetInv
    OBVIOUS
  <1>1. FleetTypes
    BY DEF FleetInit, FleetTypes, EmptyRole, NoScript, NoRegistrar
  <1>2. KeysOK
    BY FS_EmptySet DEF FleetInit, KeysOK, EmptyRole
  <1>3. \A p \in Providers : Range(signed[p]) = {}
    BY DEF FleetInit, Range
  <1>4. MakersOK /\ SignersOK /\ FundsOK /\ RegistrarOK /\ RecordServed
    BY <1>3 DEF FleetInit, MakersOK, SignersOK, FundsOK, RegistrarOK, RecordServed, NoScript,
                NoRegistrar
  <1> QED
    BY <1>1, <1>2, <1>4 DEF FleetInv

(* What the creation scripts do.                                              *)
LEMMA CreationStep ==
    ASSUME FleetInv, NEW m \in Makers,
           WritePassword(m) \/ MakerKilled(m) \/ \E r \in Roles : ListKeystores(m, r)
    PROVE  FleetInv'
  <1> USE DEF FleetInv
  <1>1. UNCHANGED <<made, signed, funded, identities, records, registrar>>
    BY DEF WritePassword, MakerKilled, ListKeystores
  <1>2. MakersOK' /\ DOMAIN makers' = Makers
        /\ \A n \in Makers : DOMAIN makers'[n] = {"at", "role", "wallet"}
    <2>1. CASE makers' = [makers EXCEPT ![m] = NoScript]
      BY <2>1 DEF MakersOK, FleetTypes, NoScript
    <2>2. ASSUME NEW r \in Roles,
                 makers' = [makers EXCEPT ![m] = [at |-> "persist", role |-> r, wallet |-> None]]
          PROVE  /\ MakersOK' /\ DOMAIN makers' = Makers
                 /\ \A n \in Makers : DOMAIN makers'[n] = {"at", "role", "wallet"}
      BY <2>2 DEF MakersOK, FleetTypes
    <2> QED
      BY <2>1, <2>2 DEF WritePassword, MakerKilled, ListKeystores
  <1>3. /\ dir' \in [Roles -> [keys : SUBSET Nat, pass : Nat \cup {None}]]
        /\ \A r \in Roles : dir'[r].keys = dir[r].keys
    <2>1. CASE WritePassword(m)
      <3>1. CASE dir' = dir
        BY <3>1 DEF FleetTypes
      <3>2. CASE dir' = [dir EXCEPT ![makers[m].role].pass = makers[m].wallet]
        <4> DEFINE r == makers[m].role
        <4>1. r \in Roles /\ makers[m].wallet \in Nat
          BY <2>1 DEF WritePassword, MakersOK
        <4>2. [dir[r] EXCEPT !.pass = makers[m].wallet] \in [keys : SUBSET Nat, pass : Nat \cup {None}]
              /\ [dir[r] EXCEPT !.pass = makers[m].wallet].keys = dir[r].keys
          BY <4>1 DEF FleetTypes
        <4>3. dir' = [dir EXCEPT ![r] = [dir[r] EXCEPT !.pass = makers[m].wallet]]
          BY <3>2
        <4> QED
          BY <4>1, <4>2, <4>3 DEF FleetTypes
      <3> QED
        BY <2>1, <3>1, <3>2 DEF WritePassword
    <2>2. CASE ~ WritePassword(m)
      BY <2>2 DEF MakerKilled, ListKeystores, FleetTypes
    <2> QED
      BY <2>1, <2>2
  <1>4. FleetTypes' /\ KeysOK'
    BY <1>1, <1>2, <1>3 DEF FleetTypes, KeysOK, Created, Wallets
  <1> QED
    BY <1>1, <1>2, <1>4 DEF SignersOK, FundsOK, RegistrarOK, RecordServed, Created, Wallets

(* A new wallet changes nothing of the ones before it.                         *)
LEMMA PersistStep ==
    ASSUME FleetInv, NEW m \in Makers, PersistKeystore(m)
    PROVE  FleetInv'
  <1> USE DEF FleetInv
  <1>0. PICK r, new : r = makers[m].role /\ new = Len(made) + 1
    OBVIOUS
  <1>1. r \in Roles /\ new \in Nat
    BY <1>0 DEF PersistKeystore, MakersOK, FleetTypes
  <1>2. made' \in Seq(Roles) /\ new \in DOMAIN made' /\ made'[new] = r
    <2>1. made \in Seq(Roles) /\ made' = Append(made, r)
      BY <1>0 DEF PersistKeystore, FleetTypes
    <2> QED
      BY <1>0, <1>1, <2>1
  <1>3. \A w, p : Created(w, p) => Created(w, p)'
    <2>1. \A w \in DOMAIN made : w \in DOMAIN made' /\ made'[w] = made[w]
      BY <1>0, <1>1 DEF PersistKeystore, FleetTypes
    <2> QED
      BY <2>1 DEF Created, Wallets
  <1>4. /\ dir' \in [Roles -> [keys : SUBSET Nat, pass : Nat \cup {None}]]
        /\ dir'[r].keys = dir[r].keys \cup {new}
        /\ \A p \in Roles \ {r} : dir'[p].keys = dir[p].keys
    BY <1>0, <1>1 DEF PersistKeystore, FleetTypes
  <1>5. KeysOK'
    <2> SUFFICES ASSUME NEW p \in Roles
                 PROVE  IsFiniteSet(dir'[p].keys) /\ \A w \in dir'[p].keys : Created(w, p)'
      BY DEF KeysOK
    <2>1. CASE p = r
      <3>1. IsFiniteSet(dir[r].keys) /\ \A w \in dir[r].keys : Created(w, r)
        BY <1>1 DEF KeysOK
      <3>2. IsFiniteSet(dir[r].keys \cup {new})
        BY <3>1, FS_AddElement
      <3>3. dir'[p].keys = dir[r].keys \cup {new}
        BY <1>4, <2>1
      <3>4. Created(new, p)'
        BY <1>2, <2>1 DEF Created, Wallets
      <3>5. \A w \in dir[r].keys : Created(w, p)'
        BY <1>3, <2>1, <3>1
      <3> QED
        BY <3>2, <3>3, <3>4, <3>5
    <2>2. CASE p # r
      BY <1>3, <1>4, <2>2 DEF KeysOK
    <2> QED
      BY <2>1, <2>2
  <1>6. MakersOK' /\ DOMAIN makers' = Makers
        /\ \A n \in Makers : DOMAIN makers'[n] = {"at", "role", "wallet"}
    BY <1>0, <1>1 DEF PersistKeystore, MakersOK, FleetTypes
  <1>7. UNCHANGED <<signed, funded, identities, records, registrar>>
    BY DEF PersistKeystore
  <1>8. FleetTypes'
    BY <1>2, <1>4, <1>6, <1>7 DEF FleetTypes
  <1>9. SignersOK' /\ FundsOK'
    BY <1>3, <1>7 DEF SignersOK, FundsOK
  <1>10. RegistrarOK' /\ RecordServed'
    BY <1>7 DEF RegistrarOK, RecordServed
  <1> QED
    BY <1>5, <1>6, <1>8, <1>9, <1>10

LEMMA EmptyStep == FleetInv /\ EmptyDirectory => FleetInv'
  <1> SUFFICES ASSUME FleetInv, EmptyDirectory PROVE FleetInv'
    OBVIOUS
  <1> USE DEF FleetInv
  <1>1. FleetTypes' /\ KeysOK'
    BY FS_EmptySet DEF EmptyDirectory, FleetTypes, KeysOK, EmptyRole
  <1> QED
    BY <1>1 DEF EmptyDirectory, MakersOK, SignersOK, FundsOK, RegistrarOK, RecordServed, Created,
                Wallets

LEMMA RangeOfAppend ==
    ASSUME NEW S, NEW s \in Seq(S), NEW x \in S
    PROVE  Range(Append(s, x)) = Range(s) \cup {x}
  <1> DEFINE t == Append(s, x)
  <1>1. /\ DOMAIN t = DOMAIN s \cup {Len(s) + 1}
        /\ t[Len(s) + 1] = x
        /\ \A k \in DOMAIN s : t[k] = s[k]
    OBVIOUS
  <1> HIDE DEF t
  <1>2. Range(t) = Range(s) \cup {x}
    BY <1>1 DEF Range
  <1> QED
    BY <1>2 DEF t

(* A service signs with a wallet of its own role, and what it signed with before *)
(* stays known.                                                              *)
LEMMA ServeStep ==
    ASSUME FleetInv, NEW p \in Providers, Serve(p)
    PROVE  FleetInv'
  <1> USE DEF FleetInv
  <1>1. p \in Roles
    BY DEF Roles
  <1>2. dir[p].pass \in Nat /\ Created(dir[p].pass, p)
    BY <1>1 DEF Serve, FleetTypes, KeysOK
  <1>3. signed' \in [Providers -> Seq(Nat)]
    BY <1>2 DEF Serve, FleetTypes
  <1>4. /\ Range(signed'[p]) = Range(signed[p]) \cup {dir[p].pass}
        /\ \A q \in Providers \ {p} : signed'[q] = signed[q]
    <2>1. signed'[p] = Append(signed[p], dir[p].pass) /\ signed[p] \in Seq(Nat)
      BY DEF Serve, FleetTypes
    <2>2. Range(Append(signed[p], dir[p].pass)) = Range(signed[p]) \cup {dir[p].pass}
      BY <1>2, <2>1, RangeOfAppend
    <2> QED
      BY <2>1, <2>2 DEF Serve, FleetTypes
  <1>5. \A q \in Providers : Range(signed[q]) \subseteq Range(signed'[q])
    BY <1>4
  <1>6. UNCHANGED <<dir, made, makers, funded, identities, records, registrar>>
    BY DEF Serve
  <1>7. FleetTypes' /\ KeysOK' /\ MakersOK'
    BY <1>3, <1>6 DEF FleetTypes, KeysOK, MakersOK, Created, Wallets
  <1>8. SignersOK'
    BY <1>2, <1>4, <1>6 DEF SignersOK, Created, Wallets
  <1>9. FundsOK'
    BY <1>5, <1>6 DEF FundsOK, Created, Wallets
  <1>10. RegistrarOK' /\ RecordServed'
    BY <1>5, <1>6 DEF RegistrarOK, RecordServed
  <1> QED
    BY <1>7, <1>8, <1>9, <1>10

LEMMA LiveIsSigned ==
    ASSUME FleetInv, NEW p \in Providers, LiveWallet(p) # None
    PROVE  LiveWallet(p) \in Range(signed[p])
  <1>1. signed[p] \in Seq(Nat) /\ signed[p] # <<>> /\ LiveWallet(p) = signed[p][Len(signed[p])]
    BY DEF FleetInv, FleetTypes, LiveWallet
  <1>2. Len(signed[p]) \in DOMAIN signed[p]
    BY <1>1
  <1> QED
    BY <1>1, <1>2 DEF Range

LEMMA FundStep ==
    ASSUME FleetInv, FundAction \/ \E p \in Providers : FundProvider(p)
    PROVE  FleetInv'
  <1> USE DEF FleetInv
  <1>1. UNCHANGED <<dir, made, makers, signed, identities, records, registrar>>
    BY DEF FundAction, FundProvider
  <1>2. PICK r \in Roles, u \in Roles, w \in Nat :
            /\ funded' = Append(funded, [role |-> r, to |-> w, asked |-> u])
            /\ Created(w, u)
            /\ r \in Providers => u \in Providers /\ w \in Range(signed[u])
            /\ r = "action" => u = "action"
    <2>1. ASSUME NEW p \in Providers, FundProvider(p)
          PROVE  \E u \in Providers, w \in Nat :
                    /\ funded' = Append(funded, [role |-> p, to |-> w, asked |-> u])
                    /\ Created(w, u) /\ w \in Range(signed[u])
      <3>1. PICK u \in Providers :
                \E to : /\ Payable(p, to, u)
                        /\ funded' = Append(funded, [role |-> p, to |-> to, asked |-> u])
        BY <2>1 DEF FundProvider
      <3>2. PICK to : /\ Payable(p, to, u)
                      /\ funded' = Append(funded, [role |-> p, to |-> to, asked |-> u])
        BY <3>1
      <3>3. to \in Range(signed[u])
        BY <3>2, LiveIsSigned DEF Payable, Fundable
      <3>4. to \in Nat
        BY <3>3 DEF FleetTypes, Range
      <3> QED
        BY <3>2, <3>3, <3>4 DEF SignersOK
    <2>2. ASSUME FundAction
          PROVE  \E w \in Nat : /\ funded' = Append(funded, [role |-> "action", to |-> w,
                                                            asked |-> "action"])
                                /\ Created(w, "action")
      <3>1. "action" \in Roles
        BY DEF Roles
      <3>2. PICK x : dir["action"].keys = {x}
        BY <2>2, <3>1, FS_Singleton DEF FundAction, KeysOK
      <3>3. x \in Nat /\ Created(x, "action")
        BY <3>1, <3>2 DEF FleetTypes, KeysOK
      <3>4. LocalWallet("action") = x
        BY <3>2, <3>3 DEF LocalWallet, Min
      <3> QED
        BY <2>2, <3>3, <3>4 DEF FundAction
    <2>3. "action" \notin Providers
      BY ProvidersAssumption
    <2> QED
      BY <2>1, <2>2, <2>3 DEF Roles
  <1>3. FundsOK'
    <2>1. [role |-> r, to |-> w, asked |-> u] \in [role : Roles, to : Nat, asked : Roles]
      OBVIOUS
    <2>2. funded' \in Seq([role : Roles, to : Nat, asked : Roles])
      BY <1>2, <2>1 DEF FundsOK
    <2>3. \A k \in DOMAIN funded' : IF k \in DOMAIN funded THEN funded'[k] = funded[k]
                                    ELSE funded'[k] = [role |-> r, to |-> w, asked |-> u]
      BY <1>2, <2>1 DEF FundsOK
    <2> QED
      BY <1>1, <1>2, <2>2, <2>3 DEF FundsOK, Created, Wallets
  <1> QED
    BY <1>1, <1>3 DEF FleetTypes, KeysOK, MakersOK, SignersOK, RegistrarOK, RecordServed, Created,
                      Wallets

LEMMA RegistrarStep ==
    ASSUME FleetInv,
           \/ OpenWallet \/ RegisterAgent \/ WriteIdentity \/ RegistrarEnds
           \/ \E p, url \in Providers : ProbeEndpoint(p, url)
    PROVE  FleetInv'
  <1> USE DEF FleetInv
  <1>1. UNCHANGED <<dir, made, makers, signed, funded>>
    BY DEF OpenWallet, RegisterAgent, WriteIdentity, RegistrarEnds, ProbeEndpoint
  <1>2. DOMAIN registrar' = DOMAIN registrar /\ DOMAIN records' = DOMAIN records
    BY DEF FleetTypes, OpenWallet, RegisterAgent, WriteIdentity, RegistrarEnds, ProbeEndpoint,
           NoRegistrar
  <1>3. RegistrarOK'
    <2>1. ASSUME NEW p \in Providers, NEW url \in Providers, ProbeEndpoint(p, url)
          PROVE  RegistrarOK'
      <3>1. LiveWallet(url) \in Range(signed[url])
        BY <2>1, LiveIsSigned DEF ProbeEndpoint
      <3> QED
        BY <2>1, <3>1 DEF ProbeEndpoint, RegistrarOK
    <2>2. CASE OpenWallet
      <3>1. PICK w \in dir[registrar.role].keys :
                OwnWallet(w) /\ registrar' = [registrar EXCEPT !.at = "mine", !.wallet = w]
        BY <2>2 DEF OpenWallet
      <3>2. registrar.role \in Providers
        BY <2>2 DEF OpenWallet, RegistrarOK
      <3>3. w \in Nat
        BY <3>1, <3>2 DEF FleetTypes, Roles
      <3> QED
        BY <2>2, <3>1, <3>3 DEF OpenWallet, RegistrarOK, FleetTypes, OwnWallet
    <2>3. CASE RegisterAgent
      <3> DEFINE i == [owner |-> registrar.wallet, endpoint |-> registrar.url]
      <3>1. i \in [owner : Nat \cup {None}, endpoint : Providers]
        BY <2>3 DEF RegisterAgent, RegistrarOK
      <3>2. identities' = Append(identities, i)
        BY <2>3 DEF RegisterAgent
      <3>3. /\ identities' \in Seq([owner : Nat \cup {None}, endpoint : Providers])
            /\ \E k \in DOMAIN identities' : identities'[k] = i
        <4> HIDE DEF i
        <4>1. identities \in Seq([owner : Nat \cup {None}, endpoint : Providers])
          BY DEF RegistrarOK
        <4> QED
          BY <3>1, <3>2, <4>1
      <3> QED
        BY <2>3, <3>3 DEF RegisterAgent, RegistrarOK, FleetTypes
    <2>4. CASE WriteIdentity \/ RegistrarEnds
      BY <2>4 DEF WriteIdentity, RegistrarEnds, RegistrarOK, NoRegistrar
    <2> QED
      BY <2>1, <2>2, <2>3, <2>4
  <1>4. RecordServed'
    <2>1. CASE WriteIdentity
      <3>1. PICK id : records' = [records EXCEPT ![registrar.role] =
                [provider |-> registrar.wallet, endpoint |-> registrar.url, id |-> id]]
        BY <2>1 DEF WriteIdentity
      <3>2. identities' = identities /\ signed' = signed
        BY <2>1 DEF WriteIdentity
      <3> QED
        BY <2>1, <3>1, <3>2 DEF WriteIdentity, RecordServed, RegistrarOK, FleetTypes
    <2>2. CASE RegisterAgent
      <3>1. \A k \in DOMAIN identities : k \in DOMAIN identities' /\ identities'[k] = identities[k]
        BY <2>2 DEF RegisterAgent, RegistrarOK
      <3> QED
        BY <2>2, <3>1 DEF RegisterAgent, RecordServed
    <2>3. CASE ~ WriteIdentity /\ ~ RegisterAgent
      BY <2>3 DEF OpenWallet, RegistrarEnds, ProbeEndpoint, RecordServed
    <2> QED
      BY <2>1, <2>2, <2>3
  <1> QED
    BY <1>1, <1>2, <1>3, <1>4 DEF FleetTypes, KeysOK, MakersOK, SignersOK, FundsOK, Created, Wallets

LEMMA FleetNextOK == FleetInv /\ [FleetNext]_fleetVars => FleetInv'
  <1> SUFFICES ASSUME FleetInv, [FleetNext]_fleetVars PROVE FleetInv'
    OBVIOUS
  <1>1. CASE UNCHANGED fleetVars
    BY <1>1 DEF fleetVars, FleetInv, FleetTypes, KeysOK, MakersOK, SignersOK, FundsOK, RegistrarOK,
                RecordServed, Created, Wallets
  <1>2. CASE FleetNext
    <2>1. DOMAIN makers = Makers
      BY DEF FleetInv, FleetTypes
    <2> QED
      BY <1>2, <2>1, CreationStep, PersistStep, EmptyStep, ServeStep, FundStep, RegistrarStep
      DEF FleetNext
  <1> QED
    BY <1>1, <1>2

LEMMA FleetProven == DeskSpec => []FleetInv
  <1>1. DeskInit => FleetInv
    BY FleetInitOK DEF DeskInit
  <1>2. [DeskNext]_deskVars => [FleetNext]_fleetVars
    BY DEF DeskNext, deskVars, GridPart, LeashPart, ProofPart, FleetPart, LimitPart, RegistryPart,
           RangePart, ScoutPart, GradingPart
  <1> QED
    BY <1>1, <1>2, FleetNextOK, PTL DEF DeskSpec

(* For any number of creations that are killed or run beside each other, data    *)
(* directories lost, restarts of the services, and recipients and service        *)
(* addresses given by hand: money for the grid goes to a wallet of the grid, and  *)
(* for an agent to one the service asked has signed with, created for the agent  *)
(* of that service.                                                          *)
THEOREM FundsArrive == DeskSpec => []FundsReachWhoSigns
  <1>1. FleetInv => FundsReachWhoSigns
    BY DEF FleetInv, FundsOK, FundsReachWhoSigns, Created
  <1> QED
    BY <1>1, FleetProven, PTL

(* An identity record that a registrar with a category check wrote names an       *)
(* endpoint and a wallet that belong together, and an identity on chain is behind *)
(* it, whatever was restarted while it ran.                                   *)
THEOREM RecordsServed == DeskSpec => []RecordServed
  <1>1. FleetInv => RecordServed
    BY DEF FleetInv
  <1> QED
    BY <1>1, FleetProven, PTL

=============================================================================
