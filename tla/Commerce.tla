------------------------------ MODULE Commerce ------------------------------
(***************************************************************************)
(* The ERC-8183 Commerce and Router contracts and the buyers' wallets, as   *)
(* the public-hire server sees them: a job's status, and the transactions   *)
(* that mined successfully.  The contracts are not part of the repository;  *)
(* what is stated here is what src/src/protocol/hire-tx.mjs and the hire     *)
(* handlers rely on.                                                        *)
(***************************************************************************)
CONSTANTS
    Jobs,       \* on-chain jobs a wallet may create
    Buyers,     \* wallet addresses
    Quotes,     \* quote ids
    JobClient,  \* JobClient[j]: the wallet that sends every transaction of j
    JobQuote,   \* JobQuote[j]: the quote whose exact terms j carries, or None
    WalletTxs,  \* the transactions the wallets may send, a bound
    JobMoves,   \* the <<job, status>> a job may move to unreported, a bound
    None

VARIABLES
    jobStatus,  \* jobStatus[j]: the status getJob reports, "NONE" before createJob
    mined       \* the transactions with a successful receipt

chainVars == <<jobStatus, mined>>

(* The five wallet steps of one hire, in canonical order.                   *)
Kinds == {"approve", "create", "register", "budget", "fund"}

StepRank == [approve |-> 1, create |-> 2, register |-> 3, budget |-> 4, fund |-> 5]

(* One transaction per kind and job; an approval names no job on chain, its *)
(* job field only tells the approvals of one wallet apart.                  *)
Tx == [kind : Kinds, job : Jobs]

TxOf(k, j) == [kind |-> k, job |-> j]

Mined(k, j) == TxOf(k, j) \in mined

JobStatuses ==
    {"NONE", "OPEN", "FUNDED", "SUBMITTED", "COMPLETED", "REJECTED", "EXPIRED"}

Delivered == {"SUBMITTED", "COMPLETED"}

(* The provider's work is on chain: it was submitted, whatever the verdict.  *)
HasDeliverable(j) ==
    \/ jobStatus[j] \in Delivered
    \/ jobStatus[j] = "REJECTED" /\ Mined("fund", j)

ASSUME ChainAssumption ==
    /\ JobClient \in [Jobs -> Buyers]
    /\ JobQuote \in [Jobs -> Quotes \cup {None}]
    /\ WalletTxs \subseteq Tx
    /\ JobMoves \subseteq Jobs \X JobStatuses
    /\ None \notin Jobs \cup Buyers \cup Quotes

ChainTypeOK ==
    /\ jobStatus \in [Jobs -> JobStatuses]
    /\ mined \subseteq Tx

ChainInit ==
    /\ jobStatus = [j \in Jobs |-> "NONE"]
    /\ mined = {}

Move(j, from, to) ==
    /\ jobStatus[j] \in from
    /\ jobStatus' = [jobStatus EXCEPT ![j] = to]

MoveOn(j, from, to) ==
    /\ <<j, to>> \in JobMoves
    /\ Move(j, from, to)
    /\ UNCHANGED mined

Mine(k, j) ==
    /\ TxOf(k, j) \in WalletTxs \ mined
    /\ mined' = mined \cup {TxOf(k, j)}

(* ------------------------------ the wallet ------------------------------ *)

Approve(j) == Mine("approve", j) /\ UNCHANGED jobStatus

CreateJob(j) == Mine("create", j) /\ Move(j, {"NONE"}, "OPEN")

RegisterJob(j) ==
    /\ jobStatus[j] = "OPEN"
    /\ Mine("register", j)
    /\ UNCHANGED jobStatus

SetBudget(j) ==
    /\ jobStatus[j] = "OPEN"
    /\ Mine("budget", j)
    /\ UNCHANGED jobStatus

Fund(j) ==
    /\ Mined("budget", j)
    /\ Mine("fund", j)
    /\ Move(j, {"OPEN"}, "FUNDED")

CancelJob(j) == MoveOn(j, {"OPEN"}, "REJECTED")

(* ----------------- the provider, the evaluator, the clock ---------------- *)

SubmitWork(j) == MoveOn(j, {"FUNDED"}, "SUBMITTED")

Settle(j) ==
    \E verdict \in {"COMPLETED", "REJECTED"} : MoveOn(j, {"SUBMITTED"}, verdict)

ExpireJob(j) == MoveOn(j, {"OPEN", "FUNDED"}, "EXPIRED")

(* What the chain does without the buyer.                                   *)
ChainStep(j) == SubmitWork(j) \/ Settle(j) \/ ExpireJob(j)

=============================================================================
