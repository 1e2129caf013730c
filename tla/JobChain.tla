------------------------------- MODULE JobChain -------------------------------
(***************************************************************************)
(* The ERC-8183 jobs of the operator's own paid runs, one job for each run,   *)
(* as the scripts and the reference agents see them: the contract's status,   *)
(* what was delivered, and the deadlines that pass.  External to the          *)
(* repository.                                                               *)
(***************************************************************************)
EXTENDS Naturals

CONSTANTS
    Runs,       \* run ids; run r makes at most one job
    None

VARIABLES
    kind,       \* which script makes the run
    chain,      \* the status getJob answers, None before createJob mines
    content,    \* whether the deliverable submitted on chain answers the task
    window,     \* 0 observed, 1 may still submit, 2 may not, 3 past expiredAt
    ripe        \* the dispute window of the submission is over

chainVars == <<kind, chain, content, window, ripe>>

Kinds == {"grid", "yield", "range", "health", "control"}

Statuses == {"OPEN", "FUNDED", "SUBMITTED", "COMPLETED", "REJECTED", "EXPIRED"}

Final == {"COMPLETED", "REJECTED", "EXPIRED"}

(* What a deliverable can be wrong in, and each script refuses in it: it is    *)
(* malformed or bound to another frozen packet, or it tells what it must not, *)
(* a human answer or a fill it cannot have made.                             *)
GridRefused == {"malformed", "packet", "precommit", "scenarios", "fill"}

YieldRefused == {"malformed", "packet", "position", "leak"}

RangeRefused == {"malformed", "packet", "position", "leak"}

HealthRefused == {"malformed", "packet", "position", "leak"}

ControlRefused == {"malformed", "input"}

Refused(k) ==
    CASE k = "grid" -> GridRefused
      [] k = "yield" -> YieldRefused
      [] k = "range" -> RangeRefused
      [] k = "health" -> HealthRefused
      [] k = "control" -> ControlRefused

Contents == {"good"} \cup UNION {Refused(k) : k \in Kinds}

ASSUME NoneAssumption == None \notin Statuses \cup Contents

ChainInit ==
    /\ kind \in [Runs -> Kinds]
    /\ chain = [r \in Runs |-> None]
    /\ content = [r \in Runs |-> None]
    /\ window = [r \in Runs |-> 0]
    /\ ripe = [r \in Runs |-> FALSE]

ChainTypeOK ==
    /\ kind \in [Runs -> Kinds]
    /\ chain \in [Runs -> Statuses \cup {None}]
    /\ content \in [Runs -> Contents \cup {None}]
    /\ window \in [Runs -> 0..3]
    /\ ripe \in [Runs -> BOOLEAN]

(* A transaction of the buyer mines.  Only creating and funding change what   *)
(* anyone tells apart.                                                       *)
Mine(r, step) ==
    chain' = CASE step = "create" -> [chain EXCEPT ![r] = "OPEN"]
               [] step = "fund" -> [chain EXCEPT ![r] = "FUNDED"]
               [] OTHER -> chain

(* The provider's submission, accepted until the dispute window before expiry. *)
Deliver(r, c) ==
    /\ chain[r] = "FUNDED"
    /\ window[r] <= 1
    /\ chain' = [chain EXCEPT ![r] = "SUBMITTED"]
    /\ content' = [content EXCEPT ![r] = c]

(* settle and claimRefund, which anybody may call.                           *)
MineSettle(r) ==
    /\ chain[r] = "SUBMITTED"
    /\ ripe[r]
    /\ chain' = [chain EXCEPT ![r] = "COMPLETED"]

MineRefund(r) ==
    /\ chain[r] = "FUNDED"
    /\ window[r] = 3
    /\ chain' = [chain EXCEPT ![r] = "EXPIRED"]

(* A dispute ends in a rejection.                                            *)
MineReject(r) ==
    /\ chain[r] = "SUBMITTED"
    /\ ~ ripe[r]
    /\ chain' = [chain EXCEPT ![r] = "REJECTED"]

(* A deadline passes.                                                        *)
Lapse(r) ==
    /\ chain[r] = "FUNDED"
    /\ window[r] < 3
    /\ window' = [window EXCEPT ![r] = @ + 1]
    /\ UNCHANGED <<kind, chain, content, ripe>>

Ripen(r) ==
    /\ content[r] # None
    /\ ~ ripe[r]
    /\ ripe' = [ripe EXCEPT ![r] = TRUE]
    /\ UNCHANGED <<kind, chain, content, window>>

=============================================================================
