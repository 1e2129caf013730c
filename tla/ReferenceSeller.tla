---------------------------- MODULE ReferenceSeller ----------------------------
(***************************************************************************)
(* A first-party agent's process: its runtime, whose worker state readiness   *)
(* is read from, and its watcher, which verifies a funded job, works it and   *)
(* submits the result.                                                       *)
(***************************************************************************)
EXTENDS JobChain

VARIABLES
    worker,     \* the worker state of each agent's runtime
    seller      \* what the watcher has done for each job

sellerVars == <<worker, seller>>

Agents == Kinds \ {"control"}

WorkerStates == {"not_started", "idle", "working", "failed"}

(* How each agent's task handler ends: the grid's answers come from a         *)
(* definition frozen in its code, the others' need a task file with all the   *)
(* evidence the analysis asks for.                                           *)
GridOutcomes == {"answered"}

YieldOutcomes == {"answered", "declined", "threw"}

RangeOutcomes == {"answered", "declined", "threw"}

HealthOutcomes == {"answered", "declined", "threw"}

Outcomes(k) ==
    CASE k = "grid" -> GridOutcomes
      [] k = "yield" -> YieldOutcomes
      [] k = "range" -> RangeOutcomes
      [] k = "health" -> HealthOutcomes

SellerInit ==
    /\ worker = [k \in Agents |-> "idle"]
    /\ seller = [r \in Runs |-> "waiting"]

SellerTypeOK ==
    /\ worker \in [Agents -> WorkerStates]
    /\ seller \in [Runs -> {"waiting", "verified", "working", "worked", "ended"}]

(* readiness: the heartbeat is refreshed by a timer, so that it is the state  *)
(* that tells.                                                               *)
WorkerAlive(k) == worker[k] \notin {"not_started", "failed"}

(* verifyJob: a job that is not funded, or cannot be read, is rejected and    *)
(* the watcher is done with it.                                              *)
Verify(r) ==
    /\ kind[r] \in Agents
    /\ worker[kind[r]] # "not_started"
    /\ seller[r] = "waiting"
    /\ chain[r] \notin {None, "OPEN"}
    /\ \/ chain[r] = "FUNDED" /\ seller' = [seller EXCEPT ![r] = "verified"]
       \/ seller' = [seller EXCEPT ![r] = "ended"]
    /\ UNCHANGED <<worker, chainVars>>

(* runtime.work: the task handler answers, declines or throws.               *)
StartWork(r) ==
    /\ seller[r] = "verified"
    /\ seller' = [seller EXCEPT ![r] = "working"]
    /\ worker' = [worker EXCEPT ![kind[r]] = "working"]
    /\ UNCHANGED chainVars

EndWork(r) ==
    /\ seller[r] = "working"
    /\ \E how \in Outcomes(kind[r]) :
        /\ worker' = [worker EXCEPT ![kind[r]] = IF how = "threw" THEN "failed" ELSE "idle"]
        /\ seller' = [seller EXCEPT ![r] = IF how = "answered" THEN "worked" ELSE "ended"]
    /\ UNCHANGED chainVars

(* submitResult mines or not, and reports success, a failure to retry, or a   *)
(* failure.  A failure may be reported of a submission that mined.           *)
SubmitResult(r) ==
    /\ seller[r] = "worked"
    /\ \E s \in {"ended", "waiting"} : seller' = [seller EXCEPT ![r] = s]
    /\ \/ \E c \in {"good"} \cup Refused(kind[r]) : Deliver(r, c)
       \/ UNCHANGED <<chain, content>>
    /\ UNCHANGED <<worker, kind, window, ripe>>

(* The process starts again, with no memory of jobs; it watches for them only  *)
(* when fulfilment is enabled.                                               *)
RestartAgent(k) ==
    /\ \E state \in {"idle", "not_started"} : worker' = [worker EXCEPT ![k] = state]
    /\ seller' = [r \in Runs |-> IF kind[r] = k THEN "waiting" ELSE seller[r]]
    /\ UNCHANGED chainVars

=============================================================================
