-------------------------------- MODULE PaidRun --------------------------------
(***************************************************************************)
(* The operator's hire scripts: checks, precommit, the four buyer             *)
(* transactions of createFundedJob, the observation loop, the deliverable,    *)
(* refund or settlement, and the run written to benchmark-runs.json; and the  *)
(* script that reconciles a run afterwards.  One process per run at a time,   *)
(* any number of runs at once, over the same files.                          *)
(*                                                                          *)
(* A definition whose comment starts with "Slip:" is not part of the system. *)
(***************************************************************************)
EXTENDS ReferenceSeller, Sequences

CONSTANT Attempts   \* how often settle is tried; 6 and 8 in the code

ASSUME AttemptsAssumption == Attempts \in Nat \ {0}

VARIABLES
    pc,         \* the await each script stands at
    step,       \* the buyer transaction in progress
    committed,  \* what precommit-<run>.json names, once it is stored
    rec,        \* the record createFundedJob keeps in memory
    doc,        \* protocol-job-<run>.json
    seen,       \* latest: the status last read
    valid,      \* the deliverable's validation: None when none was retrieved
    tries,      \* settlement attempts so far
    prior,      \* a verified run was seen in benchmark-runs.json
    snap,       \* the benchmark-runs.json this script has loaded and will write
    report,     \* <bench>-run-<run>.json is stored
    book        \* benchmark-runs.json

buyVars == <<step, committed, rec>>

lookVars == <<seen, valid, tries>>

bookVars == <<prior, snap, report, book>>

runVars == <<pc, buyVars, doc, lookVars, bookVars>>

env == <<chainVars, sellerVars>>

Steps == <<"create", "register", "budget", "fund">>

Terminal == Final \cup {"SUBMITTED"}

(* What a protocol-job document may hold.                                    *)
RecordStates == {"not_started", "created", "funded", "error"}

Currents == Statuses \cup {None, "ERROR"}

Events ==
    {"create", "register", "budget", "fund", "look", "last", "deliverable",
     "detect", "work", "result", "error", "control_error"}

JobRecords ==
    [job : BOOLEAN, funded : BOOLEAN, state : RecordStates, current : Currents,
     events : SUBSET Events]

(* What a read of the job may answer, and a run in benchmark-runs.json.        *)
Read == Statuses \cup {None}

Endings ==
    {"timeout", "completed", "expired", "error", "watch_path_broken", "observation_path_broken",
     "inconclusive", "submit_path_broken"}

Entries ==
    [complete : BOOLEAN, record : BOOLEAN, public : BOOLEAN, verified : BOOLEAN,
     terminal : Endings, shown : Read, hash : BOOLEAN]

ASSUME RecordAssumption == None \notin JobRecords \cup Entries \cup BOOLEAN

Fresh ==
    [job |-> FALSE, funded |-> FALSE, state |-> "not_started", current |-> None, events |-> {}]

NoEntry == [r \in Runs |-> None]

RunInit ==
    /\ pc = [r \in Runs |-> "check"]
    /\ step = [r \in Runs |-> 1]
    /\ committed = [r \in Runs |-> {}]
    /\ rec = [r \in Runs |-> Fresh]
    /\ doc = [r \in Runs |-> None]
    /\ seen = [r \in Runs |-> None]
    /\ valid = [r \in Runs |-> None]
    /\ tries = [r \in Runs |-> 0]
    /\ prior = [r \in Runs |-> FALSE]
    /\ snap = [r \in Runs |-> NoEntry]
    /\ report = [r \in Runs |-> FALSE]
    /\ book = NoEntry

Goto(r, l) == pc' = [pc EXCEPT ![r] = l]

----------------------------------------------------------------------------
(* What the scripts check before they spend, in the order they check it: the  *)
(* frozen benchmark, the sealed human answer, the identity and that it is not *)
(* a sibling's, the public surface with its watcher and storage, log access,  *)
(* the registry's owner, the adapter, the buyer's wallet, chain and token,    *)
(* the signed quote with its price and balances, and what the payload leaks.  *)
GridChecks ==
    {"definition", "identity", "sibling", "surface", "rpc", "owner", "adapter",
     "buyer", "quote", "payload"}

YieldChecks == GridChecks \cup {"baseline"}

RangeChecks == GridChecks \cup {"baseline"}

(* The first of them: neither log access nor siblings are looked at.          *)
HealthChecks ==
    {"definition", "baseline", "identity", "surface", "owner", "adapter",
     "buyer", "quote", "payload"}

Checks(k) ==
    CASE k = "grid" -> GridChecks
      [] k = "yield" -> YieldChecks
      [] k = "range" -> RangeChecks
      [] k = "health" -> HealthChecks

(* The script stops at the first check that fails; a worker that threw over   *)
(* its last job is one of them.                                              *)
Preflight(r) ==
    /\ pc[r] = "check"
    /\ kind[r] \in Agents
    /\ \E failed \in SUBSET Checks(kind[r]) :
        Goto(r, IF failed = {} /\ WorkerAlive(kind[r]) THEN "commit" ELSE "stopped")
    /\ UNCHANGED <<step, committed, rec, doc, lookVars, bookVars, env>>

(* What the precommit names, by benchmark: GridBench has no human answer.     *)
ControlTerms == {"definition", "quote", "input"}

GridTerms == {"definition", "identity", "quote", "payload", "strategy"}

YieldTerms == {"definition", "identity", "quote", "payload", "baseline"}

RangeTerms == {"definition", "identity", "quote", "payload", "baseline"}

HealthTerms == {"definition", "identity", "quote", "payload", "baseline"}

Terms(k) ==
    CASE k = "grid" -> GridTerms
      [] k = "yield" -> YieldTerms
      [] k = "range" -> RangeTerms
      [] k = "health" -> HealthTerms

(* The precommit is stored; without the write flag the script stops here.     *)
Commit(r) ==
    /\ pc[r] = "commit"
    /\ committed' = [committed EXCEPT ![r] = Terms(kind[r])]
    /\ Goto(r, "send") \/ Goto(r, "stopped")
    /\ UNCHANGED <<step, rec, doc, lookVars, bookVars, env>>

(* One buyer transaction.  It mines or not, and an error may be reported of   *)
(* one that mined.                                                           *)
Send(r) ==
    /\ pc[r] = "send"
    /\ LET s == Steps[step[r]] IN
       \/ /\ Mine(r, s)
          /\ Goto(r, "note")
          /\ rec' = CASE s = "create" -> [rec EXCEPT ![r].job = TRUE, ![r].state = "created"]
                      [] s = "fund" -> [rec EXCEPT ![r].funded = TRUE, ![r].state = "funded"]
                      [] OTHER -> rec
       \/ /\ Mine(r, s) \/ UNCHANGED chain
          /\ Goto(r, "fail")
          /\ UNCHANGED rec
    /\ UNCHANGED <<kind, content, window, ripe, sellerVars>>
    /\ UNCHANGED <<step, committed, doc, lookVars, bookVars>>

(* Slip: the record is written once, when the job is funded.                 *)
NoteLast(r) ==
    /\ pc[r] = "note"
    /\ rec' = [rec EXCEPT ![r].current = chain[r]]
    /\ IF step[r] < Len(Steps)
       THEN Goto(r, "send") /\ step' = [step EXCEPT ![r] = @ + 1] /\ UNCHANGED doc
       ELSE Goto(r, "observe") /\ doc' = [doc EXCEPT ![r] = rec'[r]] /\ UNCHANGED step
    /\ UNCHANGED <<committed, lookVars, bookVars, env>>

(* The job is read and the event persisted; the read may fail.               *)
Note(r) ==
    /\ pc[r] = "note"
    /\ \/ /\ rec' = [rec EXCEPT ![r].current = chain[r]]
          /\ doc' = [doc EXCEPT ![r] = rec'[r]]
          /\ IF step[r] < Len(Steps)
             THEN Goto(r, "send") /\ step' = [step EXCEPT ![r] = @ + 1]
             ELSE Goto(r, "observe") /\ UNCHANGED step
       \/ Goto(r, "fail") /\ UNCHANGED <<step, rec, doc>>
    /\ UNCHANGED <<committed, lookVars, bookVars, env>>

(* The error is persisted in the record and the script stops.                *)
Fail(r) ==
    /\ pc[r] = "fail"
    /\ rec' = [rec EXCEPT ![r].state = "error"]
    /\ doc' = [doc EXCEPT ![r] = rec'[r]]
    /\ Goto(r, "stopped")
    /\ UNCHANGED <<step, committed, lookVars, bookVars, env>>

----------------------------------------------------------------------------
(* appendProtocolEvent with a snapshot of the job: the record's currentState   *)
(* follows the snapshot.                                                     *)
Persist(r, status) == doc' = [doc EXCEPT ![r].current = status]

(* One turn of the observation loop: a status not seen before is appended,    *)
(* one that ends the provider's part ends the loop, as the deadline does.     *)
Observe(r) ==
    /\ pc[r] = "observe"
    /\ seen' = [seen EXCEPT ![r] = chain[r]]
    /\ seen'[r] # seen[r]
    /\ Persist(r, chain[r])
    /\ Goto(r, IF chain[r] \in Terminal THEN "fetch" ELSE "observe")
    /\ UNCHANGED <<buyVars, valid, tries, bookVars, env>>

(* Slip: the loop ends at the job's expiry, past the deadline it submits by.  *)
StopAtExpiry(r) == FALSE /\ Goto(r, "fetch") /\ UNCHANGED <<buyVars, doc, lookVars, bookVars, env>>

StopObserving(r) ==
    /\ pc[r] = "observe"
    /\ window[r] > 0
    /\ Goto(r, "fetch")
    /\ UNCHANGED <<buyVars, doc, lookVars, bookVars, env>>

TimedOut(r) == seen[r] \notin Terminal

(* What validateSubmittedDeliverable and the script's own checks say of what  *)
(* a gateway returned: the bytes hash to the deliverable on chain, name this  *)
(* job, have every field, and nothing the script refuses is in them.          *)
Validated(r, genuine) == genuine /\ content[r] \notin Refused(kind[r])

(* The deliverable is retrieved, from any gateway that answers, or it is not. *)
Fetch(r) ==
    /\ pc[r] = "fetch"
    /\ \/ /\ seen[r] \in {"SUBMITTED", "COMPLETED"}
          /\ \E genuine \in BOOLEAN : valid' = [valid EXCEPT ![r] = Validated(r, genuine)]
       \/ UNCHANGED valid
    /\ Goto(r, CASE seen[r] = "FUNDED" /\ window[r] = 3 -> "refund"
                 [] seen[r] = "SUBMITTED" -> "settle"
                 [] OTHER -> "count")
    /\ UNCHANGED <<buyVars, doc, seen, tries, bookVars, env>>

(* claimRefund, and a read of the job; whichever fails is only noted.         *)
Refund(r) ==
    /\ pc[r] = "refund"
    /\ \/ MineRefund(r) /\ Persist(r, "EXPIRED") /\ seen' = [seen EXCEPT ![r] = "EXPIRED"]
       \/ MineRefund(r) /\ UNCHANGED <<doc, seen>>
       \/ UNCHANGED <<chain, doc, seen>>
    /\ Goto(r, "count")
    /\ UNCHANGED <<buyVars, valid, tries, bookVars, kind, content, window, ripe, sellerVars>>

MaxTries(r) == IF kind[r] = "health" /\ book[r] = None THEN 1 ELSE Attempts

(* After the dispute window: settle, which may mine and not be reported.      *)
Settle(r) ==
    /\ pc[r] \in {"settle", "r_settle"}
    /\ ripe[r]
    /\ tries' = [tries EXCEPT ![r] = @ + 1]
    /\ \/ MineSettle(r) /\ Goto(r, IF pc[r] = "settle" THEN "confirm" ELSE "r_confirm")
       \/ /\ MineSettle(r) \/ UNCHANGED chain
          /\ Goto(r, IF pc[r] = "settle" THEN "retry" ELSE "r_retry")
    /\ UNCHANGED <<buyVars, doc, seen, valid, bookVars, kind, content, window, ripe, sellerVars>>

(* Slip: the attempts are counted after they are compared.                   *)
AgainLate(r, settle, out) ==
    Goto(r, IF chain[r] = "SUBMITTED" /\ tries[r] <= MaxTries(r) THEN settle ELSE out)

(* Where the loop goes once it has read the status again.                    *)
Again(r, settle, out) ==
    Goto(r, IF chain[r] = "SUBMITTED" /\ tries[r] < MaxTries(r) THEN settle ELSE out)

(* settle is confirmed by a read, which is appended, or the read fails.       *)
Confirm(r) ==
    /\ pc[r] \in {"confirm", "r_confirm"}
    /\ \/ /\ seen' = [seen EXCEPT ![r] = chain[r]]
          /\ Persist(r, chain[r])
          /\ IF pc[r] = "confirm" THEN Again(r, "settle", "count") ELSE Again(r, "r_settle", "r_load")
       \/ /\ Goto(r, IF pc[r] = "confirm" THEN "retry" ELSE "r_retry")
          /\ UNCHANGED <<doc, seen>>
    /\ UNCHANGED <<buyVars, valid, tries, bookVars, env>>

(* The catch: the status is read again but not appended, and an error of this *)
(* read ends the script.  Health Guard's script does not look again.          *)
Retry(r) ==
    /\ pc[r] \in {"retry", "r_retry"}
    /\ IF pc[r] = "retry" /\ kind[r] = "health"
       THEN Goto(r, "count") /\ UNCHANGED seen
       ELSE \/ /\ seen' = [seen EXCEPT ![r] = chain[r]]
               /\ IF pc[r] = "retry" THEN Again(r, "settle", "count") ELSE Again(r, "r_settle", "r_load")
            \/ Goto(r, "dead") /\ UNCHANGED seen
    /\ UNCHANGED <<buyVars, doc, valid, tries, bookVars, env>>

----------------------------------------------------------------------------
(* Slip: what the script saw last is taken for what was persisted.            *)
CompleteAsSeen(r) == valid[r] = TRUE

(* isComplete of deriveQualificationFlags: an actual deliverable, and a       *)
(* COMPLETED job according to the persisted record.  The control is           *)
(* independent in every script.                                              *)
Complete(r) == valid[r] = TRUE /\ doc[r].current = "COMPLETED"

TrackRecord(r) == Complete(r) /\ committed[r] # {} /\ doc[r].funded

(* agentExecution.status, which is the run's terminal state.                 *)
Execution(r) ==
    CASE TimedOut(r) -> "timeout"
      [] ~ TimedOut(r) /\ valid[r] = TRUE -> "completed"
      [] ~ TimedOut(r) /\ valid[r] = None /\ seen[r] = "EXPIRED" -> "expired"
      [] OTHER -> "error"

Verified(b) == \E r \in Runs : b[r] # None /\ b[r].verified

(* The run: the numeric evaluation of these benchmarks is always              *)
(* insufficient_data, so that none qualifies for the public metrics here.     *)
Entry(r) ==
    [complete |-> Complete(r), record |-> TrackRecord(r), public |-> FALSE,
     verified |-> Complete(r) /\ ~ prior[r], terminal |-> Execution(r), shown |-> seen[r], hash |-> FALSE]

(* runBenchmark: the runs are read to see whether one is verified already,    *)
(* read again by appendJsonArray, and written.                               *)
CountRuns(r) ==
    /\ pc[r] = "count"
    /\ prior' = [prior EXCEPT ![r] = Verified(book)]
    /\ Goto(r, "load")
    /\ UNCHANGED <<buyVars, doc, lookVars, snap, report, book, env>>

LoadRuns(r) ==
    /\ pc[r] = "load"
    /\ snap' = [snap EXCEPT ![r] = book]
    /\ Goto(r, "save")
    /\ UNCHANGED <<buyVars, doc, lookVars, prior, report, book, env>>

SaveRun(r) ==
    /\ pc[r] = "save"
    /\ book' = [snap[r] EXCEPT ![r] = Entry(r)]
    /\ snap' = [snap EXCEPT ![r] = NoEntry]
    /\ Goto(r, "report")
    /\ UNCHANGED <<buyVars, doc, lookVars, prior, report, env>>

Report(r) ==
    /\ pc[r] = "report"
    /\ report' = [report EXCEPT ![r] = TRUE]
    /\ Goto(r, "done")
    /\ UNCHANGED <<buyVars, doc, lookVars, prior, snap, book, env>>

----------------------------------------------------------------------------
(* reconcile-health-guard-hire: it loads all runs at its start and takes the  *)
(* run, its job and its record from there.                                   *)
Reconcile(r) ==
    /\ pc[r] \in {"done", "dead"}
    /\ kind[r] = "health"
    /\ book[r] # None
    /\ report[r]
    /\ snap' = [snap EXCEPT ![r] = book]
    /\ tries' = [tries EXCEPT ![r] = 0]
    /\ Goto(r, "r_read")
    /\ UNCHANGED <<buyVars, doc, seen, valid, prior, report, book, env>>

(* Slip: the deliverable is retrieved again although it was valid.            *)
ReconcileReadAlways(r) ==
    /\ pc[r] = "r_read"
    /\ seen' = [seen EXCEPT ![r] = chain[r]]
    /\ Persist(r, chain[r])
    /\ Goto(r, IF chain[r] \in {"SUBMITTED", "COMPLETED"} THEN "r_fetch" ELSE "r_load")
    /\ UNCHANGED <<buyVars, valid, tries, bookVars, env>>

(* The job is read, appended, and a deliverable not valid so far retrieved.   *)
ReconcileRead(r) ==
    /\ pc[r] = "r_read"
    /\ seen' = [seen EXCEPT ![r] = chain[r]]
    /\ Persist(r, chain[r])
    /\ Goto(r, CASE chain[r] \in {"SUBMITTED", "COMPLETED"} /\ valid[r] # TRUE -> "r_fetch"
                 [] chain[r] = "SUBMITTED" /\ valid[r] = TRUE -> "r_settle"
                 [] OTHER -> "r_load")
    /\ UNCHANGED <<buyVars, valid, tries, bookVars, env>>

(* Without a deliverable the script throws, without the write flag it does    *)
(* not settle.                                                               *)
ReconcileFetch(r) ==
    /\ pc[r] = "r_fetch"
    /\ \/ /\ \E genuine \in BOOLEAN : valid' = [valid EXCEPT ![r] = Validated(r, genuine)]
          /\ Goto(r, "r_load") \/ (seen[r] = "SUBMITTED" /\ Goto(r, "r_settle"))
       \/ Goto(r, "dead") /\ UNCHANGED valid
    /\ UNCHANGED <<buyVars, doc, seen, tries, bookVars, env>>

(* The record's state is set from the last read.                             *)
ReconcileDoc(r) ==
    /\ pc[r] = "r_load"
    /\ Persist(r, seen[r])
    /\ Goto(r, "r_save")
    /\ UNCHANGED <<buyVars, lookVars, bookVars, env>>

Reconciled(r) ==
    [complete |-> Complete(r), record |-> TrackRecord(r),
     public |-> TrackRecord(r) /\ valid[r] = TRUE,
     verified |-> Complete(r) /\ ~ Verified([snap[r] EXCEPT ![r] = None]),
     terminal |-> CASE valid[r] = TRUE /\ seen[r] = "COMPLETED" -> "completed"
                    [] seen[r] = "EXPIRED" -> "expired"
                    [] OTHER -> snap[r][r].terminal,
     shown |-> seen[r], hash |-> FALSE]

(* All runs are written back as they were loaded, this one replaced.          *)
ReconcileSave(r) ==
    /\ pc[r] = "r_save"
    /\ book' = [snap[r] EXCEPT ![r] = Reconciled(r)]
    /\ snap' = [snap EXCEPT ![r] = NoEntry]
    /\ Goto(r, "report")
    /\ UNCHANGED <<buyVars, doc, lookVars, prior, report, env>>

----------------------------------------------------------------------------
(* The process of a script is killed.                                        *)
Die(r) ==
    /\ pc[r] \notin {"check", "stopped", "done", "dead"}
    /\ Goto(r, "dead")
    /\ snap' = [snap EXCEPT ![r] = NoEntry]
    /\ UNCHANGED <<buyVars, doc, lookVars, prior, report, book, env>>

Script(r) ==
    \/ Preflight(r) \/ Commit(r) \/ Send(r) \/ Note(r) \/ Fail(r)
    \/ Observe(r) \/ StopObserving(r) \/ Fetch(r) \/ Refund(r)
    \/ Settle(r) \/ Confirm(r) \/ Retry(r)
    \/ CountRuns(r) \/ LoadRuns(r) \/ SaveRun(r) \/ Report(r)
    \/ ReconcileRead(r) \/ ReconcileFetch(r) \/ ReconcileDoc(r) \/ ReconcileSave(r)

RunTypeOK ==
    /\ step \in [Runs -> 1..Len(Steps)]
    /\ committed \in [Runs -> SUBSET (ControlTerms \cup UNION {Terms(k) : k \in Agents})]
    /\ rec \in [Runs -> JobRecords]
    /\ doc \in [Runs -> JobRecords \cup {None}]
    /\ seen \in [Runs -> Read]
    /\ valid \in [Runs -> BOOLEAN \cup {None}]
    /\ tries \in [Runs -> 0..Attempts]
    /\ prior \in [Runs -> BOOLEAN]
    /\ report \in [Runs -> BOOLEAN]
    /\ book \in [Runs -> Entries \cup {None}]

=============================================================================
