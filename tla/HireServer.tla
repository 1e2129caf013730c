----------------------------- MODULE HireServer -----------------------------
(***************************************************************************)
(* The public-hire handlers of the server and the two JSON documents they   *)
(* share: state/hire-quotes.json and state/hire-jobs.json.                  *)
(*                                                                          *)
(* A handler runs without interruption from one await to the next, so every *)
(* action below is one such stretch.  A document is read whole, changed in   *)
(* memory and written back whole (atomically, by rename), and other          *)
(* handlers run between the read and the write.  A worker is one request     *)
(* being handled.                                                           *)
(*                                                                          *)
(* A definition whose comment starts with "Slip:" is not part of the system: it is a       *)
(* plausible mistake in the definition after it that a property must refute. *)
(***************************************************************************)
EXTENDS Commerce, Naturals, Sequences

CONSTANTS
    Workers,      \* requests that can be in flight at once
    Keys,         \* idempotency keys the clients use
    HireIds,      \* the ids newHireId can return, a bound on hires
    NotifyOutcomes, \* how notifying the provider can end, given its route
    QuoteBuyer,   \* QuoteBuyer[q]: the wallet quote q is issued to
    Spellings,    \* the ways to write a quote id that trim to the same id
    Requests      \* the requests clients send, any number of times

Ops == {"quote", "prepare", "submit", "job", "result"}

Request ==
    [op : Ops, quote : Quotes, spelling : Spellings, key : Keys \cup {None}, buyer : Buyers \cup {None},
     txs : SUBSET Tx, hire : HireIds \cup {None}]

VARIABLES
    quotes,   \* hire-quotes.json: the status of every quote, None when absent
    hires,    \* hire-jobs.json: the record of every hire, None when absent
    locks,    \* the promise chain of every lock key: its head holds the lock
    task,     \* what each worker is doing, with its local copies
    issued,   \* the quote ids handed out by newQuoteId
    minted,   \* minted[h]: the quote newHireId gave id h to, None if not used
    lapsed    \* the quotes whose expiresAt has passed

serverVars == <<quotes, hires, locks, task, issued, minted, lapsed>>
documents == <<quotes, hires>>
clocks == <<issued, minted, lapsed>>

(* ------------------------------- the data ------------------------------- *)

QuoteStatus == {"ISSUED", "PREPARED", "CONSUMED", "EXPIRED"}
HireStates == {"PREPARED", "CREATED", "REGISTERED", "BUDGETED", "FUNDED"}
NotifyStates == {"pending", "notified", "failed"}

ASSUME ServerAssumption ==
    /\ QuoteBuyer \in [Quotes -> Buyers]
    /\ NotifyOutcomes \subseteq NotifyStates
    /\ Requests \subseteq Request
    /\ \A r \in Requests :
        /\ r.op \in {"prepare", "submit"} => r.key \in Keys   \* isIdempotencyKey
        /\ r.op \in {"job", "result"} => r.hire \in HireIds
    /\ None \notin Workers \cup Keys \cup HireIds

QuoteDoc == [Quotes -> QuoteStatus \cup {None}]

HireRecord ==
    [quote : Quotes, key : Keys, job : Jobs \cup {None}, state : HireStates,
     txs : SUBSET Tx, status : JobStatuses \cup {None},
     notify : NotifyStates, url : BOOLEAN,
     result : BOOLEAN, failure : {"none", "step", "result"}]

HireDoc == [HireIds -> HireRecord \cup {None}]

(* None stands for null, which is neither a status nor a record.             *)
ASSUME NullAssumption == None \notin QuoteStatus \cup HireRecord

(* Slip: the record copies the status the quote had.                         *)
NewHireOfQuote(q, k) ==
    [quote |-> q, key |-> k, job |-> None, state |-> "ISSUED", txs |-> {},
     status |-> None, notify |-> "pending", url |-> FALSE, result |-> FALSE,
     failure |-> "none"]

NewHire(q, k) ==
    [quote |-> q, key |-> k, job |-> None, state |-> "PREPARED", txs |-> {},
     status |-> None, notify |-> "pending", url |-> FALSE, result |-> FALSE,
     failure |-> "none"]

(* withHireLock is taken by prepare and by submit, each under a key of its   *)
(* own.  The key is the quoteId of the body as the client wrote it, while the *)
(* handler inside the lock works on the trimmed id: two spellings of one      *)
(* quote take two locks.  The other handlers take no lock.                   *)
Locking == {"prepare", "submit"}
LockKeys == Locking \X Quotes \X Spellings
LockKey(r) == <<r.op, r.quote, r.spelling>>

(* Where a handler stands between two awaits.                               *)
CasLabels == {"expire", "bind", "consume"}
CasSaves == {"expiring", "binding", "consuming"}
PutLabels == {"newPut", "notePut", "stepPut", "failPut", "viewPut"}
PutSaves == {"newSave", "noteSave", "stepSave", "failSave", "viewSave"}

Labels ==
    {"idle", "lock", "issue", "issuing", "quote", "byKey", "byQuote", "chain",
     "owner", "step", "notify", "read", "status", "fetch"}
        \cup CasLabels \cup CasSaves \cup PutLabels \cup PutSaves

Task ==
    [pc : Labels, req : Requests \cup {None}, id : HireIds \cup {None},
     rec : HireRecord \cup {None}, todo : SUBSET Tx,
     qsnap : QuoteDoc \cup {None}, hsnap : HireDoc \cup {None}]

IdleTask ==
    [pc |-> "idle", req |-> None, id |-> None, rec |-> None, todo |-> {},
     qsnap |-> None, hsnap |-> None]

ServerInit ==
    /\ quotes = [q \in Quotes |-> None]
    /\ hires = [h \in HireIds |-> None]
    /\ locks = [k \in LockKeys |-> <<>>]
    /\ task = [w \in Workers |-> IdleTask]
    /\ issued = {}
    /\ minted = [h \in HireIds |-> None]
    /\ lapsed = {}

(* ------------------------- requests, locks, replies --------------------- *)

At(w, l) == task[w].pc = l
Goto(w, l) == task' = [task EXCEPT ![w].pc = l]

(* Slip: no finally, the key stays held.                                     *)
ReleasedNot(w) == locks

(* The handler returns: withHireLock's finally releases its key.            *)
Released(w) ==
    IF task[w].req.op \in Locking
    THEN [locks EXCEPT ![LockKey(task[w].req)] = Tail(@)]
    ELSE locks

Reply(w) ==
    /\ task' = [task EXCEPT ![w] = IdleTask]
    /\ locks' = Released(w)

Entry == [quote |-> "issue", prepare |-> "lock", submit |-> "lock",
          job |-> "read", result |-> "read"]

(* A request arrives; prepare and submit join the queue of their lock key.   *)
(* A quote id is fresh, so one that was handed out is not issued again.      *)
Receive(w, r) ==
    /\ At(w, "idle")
    /\ r.op = "quote" => r.quote \notin issued
    /\ task' = [task EXCEPT ![w] = [IdleTask EXCEPT !.pc = Entry[r.op], !.req = r]]
    /\ locks' = IF r.op \in Locking
                THEN [locks EXCEPT ![LockKey(r)] = Append(@, w)]
                ELSE locks
    /\ issued' = IF r.op = "quote" THEN issued \cup {r.quote} ELSE issued
    /\ UNCHANGED <<documents, minted, lapsed>>

(* Slip: withHireLock does not await the previous holder.                    *)
EnterLockAtOnce(w) ==
    /\ At(w, "lock")
    /\ Goto(w, "quote")
    /\ UNCHANGED <<documents, locks, clocks>>

EnterLock(w) ==
    /\ At(w, "lock")
    /\ Head(locks[LockKey(task[w].req)]) = w
    /\ Goto(w, "quote")
    /\ UNCHANGED <<documents, locks, clocks>>

(* -------------------- POST /api/hire/quote: putQuote -------------------- *)

IssueLoad(w) ==
    /\ At(w, "issue")
    /\ task' = [task EXCEPT ![w].pc = "issuing", ![w].qsnap = quotes]
    /\ UNCHANGED <<documents, locks, clocks>>

IssueSave(w) ==
    /\ At(w, "issuing")
    /\ quotes' = [task[w].qsnap EXCEPT ![task[w].req.quote] = "ISSUED"]
    /\ Reply(w)
    /\ UNCHANGED <<hires, clocks>>

(* ------------- reading the quote: getQuote, in both handlers ------------- *)

(* 404 unknown quote, 409 consumed, or, before expiry, 403 another wallet.   *)
QuoteRefused(r) ==
    IF r.op = "submit" THEN quotes[r.quote] = None
    ELSE \/ quotes[r.quote] \in {None, "CONSUMED"}
         \/ r.quote \notin lapsed /\ r.buyer # QuoteBuyer[r.quote]

QuoteLapsed(r) ==
    /\ r.op = "prepare"
    /\ quotes[r.quote] \notin {None, "CONSUMED"}
    /\ r.quote \in lapsed

ReadQuote(w) ==
    /\ At(w, "quote")
    /\ LET r == task[w].req IN
        \/ QuoteRefused(r) /\ Reply(w)
        \/ QuoteLapsed(r) /\ Goto(w, "expire") /\ UNCHANGED locks
        \/ ~ QuoteRefused(r) /\ ~ QuoteLapsed(r) /\ Goto(w, "byKey") /\ UNCHANGED locks
    /\ UNCHANGED <<documents, clocks>>

(* ------- findHireByIdempotency, then findHireByQuote if it finds none ---- *)

Stored(h) == hires[h] # None

Matches(w) ==
    LET r == task[w].req IN
    IF At(w, "byKey") THEN {h \in HireIds : Stored(h) /\ hires[h].key = r.key}
                      ELSE {h \in HireIds : Stored(h) /\ hires[h].quote = r.quote}

(* Submit goes on with a copy of the record; prepare only shows it.          *)
Usable(w, h) ==
    LET r == task[w].req IN
    /\ r.op = "submit"
    /\ hires[h].key = r.key
    /\ hires[h].quote = r.quote
    /\ hires[h].state # "FUNDED"

FindHire(w) ==
    /\ task[w].pc \in {"byKey", "byQuote"}
    /\ \/ \E h \in Matches(w) :
            \/ ~ Usable(w, h) /\ Reply(w)
            \/ /\ Usable(w, h)
               /\ task' = [task EXCEPT ![w].pc = "owner", ![w].id = h,
                                       ![w].rec = hires[h],
                                       ![w].todo = task[w].req.txs]
               /\ UNCHANGED locks
       \/ /\ Matches(w) = {}
          /\ At(w, "byKey")
          /\ Goto(w, "byQuote")
          /\ UNCHANGED locks
       \/ /\ Matches(w) = {}
          /\ At(w, "byQuote")
          /\ IF task[w].req.op = "submit" THEN Reply(w)
                                          ELSE Goto(w, "chain") /\ UNCHANGED locks
    /\ UNCHANGED <<documents, clocks>>

(* Prepare's hireability check and its balance, allowance and dispute-window *)
(* reads: any of them may refuse.                                           *)
CheckBuyer(w) ==
    /\ At(w, "chain")
    /\ Reply(w) \/ (Goto(w, "bind") /\ UNCHANGED locks)
    /\ UNCHANGED <<documents, clocks>>

(* ----------------------------- transitionQuote --------------------------- *)

(* Slip: a quote a crash left PREPARED may be bound again.                    *)
CasFromRebind == [expire |-> {"ISSUED", "PREPARED"}, bind |-> {"ISSUED", "PREPARED"},
                  consume |-> {"PREPARED", "ISSUED"}]

(* Slip: only an ISSUED quote is consumed.                                    *)
CasFromIssued == [expire |-> {"ISSUED", "PREPARED"}, bind |-> {"ISSUED"},
                  consume |-> {"ISSUED"}]

CasFrom == [expire |-> {"ISSUED", "PREPARED"}, bind |-> {"ISSUED"},
            consume |-> {"PREPARED", "ISSUED"}]
CasSave == [expire |-> "expiring", bind |-> "binding", consume |-> "consuming"]
CasTo == [expiring |-> "EXPIRED", binding |-> "PREPARED", consuming |-> "CONSUMED"]

(* The load and the comparison.  When the status is not one to leave, expire *)
(* and bind reply 410 and 409; the fund step ignores the outcome.            *)
TransitionLoad(w) ==
    /\ task[w].pc \in CasLabels
    /\ IF quotes[task[w].req.quote] \in CasFrom[task[w].pc]
       THEN /\ task' = [task EXCEPT ![w].pc = CasSave[@], ![w].qsnap = quotes]
            /\ UNCHANGED locks
       ELSE IF At(w, "consume") THEN Goto(w, "notify") /\ UNCHANGED locks
                                ELSE Reply(w)
    /\ UNCHANGED <<documents, clocks>>

SaveTransition(w) ==
    quotes' = [task[w].qsnap EXCEPT ![task[w].req.quote] = CasTo[task[w].pc]]

ExpireSave(w) ==
    /\ At(w, "expiring")
    /\ SaveTransition(w)
    /\ Reply(w)
    /\ UNCHANGED <<hires, clocks>>

(* The quote is PREPARED and the new record gets its id, not yet stored.     *)
BindSave(w) ==
    /\ At(w, "binding")
    /\ SaveTransition(w)
    /\ \E h \in HireIds :
        /\ minted[h] = None
        /\ minted' = [minted EXCEPT ![h] = task[w].req.quote]
        /\ task' = [task EXCEPT ![w].pc = "newPut", ![w].id = h,
                                ![w].rec = NewHire(task[w].req.quote, task[w].req.key)]
    /\ UNCHANGED <<hires, locks, issued, lapsed>>

ConsumeSave(w) ==
    /\ At(w, "consuming")
    /\ SaveTransition(w)
    /\ Goto(w, "notify")
    /\ UNCHANGED <<hires, locks, clocks>>

(* --------------------------------- putHire ------------------------------- *)

PutSave == [newPut |-> "newSave", notePut |-> "noteSave", stepPut |-> "stepSave",
            failPut |-> "failSave", viewPut |-> "viewSave"]

PutLoad(w) ==
    /\ task[w].pc \in PutLabels
    /\ task' = [task EXCEPT ![w].pc = PutSave[@], ![w].hsnap = hires]
    /\ UNCHANGED <<documents, locks, clocks>>

(* notifyProvider stores the record, then reconcileStep stores it again and  *)
(* the step loop goes on; every other put is the handler's last write.        *)
SaveHire(w) ==
    /\ task[w].pc \in PutSaves
    /\ hires' = [task[w].hsnap EXCEPT ![task[w].id] = task[w].rec]
    /\ CASE At(w, "noteSave") -> Goto(w, "stepPut") /\ UNCHANGED locks
         [] At(w, "stepSave") -> Goto(w, "step") /\ UNCHANGED locks
         [] OTHER -> Reply(w)
    /\ UNCHANGED <<quotes, clocks>>

(* -------------------- POST /api/hire/submit: the steps ------------------- *)

(* "A hash Canned already accepted belongs to exactly one hire": one load of *)
(* the hires per step, before any step is reconciled.                        *)
CheckOwner(w) ==
    /\ At(w, "owner")
    /\ \E t \in task[w].todo :
        IF \E h \in HireIds \ {task[w].id} : Stored(h) /\ t \in hires[h].txs
        THEN Reply(w)
        ELSE /\ task' = [task EXCEPT ![w].todo = @ \ {t}]
             /\ UNCHANGED locks
    /\ UNCHANGED <<documents, clocks>>

StartSteps(w) ==
    /\ At(w, "owner")
    /\ task[w].todo = {}
    /\ task' = [task EXCEPT ![w].pc = "step", ![w].todo = task[w].req.txs]
    /\ UNCHANGED <<documents, locks, clocks>>

(* The step the loop is at, in canonical order.                             *)
NextStep(w, t) ==
    /\ At(w, "step")
    /\ t \in task[w].todo
    /\ \A u \in task[w].todo : StepRank[t.kind] <= StepRank[u.kind]

(* Slip: a second transaction of one kind is refused only after funding.      *)
RecordedLate(rec, k) == rec.state = "FUNDED" /\ \E u \in rec.txs : u.kind = k

Recorded(rec, k) == \E u \in rec.txs : u.kind = k

(* Slip: the receipt's success is not checked.                               *)
VerifiesUnmined(rec, t) ==
    /\ JobClient[t.job] = QuoteBuyer[rec.quote]
    /\ t.kind \in {"create", "fund"} => JobQuote[t.job] = rec.quote
    /\ t.kind \in {"register", "budget", "fund"} => rec.job = t.job
    /\ t.kind = "fund" => jobStatus[t.job] = "FUNDED"

(* What reconcileStep verifies on chain before it accepts a transaction.     *)
Verifies(rec, t) ==
    /\ t \in mined
    /\ JobClient[t.job] = QuoteBuyer[rec.quote]
    /\ t.kind \in {"create", "fund"} => JobQuote[t.job] = rec.quote
    /\ t.kind \in {"register", "budget", "fund"} => rec.job = t.job
    /\ t.kind = "fund" => jobStatus[t.job] = "FUNDED"

(* Slip: a created job is taken for a funded one.                            *)
ReconciledFunded(rec, t) ==
    LET r == [rec EXCEPT !.txs = @ \cup {t}] IN
    CASE t.kind = "approve" -> r
      [] t.kind = "create" -> [r EXCEPT !.job = t.job, !.status = "FUNDED",
                                        !.state = "CREATED"]
      [] t.kind = "register" -> [r EXCEPT !.state = "REGISTERED"]
      [] t.kind = "budget" -> [r EXCEPT !.state = "BUDGETED"]
      [] t.kind = "fund" -> [r EXCEPT !.status = "FUNDED", !.state = "FUNDED"]

(* What it then writes into the handler's copy of the record.                *)
Reconciled(rec, t) ==
    LET r == [rec EXCEPT !.txs = @ \cup {t}] IN
    CASE t.kind = "approve" -> r
      [] t.kind = "create" -> [r EXCEPT !.job = t.job, !.status = jobStatus[t.job],
                                        !.state = "CREATED"]
      [] t.kind = "register" -> [r EXCEPT !.state = "REGISTERED"]
      [] t.kind = "budget" -> [r EXCEPT !.state = "BUDGETED"]
      [] t.kind = "fund" -> [r EXCEPT !.status = "FUNDED", !.state = "FUNDED"]

ReplayStep(w, t) ==
    /\ NextStep(w, t)
    /\ t \in task[w].rec.txs
    /\ task' = [task EXCEPT ![w].todo = @ \ {t}]
    /\ UNCHANGED <<documents, locks, clocks>>

ConflictStep(w, t) ==
    /\ NextStep(w, t)
    /\ t \notin task[w].rec.txs
    /\ Recorded(task[w].rec, t.kind)
    /\ Reply(w)
    /\ UNCHANGED <<documents, clocks>>

AcceptStep(w, t) ==
    /\ NextStep(w, t)
    /\ ~ Recorded(task[w].rec, t.kind)
    /\ Verifies(task[w].rec, t)
    /\ task' = [task EXCEPT ![w].pc = IF t.kind = "fund" THEN "consume" ELSE "stepPut",
                            ![w].rec = Reconciled(@, t),
                            ![w].todo = @ \ {t}]
    /\ UNCHANGED <<documents, locks, clocks>>

(* Verification fails, or a chain read throws: the failure is stored and the *)
(* remaining steps are dropped.                                              *)
RejectStep(w, t) ==
    /\ NextStep(w, t)
    /\ ~ Recorded(task[w].rec, t.kind)
    /\ task' = [task EXCEPT ![w].pc = "failPut", ![w].rec.failure = "step"]
    /\ UNCHANGED <<documents, locks, clocks>>

FinishSteps(w) ==
    /\ At(w, "step")
    /\ task[w].todo = {}
    /\ Reply(w)
    /\ UNCHANGED <<documents, clocks>>

(* notifyProvider: a reference provider counts as notified, one without a    *)
(* route stays pending, and a POST to a route is notified or failed.         *)
NotifyProvider(w) ==
    /\ At(w, "notify")
    /\ \E outcome \in NotifyOutcomes :
        task' = [task EXCEPT ![w].pc = "notePut", ![w].rec.notify = outcome]
    /\ UNCHANGED <<documents, locks, clocks>>

(* ------------- GET /api/hire/job/:id and /api/hire/job/:id/result -------- *)

Readable(r) ==
    /\ Stored(r.hire)
    /\ hires[r.hire].job # None
    /\ r.op = "result" => r.buyer = QuoteBuyer[hires[r.hire].quote]

ReadHire(w) ==
    /\ At(w, "read")
    /\ LET r == task[w].req IN
        \/ ~ Readable(r) /\ Reply(w)
        \/ /\ Readable(r)
           /\ task' = [task EXCEPT ![w].pc = "status", ![w].id = r.hire,
                                   ![w].rec = hires[r.hire]]
           /\ UNCHANGED locks
    /\ UNCHANGED <<documents, clocks>>

(* readHireJob failed, or /result has no delivery to show: nothing is stored. *)
StopReading(w) ==
    /\ At(w, "status")
    /\ Reply(w)
    /\ UNCHANGED <<documents, clocks>>

(* /job stores the status it read, and the delivery reference if it resolves. *)
RefreshJob(w) ==
    /\ At(w, "status")
    /\ task[w].req.op = "job"
    /\ \E resolved \in BOOLEAN :
        LET j == task[w].rec.job IN
        task' = [task EXCEPT ![w].pc = "viewPut", ![w].rec.status = jobStatus[j],
                             ![w].rec.url = @ \/ (HasDeliverable(j) /\ resolved)]
    /\ UNCHANGED <<documents, locks, clocks>>

(* Slip: the status is stored but not tested.                                *)
ResolveAnyDelivery(w) ==
    /\ At(w, "status")
    /\ task[w].req.op = "result"
    /\ task' = [task EXCEPT ![w].pc = "fetch", ![w].rec.url = TRUE,
                            ![w].rec.status = jobStatus[task[w].rec.job]]
    /\ UNCHANGED <<documents, locks, clocks>>

(* /result goes on only for a delivered job whose reference resolves.        *)
ResolveDelivery(w) ==
    /\ At(w, "status")
    /\ task[w].req.op = "result"
    /\ LET status == jobStatus[task[w].rec.job] IN
        /\ status \in Delivered
        /\ task' = [task EXCEPT ![w].pc = "fetch", ![w].rec.status = status,
                                ![w].rec.url = TRUE]
    /\ UNCHANGED <<documents, locks, clocks>>

(* The delivery cannot be fetched, fails validation, or is the result.       *)
FetchDelivery(w) ==
    /\ At(w, "fetch")
    /\ \/ Goto(w, "viewPut")
       \/ task' = [task EXCEPT ![w].pc = "viewPut", ![w].rec.failure = "result"]
       \/ task' = [task EXCEPT ![w].pc = "viewPut", ![w].rec.failure = "none",
                               ![w].rec.result = TRUE]
    /\ UNCHANGED <<documents, locks, clocks>>

(* ------------------------------ the next step ---------------------------- *)

Handle(w) ==
    \/ EnterLock(w)
    \/ IssueLoad(w) \/ IssueSave(w)
    \/ ReadQuote(w) \/ FindHire(w) \/ CheckBuyer(w)
    \/ TransitionLoad(w) \/ ExpireSave(w) \/ BindSave(w) \/ ConsumeSave(w)
    \/ PutLoad(w) \/ SaveHire(w)
    \/ CheckOwner(w) \/ StartSteps(w) \/ FinishSteps(w) \/ NotifyProvider(w)
    \/ \E t \in Tx : ReplayStep(w, t) \/ ConflictStep(w, t) \/ AcceptStep(w, t)
                                      \/ RejectStep(w, t)
    \/ ReadHire(w) \/ StopReading(w) \/ RefreshJob(w) \/ ResolveDelivery(w)
    \/ FetchDelivery(w)

(* The process dies and restarts: requests and locks are gone, the documents *)
(* are what was last written.                                               *)
Crash ==
    /\ \E w \in Workers : ~ At(w, "idle")
    /\ task' = [w \in Workers |-> IdleTask]
    /\ locks' = [k \in LockKeys |-> <<>>]
    /\ UNCHANGED <<documents, clocks>>

(* Time passes the expiresAt of an issued quote.                            *)
Lapse(q) ==
    /\ q \in issued \ lapsed
    /\ lapsed' = lapsed \cup {q}
    /\ UNCHANGED <<documents, locks, task, issued, minted>>

=============================================================================
