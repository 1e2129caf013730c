----------------------------- MODULE PublicHire -----------------------------
(***************************************************************************)
(* The whole public-hire system: clients send requests, workers handle them *)
(* one await at a time, wallets send transactions, the chain moves, quotes   *)
(* lapse, and the server may crash at any moment.                           *)
(***************************************************************************)
EXTENDS HireServer

vars == <<serverVars, chainVars>>

Init == ServerInit /\ ChainInit

(* A wallet signs what a plan showed it, so a job that carries the terms of  *)
(* a quote is created after prepare computed the plan for that quote.        *)
Planned(j) ==
    JobQuote[j] # None => \E h \in HireIds : minted[h] = JobQuote[j]

WalletStep(j) ==
    \/ Approve(j)
    \/ Planned(j) /\ CreateJob(j)
    \/ RegisterJob(j) \/ SetBudget(j) \/ Fund(j) \/ CancelJob(j)

ServerStep ==
    \/ \E w \in Workers : Handle(w) \/ \E r \in Requests : Receive(w, r)
    \/ Crash
    \/ \E q \in Quotes : Lapse(q)

Next ==
    \/ ServerStep /\ UNCHANGED chainVars
    \/ (\E j \in Jobs : WalletStep(j) \/ ChainStep(j)) /\ UNCHANGED serverVars

Spec == Init /\ [][Next]_vars

(* The event loop runs every handler on to its next await; clients, wallets, *)
(* the chain and crashes owe nothing.                                       *)
FairSpec == Spec /\ \A w \in Workers : WF_vars(Handle(w) /\ UNCHANGED chainVars)

----------------------------------------------------------------------------
TypeOK ==
    /\ ChainTypeOK
    /\ quotes \in QuoteDoc
    /\ hires \in HireDoc
    /\ locks \in [LockKeys -> Seq(Workers)]
    /\ task \in [Workers -> Task]
    /\ issued \subseteq Quotes
    /\ minted \in [HireIds -> Quotes \cup {None}]
    /\ lapsed \subseteq Quotes

(* A handler is inside its lock from EnterLock to its reply.                 *)
Inside(w, k) ==
    /\ task[w].pc \notin {"idle", "lock"}
    /\ task[w].req.op \in Locking
    /\ LockKey(task[w].req) = k

(* withHireLock serialises: two handlers are never inside one lock key, which*)
(* is what "one quote cannot produce two hire records" is built on.          *)
LockExclusive ==
    \A v, w \in Workers, k \in LockKeys : Inside(v, k) /\ Inside(w, k) => v = w

(* Everything a hire record says was paid is so on chain, for this quote and *)
(* this buyer.                                                              *)
Verified(rec) ==
    /\ rec.txs \subseteq mined
    /\ \A t \in rec.txs :
        /\ JobClient[t.job] = QuoteBuyer[rec.quote]
        /\ t.kind # "approve" => rec.job = t.job
    /\ rec.job # None =>
        JobQuote[rec.job] = rec.quote /\ TxOf("create", rec.job) \in rec.txs
    /\ rec.state = "FUNDED" <=> \E t \in rec.txs : t.kind = "fund"

(* reconcileStep never records a payment that did not happen or that belongs *)
(* to another quote, and no interleaving, lost update or crash makes a        *)
(* stored record mix the fields of two hires.                                *)
RecordsVerified == \A h \in HireIds : Stored(h) => Verified(hires[h])

(* Every prepare of one quote writes its id the same way, and so does every  *)
(* submit: what the page does, and what withHireLock needs to serialise them. *)
SpeltAlike ==
    \A r, s \in Requests :
        (r.op \in Locking /\ r.op = s.op /\ r.quote = s.quote) => r.spelling = s.spelling

(* "Serialize prepare retries so one quote cannot produce two hire records". *)
(* It holds of clients that are SpeltAlike, and not of others.               *)
OneHirePerQuote ==
    \A g, h \in HireIds : minted[g] # None /\ minted[g] = minted[h] => g = h

(* A quote whose hire is funded is out of circulation: prepare can neither   *)
(* bind it nor resume it as unpaid.                                          *)
FundedQuoteClosed ==
    \A h \in HireIds :
        Stored(h) /\ hires[h].state = "FUNDED"
            => quotes[hires[h].quote] \in {"CONSUMED", "EXPIRED"}

(* "Every receipt the server ever accepted is reconciled against these       *)
(* records": a stored receipt is never dropped by a later write.             *)
ReceiptsKept ==
    [][\A h \in HireIds : Stored(h) => Stored(h)' /\ hires[h].txs \subseteq hires'[h].txs]_vars

(* The on-chain job of a hire never changes once create is reconciled.       *)
JobBoundOnce ==
    [][\A h \in HireIds :
        (Stored(h) /\ hires[h].job # None) => (Stored(h)' /\ hires'[h].job = hires[h].job)]_vars

(* A stored result is work the provider did submit for this job: /result     *)
(* reads the chain before it fetches, and no stale write invents one.         *)
ResultDelivered ==
    \A h \in HireIds :
        Stored(h) /\ hires[h].result => hires[h].job # None /\ HasDeliverable(hires[h].job)

(* The statuses a job goes through before it has a given one.                *)
Before ==
    [NONE |-> {}, OPEN |-> {}, FUNDED |-> {"OPEN"}, SUBMITTED |-> {"OPEN", "FUNDED"},
     COMPLETED |-> {"OPEN", "FUNDED", "SUBMITTED"},
     REJECTED |-> {"OPEN", "FUNDED", "SUBMITTED"}, EXPIRED |-> {"OPEN", "FUNDED"}]

(* The status a record stores may lag behind the chain, by a slow request or *)
(* a crash, but it never runs ahead of it.                                   *)
StatusNeverAhead ==
    \A h \in HireIds :
        (Stored(h) /\ hires[h].job # None) =>
            LET now == jobStatus[hires[h].job] IN
            hires[h].status \in Before[now] \cup {now}

(* Every request is answered: no lock key stays held, whichever way the       *)
(* handler before it ended.                                                  *)
Answered == \A w \in Workers : ~ At(w, "idle") ~> At(w, "idle")

(* The documents implement the promise of HireLedger.                        *)
Ledger == INSTANCE HireLedger WITH
    LedgerQuotes <- Quotes, LedgerHires <- HireIds,
    LedgerTx <- Tx, NoQuote <- None,
    opened <- [h \in HireIds |-> IF Stored(h) THEN hires[h].quote ELSE None],
    receipts <- [h \in HireIds |-> IF Stored(h) THEN hires[h].txs ELSE {}]

ImplementsLedger == Ledger!LedgerSpec

=============================================================================
