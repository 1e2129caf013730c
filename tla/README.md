# Canned: TLA+ models of the marketplace and its operator

Canned is a Node.js marketplace where a wallet hires an agent: the server quotes
a price, plans the wallet's five transactions on the ERC-8183 Commerce contract,
verifies every transaction the wallet reports, and shows the job's life until a
result is delivered. Around it live the human baselines and benchmarks, a grid
trading engine, the reference agents that do paid work, and the operator's own
buyer.

Every request is an `async` handler of one process. A handler runs without
interruption from one `await` to the next, and any other handler runs in between.
State lives in JSON documents that are read whole, changed in memory and written
back whole. Most of what can go wrong follows from those two facts.

## Inventory

Paths are relative to `src/src/`. `PROJECT.json` has the same list with statuses.

| Component | State | Operations and interactions | Hard part | What makes it correct |
|---|---|---|---|---|
| public hire store (`marketplace/hire-store.mjs`) | `state/hire-quotes.json`, `state/hire-jobs.json`, an in-memory promise chain per lock key | `putQuote`, `getQuote`, `transitionQuote`, `putHire`, `getHire`, the three lookups, `withHireLock`, id minting | read-modify-write across an await; two lock keys per quote, told apart as they are spelt; crash between writes | one hire per quote, no lost receipt, a lock always freed |
| public hire handlers (`marketplace/hire-handlers.mjs`) | copies of a record kept across awaits | quote, prepare, submit, job, result; call the store, the chain and the provider's notify route | stale copies written back, retries, expiry | a record says only what the chain says; a funded quote is closed |
| hire transactions (`protocol/hire-tx.mjs`) | none | receipt verification, lifecycle mapping | five steps in any order, twice, or for another job | each step verified for this hire's job and buyer |
| file store (`persistence/file-store.mjs`) | the documents on disk | `atomicWrite`, `loadJson`, `saveJson`, `appendJsonArray` | crash; concurrent append | a document is never half written |
| Commerce, Router, wallets, providers (external) | job status, mined transactions | createJob, registerJob, setBudget, fund, submit, settle, expire, cancel | moves at any time | - |
| public hireability (`marketplace/public-hire.mjs`, `hireability.mjs`) | none | a refusal of prepare | - | - |
| grid strategy and keeper (`reference/grid-engine.mjs`, `grid-keeper.mjs`, `grid-track-record.mjs`) | a strategy: levels, fills, cooldown, state | create, evaluate, transition, swap calls, summary | long sequences of price moves and fills | caps, inventory, one fill per level, what is called realised happened |
| leash (`marketplace/leash.mjs`, `reference/altana.mjs`) | none; the session key on chain | worst-case spend, session permissions, their description | rounding, two shapes of a permission | what is shown bounds what can be done |
| session proof (`scripts/altana-final-proof.mjs`, `altana-proof-run.mjs`, `acquire-testnet-usdt.mjs`) | `grid-session.json`, the allowance and the session on chain | acquire, retire, grant, swap, revoke, probe, clear, record | calls that throw, kills | the record is true, and no key and no allowance but a recorded one outlives the script |
| fleet (`scripts/create-*`, `fund-*`, `register-*`, `run-reference-agent.mjs`) | keystores, passwords, identity records | create, serve, fund, register | half-created wallets, two scripts, a directory that changes | money and identities go to a wallet that a service signs with |
| blind baselines (`server.mjs`, the seal, hire and grade scripts) | the baseline document, HealthBench's manifest, precommits, run records, grades | start, source, submit; gate the agents' tasks; seal, hire, grade | the body is read between load and save; scripts run beside the server | the answer that is sealed was given first; a run is graded against the answer it was committed to |
| claims and listings (`server.mjs`, `marketplace/ownership.mjs`, `listings.mjs`) | challenges and sessions in memory, the owner report, the listings document | challenge, verify, submit | awaits between test and use; owners change; lost writes | a listing names an owner who proved it |
| rate limits (`net/rate-limit.mjs`) | windows per key | check, prune | full table | bounded, live windows not evicted |
| reference runtime and seller (`reference/foundation.mjs`, `erc8183-seller.mjs`) | jobs seen, worker state, heartbeats | watch, verify, work, submit | retry of what was done | one submission per funded job |
| paid reports (`reference/mpp-replay-store.mjs`, x402) | a replay document and its lock file | get, put, update | stale lock break | one proof is used once |
| operator buyer (`protocol/erc8183-buyer.mjs`) | a job record saved after every chain step | create, register, budget, fund | crash between step and save | no step done twice |
| operator hire scripts (`scripts/run-*-hire.mjs`, `reconcile-health-guard-hire.mjs`) | precommit, protocol-job and run documents | check, commit, hire, observe, fetch, settle or refund, record, reconcile | kills, errors of mined transactions, deadlines | money is named, complete runs were earned, every script ends |
| protocol control (`scripts/run-protocol-control.mjs`, `protocol/control.mjs`) | the same documents, shared with a callback | the same, with the provider in the process | two writers of one document | the same |
| benchmark framework (`benchmark/`) and graders (`scripts/grade-*.mjs`) | the runs, the pairs | qualify, append, grade, number | whole-document writes | Verified Runs numbered in order |
| evaluators and analytics (`reference/`) | none | advice, decisions over time, rubrics | limits of tick range, missing routes | advice pays and settles; the rule scores what it should |
| scheduler policy (`scheduler`) | none that anything appends to | decide | - | not modelled, see below |
| projections, egress guard, protocols, discovery, deployment, web, other scripts | none of their own | pure functions and drivers | - | not modelled, see below |

The exact line of every hazard, and the properties that cover it, is in
`PROJECT.json` under `hazards`.

## Modules

| Module | What it is |
|---|---|
| `Commerce` | The chain and the wallets, as the handlers rely on them. External to the repository. |
| `HireServer` | The hire store and the five hire handlers that change state: one action per stretch between awaits. |
| `PublicHire` | `HireServer` and `Commerce` together, with the properties. |
| `HireLedger` | The abstract promise: a quote opens at most one hire, which collects receipts and never loses one. |
| `MCPublicHire` | The values of the constants for TLC. |
| `PublicHireProofs` | The theorems about them and their proofs. |
| `BlindTrial` | The abstract promise of a baseline: one seal, every agent run bound to it, every grade of that same answer. |
| `Baseline` | The start, submit and task routes and the seal, hire and grade scripts, with their properties. |
| `MCBaseline` | The symmetry for TLC. |
| `BaselineProofs` | The theorems about `Baseline` and their proofs. |
| `ReplayStore` | One slot of the payment replay store, its lock file and the updates of it, with their properties. |
| `MCReplayStore` | The symmetry for TLC. |
| `ReplayProofs` | The theorem about `ReplayStore` and its proof. |
| `JobChain`, `ReferenceSeller` | The operator's own jobs on chain (external), and a reference agent: its worker state and its watcher. |
| `PaidRun` | The four hire scripts, their checks, the funded job, observation, settlement, the run record; Health Guard's reconciliation. |
| `ControlRun` | The protocol control with its callback, and its reconciliation. |
| `Operator`, `MCOperator` | The three together, with the properties and the fairness. |
| `OperatorProofs` | The theorems about them and their proofs. |
| `GridEngine`, `GridEvaluator` | The engine's and the evaluator's computations: levels, shares, ledger, refusals, as operators. |
| `GridKeeper` | A strategy over time: session, calls, swaps, fills, the answers and the summary. |
| `SpendPeriods` | The arithmetic of a cap that is renewed in every rolling period. |
| `Leash` | What a user is shown of a session key beside what its holder can do. |
| `SessionProof` | The scripts around the action wallet. |
| `Fleet` | Wallets, services, transfers and identities. |
| `WalletProofs` | The theorems about these two. |
| `RateLimit` | The counter in front of the write endpoints. |
| `Registry`, `RegistryProofs` | Challenges, sessions, listings, and the theorems. |
| `RangeKeeper`, `YieldScout`, `Rubrics` | Advice and its outcome over time; what the rubrics make of an answer. |
| `Grading` | Hires at their end, grade scripts and a reconciliation over the runs and the pairs. |
| `CapProofs` | The theorems about `Leash`, `GridKeeper` with its evaluator, and `RateLimit`, and the lemmas on sums and induction. |
| `AdviceProofs` | The theorems about the advice, the rubrics and the grading. |
| `Desk`, `MCDesk` | The last nine parts as one system, and the values of its constants. |
| `Absent` | The value of what is not there. |

`PublicHire` composes `HireServer` and `Commerce` and is shown to implement
`HireLedger`; `Baseline` is shown to implement `BlindTrial`. `ReplayStore`
stands alone. `Operator` composes the scripts with the agents they hire and the
chain. `Desk` puts the parts side by side that share no state with each other in
the code: `GridKeeper`, `Leash`, `SessionProof`, `Fleet`, `RateLimit`, `Registry`,
`RangeKeeper`, `YieldScout` and `Grading`. A behaviour of it is one of a single part
(`part`), since the others would only interleave with it. Where two of the parts
do meet in the code they meet in an operator: the session `GridKeeper` grants has
the limit `Leash` proposes and is capped by the arithmetic of `SpendPeriods`, as the
key in `Leash` is, and `Rubrics` grades the advice of `RangeKeeper` and
`YieldScout` in every state these reach. The groups share no state in the code
but the disk.

### State

| Variable | Code |
|---|---|
| `quotes[q]` | the status field of quote q in `hire-quotes.json`; `None` when absent |
| `hires[h]` | the record in `hire-jobs.json`; `txs` is its transaction list, `url`, `result`, `failure`, `notify` and `status` the fields of those names |
| `locks[k]` | the promise chain of `withHireLock` for key `prepare:<quoteId>` or `submit:<quoteId>`, the id as the body spells it, first in line first |
| `task[w]` | one request in flight: the await it stands at, its local `hire` (`rec`), the steps left (`todo`), the whole document it has loaded and will write back (`qsnap`, `hsnap`) |
| `issued`, `minted`, `lapsed` | quote ids handed out, hire ids handed out, quotes past `expiresAt` |
| `jobStatus`, `mined` | what `getJob` and the transaction receipts answer |

In `Baseline`:

| Variable | Code |
|---|---|
| `doc` | `state/<bench>-baseline.json`: absent, started, or submitted with an answer |
| `manifest` | the raw hash in `evidence/healthbench-v1/human-baseline/manifest.json`; hashes are told apart by the answer they are of |
| `committed[r]` | `humanBaselineReference` in `state/precommit-<r>.json` |
| `recorded` | the runs whose run record and deliverable are stored |
| `graded[r]` | the human side of run r in `state/agent-advantage-pairs.json` |
| `job[w]` | one handler or script: where it stands and the copy of `doc` it read |
| `exposed`, `blind`, `replaced` | history: whether any agent output was produced, the answers stored before, and whether a stored answer was written over |

In `ReplayStore`, for one key (keys have files of their own and share nothing):

| Variable | Code |
|---|---|
| `slot` | the value file, as the request that wrote it |
| `lock` | the lock file, as the update that created it; the code itself keeps no owner |
| `stale` | the lock file's age is over `LOCK_STALE_MS` |
| `pc[u]`, `op[u]` | the await update u stands at, and whether it sets, deletes or leaves the slot |
| `won`, `broken` | history: who was told the slot is theirs, and whether a stale lock was removed |

In `Operator`, for every run r:

| Variable | Code |
|---|---|
| `kind[r]`, `chain[r]`, `content[r]`, `window[r]`, `ripe[r]` | which script it is, `getJob`, whether the deliverable answers the task, and the deadlines that have passed |
| `worker[k]`, `seller[r]` | the agent's runtime state that readiness reads, and what its watcher did for the job |
| `pc[r]`, `step[r]`, `rec[r]`, `seen[r]`, `valid[r]`, `tries[r]` | the script: where it stands, the job record in memory, what it observed and fetched, its settlement tries |
| `committed[r]`, `doc[r]`, `report[r]`, `book` | the precommit, the protocol-job document, the run's own file, `benchmark-runs.json` |
| `snap[r]`, `cb`, `saving`, `hold`, `held` | the copies a read-modify-write holds over its await, in the main flow and in the control's callback |

In `Desk`:

| Variable | Code |
|---|---|
| `strategy`, `fills` | the frozen strategy and the fills its caller keeps |
| `session`, `call`, `wallet`, `dry`, `lost` | the chain's view of the session with its cap's period and its spends, the call under way, what the swaps moved; whether swaps are simulated, and whether a fill was never recorded |
| `plan`, `proposal`, `key` | a strategy's capital and life, what the user was shown, the session key with its spends |
| `usdt`, `router`, `sessions` | the action wallet's tokens, the router's allowance, the sessions granted |
| `buyer`, `proof`, `record` | the acquisition, the proof script and what it remembers, `grid-session.json` |
| `dir`, `made`, `signed`, `funded`, `identities`, `records` | the data directory, the wallets created, who the services signed with, transfers with the service that was asked, identities on chain, identity files |
| `hits`, `allowed` | the limiter's table, and the hits let through |
| `owner`, `reported`, `challenges`, `claims`, `listings`, `task` | the owner on chain, the stored report, the two in-memory maps, `agent-listings.json`, requests in flight |
| `pool`, `position`, `decision` and `venue`, `holding`, `scouted` | the market, what a holder has, and the recorded decision with its outcome |
| `runs`, `pairs`, `hirer`, `grader`, `behind`, `careful` | the two documents, what each hire and grader has read, who has not read the runs since they were last written, and how the operator behaves |
| `clock`, `hour`, `chainTime`, `minute`, `moment` | the time of each part |

### Actions

A document write is two actions, `...Load` and `...Save`, because `loadJson`
awaits and other handlers run before `saveJson`. `atomicWrite` renames, so the
write itself is one step.

- quote: `IssueLoad`, `IssueSave`.
- prepare: `EnterLock`, `ReadQuote` (404, 409, 403, or expiry), `FindHire` by key
  then by quote, `CheckBuyer` (hireability, balance, allowance and window reads,
  any of which may refuse), `TransitionLoad` and `BindSave` (quote PREPARED, id
  minted), `PutLoad` and `SaveHire`.
- submit: `EnterLock`, `ReadQuote`, `FindHire` (take a copy of the record),
  `CheckOwner` for every transaction, then the canonical step order:
  `ReplayStep`, `ConflictStep`, `AcceptStep`, `RejectStep`. An accepted fund step
  consumes the quote (`TransitionLoad`, `ConsumeSave`), notifies the provider,
  stores the record (`noteSave`), and stores it again (`stepSave`) as every
  accepted step does.
- job and result: `ReadHire`, `StopReading`, `RefreshJob` or `ResolveDelivery`
  and `FetchDelivery`, `PutLoad` and `SaveHire`. They take no lock.
- `Crash` forgets the requests and locks and keeps the documents. `Lapse` passes
  the expiry of a quote.

- baseline routes: `StartRead`/`StartSave`, and `SubmitRead`, `SubmitBody`,
  `SubmitSave`: the document is read, then the body is awaited, then the completed
  copy is written, with no second look. `TaskRead`/`TaskReply` is Health Guard's
  task route and its gate (the benchmark is taken to be frozen).
- scripts: `SealRead`/`SealWrite` (`writeImmutable`: an existing manifest stays);
  `HireRead`, `HireCheck`, `HireCommit` (the precommit), `HireRecord` (the
  delivered run); `GradeRead`, `GradeCheck`, `GradeSave`. The three benchmarks
  differ in where the hash is (`SealedApart`): a manifest for HealthBench, a field
  of the document itself for YieldBench and RebalanceBench.
- `Abandon` ends any of them early: a refused body, a failed check, an error, a
  killed process. Since no definition here waits for another worker, a restart of
  the server is several of these.

- replay store: `Open`, `Stat` and `Break` are the turns of `acquireLock`'s loop;
  `Get`, `Write`, `Fail` and `Release` those of `update`, whose `finally` releases
  whatever failed. `Reserve` and `GiveUp` are the payment library's calls, which
  is external. `Die` stops a process anywhere. `Age` makes the lock stale, and is
  enabled only when no live update is between its open and its release: the
  comment at lines 125-127 takes a live holder to be that quick.

- operator runs: `Preflight` (any set of checks may fail), `Commit`, then `Send`,
  `Note` and `Fail` of `createFundedJob`, which persists after every transaction,
  `Observe`, `StopObserving`, `Fetch`, `Refund`, `Settle`, `Confirm`, `Retry`,
  `CountRuns`, `LoadRuns`, `SaveRun`, `Report`. A transaction may mine and still be
  reported as an error. The four scripts differ in their checks, terms and what
  they refuse of a deliverable (`GridChecks` ... `HealthRefused`). The control run
  has actions of its own (`Control...`), and its watcher's callback (`Detect`,
  `CallbackLoad`, `CallbackSave`, `CallbackSubmit`) shares the document with it.
  `Reconcile...` are the two reconciliation scripts, `Kill` ends a process
  anywhere, `Chain` is anybody's settle, refund, dispute and the deadlines.
- agents: `Verify`, `StartWork`, `EndWork`, `SubmitResult` (which may mine and be
  retried), `Restart`, which forgets every job.
- grid: `Plan`, `Move`, `Grant` (the period proposed or another), `Revoke`, `Evaluate` (an observation that may be
  old, an authority that may be out of date), `Swap`, `Simulate`, `Refused`. The
  caller that submits swaps is not in the repository; the engine's comments and
  tests say what it does, and the actions of it are marked external.
- leash: `PlanLeash`, `Propose`, `GrantKey` (as proposed, or with another period),
  `SpendKey`, `RevokeKey`.
- session proof: one action per call of the scripts, `ProofBreak` for a call that
  throws, `ProofKill`, and the same of the acquisition (`Buy...`). The swap and the
  probe catch their errors, as in the code. `ClearAllowance` may be mined reverted:
  the final proof then ends, the proof run only notes it and writes the record.
- fleet: `ListKeystores`, `PersistKeystore`, `WritePassword` (a keystore without its
  password is what a kill leaves), `Serve`, `FundProvider` (its recipient and the
  service it asks may be set by hand), `FundAction`,
  `ProbeEndpoint`, `OpenWallet`, `RegisterAgent`, `WriteIdentity`, `EmptyDirectory`.
- registry: `IssueChallenge`, `VerifyStart`, `VerifyReport`, `VerifyEnd` (the
  report is read, the signer recovered and the session stored, each after an await), `SubmitStart`, `SubmitLoad`,
  `SubmitSave`, `Transfer`, `Discover`, `ServerRestart`.
- advice: `RecordDecision`, `FollowAdvice`, `SettleDecision` and `Scout`,
  `FollowScout`, `SettleScouted` are the code's; the market's moves are external.
- grading: of a hire `StartHire` (it reads the runs for its number), `LoadForAppend`
  and `SaveRun`; `StartGrading`, `LoadPairs`, `LoadRuns`, `SaveGraded`, `SavePairs`; of
  the reconciliation `StartReconcile`, `SaveReconciled`; and kills of all of them. A
  careful operator grades the newest run, with two graders at once, and hires
  while nothing else runs.

A definition whose comment starts with `Slip:` is not part of the system. It is a
plausible mistake in the definition after it (a dropped guard, a missing
release), used to show that a property would notice it.

## Runs

The hire instances have one quote, `q1`. Two quotes share the two documents, and a
write of one overwrites what the other wrote since its read; that lost update is
a hazard recorded in `PROJECT.json` and left to a run of its own, because it
would break the per-quote promises here for a reason that has nothing to do with
them. Two workers are enough for every pairwise race; they are interchangeable,
no property names one, and symmetry over them is used only in runs without
liveness. Deadlock is checked in every run but those of `ReplayStore`, `Operator`
and `Desk`, whose updates, scripts and bounded time may all have ended.

| Run | Instance | Checks | Shows |
|---|---|---|---|
| `HireRetries` | two keys, two hire ids, two jobs with the same terms, two clients that retry without limit and spell the quote id alike, crashes | `TypeOK`, `LockExclusive`, `RecordsVerified`, `OneHirePerQuote`, `FundedQuoteClosed`, `ReceiptsKept`, `JobBoundOnce`, `ImplementsLedger` | under retries, expiry and crashes the locks of the quote are enough: prepare and submit implement the ledger |
| `HireReads` | one client whose submit, job and result requests overlap; the job is delivered and settled | `ResultDelivered`, `StatusNeverAhead` | views may lag behind the chain but never run ahead, and a stored result was delivered |
| `HireSteps` | all five wallet steps in two requests, in any order, crashes, fairness | `Answered` | every request is answered; no lock key stays held |
| `HireStaleView` | a job view beside two submits | `ReceiptsKept` | violated, see below |
| `HireSpellings` | two prepares of one quote, one of which pads its id | `OneHirePerQuote` | violated, see below |
| `BaselineHealth` | HealthBench: three handlers or scripts at once, two answers, two paid runs | `TypeOK`, `SealedBlind`, `GradedIsCommitted`, `ImplementsBlindTrial` | whatever overwrites the document, hire and grade use the sealed answer or stop; the human answered before the agent unless an answer was written over |
| `BaselineYield` | YieldBench, RebalanceBench: two handlers or scripts, two answers, one run | `GradedIsCommitted` | violated, see below |
| `ReplayUpdates` | three requests with one proof, processes that die, file operations that fail, fairness | `WinnerOwnsSlot`, `Answered` | until a stale lock is broken one request at a time owns the proof; a dead process's lock delays others and blocks none for ever |
| `ReplayRestart` | three requests with one proof | `AdmittedOnce` | violated, see below |
| `OperatorRun` | one run of each of the five kinds with its agent, two settlement attempts, kills, restarts, reconciliations, fairness | `TypeOK`, `EscrowKnown`, `QualifiedIsEarned`, `QualificationKept`, `Finishes` | money on chain is always named in a document; a complete run was earned and stays complete; every script ends |
| `DeskRun`, part grid | plans of three levels, arithmetic and geometric, with and without a maximum of fills and a cooldown, real and simulated swaps | `BudgetKept`, `WithinLeash`, `EvaluatorAgrees`, `RealisedIsReal` | the engine keeps the budget along every path, the session keeps to the worst case told of it when records are lost, the evaluator agrees everywhere |
| part leash | two capitals, three periods | `WorstCaseHolds`, `ShownIsEnforced` | no order of spends passes what was shown; nothing is shown that the chain does not enforce |
| part proof | both scripts, the acquisition, an old session | `RecordIsTrue`, `NoStandingApproval` | what is published of a proof is so, whatever threw or was killed |
| part fleet | two agents and the action wallet, three wallets, a directory that is emptied | `FundsReachWhoSigns`, `RecordServed` | nothing is paid to or registered for a wallet the service asked does not sign with |
| part limit | a table of two, three keys, a bucket with no rule | `SpanBounded` | less than twice the limit in any span of a window |
| part registry | two agents, two owners, one of the agents sold, two requests at once | `ClaimProven`, `KeptByOrder` | a listing names an owner who was challenged and reported; only an overlapping write loses one |
| parts range, scout | ranges at the limits of the protocol; three markets with every kind of route | `AdviceSettles`, `MovesPay`, `RuleScoresBest` | a holder who follows advice is not sent back and forth and gains; the rubrics rate the rule best |
| part grading | three families, two runs, two graders, two hires | `VerifiedInOrder`, `RunsKept` | numbers are in the order of the hires for a careful operator; for any operator only an overlapping read and write loses a run |
| `SessionLeft` | the final proof alone, no kills | `RevokedInTheEnd` | violated, see below |

Bounds: `Workers` (requests in flight), `HireIds` (two, so that a second hire of
the quote can appear), `Jobs` (two where a client may create twice), `WalletTxs`
and `JobMoves` (the transactions and status changes that can happen), `Requests`
(what clients send, any number of times), `Spellings` (one id written with and without
a space is enough for two lock keys), `NotifyOutcomes`. Nothing counts, so no
run depends on a cap on a counter.

In `BaselineHealth` three workers let a slow submit, a slow seal and a hire or
grade overlap, two answers tell the sealed one from the one that overwrites it,
and two runs let one commit while another is graded. Nothing counts there either.
Workers, answers and runs are symmetric and no property names one. `Runs` bounds
the paid runs there can be, and a run id is taken once, as random ids are.

In the `ReplayStore` runs three requests are the least that show the stale break:
one dies with the lock and two wait for it. One key is enough because no update
touches the files of another.

In `OperatorRun` one run is enough for every property but the book's, since runs
share only `benchmark-runs.json`, whose overlapping writes are the subject of
`Grading` and of the proof of `QualificationKept`; the five kinds are all initial states of the run. `Attempts` bounds the
tries of settlement at two where the scripts make more: the second is the first
one that may be the last.

In `DeskRun`, `GridHorizon` of two with `Cooldowns` of zero and one lets a
cooldown end and a strategy expire; three levels are the least with two buys, whose
shares of a capital of three leave a remainder; `Outs` of zero and two let a swap return
nothing and enough. `Periods` of one, two and three with lives of up to five give
lives that are whole, broken and shorter multiples of a period, and one that
no period covers. Two sessions let a proof retire one and grant one;
`MaxAcquired` of one is the least, since an acquisition shares with the next only
what it left on chain. Three wallets let a role have a live one, a
half-created one and a new one. A table of two with three keys is full. Ticks end at 14
with spacings of three and four, so that one limit is aligned and one is
not. `Proposals` in `Rubrics` are the wrong answers tried: none, the old range, the
rule's moved by a tick and far away, and its bounds exchanged. Time, grants,
wallets, nonces, saves and runs are each capped by the constant that names them. Requests
of the registry and creation scripts of the fleet are symmetric (`MCAlike`); no
property names one.

Fairness is assumed in `HireSteps`, `ReplayUpdates` and `OperatorRun`. In `PublicHire`,
`FairSpec` is weak fairness of each
worker's `Handle`: Node's event loop resumes a handler whose await resolves, and
every wait the handlers make is on a file, on an RPC call with a timeout, or on
their lock. Nothing is assumed of clients, wallets, the chain, expiry or crashes.
In `ReplayStore` it is weak fairness of each update's `Step` (file operations
complete or fail, and the 15 ms sleep ends) and of `Age` (the clock goes on). A
waiter sees a lock that is taken and released around it only finitely often,
since each request updates the slot at most a few times.

In `Operator` it is weak fairness of each script's steps (its calls return or
throw, and between them it sleeps for a fixed time) and of the deadlines, which
pass with the clock. Nothing is assumed of the agents, of
anybody's transactions, of kills, nor that transactions mine.

### Disagreements the runs show

1. **A view can drop an accepted receipt** (`HireStaleView`). The job and result
   routes write back the whole record they read before their chain read, with no
   lock. In `HireRetries`, where no view runs, `ReceiptsKept` holds.
2. **A YieldBench or RebalanceBench run can be graded against an answer it was not
   committed to** (`BaselineYield`). Two submits of one attempt both pass the gate
   before their bodies arrive; the slow one overwrites the document after the hire
   read it. The hash is overwritten with it, so the grader's hash check passes,
   and the grader does not look at the precommit. In `BaselineHealth` the same race
   ends in a refusal.
3. **Two requests can be told that one payment proof is theirs** (`ReplayRestart`).
   A waiter looks at the age of the lock file and unlinks the file of that name in
   a later turn. After a crash two waiters see the stale lock; the second unlinks
   the lock the first has just created, and both are inside `update`. The store's
   comment says the replay invariant survives a restart. In `ReplayUpdates`
   `WinnerOwnsSlot` holds as long as no lock is broken.
4. **A session key can outlive its proof** (`SessionLeft`). After the swap, whose
   error is caught, the final proof reads balances outside any try. A read that
   throws ends the script before "15. revoke, success or failure", and the record
   that would name the session is written last.
5. **A quote can get two hires if its id is spelt in two ways** (`HireSpellings`).
   `handleHirePrepare` and `handleHireSubmit` take their lock under the id as the body
   has it, and the handlers behind them work on the trimmed id. Two prepares, one of
   which pads the id, hold different locks, and both find no hire; with two
   submits a receipt or a job can be lost in the same way. The comment says prepares are
   serialized "so one quote cannot produce two hire records". The hire page always
   sends the id the server gave it, so the other hire runs and the theorems about
   one quote are about clients that spell it alike (`SpeltAlike`).

### Observed while modelling

These are in the models as the code has them; where a property meets one, it leaves
it out by name. None has a run of its own.

- Without an oracle history the Range Keeper's own deliverable misses
  `movement_relative_to_range_correct`; a HOLD of the Yield Scout misses
  `yield_advantage_correct`. `rebalance-evaluator.mjs:138-141` says every check can
  be met from a structured field.
- A job hands its agent the task without the previous snapshot, so that a health
  answer to a job misses `change_status_correct` when the truth compares one.
- A proposed range cut at the first or last tick is not aligned and is graded
  illegal; the rebalance rubric accepts bounds in the wrong order, and bounds
  outside the protocol.
- `transitionQuote` is documented as an atomic compare-and-set, but it awaits between
  the comparison and the write, and prepare and submit hold different locks: a prepare's
  EXPIRED can land on a submit's CONSUMED. The quote stays out of circulation
  (`FundedQuoteClosed`), but the buyer of a funded hire is told that it expired.
- The task route opens with the first stored answer, not with the seal. A submit that
  read the started attempt before may still replace that answer, after an agent
  output is there to be seen, and the replacement is what is sealed
  (`reference/constants.mjs:134` speaks of a baseline sealed "so the agent can never
  answer first"). `SealedBlind` says that this is the only way: it names such a
  replacement (`replaced`).
- `fund-reference-provider.mjs` asks whatever service the agent's URL variable names and
  checks no more of the answer than its provider and its chain. Whether the recipient
  is another agent's it knows only from the data directory. With both set by hand,
  and a directory without the other agent's files, it pays the other agent's provider.
- Hires and graders that overlap lose runs and give a number
  twice (`Grading` with `careful` FALSE); two listings submitted at once lose one.
- After a proof run whose clearing approval was mined reverted the router keeps its
  allowance; the record names what is left (`NoStandingApproval`).
- The limiter's windows start with a first hit, so that nearly twice the limit
  fits in the span of one window.
- `hireLifecycleFrom` shows a job that is OPEN on chain as FUNDED.

## Proofs

`PublicHireProofs` proves, for every value of the constants that meets
`ChainAssumption`, `ServerAssumption` and `NullAssumption` (any number of quotes,
workers, hires and jobs; every request well formed, as the handlers' own parsing
guarantees; `None` is no status and no record):

- `Invariant`: `Spec => []IInv`;
- `TypeCorrect`: `Spec => []TypeOK`;
- `RecordsAreVerified`: `Spec => []RecordsVerified`. A stored receipt mined, is of
  the buyer's wallet and of this hire's job, whatever the interleaving, lost
  update or crash;
- `LocksExclusive`: `Spec => []LockExclusive`;
- `ResultsAreDelivered`: `Spec => []ResultDelivered`, and `StatusIsPast`: `Spec =>
  []StatusNeverAhead`: views lag behind the chain and never run ahead of it;
- `QuoteOpensOneHire` and `FundedIsClosed`: for a quote `q` that every prepare and
  submit is about (`OnlyQuote(q)`), and that clients spell alike (`SpeltAlike`),
  `Spec => []OneHirePerQuote` and `Spec => []FundedQuoteClosed`, with any number of
  workers, keys and retries, expiry and crashes, and views of any hire beside them;
- `ReceiptsStay`, `JobsStay` and `LedgerImplemented`: for such a quote and without
  views (`NoViews`), `Spec => ReceiptsKept`, `Spec => JobBoundOnce` and `Spec =>
  ImplementsLedger`, the refinement of `HireLedger`.

The three hypotheses are the code's own limits and not conveniences: the quote and
hire documents are whole files, so that handlers of two quotes, which take different
locks, write each other's changes away; the lock key is the id as a client wrote it,
so that two spellings of one id take different locks, as `HireSpellings` shows; and
the views write the hire document with no lock, as `HireStaleView` shows. An
instance of two quotes violates all four properties.

`BaselineProofs` proves of `Baseline`, from `BaselineAssumption` (`None` is no
answer) and for any number of workers, answers and runs:

- `TypeCorrect`: `Spec => []TypeOK`;
- `SealsBlind`: `Spec => []SealedBlind`. Unless a stored answer was written over, the
  sealed one is older than any agent output;
- `GradedAsCommitted` and `TrialImplemented`: with `SealedApart`, `Spec =>
  []GradedIsCommitted` and `Spec => ImplementsBlindTrial`. Without it both are
  false, as `BaselineYield` shows.

`ReplayProofs` proves of `ReplayStore`, from `ReplayAssumption` (`None` is no
update) and for any number of requests:

- `WinnersOwn`: `Spec => []WinnerOwnsSlot`.

`OperatorProofs` proves of `Operator`, from `NoneAssumption`, `RecordAssumption` and
`AttemptsAssumption` (`None` is no status, no content and no document; settlement
is tried at least once) and for any number of runs:

- `TypeCorrect`: `Spec => []TypeOK`, so that no script settles more often than its
  loop allows or appends to a document that is not there;
- `EscrowNamed`: `Spec => []EscrowKnown`;
- `CompleteIsEarned`: `Spec => []QualifiedIsEarned`;
- `CompleteIsKept`: `Spec => QualificationKept`, the action property. With more
  than one run a script can write back a book it read before another run
  completed; the property says that this lost update is the only way back.

Four modules prove of `Desk`, for every value of the constants, that its parts
keep what `DeskRun` checks:

- `WalletProofs`: `RecordsTrue`, `ApprovalsCleared` (`RecordIsTrue`,
  `NoStandingApproval`), `FundsArrive` and `RecordsServed` (`FundsReachWhoSigns`,
  `RecordServed`), from `ProvidersAssumption` (the name of the grid's wallet is no
  agent's): any wallets, any number of kills and moves of the directory;
- `RegistryProofs`: `ClaimsProven` and `KeptInOrder` (`ClaimProven`,
  `KeptByOrder`), from `RegistryAssumption` (the first owners are owners, the
  times to live are numbers, that of a session positive, `None` is no entry);
- `CapProofs`: `WorstCaseTold` and `ShownEnforced` (`WorstCaseHolds`,
  `ShownIsEnforced`), `SpendsWithinLeash`, `KeepsBudget` and `PublishesWhatIsReal`
  (`WithinLeash`, `BudgetKept`, `RealisedIsReal`), `AnswersAgree`
  (`EvaluatorAgrees`) and `SpansBounded` (`SpanBounded`);
- `AdviceProofs`: `EveryMovePays` (`MovesPay`), `AdviceComesToRest`
  (`AdviceSettles`), `TheRuleScoresBest` (`RuleScoresBest`),
  `RunsAreNumberedInOrder` (`VerifiedInOrder`) and `RunsStay` (`RunsKept`).

The last two need little of the constants, each part in the module it is about:

| Assumption | Says | Because |
|---|---|---|
| `LeashAssumption`, `PeriodsAssumption` | capitals are naturals, periods positive | `allocateCapital` throws on a capital that is not positive, and `PERIOD_MS` names positive periods |
| `LimitAssumption` | the limit, the window and the table size are numbers, the first two positive; a request names finitely many keys | `RATE_LIMITS`, `MAX_TRACKED_KEYS` |
| `NullAssumption` | `None` is no refusal and no number | it stands for `null` |
| `GridAssumption` | prices, bounds and caps are integers, a grid has two levels or more, what a swap returns is not negative, `None` is no strategy, session, authority or pair | `GRID_LIMITS.minLevels` is 2; amounts are `BigInt` of unsigned words |
| `ScoutAssumption` | rates and cash are integers, a fee is a natural or absent, gas costs no less than nothing | fees of routes are unsigned words; the snapshot's numbers are finite |
| `RangeAssumption` | tick limits are integers, spacings and widths positive, the price lies between the limits | the pool's own invariants (`pancakeswap.mjs` reads them) |
| `ProcessesAssumption` | no process hires and grades | they are scripts of their own |
| `AnswerAssumption` | `None` is no drift and no bounds | it stands for what an answer leaves out |

In `PublicHireProofs` no state property is inductive. A handler writes back a record and a document it read
long ago, so `RecordsVerified` must also hold of every copy in flight: `TaskOK`
says that each worker's `rec` and every record of its `hsnap` is verified, and
that the fields of the task fit the label it stands at. This survives other
workers because `mined` only grows and `Verified` mentions nothing else that
changes. A record that is FUNDED in the submit loop has no step of the loop left
to apply (`LoopOK`), which is what keeps `state = "FUNDED"` equivalent to a fund
receipt. `LockExclusive` needs `Queued`: a worker past its `lock` label heads the
queue of its key, and a worker waits in at most one queue, once. `IInv` is the
conjunction of the state part, `TaskOK` of every worker, and `Queued`; there is
one lemma per action.

What a record shows of its job rests on a second invariant, `ShownInv`. A result is
shown of a delivered job, and a status is one the job has or has had (`ShowsOK`): in
the stored documents, in the record a handler holds, in the document it is about to
write back (`HeldOK`), and of a handler that fetches, the job was delivered when it
decided to. The chain part (`JobMovesOn`) is that a job moves on and never back: what
was delivered stays delivered, and `Upto` of a status only grows. That needs
`ChainOK`, a funded job's fund transaction mined, because a dispute that rejects a
submitted job leaves the status apart from what happened before it.

The theorems about one quote start from the shapes a handler's step can have
(`Step`, `HandleSteps`): it ends, glides on, or writes the quote document or the hire
document. `QuoteInv` says that the quote is issued once,
before anything else is written, that whoever is about to bind it finds no hire
minted (`TurnOK`), and that once one is, the quote is past ISSUED, from where binding
is refused. `ClosedInv` says of every record, stored or held, that it is the quote's
and, if it is FUNDED, that the quote is CONSUMED or EXPIRED: a hire becomes
FUNDED only in a handler past `consume`, which closes the quote, and nobody reopens
one. Without views there is one writer
of the hire document at a time, and what it has read is what is stored (`WriterInv`);
its record is ahead of the stored one by no more than the receipt it verified
(`AheadOf`). So a write adds a receipt or a status and takes nothing away
(`HireWritten`), which is the step of `HireLedger` and both action properties.

In `BaselineProofs` the invariant says what each worker holds: a submitted copy at
the labels that use one (`JobOK`), and, with a manifest, that the copy of a worker past its hash check is the
sealed answer (`HeldOK`). That last part survives other workers only because the
manifest is never replaced once written, which is where `writeImmutable` enters
the proof (`SealWriteOK`). The refinement then needs one step per action that
writes the manifest, a precommit or a grade; the rest stutter. `SealsBlind` has an
invariant of its own (`BlindInv`): as long as nothing was written over, a handler past
the check for an answer finds one stored until it ends, so that there is one before
any output, and the copy on its way into the manifest was stored blind (`BlindOK`).
A write over an older answer sets `replaced`; one that is not such a write comes
before there is any output (`BlindWritten`).

In `ReplayProofs` the invariant is conditional on no lock having been broken, as
the property is. `Exclusive` says that the lock file is the one its holder
created; from it, `SlotOK` keeps what a holder has read true until it writes, and
keeps the slot with whoever was told it is theirs, or is about to delete it.

In `OperatorProofs` the invariant (`OperatorInv`) is stronger than `EscrowKnown` in
two ways. Nothing is paid before the first transaction, and from the second on the
record in memory and the document name the job (`BuyOK`): a transaction that
mined unheard leaves a document that was written before it was sent. In the
control, whose callback appends to the same document, every copy in flight names
the job as well (`ControlOK`: what the main flow loaded, what the callback loaded),
so that the later of two overlapping appends, which loses the earlier one's event,
does not lose the job's id. Only jobs that were paid for move on chain without the
script (`PaidMoves`), and a killed script leaves its callback over (`KillOK`).

`CompleteIsEarned` rests on a second invariant beside it, `EarnedInv`. A run that is
complete was judged by one script from what it saw of the chain and fetched, and
stored by a write of the whole book; so what a script saw must be a lower bound of
what the chain is (`SeenOK`: final statuses stay), what it validated must be the
content (`AnswerOK`), and every entry of the book and of every copy in flight must be
earned (`EntryOK`, `ListOK`), since any script may write any run's entry back. A
reconciliation begins from the stored entry and writes it back changed: between its
read and its save it must still hold a final status for a run that was complete,
which is the clause `CompleteIsKept` uses. Outside the book a step touches one run,
so that one lemma per kind of step (`EarnedStep`) leaves the others alone.

`TypeCorrect` needs both, and `TypeInv`: a run that is in the book, or in any copy of
it that a script holds, has its document, because a reconciliation that starts from
such an entry appends to it (`Listed`); a script that stands before a settlement has
an attempt left (`Ready`); and an entry is one only because what is written back was
read from a book of entries, which `EarnedInv` already says.

In `WalletProofs` the invariant of the session scripts (`ScriptOK`) says what the script knows at each
label: from the grant on its session exists, after the revocation it is revoked,
and what it remembers of the swap is what the session was used for. That last
part needs `SpendOnce`: the cap of a session admits one trade and not two, which
is where the numbers of the scripts enter. Sessions are never made live again
(`SessionsKept`), so what the record says stays true when a later script fails.

In its second half a wallet has one role for ever and a password is only ever that
of a keystore beside it (`KeysOK`, `MakersOK`); what a service signed with stays
in its history (`SignersOK`). A funding script and a registrar compare their wallet
with the live service (`FundsOK`, `RegistrarOK`), and neither comparison is undone by
a service that restarts, because the properties speak of wallets it has signed
with.

In `RegistryProofs` the invariant follows a claim from the challenge through the
handler's copy and the session to the document: whoever is named was asked, and
owned the agent, by the report, until a time (`OwnedUntil`). It holds of every
document in flight (`DocumentOK` of a submitter's copy), as a submit writes back
what it read long before. `KeptByOrder` needs that a copy with the current number of
writes equals the document (`SubmitterOK`).

In `CapProofs` the sums are recursive functions over lists of any length. Induction
is had from the order of the naturals being well-founded (`LeastNumber`,
`Induction`, from `NatLessThanWellFounded` and `WFMin`): the set of lengths for which
a sum exists, or two sums agree, holds 0 and with a number the next. From it, a list
with one more member sums to one more summand (`SumsAgree`, `SpentMore`,
`TotalMore`, `SumMore`). For the leash, of the spends since any time at most a cap
falls in each period, so that a cap for every period begun bounds them all
(`CappedSpend`, `Periodic`), and rounding up counts the broken one (`RoundedUp`). For
the grid, `GridInv` says of the call in flight that every check of the engine passed
for it (`CallOK`, from `MayAct`), of the fills applied that there is one buy of one
share per level bought at (`FillsOK`), and, until a record is lost, that they add up
to what the swaps moved. The budget then holds because the shares of the buy levels
sum to no more than the capital (`Affordable`), although a sale lowers what the ledger
counts as spent; `WithinLeash` needs none of this: the wallet spends what the
session's spends sum to, and those keep to the rolling cap, so that the same bound
on capped spends gives the worst case for any period and the capital for one that
covers the session.

The engine and the evaluator are compared list by list. The first reason of a list is
found in either the same way (`FirstIs`), of two lists the second is asked when the
first finds nothing (`FirstOfBoth`), and the four lists find the same
(`AuthorityAgrees`, `MarketAgrees`, `BudgetAgrees`, `CallAgrees`), of which the third
needs that the allocations are one number (`AllocationAgrees`) and the ledgers agree:
the evaluator books one fill after the other where the engine sums over all
(`LedgersAgree`, by induction over the fills). That the levels rise, which the grader
asks, is an invariant of its own (`LevelsRise`). None of it uses the budget, so it
holds of lost records and of a session that stands as well.

`SpanBounded` is about any span, and the code counts in windows that start with a
first hit. `LimitInv` names for every key the hits its windows began with
(`Windows`): each hit lies among the `Limit` from such a first one on, one window ends
before the next begins, and the open window's count covers the hits since its first.
A prune only drops windows that have ended (`WindowsKept`, `WindowOpens`,
`WindowCounts`). The hit `2 * Limit` before another is then no later than the first
hit of the window before the other's, a window ago or more (`SpanOfWindows`).

In `AdviceProofs` each part has an argument of its own. `ScoutInv`: at unchanged
rates a market that was left is worth less to the holder, by the minimum it moved
for, than the one it is in. `RangeInv`: a range nothing cut off is at least as wide
as chosen and lies around its centre with half its width or more on either side
(`Proposes`, from what `AlignDown` and `AlignUp` give, `Down` and `Up`), so that it is
not within ten per cent of an edge. `RuleScoresBest` is about every answer to every
state those two invariants admit: what the rule misses is computed (`RebalanceMissed`,
`YieldMissed`, `HealthMissed`), and then what any other answer must miss.
`GradingInv`: for a careful operator the copy of a hire is the document
(`HireOK`), every copy a grader holds agrees with it on all runs but the newest, and
the verified ones are numbered by how many there are up to each (`Numbered`,
`Replaced`). `RunsStay` is about any operator and needs less: the copy of a process
that has read the runs since they were last written is the document (`Fresh`).

Every invariant, action property and refinement that a passing run checks is the
statement of a theorem. Only model-checked are the liveness properties (`Answered` of
`ReplayStore` and of `PublicHire`, `Finishes`), which are beyond the prover. What is
proved for one quote is checked for one quote too, and `ReceiptsKept`,
`JobBoundOnce` and the refinement of `HireLedger` only in runs without views, for the
reason above.

## Not modelled

In the public hire: disk errors (the handler would end with 500 and its lock
released, as a reply does); the evidence and mine routes, which write nothing;
provider negotiation in the quote route; balances, prices and ABI encoding, which
only decide whether `CheckBuyer` refuses or whether a receipt verifies; wording.
`CheckBuyer` and the verification reads may fail at any time.

In the baselines: output the agents' own public services give to other clients,
which no gate on a baseline guards; the packet and source routes, which only read; what happens on
chain between precommit and delivery; scores; the copies in the evidence
directory, which nothing reads back; attempt ids and timers, so that two starts
of an attempt are not told apart; a manifest cut short by a crash, which makes
every later script stop on unreadable JSON.

In the replay store: the payment library's own checks and the expiry of its
inflight reservations, the Windows `EPERM` path, and a live holder that is stopped
for over two minutes. The x402 route keeps no state of its own and is not modelled.

In the operator's runs: the wording of manifests and records, the search for a
deliverable over gateways (retrieved, not retrieved, or other bytes is what is left of
it), gas, and the checks' inner working: each is a name that may fail.

In the desk: real prices, rates and ticks, which are small integers related as the
formulas relate them; `BigInt` arithmetic does not overflow and needs no width. The
matching of prose in the rubrics and the text checks that every answer passes.
`GridKeeper` has one strategy and one caller. Call data is its recipient, method
and amounts. Disk errors and documents cut short.

`canSchedule` of the scheduler policy is called by its test alone and nothing
appends attempts, so that there is no scheduler to model. Projections, discovery
and agent clients have no state between calls; the bundle, audit and readiness scripts
read stored records and write files nothing reads back. The egress guard and the
deployment checks are string-level functions. The web pages are the clients
whose requests are enumerated. Which buckets have a rule is a table: `RATE_LIMITS`
names none of the four that the hire routes check (`server.mjs:928` on), and `hit`
lets such a bucket through, as `RateLimit` does (`Unruled`).

## Plan

1. A run of `PublicHire` with two quotes, for the documents they share, and of
   `Operator` with two runs that share the book.
2. The routes of the hire that read only, and `hireability` as the sets of checks
   that prepare can refuse for.
3. The life of a paid report from the x402 and MPP routes down to `ReplayStore`.
4. An abstract budget that is only ever spent down, and `GridKeeper` shown to
   implement it.

Worth proving next: that `GridKeeper` implements such a budget, what each quote keeps
when there are several of them, and what a view may take from a record at most.
