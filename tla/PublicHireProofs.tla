-------------------------- MODULE PublicHireProofs --------------------------
(***************************************************************************)
(* Proofs about PublicHire, for any workers, keys, quotes, jobs and requests.*)
(*                                                                          *)
(* The argument for records: a stored record is verified, and so is every    *)
(* copy of a record or of the whole document that a handler may still write  *)
(* back.  Whatever is lost or overwritten, what is stored is verified.       *)
(* The argument for locks: a handler that is past its lock heads the queue.  *)
(* The argument for views: a job only moves on, so what a record shows of it *)
(* stays true of it, in the documents and in every copy.                     *)
(* The argument for one quote: its locks leave one handler at a time that     *)
(* binds it and one that writes its hire, as long as no view writes too and    *)
(* every client spells the quote id as the others do.                         *)
(***************************************************************************)
EXTENDS PublicHire, TLAPS

(* The handler holds a copy of a hire record.                                *)
Holding ==
    {"owner", "step", "consume", "consuming", "notify", "status", "fetch"}
        \cup PutLabels \cup PutSaves

(* The handler holds a copy of the quote document that it will write.         *)
HoldingQuotes == {"issuing"} \cup CasSaves

(* The handler is one of prepare and submit.                                 *)
InLocked == {"lock", "quote", "byKey", "byQuote", "chain", "bind", "binding"}

(* The handler is in its loop over the steps.  A record it funded has no step *)
(* of another kind left to reconcile, because fund comes last in the order.   *)
Looping ==
    {"step", "consume", "consuming", "notify", "notePut", "noteSave", "stepPut", "stepSave"}

LoopOK(t) ==
    /\ t.pc = "owner" => t.rec.state # "FUNDED"
    /\ (t.pc \in Looping /\ t.rec.state = "FUNDED") => \A u \in t.todo : u.kind = "fund"

DocOK(doc) ==
    /\ doc \in HireDoc
    /\ \A h \in HireIds : doc[h] # None => Verified(doc[h])

TaskOK(t) ==
    /\ t \in Task
    /\ t.pc # "idle" => t.req \in Requests
    /\ t.pc \in InLocked => t.req.op \in Locking
    /\ t.pc = "read" => t.req.op \in {"job", "result"}
    /\ t.pc \in HoldingQuotes => t.qsnap \in QuoteDoc
    /\ t.pc \in PutSaves => DocOK(t.hsnap)
    /\ t.pc \in Holding => t.rec \in HireRecord /\ t.id \in HireIds /\ Verified(t.rec)
    /\ t.pc \in {"status", "fetch"} => t.rec.job # None
    /\ LoopOK(t)

(* w stands in queue q; once past the lock, at its head.                     *)
StandsIn(w, q) ==
    \E i \in 1 .. Len(q) :
        /\ q[i] = w
        /\ task[w].pc # "lock" => i = 1

Queued ==
    \A w \in Workers :
        (task[w].pc # "idle" /\ task[w].req.op \in Locking)
            => StandsIn(w, locks[LockKey(task[w].req)])

StateOK ==
    /\ ChainTypeOK
    /\ quotes \in QuoteDoc
    /\ DocOK(hires)
    /\ locks \in [LockKeys -> Seq(Workers)]
    /\ task \in [Workers -> Task]
    /\ issued \subseteq Quotes
    /\ minted \in [HireIds -> Quotes \cup {None}]
    /\ lapsed \subseteq Quotes

IInv ==
    /\ StateOK
    /\ \A w \in Workers : TaskOK(task[w])
    /\ Queued

(* The request handled at the moment is one the program was sent.            *)
LEMMA RequestType ==
    ASSUME IInv, NEW w \in Workers, task[w].pc # "idle"
    PROVE  /\ task[w].req \in Requests
           /\ task[w].req \in Request
           /\ task[w].req.op \in Locking => LockKey(task[w].req) \in LockKeys
<1>1. task[w].req \in Requests
    BY DEF IInv, TaskOK
<1>2. task[w].req \in Request
    BY <1>1, ServerAssumption
<1>3. task[w].req.op \in Locking => LockKey(task[w].req) \in LockKeys
    BY <1>2 DEF Request, Locking, LockKey, LockKeys
<1> QED
    BY <1>1, <1>2, <1>3

(* What was verified stays verified: the chain only adds receipts.           *)
LEMMA VerifiedStays ==
    ASSUME NEW rec, Verified(rec), mined \subseteq mined'
    PROVE  Verified(rec)'
BY DEF Verified

LEMMA TaskStays ==
    ASSUME NEW t, TaskOK(t), mined \subseteq mined'
    PROVE  TaskOK(t)'
<1>1. t.pc \in PutSaves => DocOK(t.hsnap)'
    BY VerifiedStays DEF TaskOK, DocOK
<1>2. t.pc \in Holding => Verified(t.rec)'
    BY VerifiedStays DEF TaskOK
<1> QED
    BY <1>1, <1>2 DEF TaskOK

LEMMA DocStays ==
    ASSUME NEW doc, DocOK(doc), mined \subseteq mined'
    PROVE  DocOK(doc)'
BY VerifiedStays DEF DocOK

(* Handler w, past its lock, goes on with the same request.                   *)
Becomes(w, n) ==
    /\ task' = [task EXCEPT ![w] = n]
    /\ task[w].pc \notin {"idle", "lock"}
    /\ n.req = task[w].req
    /\ TaskOK(n)

(* A step of one handler that neither replies nor touches the locks.         *)
LEMMA LocalStep ==
    ASSUME IInv, UNCHANGED <<chainVars, locks, issued, lapsed>>,
           quotes' \in QuoteDoc, DocOK(hires'),
           minted' \in [HireIds -> Quotes \cup {None}],
           NEW w \in Workers, NEW n, Becomes(w, n)
    PROVE  IInv'
<1> USE DEF Becomes
<1>1. task' \in [Workers -> Task]
    BY DEF IInv, StateOK, TaskOK
<1>2. /\ \A v \in Workers : v # w => task'[v] = task[v]
      /\ task'[w] = n
    BY DEF IInv, StateOK
<1>3. mined' = mined
    BY DEF chainVars
<1>4. StateOK'
    <2>1. DocOK(hires)'
        BY <1>3 DEF DocOK, Verified
    <2> QED
        BY <1>1, <2>1 DEF IInv, StateOK, ChainTypeOK, chainVars
<1>5. ASSUME NEW v \in Workers
      PROVE  TaskOK(task[v])'
    <2>1. TaskOK(task'[v])
        BY <1>2 DEF IInv
    <2> QED
        BY <2>1, <1>3, SMTT(60) DEF TaskOK, DocOK, Verified
<1>6. Queued'
    <2> SUFFICES ASSUME NEW v \in Workers,
                        task'[v].pc # "idle", task'[v].req.op \in Locking
                 PROVE  StandsIn(v, locks[LockKey(task[v].req)])'
        BY DEF Queued
    <2>1. task[v].pc # "idle" /\ task'[v].req = task[v].req
        BY <1>2
    <2>2. StandsIn(v, locks[LockKey(task[v].req)])
        BY <2>1 DEF IInv, Queued
    <2>3. task'[v].pc # "lock" => task[v].pc # "lock"
        BY <1>2
    <2> QED
        BY <2>1, <2>2, <2>3 DEF StandsIn, LockKey
<1> QED
    BY <1>4, <1>5, <1>6 DEF IInv

(* A handler past its lock replies: its key goes to the next in the queue.    *)
LEMMA ReplyStep ==
    ASSUME IInv, UNCHANGED <<chainVars, clocks>>,
           quotes' \in QuoteDoc, DocOK(hires'),
           NEW w \in Workers, Reply(w), task[w].pc \notin {"idle", "lock"}
    PROVE  IInv'
<1> DEFINE r == task[w].req
           k == LockKey(task[w].req)
<1>1. TaskOK(IdleTask) /\ IdleTask.pc = "idle"
    BY DEF TaskOK, IdleTask, Task, Labels, Holding, HoldingQuotes, InLocked, LoopOK, Looping, CasSaves, PutSaves,
           PutLabels
<1>2. /\ task' \in [Workers -> Task]
      /\ task'[w] = IdleTask
      /\ \A v \in Workers : v # w => task'[v] = task[v]
    BY <1>1 DEF IInv, StateOK, TaskOK, Reply
<1>3. mined' = mined /\ jobStatus' = jobStatus
    BY DEF chainVars
<1>4. r.op \in Locking =>
        /\ k \in LockKeys
        /\ locks[k] \in Seq(Workers)
        /\ locks[k] # <<>>
        /\ locks[k][1] = w
        /\ locks' = [locks EXCEPT ![k] = Tail(locks[k])]
    <2> SUFFICES ASSUME r.op \in Locking
                 PROVE  /\ k \in LockKeys
                        /\ locks[k] \in Seq(Workers)
                        /\ locks[k] # <<>>
                        /\ locks[k][1] = w
                        /\ locks' = [locks EXCEPT ![k] = Tail(locks[k])]
        OBVIOUS
    <2>1. k \in LockKeys
        BY RequestType
    <2>2. locks[k] \in Seq(Workers)
        BY <2>1 DEF IInv, StateOK
    <2>3. \E i \in 1 .. Len(locks[k]) : locks[k][i] = w /\ i = 1
        BY DEF IInv, Queued, StandsIn
    <2> QED
        BY <2>1, <2>2, <2>3 DEF Reply, Released
<1>5. r.op \notin Locking => locks' = locks
    BY DEF Reply, Released
<1>6. locks' \in [LockKeys -> Seq(Workers)]
    <2>1. locks \in [LockKeys -> Seq(Workers)]
        BY DEF IInv, StateOK
    <2>2. CASE r.op \in Locking
        <3>1. Tail(locks[k]) \in Seq(Workers)
            BY <1>4, <2>2
        <3> HIDE DEF k
        <3> QED
            BY <1>4, <2>1, <2>2, <3>1
    <2> QED
        BY <1>5, <2>1, <2>2
<1>7. StateOK'
    <2>1. DocOK(hires)'
        BY <1>3 DEF DocOK, Verified
    <2> QED
        BY <1>2, <1>3, <1>6, <2>1 DEF IInv, StateOK, ChainTypeOK, clocks
<1>8. ASSUME NEW v \in Workers
      PROVE  TaskOK(task[v])'
    <2>1. TaskOK(task'[v])
        BY <1>1, <1>2 DEF IInv
    <2> QED
        BY <2>1, <1>3 DEF TaskOK, DocOK, Verified
<1>9. Queued'
    <2> SUFFICES ASSUME NEW v \in Workers,
                        task'[v].pc # "idle", task'[v].req.op \in Locking
                 PROVE  StandsIn(v, locks[LockKey(task[v].req)])'
        BY DEF Queued
    <2> DEFINE l == LockKey(task[v].req)
    <2>1. v # w /\ task'[v] = task[v]
        BY <1>1, <1>2
    <2>2. StandsIn(v, locks[l]) /\ l \in LockKeys
        BY <2>1, RequestType DEF IInv, Queued
    <2>3. CASE r.op \in Locking /\ l = k
        <3>1. PICK i \in 1 .. Len(locks[k]) :
                locks[k][i] = v /\ (task[v].pc # "lock" => i = 1)
            BY <2>2, <2>3 DEF StandsIn
        <3>2. i # 1 /\ task[v].pc = "lock"
            BY <3>1, <2>1, <1>4, <2>3
        <3>3. /\ i - 1 \in 1 .. Len(Tail(locks[k]))
              /\ Tail(locks[k])[i - 1] = v
            BY <3>1, <3>2, <1>4, <2>3
        <3>4. locks'[l] = Tail(locks[k])
            BY <1>4, <2>2, <2>3 DEF IInv, StateOK
        <3>5. LockKey(task'[v].req) = l
            BY <2>1 DEF LockKey
        <3> QED
            BY <3>2, <3>3, <3>4, <3>5, <2>1 DEF StandsIn, LockKey
    <2>4. CASE ~ (r.op \in Locking /\ l = k)
        <3>1. locks'[l] = locks[l]
            BY <1>4, <1>5, <2>2, <2>4 DEF IInv, StateOK
        <3> QED
            BY <3>1, <2>1, <2>2 DEF StandsIn, LockKey
    <2> QED
        BY <2>3, <2>4
<1> QED
    BY <1>7, <1>8, <1>9 DEF IInv

(* -------------------- the steps outside the handlers -------------------- *)

LEMMA MineKeeps ==
    ASSUME ChainTypeOK, NEW k, NEW j, Mine(k, j)
    PROVE  mined' \subseteq Tx /\ mined \subseteq mined'
BY ChainAssumption DEF ChainTypeOK, Mine

LEMMA MoveKeeps ==
    ASSUME ChainTypeOK, NEW j \in Jobs, NEW from, NEW to \in JobStatuses, Move(j, from, to)
    PROVE  jobStatus' \in [Jobs -> JobStatuses]
BY DEF ChainTypeOK, Move

(* The chain only adds receipts.                                             *)
LEMMA ChainStepKeeps ==
    ASSUME ChainTypeOK, NEW j \in Jobs, WalletStep(j) \/ ChainStep(j)
    PROVE  ChainTypeOK' /\ mined \subseteq mined'
<1>1. CASE Approve(j) \/ RegisterJob(j) \/ SetBudget(j)
    BY <1>1, MineKeeps DEF Approve, RegisterJob, SetBudget, ChainTypeOK
<1>2. CASE CreateJob(j)
    BY <1>2, MineKeeps, MoveKeeps DEF CreateJob, ChainTypeOK, JobStatuses
<1>3. CASE Fund(j)
    BY <1>3, MineKeeps, MoveKeeps DEF Fund, ChainTypeOK, JobStatuses
<1>4. CASE CancelJob(j)
    BY <1>4, MoveKeeps DEF CancelJob, MoveOn, ChainTypeOK, JobStatuses
<1>5. CASE SubmitWork(j)
    BY <1>5, MoveKeeps DEF SubmitWork, MoveOn, ChainTypeOK, JobStatuses
<1>6. CASE Settle(j)
    BY <1>6, MoveKeeps DEF Settle, MoveOn, ChainTypeOK, JobStatuses
<1>7. CASE ExpireJob(j)
    BY <1>7, MoveKeeps DEF ExpireJob, MoveOn, ChainTypeOK, JobStatuses
<1> QED
    BY <1>1, <1>2, <1>3, <1>4, <1>5, <1>6, <1>7 DEF WalletStep, ChainStep

(* A wallet, the provider or the clock moves the chain.                      *)
LEMMA ChainKeeps ==
    ASSUME IInv, UNCHANGED serverVars, NEW j \in Jobs, WalletStep(j) \/ ChainStep(j)
    PROVE  IInv'
<1>1. ChainTypeOK' /\ mined \subseteq mined'
    BY ChainStepKeeps DEF IInv, StateOK
<1>2. DocOK(hires)'
    BY <1>1, DocStays DEF IInv, StateOK, serverVars, DocOK
<1>3. StateOK'
    BY <1>1, <1>2 DEF IInv, StateOK, serverVars
<1>4. ASSUME NEW w \in Workers
      PROVE  TaskOK(task[w])'
    <2>1. task'[w] = task[w] /\ TaskOK(task[w])
        BY DEF IInv, serverVars
    <2> QED
        BY <2>1, <1>1, TaskStays DEF TaskOK, DocOK, Verified
<1>5. Queued'
    BY DEF IInv, Queued, StandsIn, LockKey, serverVars
<1> QED
    BY <1>3, <1>4, <1>5 DEF IInv

LEMMA LapseKeeps ==
    ASSUME IInv, UNCHANGED chainVars, NEW q \in Quotes, Lapse(q)
    PROVE  IInv'
<1>1. StateOK'
    BY DEF IInv, StateOK, ChainTypeOK, chainVars, Lapse, documents, DocOK, Verified
<1>2. \A w \in Workers : TaskOK(task[w])'
    BY DEF IInv, TaskOK, DocOK, Verified, chainVars, Lapse
<1>3. Queued'
    BY DEF IInv, Queued, StandsIn, LockKey, Lapse
<1> QED
    BY <1>1, <1>2, <1>3 DEF IInv

LEMMA CrashKeeps ==
    ASSUME IInv, UNCHANGED chainVars, Crash
    PROVE  IInv'
<1>1. TaskOK(IdleTask) /\ IdleTask.pc = "idle"
    BY DEF TaskOK, IdleTask, Task, Labels, Holding, HoldingQuotes, InLocked, LoopOK, Looping, CasSaves, PutSaves,
           PutLabels
<1>2. \A w \in Workers : task'[w] = IdleTask
    BY DEF Crash
<1>3. task' \in [Workers -> Task] /\ locks' \in [LockKeys -> Seq(Workers)]
    BY <1>1 DEF Crash, TaskOK
<1>4. StateOK'
    BY <1>3 DEF IInv, StateOK, ChainTypeOK, chainVars, Crash, documents, clocks, DocOK, Verified
<1>5. \A w \in Workers : TaskOK(task[w])'
    BY <1>1, <1>2 DEF TaskOK, DocOK, Verified, chainVars
<1>6. Queued'
    BY <1>1, <1>2 DEF Queued
<1> QED
    BY <1>4, <1>5, <1>6 DEF IInv

(* A request joins the end of its queue, or needs no lock.                   *)
LEMMA ReceiveKeeps ==
    ASSUME IInv, UNCHANGED chainVars, NEW w \in Workers, NEW r \in Requests, Receive(w, r)
    PROVE  IInv'
<1> DEFINE n == [IdleTask EXCEPT !.pc = Entry[r.op], !.req = r]
<1>1. r \in Request /\ LockKey(r) \in [1..3 -> Ops \cup Quotes \cup Spellings]
    BY ServerAssumption DEF LockKey, Request
<1>2. n.req = r /\ n.pc \in {"issue", "lock", "read"} /\ TaskOK(n)
    <2>1. /\ Entry[r.op] \in {"issue", "lock", "read"}
          /\ Entry[r.op] = "lock" => r.op \in Locking
          /\ Entry[r.op] = "read" => r.op \in {"job", "result"}
        <3>1. r.op \in Ops
            BY <1>1 DEF Request
        <3> QED
            BY <3>1 DEF Entry, Ops, Locking
    <2>2. n.pc = Entry[r.op] /\ n.req = r
        BY DEF IdleTask
    <2>3. n \in Task
        BY <2>1 DEF IdleTask, Task, Labels
    <2> HIDE DEF n
    <2> QED
        BY <2>1, <2>2, <2>3 DEF TaskOK, Holding, HoldingQuotes, InLocked, LoopOK, Looping, CasSaves, PutSaves, PutLabels
<1>3. r.op \in Locking <=> n.pc = "lock"
    BY <1>1 DEF Entry, Request, Ops, Locking, IdleTask
<1> HIDE DEF n
<1>4. /\ task' \in [Workers -> Task]
      /\ task'[w] = n
      /\ \A v \in Workers : v # w => task'[v] = task[v]
    BY <1>2 DEF IInv, StateOK, TaskOK, Receive, n
<1>5. /\ r.op \in Locking => LockKey(r) \in LockKeys
      /\ locks' = IF r.op \in Locking
                  THEN [locks EXCEPT ![LockKey(r)] = Append(locks[LockKey(r)], w)]
                  ELSE locks
    BY <1>1 DEF Receive, Locking, LockKey, LockKeys, Request
<1>6. locks' \in [LockKeys -> Seq(Workers)]
    <2>1. locks \in [LockKeys -> Seq(Workers)]
        BY DEF IInv, StateOK
    <2>2. r.op \in Locking => Append(locks[LockKey(r)], w) \in Seq(Workers)
        BY <1>5, <2>1
    <2> QED
        BY <1>5, <2>1, <2>2
<1>7. StateOK'
    <2>1. DocOK(hires)'
        BY DEF IInv, StateOK, Receive, documents, chainVars, DocOK, Verified
    <2>2. issued' \subseteq Quotes
        BY <1>1 DEF IInv, StateOK, Receive, Request
    <2> QED
        BY <1>4, <1>6, <2>1, <2>2
        DEF IInv, StateOK, ChainTypeOK, chainVars, Receive, documents
<1>8. ASSUME NEW v \in Workers
      PROVE  TaskOK(task[v])'
    <2>1. TaskOK(task'[v])
        BY <1>2, <1>4 DEF IInv
    <2> QED
        BY <2>1 DEF TaskOK, DocOK, Verified, chainVars
<1>9. Queued'
    <2> SUFFICES ASSUME NEW v \in Workers,
                        task'[v].pc # "idle", task'[v].req.op \in Locking
                 PROVE  StandsIn(v, locks[LockKey(task[v].req)])'
        BY DEF Queued
    <2> DEFINE l == LockKey(task'[v].req)
    <2>1. CASE v = w
        <3>1. l = LockKey(r) /\ r.op \in Locking /\ task'[v].pc = "lock"
            BY <1>2, <1>3, <1>4, <2>1 DEF LockKey
        <3>2. locks'[l] = Append(locks[l], w) /\ locks[l] \in Seq(Workers)
            BY <3>1, <1>5 DEF IInv, StateOK
        <3>3. Len(locks'[l]) \in 1 .. Len(locks'[l]) /\ locks'[l][Len(locks'[l])] = w
            BY <3>2
        <3> QED
            BY <3>1, <3>3, <2>1 DEF StandsIn, LockKey
    <2>2. CASE v # w
        <3>1. task'[v] = task[v]
            BY <2>2, <1>4
        <3>2. StandsIn(v, locks[l]) /\ l \in LockKeys
            BY <3>1, RequestType DEF IInv, Queued, LockKey
        <3>3. PICK i \in 1 .. Len(locks[l]) :
                locks[l][i] = v /\ (task[v].pc # "lock" => i = 1)
            BY <3>2 DEF StandsIn
        <3>4. locks[l] \in Seq(Workers)
            BY <3>2 DEF IInv, StateOK
        <3>5. locks'[l] = locks[l] \/ locks'[l] = Append(locks[l], w)
            BY <3>2, <1>5 DEF IInv, StateOK
        <3>6. i \in 1 .. Len(locks'[l]) /\ locks'[l][i] = v
            BY <3>3, <3>4, <3>5
        <3> QED
            BY <3>1, <3>3, <3>6 DEF StandsIn, LockKey
    <2> QED
        BY <2>1, <2>2
<1> QED
    BY <1>7, <1>8, <1>9 DEF IInv

(* ----------------------------- the handlers ----------------------------- *)

(* A step that leaves the documents alone and goes on.                       *)
LEMMA QuietStep ==
    ASSUME IInv, UNCHANGED <<chainVars, documents, locks, clocks>>,
           NEW w \in Workers, NEW n, Becomes(w, n)
    PROVE  IInv'
<1>1. quotes' \in QuoteDoc /\ DocOK(hires') /\ minted' \in [HireIds -> Quotes \cup {None}]
    BY DEF IInv, StateOK, documents, clocks
<1>2. UNCHANGED <<chainVars, locks, issued, lapsed>>
    BY DEF clocks
<1> QED
    BY <1>1, <1>2, LocalStep

LEMMA QuietReply ==
    ASSUME IInv, UNCHANGED <<chainVars, documents, clocks>>,
           NEW w \in Workers, Reply(w), task[w].pc \notin {"idle", "lock"}
    PROVE  IInv'
<1>1. quotes' \in QuoteDoc /\ DocOK(hires')
    BY DEF IInv, StateOK, documents
<1> QED
    BY <1>1, ReplyStep

(* What Verified does not read may change.                                   *)
LEMMA VerifiedSame ==
    ASSUME NEW a, NEW b, Verified(a),
           b.txs = a.txs, b.quote = a.quote, b.job = a.job, b.state = a.state
    PROVE  Verified(b)
BY DEF Verified

LEMMA EnterLockKeeps ==
    ASSUME IInv, UNCHANGED chainVars, NEW w \in Workers, EnterLock(w)
    PROVE  IInv'
<1> DEFINE n == [task[w] EXCEPT !.pc = "quote"]
           k == LockKey(task[w].req)
<1>1. TaskOK(n) /\ n.req = task[w].req /\ n.pc = "quote"
    BY DEF IInv, EnterLock, At, TaskOK, Task, Labels, Holding, HoldingQuotes, InLocked, LoopOK, Looping, CasSaves,
           PutSaves, PutLabels
<1>2. task[w].pc = "lock" /\ task' = [task EXCEPT ![w] = n]
    BY DEF EnterLock, At, Goto
<1> HIDE DEF n
<1>3. /\ task' \in [Workers -> Task]
      /\ task'[w] = n
      /\ \A v \in Workers : v # w => task'[v] = task[v]
    BY <1>1, <1>2 DEF IInv, StateOK, TaskOK
<1>4. StateOK'
    BY <1>3 DEF IInv, StateOK, ChainTypeOK, chainVars, EnterLock, documents, clocks, DocOK,
                Verified
<1>5. ASSUME NEW v \in Workers
      PROVE  TaskOK(task[v])'
    <2>1. TaskOK(task'[v])
        BY <1>1, <1>3 DEF IInv
    <2> QED
        BY <2>1 DEF TaskOK, DocOK, Verified, chainVars
<1>6. Queued'
    <2> SUFFICES ASSUME NEW v \in Workers,
                        task'[v].pc # "idle", task'[v].req.op \in Locking
                 PROVE  StandsIn(v, locks[LockKey(task[v].req)])'
        BY DEF Queued
    <2>1. task'[v].req = task[v].req /\ task[v].pc # "idle"
        BY <1>1, <1>2, <1>3
    <2>2. StandsIn(v, locks[LockKey(task[v].req)])
        BY <2>1 DEF IInv, Queued
    <2>3. CASE v # w
        BY <2>2, <2>3, <1>3 DEF StandsIn, LockKey, EnterLock
    <2>4. CASE v = w
        <3>1. PICK i \in 1 .. Len(locks[k]) : locks[k][i] = w
            BY <2>2, <2>4 DEF StandsIn
        <3>2. k \in LockKeys /\ locks[k] \in Seq(Workers)
            BY <1>2, <2>1, <2>4, RequestType DEF IInv, StateOK
        <3>3. locks[k][1] = w /\ 1 \in 1 .. Len(locks[k])
            BY <3>1, <3>2 DEF EnterLock
        <3> QED
            BY <3>3, <2>1, <2>4 DEF StandsIn, LockKey, EnterLock
    <2> QED
        BY <2>3, <2>4
<1> QED
    BY <1>4, <1>5, <1>6 DEF IInv

(* POST /api/hire/quote: putQuote.                                            *)
LEMMA IssueKeeps ==
    ASSUME IInv, UNCHANGED chainVars, NEW w \in Workers, IssueLoad(w) \/ IssueSave(w)
    PROVE  IInv'
<1>1. CASE IssueLoad(w)
    <2>1. Becomes(w, [task[w] EXCEPT !.pc = "issuing", !.qsnap = quotes])
        BY <1>1, ZenonT(60) DEF IInv, StateOK, IssueLoad, At, Becomes, TaskOK, Task, Labels, Holding,
                    HoldingQuotes, InLocked, LoopOK, Looping, CasSaves, PutSaves, PutLabels
    <2> QED
        BY <1>1, <2>1, QuietStep DEF IssueLoad
<1>2. CASE IssueSave(w)
    <2>1. task[w].qsnap \in QuoteDoc
        BY <1>2 DEF IInv, TaskOK, IssueSave, At, HoldingQuotes
    <2>2. quotes' \in QuoteDoc /\ DocOK(hires')
        BY <1>2, <2>1 DEF IInv, StateOK, IssueSave, QuoteDoc, QuoteStatus
    <2> QED
        BY <1>2, <2>2, ReplyStep DEF IssueSave, At
<1> QED
    BY <1>1, <1>2

(* Reading the quote and looking for a hire.                                  *)
LEMMA ReadQuoteKeeps ==
    ASSUME IInv, UNCHANGED chainVars, NEW w \in Workers, ReadQuote(w)
    PROVE  IInv'
<1>1. CASE Reply(w)
    BY <1>1, QuietReply DEF ReadQuote, At
<1>2. ASSUME NEW l \in {"expire", "byKey"}, Goto(w, l), UNCHANGED locks
      PROVE  IInv'
    <2>1. Becomes(w, [task[w] EXCEPT !.pc = l])
        BY <1>2 DEF IInv, ReadQuote, At, Goto, Becomes, TaskOK, Task, Labels, Holding,
                    HoldingQuotes, InLocked, LoopOK, Looping, CasLabels, CasSaves, PutSaves, PutLabels
    <2> QED
        BY <1>2, <2>1, QuietStep DEF ReadQuote
<1> QED
    BY <1>1, <1>2 DEF ReadQuote

LEMMA FindHireKeeps ==
    ASSUME IInv, UNCHANGED chainVars, NEW w \in Workers, FindHire(w)
    PROVE  IInv'
<1>1. CASE Reply(w)
    BY <1>1, QuietReply DEF FindHire
<1>2. ASSUME NEW l \in {"byQuote", "chain"}, Goto(w, l), UNCHANGED locks
      PROVE  IInv'
    <2>1. Becomes(w, [task[w] EXCEPT !.pc = l])
        BY <1>2, ZenonT(60) DEF IInv, FindHire, At, Goto, Becomes, TaskOK, Task, Labels, Holding,
                    HoldingQuotes, InLocked, LoopOK, Looping, CasLabels, CasSaves, PutSaves, PutLabels
    <2> QED
        BY <1>2, <2>1, QuietStep DEF FindHire
<1>3. ASSUME NEW h \in Matches(w), Usable(w, h), UNCHANGED locks,
             task' = [task EXCEPT ![w].pc = "owner", ![w].id = h, ![w].rec = hires[h],
                                  ![w].todo = task[w].req.txs]
      PROVE  IInv'
    <2>1. h \in HireIds /\ hires[h] # None
        BY <1>3 DEF Matches, Stored
    <2>2. hires[h] \in HireRecord /\ Verified(hires[h])
        BY <2>1 DEF IInv, StateOK, DocOK, HireDoc
    <2>3. task[w].req \in Requests /\ task[w].req.txs \in SUBSET Tx
        BY RequestType DEF FindHire, Request
    <2> DEFINE n == [task[w] EXCEPT !.pc = "owner", !.id = h, !.rec = hires[h],
                                    !.todo = task[w].req.txs]
    <2>4. n \in Task
        BY <2>1, <2>2, <2>3 DEF IInv, TaskOK, Task, Labels
    <2>5. n.pc = "owner" /\ n.id = h /\ n.rec = hires[h] /\ n.req = task[w].req
        BY <2>4 DEF IInv, TaskOK, Task
    <2>6. task' = [task EXCEPT ![w] = n]
        BY <1>3
    <2> HIDE DEF n
    <2>7. TaskOK(n)
        BY <1>3, <2>1, <2>2, <2>3, <2>4, <2>5
        DEF TaskOK, HoldingQuotes, InLocked, LoopOK, Looping, CasSaves, PutSaves, Usable
    <2>8. task[w].pc \notin {"idle", "lock"}
        BY DEF FindHire
    <2>9. Becomes(w, n)
        BY <2>5, <2>6, <2>7, <2>8 DEF Becomes
    <2> QED
        BY <1>3, <2>9, QuietStep DEF FindHire
<1> QED
    BY <1>1, <1>2, <1>3 DEF FindHire

LEMMA CheckBuyerKeeps ==
    ASSUME IInv, UNCHANGED chainVars, NEW w \in Workers, CheckBuyer(w)
    PROVE  IInv'
<1>1. CASE Reply(w)
    BY <1>1, QuietReply DEF CheckBuyer, At
<1>2. CASE Goto(w, "bind") /\ UNCHANGED locks
    <2>1. Becomes(w, [task[w] EXCEPT !.pc = "bind"])
        BY <1>2 DEF IInv, CheckBuyer, At, Goto, Becomes, TaskOK, Task, Labels, Holding,
                    HoldingQuotes, InLocked, LoopOK, Looping, CasLabels, CasSaves, PutSaves, PutLabels
    <2> QED
        BY <1>2, <2>1, QuietStep DEF CheckBuyer
<1> QED
    BY <1>1, <1>2 DEF CheckBuyer

(* transitionQuote.                                                           *)
LEMMA TransitionKeeps ==
    ASSUME IInv, UNCHANGED chainVars, NEW w \in Workers, TransitionLoad(w)
    PROVE  IInv'
<1>1. CASE Reply(w)
    BY <1>1, QuietReply DEF TransitionLoad, CasLabels
<1>2. CASE Goto(w, "notify") /\ UNCHANGED locks /\ At(w, "consume")
    <2>1. Becomes(w, [task[w] EXCEPT !.pc = "notify"])
        BY <1>2 DEF IInv, At, Goto, Becomes, TaskOK, Task, Labels, Holding,
                    HoldingQuotes, InLocked, LoopOK, Looping, CasLabels, CasSaves, PutSaves, PutLabels
    <2> QED
        BY <1>2, <2>1, QuietStep DEF TransitionLoad
<1>3. CASE /\ task' = [task EXCEPT ![w].pc = CasSave[task[w].pc], ![w].qsnap = quotes]
           /\ UNCHANGED locks
    <2> DEFINE n == [task[w] EXCEPT !.pc = CasSave[task[w].pc], !.qsnap = quotes]
    <2>1. /\ task[w].pc \in CasLabels /\ CasSave[task[w].pc] \in CasSaves
          /\ CasSave[task[w].pc] = "consuming" => task[w].pc = "consume"
          /\ CasSave[task[w].pc] = "binding" => task[w].pc = "bind"
        BY DEF TransitionLoad, CasLabels, CasSaves, CasSave
    <2>2. n \in Task
        BY <2>1 DEF IInv, StateOK, TaskOK, Task, Labels
    <2>3. /\ n.pc = CasSave[task[w].pc] /\ n.qsnap = quotes /\ n.req = task[w].req
          /\ n.rec = task[w].rec /\ n.id = task[w].id /\ n.todo = task[w].todo
        BY DEF IInv, TaskOK, Task
    <2> HIDE DEF n
    <2>4. TaskOK(n)
        BY <2>1, <2>2, <2>3
        DEF IInv, StateOK, TaskOK, Holding, InLocked, LoopOK, Looping, CasLabels, CasSaves,
            PutLabels, PutSaves
    <2>5. Becomes(w, n)
        BY <1>3, <2>1, <2>3, <2>4 DEF Becomes, CasLabels, n
    <2> QED
        BY <1>3, <2>5, QuietStep DEF TransitionLoad
<1> QED
    BY <1>1, <1>2, <1>3 DEF TransitionLoad

(* What transitionQuote writes back is a quote document.                      *)
LEMMA TransitionDoc ==
    ASSUME IInv, NEW w \in Workers, task[w].pc \in CasSaves, SaveTransition(w)
    PROVE  quotes' \in QuoteDoc
<1>1. task[w].qsnap \in QuoteDoc
    BY DEF IInv, TaskOK, HoldingQuotes
<1>2. CasTo[task[w].pc] \in QuoteStatus
    BY DEF CasSaves, CasTo, QuoteStatus
<1> QED
    BY <1>1, <1>2 DEF SaveTransition, QuoteDoc

LEMMA ExpireConsumeKeeps ==
    ASSUME IInv, UNCHANGED chainVars, NEW w \in Workers, ExpireSave(w) \/ ConsumeSave(w)
    PROVE  IInv'
<1>1. quotes' \in QuoteDoc
    BY TransitionDoc DEF ExpireSave, ConsumeSave, At, CasSaves
<1>2. DocOK(hires')
    BY DEF IInv, StateOK, ExpireSave, ConsumeSave
<1>3. CASE ExpireSave(w)
    BY <1>1, <1>2, <1>3, ReplyStep DEF ExpireSave, At
<1>4. CASE ConsumeSave(w)
    <2>1. Becomes(w, [task[w] EXCEPT !.pc = "notify"])
        BY <1>4 DEF IInv, ConsumeSave, At, Goto, Becomes, TaskOK, Task, Labels, Holding,
                    HoldingQuotes, InLocked, LoopOK, Looping, CasLabels, CasSaves, PutSaves, PutLabels
    <2>2. minted' \in [HireIds -> Quotes \cup {None}]
        BY <1>4 DEF IInv, StateOK, ConsumeSave, clocks
    <2> QED
        BY <1>1, <1>2, <1>4, <2>1, <2>2, LocalStep DEF ConsumeSave, clocks
<1> QED
    BY <1>3, <1>4

(* A new record is verified: it names no job and no receipt.                  *)
LEMMA NewHireOK ==
    ASSUME NEW q \in Quotes, NEW k \in Keys
    PROVE  NewHire(q, k) \in HireRecord /\ Verified(NewHire(q, k))
<1>1. NewHire(q, k) \in HireRecord
    BY DEF NewHire, HireRecord, HireStates, NotifyStates
<1>2. /\ NewHire(q, k).txs = {} /\ NewHire(q, k).job = None
      /\ NewHire(q, k).state # "FUNDED"
    BY DEF NewHire
<1> QED
    BY <1>1, <1>2 DEF Verified

LEMMA BindKeeps ==
    ASSUME IInv, UNCHANGED chainVars, NEW w \in Workers, BindSave(w)
    PROVE  IInv'
<1> DEFINE r == task[w].req
<1>1. task[w].pc = "binding" /\ quotes' \in QuoteDoc
    BY TransitionDoc DEF BindSave, At, CasSaves
<1>2. DocOK(hires')
    BY DEF IInv, StateOK, BindSave
<1>3. PICK h \in HireIds :
        /\ minted' = [minted EXCEPT ![h] = r.quote]
        /\ task' = [task EXCEPT ![w].pc = "newPut", ![w].id = h,
                                ![w].rec = NewHire(r.quote, r.key)]
    BY DEF BindSave
<1>4. r \in Requests /\ r.quote \in Quotes /\ r.key \in Keys
    <2>1. r \in Requests /\ r \in Request /\ r.op \in Locking
        BY <1>1, RequestType DEF IInv, TaskOK, InLocked
    <2> QED
        BY <2>1, ServerAssumption DEF Request, Locking
<1>5. minted' \in [HireIds -> Quotes \cup {None}]
    BY <1>3, <1>4 DEF IInv, StateOK
<1> DEFINE n == [task[w] EXCEPT !.pc = "newPut", !.id = h, !.rec = NewHire(r.quote, r.key)]
<1>6. n \in Task
    BY <1>4, NewHireOK DEF IInv, TaskOK, Task, Labels, PutLabels
<1>7. n.pc = "newPut" /\ n.id = h /\ n.rec = NewHire(r.quote, r.key) /\ n.req = r
    BY DEF IInv, TaskOK, Task
<1>8. task' = [task EXCEPT ![w] = n]
    BY <1>3
<1> HIDE DEF n
<1>9. TaskOK(n)
    BY <1>4, <1>6, <1>7, NewHireOK DEF TaskOK, HoldingQuotes, InLocked, LoopOK, Looping, CasSaves, PutSaves
<1>10. Becomes(w, n)
    BY <1>1, <1>7, <1>8, <1>9 DEF Becomes
<1> QED
    BY <1>1, <1>2, <1>5, <1>10, LocalStep DEF BindSave

(* putHire.                                                                   *)
LEMMA PutLoadKeeps ==
    ASSUME IInv, UNCHANGED chainVars, NEW w \in Workers, PutLoad(w)
    PROVE  IInv'
<1> DEFINE n == [task[w] EXCEPT !.pc = PutSave[task[w].pc], !.hsnap = hires]
<1>1. /\ task[w].pc \in PutLabels /\ PutSave[task[w].pc] \in PutSaves
      /\ PutSave[task[w].pc] \in Looping => task[w].pc \in Looping
    BY DEF PutLoad, PutLabels, PutSave, PutSaves, Looping
<1>2. n \in Task
    BY <1>1 DEF IInv, StateOK, DocOK, TaskOK, Task, Labels
<1>3. /\ n.pc = PutSave[task[w].pc] /\ n.hsnap = hires /\ n.req = task[w].req
      /\ n.rec = task[w].rec /\ n.id = task[w].id /\ n.todo = task[w].todo
    BY DEF IInv, TaskOK, Task
<1> HIDE DEF n
<1>4. TaskOK(n)
    BY <1>1, <1>2, <1>3
    DEF IInv, StateOK, TaskOK, Holding, HoldingQuotes, InLocked, LoopOK, CasSaves, PutLabels,
        PutSaves
<1>5. Becomes(w, n)
    BY <1>1, <1>3, <1>4 DEF Becomes, PutLabels, PutLoad, n
<1> QED
    BY <1>5, QuietStep DEF PutLoad

LEMMA SaveHireKeeps ==
    ASSUME IInv, UNCHANGED chainVars, NEW w \in Workers, SaveHire(w)
    PROVE  IInv'
<1>1. task[w].pc \in PutSaves
    BY DEF SaveHire
<1>2. /\ DocOK(task[w].hsnap) /\ task[w].id \in HireIds
      /\ task[w].rec \in HireRecord /\ Verified(task[w].rec)
    BY <1>1 DEF IInv, TaskOK, Holding
<1>3. DocOK(hires')
    BY <1>2 DEF SaveHire, DocOK, HireDoc
<1>4. quotes' \in QuoteDoc /\ minted' \in [HireIds -> Quotes \cup {None}]
    BY DEF IInv, StateOK, SaveHire, clocks
<1>5. CASE Reply(w)
    BY <1>1, <1>3, <1>4, <1>5, ReplyStep DEF SaveHire, PutSaves
<1>6. ASSUME NEW l \in {"stepPut", "step"}, Goto(w, l), UNCHANGED locks,
             At(w, "noteSave") \/ At(w, "stepSave")
      PROVE  IInv'
    <2>1. Becomes(w, [task[w] EXCEPT !.pc = l])
        BY <1>1, <1>2, <1>6
        DEF IInv, At, Goto, Becomes, TaskOK, Task, Labels, Holding, HoldingQuotes, InLocked,
            LoopOK, Looping, CasSaves, PutSaves, PutLabels
    <2> QED
        BY <1>3, <1>4, <1>6, <2>1, LocalStep DEF SaveHire, clocks
<1> QED
    BY <1>5, <1>6 DEF SaveHire

(* ------------------- the steps on a copy of the record ------------------- *)

(* Going on with a copy of a record, before the next write.                   *)
Working == {"owner", "step", "consume", "notify", "status", "fetch"} \cup PutLabels

LEMMA WorkingType ==
    ASSUME IInv, NEW w \in Workers, task[w].pc \in Working
    PROVE  /\ task[w] \in Task /\ LoopOK(task[w])
           /\ task[w].req \in Requests /\ task[w].req \in Request
           /\ task[w].id \in HireIds
           /\ task[w].rec \in HireRecord /\ Verified(task[w].rec)
           /\ task[w].pc \in {"status", "fetch"} => task[w].rec.job # None
<1>1. TaskOK(task[w]) /\ task[w].pc # "idle" /\ task[w].pc \in Holding
    BY DEF IInv, Working, Holding, PutLabels
<1> QED
    BY <1>1, RequestType DEF TaskOK

LEMMA WorkingStep ==
    ASSUME IInv, UNCHANGED <<chainVars, documents, locks, clocks>>,
           NEW w \in Workers, task[w].pc \in Working \cup {"read"},
           NEW n \in Task, task' = [task EXCEPT ![w] = n], n.req = task[w].req,
           n.pc \in Working, n.id \in HireIds, n.rec \in HireRecord, Verified(n.rec),
           n.pc \in {"status", "fetch"} => n.rec.job # None,
           LoopOK(n)
    PROVE  IInv'
<1>1. n.req \in Requests
    BY DEF IInv, TaskOK, Working, PutLabels
<1>2. TaskOK(n)
    BY <1>1 DEF TaskOK, Working, Holding, HoldingQuotes, InLocked, CasSaves, PutLabels, PutSaves
<1>3. Becomes(w, n)
    BY <1>2 DEF Becomes, Working, PutLabels
<1> QED
    BY <1>3, QuietStep

LEMMA WorkingReply ==
    ASSUME IInv, UNCHANGED <<chainVars, documents, clocks>>,
           NEW w \in Workers, Reply(w), task[w].pc \in Working \cup {"read"}
    PROVE  IInv'
BY QuietReply DEF Working, PutLabels

(* One receipt fewer to go through.                                           *)
LEMMA DropStep ==
    ASSUME IInv, UNCHANGED <<chainVars, documents, locks, clocks>>,
           NEW w \in Workers, task[w].pc \in {"owner", "step"}, NEW t,
           task' = [task EXCEPT ![w].todo = @ \ {t}]
    PROVE  IInv'
<1> DEFINE n == [task[w] EXCEPT !.todo = @ \ {t}]
<1>1. task[w].pc \in Working
    BY DEF Working
<1>2. /\ n \in Task /\ n.req = task[w].req /\ n.pc = task[w].pc
      /\ n.id = task[w].id /\ n.rec = task[w].rec /\ n.todo \subseteq task[w].todo
    BY <1>1, WorkingType DEF Task
<1>3. task' = [task EXCEPT ![w] = n]
    OBVIOUS
<1> HIDE DEF n
<1>4. /\ n.pc \in Working /\ n.id \in HireIds /\ n.rec \in HireRecord /\ Verified(n.rec)
      /\ n.pc \in {"status", "fetch"} => n.rec.job # None
    BY <1>1, <1>2, WorkingType
<1>5. LoopOK(n)
    BY <1>1, <1>2, WorkingType DEF LoopOK
<1> QED
    BY <1>1, <1>2, <1>3, <1>4, <1>5, WorkingStep

LEMMA LoopKeeps ==
    ASSUME IInv, UNCHANGED chainVars, NEW w \in Workers,
           CheckOwner(w) \/ StartSteps(w) \/ FinishSteps(w)
    PROVE  IInv'
<1>1. task[w].pc \in {"owner", "step"} /\ task[w].pc \in Working
    BY DEF CheckOwner, StartSteps, FinishSteps, At, Working
<1>2. CASE Reply(w) /\ (CheckOwner(w) \/ FinishSteps(w))
    BY <1>1, <1>2, WorkingReply DEF CheckOwner, FinishSteps
<1>3. CASE CheckOwner(w) /\ ~ Reply(w)
    <2>1. PICK t \in task[w].todo : task' = [task EXCEPT ![w].todo = @ \ {t}] /\ UNCHANGED locks
        BY <1>3 DEF CheckOwner
    <2> QED
        BY <1>1, <1>3, <2>1, DropStep DEF CheckOwner
<1>4. CASE StartSteps(w)
    <2> DEFINE n == [task[w] EXCEPT !.pc = "step", !.todo = task[w].req.txs]
    <2>1. task[w].pc = "owner"
        BY <1>4 DEF StartSteps, At
    <2>2. /\ n \in Task /\ n.req = task[w].req /\ n.pc = "step"
          /\ n.id = task[w].id /\ n.rec = task[w].rec
        BY <1>1, WorkingType DEF Task, Labels, Request
    <2>3. task' = [task EXCEPT ![w] = n]
        BY <1>4 DEF StartSteps
    <2> HIDE DEF n
    <2>4. /\ n.pc \in Working /\ n.id \in HireIds /\ n.rec \in HireRecord /\ Verified(n.rec)
          /\ n.pc \in {"status", "fetch"} => n.rec.job # None
        BY <1>1, <2>2, WorkingType DEF Working
    <2>5. LoopOK(n)
        BY <1>1, <2>1, <2>2, WorkingType DEF LoopOK
    <2> QED
        BY <1>1, <1>4, <2>2, <2>3, <2>4, <2>5, WorkingStep DEF StartSteps
<1> QED
    BY <1>2, <1>3, <1>4 DEF CheckOwner, FinishSteps

(* A handler that changes its record where Verified does not look.            *)
SameWhereVerified(a, b) ==
    a.txs = b.txs /\ a.quote = b.quote /\ a.job = b.job /\ a.state = b.state

LEMMA RecordStep ==
    ASSUME IInv, UNCHANGED <<chainVars, documents, locks, clocks>>,
           NEW w \in Workers, task[w].pc \in Working,
           NEW l \in Working \ {"owner"}, l \in {"status", "fetch"} => task[w].pc = "status",
           l \in Looping => task[w].pc \in Looping,
           NEW new \in HireRecord, SameWhereVerified(new, task[w].rec),
           task' = [task EXCEPT ![w] = [task[w] EXCEPT !.pc = l, !.rec = new]]
    PROVE  IInv'
<1> DEFINE n == [task[w] EXCEPT !.pc = l, !.rec = new]
<1>1. Verified(task[w].rec) /\ task[w].id \in HireIds /\ task[w] \in Task
    BY WorkingType
<1>2. Verified(new)
    BY <1>1, VerifiedSame DEF SameWhereVerified
<1>3. l \in {"status", "fetch"} => new.job # None
    BY WorkingType DEF SameWhereVerified
<1>4. l \in Labels
    BY DEF Working, Labels, CasLabels, PutLabels
<1>5. n \in Task
    BY <1>1, <1>4 DEF Task
<1>6. /\ n.req = task[w].req /\ n.pc = l /\ n.id = task[w].id /\ n.rec = new
      /\ n.todo = task[w].todo
    BY <1>1 DEF Task
<1>7. task' = [task EXCEPT ![w] = n]
    OBVIOUS
<1> HIDE DEF n
<1>8. LoopOK(n)
    BY <1>6, WorkingType DEF LoopOK, SameWhereVerified
<1> QED
    BY <1>1, <1>2, <1>3, <1>5, <1>6, <1>7, <1>8, WorkingStep

(* The job and result views.                                                  *)
LEMMA ViewKeeps ==
    ASSUME IInv, UNCHANGED chainVars, NEW w \in Workers,
           ReadHire(w) \/ StopReading(w) \/ RefreshJob(w) \/ ResolveDelivery(w)
                \/ FetchDelivery(w)
    PROVE  IInv'
<1> DEFINE r == task[w].req
           rec == task[w].rec
<1>1. CASE StopReading(w)
    BY <1>1, WorkingReply DEF StopReading, At, Working
<1>2. CASE ReadHire(w) /\ Reply(w)
    BY <1>2, WorkingReply DEF ReadHire, At
<1>3. CASE ReadHire(w) /\ ~ Reply(w)
    <2>1. /\ task[w].pc = "read" /\ Readable(r)
          /\ UNCHANGED <<documents, locks, clocks>>
          /\ task' = [task EXCEPT ![w].pc = "status", ![w].id = r.hire,
                                  ![w].rec = hires[r.hire]]
        BY <1>3 DEF ReadHire, At
    <2>2. r.hire \in HireIds
        BY <2>1, RequestType, ServerAssumption DEF IInv, TaskOK
    <2>3. /\ hires[r.hire] \in HireRecord /\ Verified(hires[r.hire])
          /\ hires[r.hire].job # None
        BY <2>1, <2>2 DEF IInv, StateOK, DocOK, HireDoc, Readable, Stored
    <2> DEFINE n == [task[w] EXCEPT !.pc = "status", !.id = r.hire, !.rec = hires[r.hire]]
    <2>4. /\ n \in Task /\ n.req = r /\ n.pc = "status"
          /\ n.id = r.hire /\ n.rec = hires[r.hire]
        BY <2>2, <2>3 DEF IInv, TaskOK, Task, Labels
    <2>5. task' = [task EXCEPT ![w] = n]
        BY <2>1
    <2> HIDE DEF n
    <2>6. LoopOK(n)
        BY <2>4 DEF LoopOK, Looping
    <2> QED
        BY <2>1, <2>2, <2>3, <2>4, <2>5, <2>6, WorkingStep DEF Working
<1>4. CASE RefreshJob(w)
    <2>1. task[w].pc = "status" /\ task[w].pc \in Working
        BY <1>4 DEF RefreshJob, At, Working
    <2>2. jobStatus[rec.job] \in JobStatuses
        BY <2>1, WorkingType DEF HireRecord, IInv, StateOK, ChainTypeOK
    <2>3. PICK resolved \in BOOLEAN :
            task' = [task EXCEPT ![w].pc = "viewPut", ![w].rec.status = jobStatus[rec.job],
                                 ![w].rec.url = @ \/ (HasDeliverable(rec.job) /\ resolved)]
        BY <1>4 DEF RefreshJob
    <2> DEFINE url == rec.url \/ (HasDeliverable(rec.job) /\ resolved)
               new == [rec EXCEPT !.status = jobStatus[rec.job], !.url = url]
    <2>4. task' = [task EXCEPT ![w] = [task[w] EXCEPT !.pc = "viewPut", !.rec = new]]
        BY <2>1, <2>3, WorkingType DEF Task
    <2>5. url \in BOOLEAN
        OBVIOUS
    <2> HIDE DEF url
    <2>6. rec \in HireRecord
        BY <2>1, WorkingType
    <2>7. new \in HireRecord
        BY <2>2, <2>5, <2>6 DEF HireRecord
    <2>8. SameWhereVerified(new, rec)
        BY <2>6 DEF HireRecord, SameWhereVerified
    <2> HIDE DEF new
    <2> QED
        BY <1>4, <2>1, <2>4, <2>7, <2>8, RecordStep
        DEF RefreshJob, Working, Looping, PutLabels
<1>5. CASE ResolveDelivery(w)
    <2>1. task[w].pc = "status" /\ task[w].pc \in Working
        BY <1>5 DEF ResolveDelivery, At, Working
    <2>2. jobStatus[rec.job] \in JobStatuses /\ rec \in HireRecord
        BY <2>1, WorkingType DEF HireRecord, IInv, StateOK, ChainTypeOK
    <2> DEFINE new == [rec EXCEPT !.status = jobStatus[rec.job], !.url = TRUE]
    <2>3. task' = [task EXCEPT ![w] = [task[w] EXCEPT !.pc = "fetch", !.rec = new]]
        BY <1>5, <2>1, WorkingType DEF ResolveDelivery, Task
    <2>4. new \in HireRecord
        BY <2>2 DEF HireRecord
    <2>5. SameWhereVerified(new, rec)
        BY <2>2 DEF HireRecord, SameWhereVerified
    <2> HIDE DEF new
    <2> QED
        BY <1>5, <2>1, <2>3, <2>4, <2>5, RecordStep
        DEF ResolveDelivery, Working, Looping, PutLabels
<1>6. CASE FetchDelivery(w)
    <2>1. task[w].pc = "fetch" /\ task[w].pc \in Working
        BY <1>6 DEF FetchDelivery, At, Working
    <2>2. task[w] \in Task /\ rec \in HireRecord
        BY <2>1, WorkingType
    <2>3. ASSUME NEW new \in HireRecord, SameWhereVerified(new, rec),
                 task' = [task EXCEPT ![w] = [task[w] EXCEPT !.pc = "viewPut", !.rec = new]]
          PROVE  IInv'
        BY <1>6, <2>1, <2>3, RecordStep DEF FetchDelivery, Working, Looping, PutLabels
    <2>4. CASE Goto(w, "viewPut")
        <3>1. task' = [task EXCEPT ![w] = [task[w] EXCEPT !.pc = "viewPut", !.rec = rec]]
            BY <2>2, <2>4 DEF Goto, Task
        <3> QED
            BY <2>2, <2>3, <3>1 DEF SameWhereVerified
    <2>5. CASE task' = [task EXCEPT ![w].pc = "viewPut", ![w].rec.failure = "result"]
        <3> DEFINE new == [rec EXCEPT !.failure = "result"]
        <3>1. new \in HireRecord
            BY <2>2 DEF HireRecord
        <3>2. SameWhereVerified(new, rec)
            BY <2>2 DEF HireRecord, SameWhereVerified
        <3>3. task' = [task EXCEPT ![w] = [task[w] EXCEPT !.pc = "viewPut", !.rec = new]]
            BY <2>2, <2>5 DEF Task
        <3> QED
            BY <2>3, <3>1, <3>2, <3>3
    <2>6. CASE task' = [task EXCEPT ![w].pc = "viewPut", ![w].rec.failure = "none",
                                    ![w].rec.result = TRUE]
        <3> DEFINE new == [rec EXCEPT !.failure = "none", !.result = TRUE]
        <3>1. new \in HireRecord
            BY <2>2 DEF HireRecord
        <3>2. SameWhereVerified(new, rec)
            BY <2>2 DEF HireRecord, SameWhereVerified
        <3>3. task' = [task EXCEPT ![w] = [task[w] EXCEPT !.pc = "viewPut", !.rec = new]]
            BY <2>2, <2>6 DEF Task
        <3> QED
            BY <2>3, <3>1, <3>2, <3>3
    <2> QED
        BY <1>6, <2>4, <2>5, <2>6 DEF FetchDelivery
<1> QED
    BY <1>1, <1>2, <1>3, <1>4, <1>5, <1>6

(* What reconcileStep writes into a verified record is verified.              *)
LEMMA ReconciledOK ==
    ASSUME IInv, NEW rec \in HireRecord, Verified(rec), NEW t \in Tx,
           Verifies(rec, t), ~ Recorded(rec, t.kind),
           rec.state = "FUNDED" => t.kind = "fund"
    PROVE  /\ Reconciled(rec, t) \in HireRecord
           /\ Verified(Reconciled(rec, t))
           /\ Reconciled(rec, t).state = "FUNDED" => t.kind = "fund"
<1> DEFINE new == Reconciled(rec, t)
           txs == rec.txs \cup {t}
<1>1. t.kind \in Kinds /\ t.job \in Jobs /\ jobStatus[t.job] \in JobStatuses
    BY DEF Tx, IInv, StateOK, ChainTypeOK
<1>2. t \in mined /\ JobClient[t.job] = QuoteBuyer[rec.quote]
    BY DEF Verifies
<1>3. (\A u \in rec.txs : u.kind # t.kind) /\ rec.state # "FUNDED"
    BY DEF Recorded, Verified
<1>4. txs \in SUBSET Tx
    BY DEF HireRecord
<1> HIDE DEF txs
<1>5. CASE t.kind = "approve"
    <2>1. new = [rec EXCEPT !.txs = txs]
        BY <1>5 DEF Reconciled, txs
    <2>2. new \in HireRecord
        BY <1>4, <2>1 DEF HireRecord
    <2>3. new.txs = txs /\ new.job = rec.job /\ new.state = rec.state /\ new.quote = rec.quote
        BY <2>1 DEF HireRecord
    <2> HIDE DEF new
    <2>4. Verified(new)
        BY <1>2, <1>5, <2>3 DEF Verified, txs
    <2> QED
        BY <1>3, <2>2, <2>3, <2>4 DEF new
<1>6. CASE t.kind = "create"
    <2>1. new = [rec EXCEPT !.txs = txs, !.job = t.job,
                            !.status = jobStatus[t.job], !.state = "CREATED"]
        BY <1>6 DEF Reconciled, txs
    <2>2. new \in HireRecord
        BY <1>1, <1>4, <2>1 DEF HireRecord, HireStates
    <2>3. new.txs = txs /\ new.job = t.job /\ new.state = "CREATED" /\ new.quote = rec.quote
        BY <2>1 DEF HireRecord
    <2>4. rec.job = None
        BY <1>3, <1>6 DEF Verified, TxOf
    <2>5. \A u \in rec.txs : u.kind = "approve"
        BY <2>4, ChainAssumption DEF Verified, HireRecord, Tx
    <2>6. t = TxOf("create", t.job) /\ JobQuote[t.job] = rec.quote
        BY <1>6 DEF Tx, TxOf, Verifies
    <2> HIDE DEF new
    <2>7. Verified(new)
        BY <1>2, <1>6, <2>3, <2>5, <2>6 DEF Verified, txs
    <2> QED
        BY <2>2, <2>3, <2>7 DEF new
<1>7. CASE t.kind \in {"register", "budget"}
    <2>1. PICK st \in {"REGISTERED", "BUDGETED"} :
            new = [rec EXCEPT !.txs = txs, !.state = st]
        BY <1>7 DEF Reconciled, txs
    <2>2. new \in HireRecord
        BY <1>4, <2>1 DEF HireRecord, HireStates
    <2>3. new.txs = txs /\ new.job = rec.job /\ new.state = st /\ new.quote = rec.quote
        BY <2>1 DEF HireRecord
    <2>4. rec.job = t.job
        BY <1>7 DEF Verifies
    <2> HIDE DEF new
    <2>5. Verified(new)
        BY <1>2, <1>3, <1>7, <2>3, <2>4 DEF Verified, txs
    <2> QED
        BY <2>2, <2>3, <2>5 DEF new
<1>8. CASE t.kind = "fund"
    <2>1. new = [rec EXCEPT !.txs = txs, !.status = "FUNDED", !.state = "FUNDED"]
        BY <1>8 DEF Reconciled, txs
    <2>2. new \in HireRecord
        BY <1>4, <2>1 DEF HireRecord, HireStates, JobStatuses
    <2>3. new.txs = txs /\ new.job = rec.job /\ new.state = "FUNDED" /\ new.quote = rec.quote
        BY <2>1 DEF HireRecord
    <2>4. rec.job = t.job
        BY <1>8 DEF Verifies
    <2> HIDE DEF new
    <2>5. Verified(new)
        BY <1>2, <1>8, <2>3, <2>4 DEF Verified, txs
    <2> QED
        BY <1>8, <2>2, <2>5 DEF new
<1> QED
    BY <1>1, <1>5, <1>6, <1>7, <1>8 DEF Kinds

(* The steps of one submission.                                               *)
LEMMA StepKeeps ==
    ASSUME IInv, UNCHANGED chainVars, NEW w \in Workers, NEW t \in Tx,
           ReplayStep(w, t) \/ ConflictStep(w, t) \/ AcceptStep(w, t) \/ RejectStep(w, t)
    PROVE  IInv'
<1> DEFINE rec == task[w].rec
<1>1. /\ task[w].pc = "step" /\ task[w].pc \in Working /\ t \in task[w].todo
      /\ \A u \in task[w].todo : StepRank[t.kind] <= StepRank[u.kind]
    BY DEF ReplayStep, ConflictStep, AcceptStep, RejectStep, NextStep, At, Working
<1>2. task[w] \in Task /\ rec \in HireRecord /\ Verified(rec) /\ LoopOK(task[w])
    BY <1>1, WorkingType
<1>3. CASE ReplayStep(w, t)
    BY <1>1, <1>3, DropStep DEF ReplayStep
<1>4. CASE ConflictStep(w, t)
    BY <1>1, <1>4, WorkingReply DEF ConflictStep
<1>5. CASE AcceptStep(w, t)
    <2> DEFINE new == Reconciled(rec, t)
               l == IF t.kind = "fund" THEN "consume" ELSE "stepPut"
               n == [task[w] EXCEPT !.pc = l, !.rec = new, !.todo = @ \ {t}]
    <2>1. Verifies(rec, t) /\ ~ Recorded(rec, t.kind)
        BY <1>5 DEF AcceptStep
    <2>2. rec.state = "FUNDED" => t.kind = "fund"
        BY <1>1, <1>2 DEF LoopOK, Looping
    <2>3. /\ new \in HireRecord /\ Verified(new)
          /\ new.state = "FUNDED" => t.kind = "fund"
        BY <1>2, <2>1, <2>2, ReconciledOK
    <2>4. task' = [task EXCEPT ![w] = n]
        BY <1>5 DEF AcceptStep
    <2> HIDE DEF new
    <2>5. l \in Working /\ l \in Labels /\ l \notin {"owner", "status", "fetch"}
        BY DEF Working, Labels, CasLabels, PutLabels
    <2> HIDE DEF l
    <2>6. n \in Task
        BY <1>2, <2>3, <2>5 DEF Task
    <2>7. /\ n.req = task[w].req /\ n.pc = l /\ n.id = task[w].id /\ n.rec = new
          /\ n.todo = task[w].todo \ {t}
        BY <1>2 DEF Task
    <2> HIDE DEF n
    <2>8. t.kind = "fund" => \A u \in task[w].todo : u.kind = "fund"
        <3> SUFFICES ASSUME t.kind = "fund", NEW u \in task[w].todo PROVE u.kind = "fund"
            OBVIOUS
        <3>1. u.kind \in Kinds /\ StepRank["fund"] <= StepRank[u.kind]
            BY <1>1, <1>2 DEF Task, Tx
        <3> QED
            BY <3>1 DEF StepRank, Kinds
    <2>9. LoopOK(n)
        BY <2>3, <2>5, <2>7, <2>8 DEF LoopOK
    <2> QED
        BY <1>1, <1>5, <2>3, <2>4, <2>5, <2>6, <2>7, <2>9, WorkingType, WorkingStep
        DEF AcceptStep
<1>6. CASE RejectStep(w, t)
    <2> DEFINE new == [rec EXCEPT !.failure = "step"]
    <2>1. new \in HireRecord
        BY <1>2 DEF HireRecord
    <2>2. SameWhereVerified(new, rec)
        BY <1>2 DEF HireRecord, SameWhereVerified
    <2>3. task' = [task EXCEPT ![w] = [task[w] EXCEPT !.pc = "failPut", !.rec = new]]
        BY <1>2, <1>6 DEF RejectStep, Task
    <2> HIDE DEF new
    <2> QED
        BY <1>1, <1>6, <2>1, <2>2, <2>3, RecordStep
        DEF RejectStep, Working, Looping, PutLabels
<1> QED
    BY <1>3, <1>4, <1>5, <1>6

LEMMA NotifyKeeps ==
    ASSUME IInv, UNCHANGED chainVars, NEW w \in Workers, NotifyProvider(w)
    PROVE  IInv'
<1> DEFINE rec == task[w].rec
<1>1. task[w].pc = "notify" /\ task[w].pc \in Working
    BY DEF NotifyProvider, At, Working
<1>2. task[w] \in Task /\ rec \in HireRecord
    BY <1>1, WorkingType
<1>3. PICK outcome \in NotifyStates :
        task' = [task EXCEPT ![w].pc = "notePut", ![w].rec.notify = outcome]
    BY ServerAssumption DEF NotifyProvider
<1> DEFINE new == [rec EXCEPT !.notify = outcome]
<1>4. new \in HireRecord
    BY <1>2 DEF HireRecord
<1>5. SameWhereVerified(new, rec)
    BY <1>2 DEF HireRecord, SameWhereVerified
<1>6. task' = [task EXCEPT ![w] = [task[w] EXCEPT !.pc = "notePut", !.rec = new]]
    BY <1>2, <1>3 DEF Task
<1> HIDE DEF new
<1> QED
    BY <1>1, <1>4, <1>5, <1>6, RecordStep DEF NotifyProvider, Working, Looping, PutLabels

(* ------------------- the invariant, and what it implies ------------------ *)

LEMMA InitOK == Init => IInv
<1> SUFFICES ASSUME Init PROVE IInv
    OBVIOUS
<1> USE DEF Init, ServerInit, ChainInit
<1>1. TaskOK(IdleTask) /\ IdleTask.pc = "idle"
    BY DEF TaskOK, IdleTask, Task, Labels, Holding, HoldingQuotes, InLocked, LoopOK, Looping,
           CasSaves, PutSaves, PutLabels
<1>2. \A w \in Workers : task[w] = IdleTask
    OBVIOUS
<1>3. ChainTypeOK
    BY DEF ChainTypeOK, JobStatuses
<1>4. DocOK(hires) /\ quotes \in QuoteDoc
    BY DEF DocOK, HireDoc, QuoteDoc
<1>5. task \in [Workers -> Task] /\ locks \in [LockKeys -> Seq(Workers)]
    BY <1>1 DEF TaskOK
<1>6. StateOK
    BY <1>3, <1>4, <1>5 DEF StateOK
<1>7. Queued
    BY <1>1, <1>2 DEF Queued
<1> QED
    BY <1>1, <1>2, <1>6, <1>7 DEF IInv

(* One await-free stretch of one handler.                                    *)
LEMMA HandleKeeps ==
    ASSUME IInv, UNCHANGED chainVars, NEW w \in Workers, Handle(w)
    PROVE  IInv'
<1>1. CASE EnterLock(w)
    BY <1>1, EnterLockKeeps
<1>2. CASE IssueLoad(w) \/ IssueSave(w)
    BY <1>2, IssueKeeps
<1>3. CASE ReadQuote(w) \/ FindHire(w) \/ CheckBuyer(w)
    BY <1>3, ReadQuoteKeeps, FindHireKeeps, CheckBuyerKeeps
<1>4. CASE TransitionLoad(w) \/ ExpireSave(w) \/ BindSave(w) \/ ConsumeSave(w)
    BY <1>4, TransitionKeeps, ExpireConsumeKeeps, BindKeeps
<1>5. CASE PutLoad(w) \/ SaveHire(w)
    BY <1>5, PutLoadKeeps, SaveHireKeeps
<1>6. CASE CheckOwner(w) \/ StartSteps(w) \/ FinishSteps(w)
    BY <1>6, LoopKeeps
<1>7. CASE NotifyProvider(w)
    BY <1>7, NotifyKeeps
<1>8. ASSUME NEW t \in Tx,
             ReplayStep(w, t) \/ ConflictStep(w, t) \/ AcceptStep(w, t) \/ RejectStep(w, t)
      PROVE  IInv'
    BY <1>8, StepKeeps
<1>9. CASE ReadHire(w) \/ StopReading(w) \/ RefreshJob(w) \/ ResolveDelivery(w)
                \/ FetchDelivery(w)
    BY <1>9, ViewKeeps
<1> QED
    BY <1>1, <1>2, <1>3, <1>4, <1>5, <1>6, <1>7, <1>8, <1>9 DEF Handle

LEMMA NextKeeps == IInv /\ [Next]_vars => IInv'
<1> SUFFICES ASSUME IInv, [Next]_vars PROVE IInv'
    OBVIOUS
<1>1. ASSUME NEW w \in Workers, Handle(w), UNCHANGED chainVars
      PROVE  IInv'
    BY <1>1, HandleKeeps
<1>2. ASSUME NEW w \in Workers, NEW r \in Requests, Receive(w, r), UNCHANGED chainVars
      PROVE  IInv'
    BY <1>2, ReceiveKeeps
<1>3. ASSUME Crash, UNCHANGED chainVars
      PROVE  IInv'
    BY <1>3, CrashKeeps
<1>4. ASSUME NEW q \in Quotes, Lapse(q), UNCHANGED chainVars
      PROVE  IInv'
    BY <1>4, LapseKeeps
<1>5. ASSUME NEW j \in Jobs, WalletStep(j) \/ ChainStep(j), UNCHANGED serverVars
      PROVE  IInv'
    BY <1>5, ChainKeeps
<1>6. ASSUME UNCHANGED vars
      PROVE  IInv'
    <2>1. mined' = mined /\ UNCHANGED serverVars /\ UNCHANGED chainVars
        BY <1>6 DEF vars, chainVars
    <2>2. StateOK'
        BY <2>1 DEF IInv, StateOK, ChainTypeOK, chainVars, serverVars, DocOK, Verified
    <2>3. \A w \in Workers : TaskOK(task[w])'
        BY <2>1 DEF IInv, serverVars, TaskOK, DocOK, Verified
    <2>4. Queued'
        BY <2>1 DEF IInv, Queued, StandsIn, LockKey, serverVars
    <2> QED
        BY <2>2, <2>3, <2>4 DEF IInv
<1> QED
    BY <1>1, <1>2, <1>3, <1>4, <1>5, <1>6 DEF Next, ServerStep

(* The strengthening holds of every behaviour.                               *)
THEOREM Invariant == Spec => []IInv
<1>1. Init => IInv
    BY InitOK
<1>2. IInv /\ [Next]_vars => IInv'
    BY NextKeeps
<1> QED
    BY <1>1, <1>2, PTL DEF Spec

(* Every handler's copies and both documents keep their types, whatever is   *)
(* interleaved, lost or crashed.                                             *)
THEOREM TypeCorrect == Spec => []TypeOK
<1>1. IInv => TypeOK
    BY DEF IInv, StateOK, DocOK, TypeOK
<1> QED
    BY <1>1, Invariant, PTL

(* What reconcileStep records was paid on chain, by the quote's buyer, for   *)
(* the quote's own job, and is recorded as funded exactly when a fund receipt *)
(* was accepted: for any number of requests, hires, jobs and crashes.         *)
THEOREM RecordsAreVerified == Spec => []RecordsVerified
<1>1. IInv => RecordsVerified
    BY DEF IInv, StateOK, DocOK, RecordsVerified, Stored
<1> QED
    BY <1>1, Invariant, PTL

(* withHireLock: two handlers are never inside the same lock key.            *)
THEOREM LocksExclusive == Spec => []LockExclusive
<1>1. IInv => LockExclusive
    <2> SUFFICES ASSUME IInv, NEW v \in Workers, NEW w \in Workers, NEW k \in LockKeys,
                        Inside(v, k), Inside(w, k)
                 PROVE  v = w
        BY DEF LockExclusive
    <2>1. StandsIn(v, locks[k]) /\ StandsIn(w, locks[k])
        BY DEF IInv, Queued, Inside
    <2>2. locks[k][1] = v /\ locks[k][1] = w
        BY <2>1 DEF StandsIn, Inside
    <2> QED
        BY <2>2
<1> QED
    BY <1>1, Invariant, PTL

(* ----------------------- what a record shows of a job -------------------- *)

(* The statuses a job has or has had.                                        *)
Upto(status) == Before[status] \cup {status}

(* A job whose create mined has been opened, and only funds take it further.  *)
ChainOK ==
    \A j \in Jobs :
        /\ Mined("create", j) => jobStatus[j] # "NONE"
        /\ jobStatus[j] \in {"FUNDED", "SUBMITTED", "COMPLETED"} => Mined("fund", j)

ShowsOK(rec) ==
    /\ rec.result => rec.job # None /\ HasDeliverable(rec.job)
    /\ rec.job # None => rec.status \in Upto(jobStatus[rec.job])

(* The same of what a handler holds; one that fetches, fetches what is there.  *)
HeldOK(t) ==
    /\ t.pc \in Holding => ShowsOK(t.rec)
    /\ t.pc \in PutSaves => \A h \in HireIds : t.hsnap[h] # None => ShowsOK(t.hsnap[h])
    /\ t.pc = "fetch" => HasDeliverable(t.rec.job)

ShownInv ==
    /\ ChainOK
    /\ \A h \in HireIds : Stored(h) => ShowsOK(hires[h])
    /\ \A w \in Workers : HeldOK(task[w])

LEMMA ShownInitOK == Init => ShownInv
<1> SUFFICES ASSUME Init PROVE ShownInv
    OBVIOUS
<1> USE DEF Init, ServerInit, ChainInit
<1>1. \A w \in Workers : task[w] = IdleTask
    OBVIOUS
<1>2. IdleTask.pc = "idle"
    BY DEF IdleTask
<1>3. HeldOK(IdleTask)
    BY <1>2 DEF HeldOK, Holding, PutSaves, PutLabels
<1>4. ChainOK
    BY DEF ChainOK, Mined
<1> QED
    BY <1>1, <1>3, <1>4 DEF ShownInv, Stored

(* A job only moves on: what it was said to have been, it was.                *)
LEMMA JobMovesOn ==
    ASSUME IInv, ChainOK, NEW j \in Jobs, WalletStep(j) \/ ChainStep(j)
    PROVE  /\ ChainOK'
           /\ \A i \in Jobs : /\ HasDeliverable(i) => HasDeliverable(i)'
                              /\ jobStatus[i] # "NONE" => Upto(jobStatus[i]) \subseteq Upto(jobStatus'[i])
<1> DEFINE Moves(to) == /\ jobStatus' = [jobStatus EXCEPT ![j] = to]
                        /\ jobStatus[j] # "NONE" => Upto(jobStatus[j]) \subseteq Upto(to)
                        /\ jobStatus[j] \in {"SUBMITTED", "COMPLETED"} => to \in {"COMPLETED", "REJECTED"}
                        /\ jobStatus[j] # "REJECTED"
                        /\ to # "NONE"
                        /\ to \in {"SUBMITTED", "COMPLETED"} => jobStatus[j] \in {"FUNDED", "SUBMITTED"}
                        /\ to = "FUNDED" => TxOf("fund", j) \in mined'
<1>1. jobStatus \in [Jobs -> JobStatuses]
    BY DEF IInv, StateOK, ChainTypeOK
<1>2. mined \subseteq mined'
    BY ChainStepKeeps DEF IInv, StateOK
<1>3. \/ UNCHANGED jobStatus /\ \A i \in Jobs : Mined("create", i)' => Mined("create", i)
      \/ \E to \in JobStatuses : Moves(to) /\ \A i \in Jobs \ {j} : Mined("create", i)' => Mined("create", i)
    <2> USE DEF Mined, Mine, TxOf, Move, Upto, Before
    <2>1. CASE Approve(j) \/ RegisterJob(j) \/ SetBudget(j)
        BY <2>1 DEF Approve, RegisterJob, SetBudget
    <2>2. CASE CreateJob(j)
        <3>1. Moves("OPEN")
            BY <2>2 DEF CreateJob
        <3> QED
            BY <2>2, <3>1 DEF CreateJob, JobStatuses
    <2>3. CASE Fund(j)
        <3>1. Moves("FUNDED")
            BY <2>3 DEF Fund
        <3> QED
            BY <2>3, <3>1 DEF Fund, JobStatuses
    <2>4. CASE CancelJob(j)
        <3>1. Moves("REJECTED")
            BY <2>4 DEF CancelJob, MoveOn
        <3> QED
            BY <2>4, <3>1 DEF CancelJob, MoveOn, JobStatuses
    <2>5. CASE SubmitWork(j)
        <3>1. Moves("SUBMITTED")
            BY <2>5 DEF SubmitWork, MoveOn
        <3> QED
            BY <2>5, <3>1 DEF SubmitWork, MoveOn, JobStatuses
    <2>6. CASE Settle(j)
        <3>1. PICK verdict \in {"COMPLETED", "REJECTED"} : MoveOn(j, {"SUBMITTED"}, verdict)
            BY <2>6 DEF Settle
        <3>2. Moves(verdict)
            BY <3>1 DEF MoveOn
        <3> QED
            BY <3>1, <3>2 DEF MoveOn, JobStatuses
    <2>7. CASE ExpireJob(j)
        <3>1. Moves("EXPIRED")
            BY <2>7 DEF ExpireJob, MoveOn
        <3> QED
            BY <2>7, <3>1 DEF ExpireJob, MoveOn, JobStatuses
    <2> QED
        BY <2>1, <2>2, <2>3, <2>4, <2>5, <2>6, <2>7 DEF WalletStep, ChainStep
<1>4. CASE UNCHANGED jobStatus /\ \A i \in Jobs : Mined("create", i)' => Mined("create", i)
    BY <1>2, <1>4 DEF ChainOK, HasDeliverable, Mined
<1>5. ASSUME NEW to \in JobStatuses, Moves(to), \A i \in Jobs \ {j} : Mined("create", i)' => Mined("create", i)
      PROVE  /\ ChainOK'
             /\ \A i \in Jobs : /\ HasDeliverable(i) => HasDeliverable(i)'
                                /\ jobStatus[i] # "NONE" => Upto(jobStatus[i]) \subseteq Upto(jobStatus'[i])
    <2>1. jobStatus'[j] = to /\ \A i \in Jobs \ {j} : jobStatus'[i] = jobStatus[i]
        BY <1>1, <1>5
    <2>2. \A i \in Jobs : Mined("fund", i) => Mined("fund", i)'
        BY <1>2 DEF Mined
    <2>3. to \in {"FUNDED", "SUBMITTED", "COMPLETED"} => Mined("fund", j)'
        BY <1>5, <2>2 DEF ChainOK, Mined
    <2>4. ChainOK'
        BY <1>5, <2>1, <2>2, <2>3 DEF ChainOK
    <2>5. ASSUME NEW i \in Jobs, HasDeliverable(i) PROVE HasDeliverable(i)'
        <3>1. CASE i # j
            BY <2>1, <2>2, <2>5, <3>1 DEF HasDeliverable
        <3>2. CASE i = j
            BY <1>5, <2>1, <2>2, <2>5, <3>2 DEF HasDeliverable, Delivered, ChainOK
        <3> QED
            BY <3>1, <3>2
    <2>6. \A i \in Jobs : jobStatus[i] # "NONE" => Upto(jobStatus[i]) \subseteq Upto(jobStatus'[i])
        BY <1>5, <2>1
    <2> QED
        BY <2>4, <2>5, <2>6
<1> QED
    BY <1>3, <1>4, <1>5

(* A record of a job that mined shows no more when the job moved on.           *)
LEMMA ShowsStays ==
    ASSUME IInv, ChainOK, NEW j \in Jobs, WalletStep(j) \/ ChainStep(j),
           NEW rec \in HireRecord, Verified(rec), ShowsOK(rec)
    PROVE  ShowsOK(rec)'
<1>1. /\ rec.job # None => rec.job \in Jobs
      /\ rec.job # None => Mined("create", rec.job)
    BY DEF HireRecord, Verified, Mined
<1>2. rec.job # None => jobStatus[rec.job] # "NONE"
    BY <1>1 DEF ChainOK
<1>0. \A i \in Jobs : /\ HasDeliverable(i) => HasDeliverable(i)'
                      /\ jobStatus[i] # "NONE" => Upto(jobStatus[i]) \subseteq Upto(jobStatus'[i])
    BY JobMovesOn
<1>3. rec.result => HasDeliverable(rec.job)'
    BY <1>0, <1>1 DEF ShowsOK, HasDeliverable, Mined
<1>4. rec.job # None => rec.status \in Upto(jobStatus'[rec.job])
    BY <1>0, <1>1, <1>2 DEF ShowsOK
<1> QED
    BY <1>3, <1>4 DEF ShowsOK

LEMMA ChainShows ==
    ASSUME IInv, ShownInv, UNCHANGED serverVars, NEW j \in Jobs, WalletStep(j) \/ ChainStep(j)
    PROVE  ShownInv'
<1>1. task' = task /\ hires' = hires /\ ChainOK
    BY DEF serverVars, ShownInv
<1>2. ChainOK'
    BY <1>1, JobMovesOn
<1>3. ASSUME NEW h \in HireIds, Stored(h)' PROVE ShowsOK(hires[h])'
    <2>1. Stored(h) /\ hires[h] \in HireRecord /\ Verified(hires[h]) /\ ShowsOK(hires[h])
        BY <1>1, <1>3 DEF Stored, IInv, StateOK, DocOK, HireDoc, ShownInv
    <2>2. ASSUME NEW rec, rec = hires[h] PROVE ShowsOK(rec)'
        BY <1>1, <2>1, <2>2, ShowsStays
    <2>3. PICK rec : rec = hires[h]
        OBVIOUS
    <2>4. ShowsOK(rec)'
        BY <2>2, <2>3
    <2> QED
        BY <1>1, <2>3, <2>4 DEF ShowsOK
<1>4. ASSUME NEW w \in Workers PROVE HeldOK(task[w])'
    <2>1. PICK t : t = task[w]
        OBVIOUS
    <2>2. TaskOK(t) /\ HeldOK(t)
        BY <2>1 DEF IInv, ShownInv
    <2>3. t.pc \in Holding => ShowsOK(t.rec)'
        <3> SUFFICES ASSUME t.pc \in Holding PROVE ShowsOK(t.rec)'
            OBVIOUS
        <3>1. PICK rec : rec = t.rec
            OBVIOUS
        <3>2. rec \in HireRecord /\ Verified(rec) /\ ShowsOK(rec)
            BY <2>2, <3>1 DEF TaskOK, HeldOK
        <3>3. ShowsOK(rec)'
            BY <1>1, <3>2, ShowsStays
        <3> QED
            BY <3>1, <3>3
    <2>4. t.pc \in PutSaves => \A h \in HireIds : t.hsnap[h] # None => ShowsOK(t.hsnap[h])'
        <3> SUFFICES ASSUME t.pc \in PutSaves, NEW h \in HireIds, t.hsnap[h] # None
                     PROVE  ShowsOK(t.hsnap[h])'
            OBVIOUS
        <3>1. PICK rec : rec = t.hsnap[h]
            OBVIOUS
        <3>2. rec \in HireRecord /\ Verified(rec) /\ ShowsOK(rec)
            BY <2>2, <3>1 DEF TaskOK, HeldOK, DocOK, HireDoc
        <3>3. ShowsOK(rec)'
            BY <1>1, <3>2, ShowsStays
        <3> QED
            BY <3>1, <3>3
    <2>5. t.pc = "fetch" => HasDeliverable(t.rec.job)'
        <3> SUFFICES ASSUME t.pc = "fetch" PROVE HasDeliverable(t.rec.job)'
            OBVIOUS
        <3>1. t.rec.job \in Jobs
            BY <2>2 DEF TaskOK, Holding, HireRecord
        <3>2. HasDeliverable(t.rec.job) => HasDeliverable(t.rec.job)'
            <4>1. \A i \in Jobs : HasDeliverable(i) => HasDeliverable(i)'
                BY <1>1, JobMovesOn
            <4> QED
                BY <3>1, <4>1 DEF HasDeliverable, Mined
        <3> QED
            BY <2>2, <3>2 DEF HeldOK
    <2>6. HeldOK(t)'
        BY <2>3, <2>4, <2>5 DEF HeldOK
    <2> QED
        BY <1>1, <2>1, <2>6 DEF HeldOK, ShowsOK
<1> QED
    BY <1>2, <1>3, <1>4 DEF ShownInv

(* A step of one handler, which ends with what it may hold, after a write that *)
(* shows no more than is so.                                                  *)
LEMMA ShowStep ==
    ASSUME IInv, ShownInv, UNCHANGED chainVars, NEW w \in Workers, NEW n, HeldOK(n),
           task' = [task EXCEPT ![w] = n],
           \A h \in HireIds : hires'[h] # None => ShowsOK(hires'[h])
    PROVE  ShownInv'
<1>1. jobStatus' = jobStatus /\ mined' = mined
    BY DEF chainVars
<1>2. \A v \in Workers : HeldOK(task'[v])
    BY DEF IInv, StateOK, ShownInv
<1>3. ChainOK'
    BY <1>1 DEF ShownInv, ChainOK, Mined
<1>4. \A v \in Workers : HeldOK(task[v])'
    BY <1>1, <1>2 DEF HeldOK, ShowsOK, HasDeliverable, Mined
<1>5. \A h \in HireIds : Stored(h)' => ShowsOK(hires[h])'
    BY <1>1 DEF Stored, ShowsOK, HasDeliverable, Mined
<1> QED
    BY <1>3, <1>4, <1>5 DEF ShownInv

(* The stored records show what is so.                                        *)
LEMMA StoredShows ==
    ASSUME ShownInv, UNCHANGED hires
    PROVE  \A h \in HireIds : hires'[h] # None => ShowsOK(hires'[h])
BY DEF ShownInv, Stored

(* A reply, or a step that leaves the handler's copy of the record alone.      *)
LEMMA ReplyShows ==
    ASSUME IInv, ShownInv, UNCHANGED chainVars, NEW w \in Workers, Reply(w),
           \A h \in HireIds : hires'[h] # None => ShowsOK(hires'[h])
    PROVE  ShownInv'
<1>1. HeldOK(IdleTask)
    BY DEF HeldOK, IdleTask, Holding, PutSaves, PutLabels
<1> QED
    BY <1>1, ShowStep DEF Reply

LEMMA GoingOn ==
    ASSUME IInv, ShownInv, UNCHANGED chainVars, NEW w \in Workers,
           NEW n, n.rec = task[w].rec, n.pc \notin PutSaves \cup {"fetch"},
           n.pc \in Holding => task[w].pc \in Holding,
           task' = [task EXCEPT ![w] = n],
           \A h \in HireIds : hires'[h] # None => ShowsOK(hires'[h])
    PROVE  ShownInv'
<1>1. HeldOK(n)
    BY DEF HeldOK, ShownInv
<1> QED
    BY <1>1, ShowStep

LEMMA GotoShows ==
    ASSUME IInv, ShownInv, UNCHANGED chainVars, NEW w \in Workers,
           NEW l, Goto(w, l), l \notin PutSaves \cup {"fetch"},
           l \in Holding => task[w].pc \in Holding,
           \A h \in HireIds : hires'[h] # None => ShowsOK(hires'[h])
    PROVE  ShownInv'
<1> DEFINE n == [task[w] EXCEPT !.pc = l]
<1>1. task[w] \in Task
    BY DEF IInv, StateOK
<1>2. n.pc = l /\ n.rec = task[w].rec /\ task' = [task EXCEPT ![w] = n]
    BY <1>1 DEF Goto, Task
<1> HIDE DEF n
<1> QED
    BY <1>2, GoingOn

(* The handlers up to the record: quote, lock, lookups, transitions.            *)
LEMMA QuoteShows ==
    ASSUME IInv, ShownInv, UNCHANGED chainVars, NEW w \in Workers,
           \/ EnterLock(w) \/ IssueLoad(w) \/ IssueSave(w) \/ ReadQuote(w) \/ CheckBuyer(w)
           \/ TransitionLoad(w) \/ ExpireSave(w) \/ ConsumeSave(w)
    PROVE  ShownInv'
<1>1. \A h \in HireIds : hires'[h] # None => ShowsOK(hires'[h])
    BY StoredShows DEF EnterLock, IssueLoad, IssueSave, ReadQuote, CheckBuyer, TransitionLoad, ExpireSave,
        ConsumeSave, documents
<1>2. CASE Reply(w)
    BY <1>1, <1>2, ReplyShows
<1>3. ASSUME NEW l \in {"quote", "expire", "byKey", "bind"}, Goto(w, l) PROVE ShownInv'
    BY <1>1, <1>3, GotoShows DEF PutSaves, Holding, PutLabels
<1>4. ASSUME Goto(w, "notify"), task[w].pc \in {"consume", "consuming"} PROVE ShownInv'
    BY <1>1, <1>4, GotoShows DEF PutSaves, Holding, PutLabels
<1>5. ASSUME NEW l \in {"issuing"} \cup CasSaves, l \in Holding => task[w].pc \in Holding,
             task' = [task EXCEPT ![w].pc = l, ![w].qsnap = quotes]
      PROVE  ShownInv'
    <2> DEFINE n == [task[w] EXCEPT !.pc = l, !.qsnap = quotes]
    <2>1. task[w] \in Task
        BY DEF IInv, StateOK
    <2>2. n.pc = l /\ n.rec = task[w].rec /\ task' = [task EXCEPT ![w] = n]
        BY <1>5, <2>1 DEF Task
    <2> HIDE DEF n
    <2> QED
        BY <1>1, <1>5, <2>2, GoingOn DEF PutSaves, CasSaves
<1>6. CASE TransitionLoad(w)
    <2>1. task[w].pc \in CasLabels
        BY <1>6 DEF TransitionLoad
    <2>2. CASE quotes[task[w].req.quote] \in CasFrom[task[w].pc]
        <3>1. PICK l : l = CasSave[task[w].pc]
            OBVIOUS
        <3>2. l \in CasSaves /\ (l \in Holding => task[w].pc \in Holding)
            BY <2>1, <3>1 DEF CasLabels, CasSaves, CasSave, Holding, PutLabels, PutSaves
        <3>3. task' = [task EXCEPT ![w].pc = l, ![w].qsnap = quotes]
            BY <1>6, <2>2, <3>1 DEF TransitionLoad
        <3> QED
            BY <1>5, <3>2, <3>3
    <2>3. CASE quotes[task[w].req.quote] \notin CasFrom[task[w].pc]
        BY <1>2, <1>4, <1>6, <2>3 DEF TransitionLoad, At
    <2> QED
        BY <2>2, <2>3
<1>7. CASE EnterLock(w) \/ ReadQuote(w) \/ CheckBuyer(w) \/ ConsumeSave(w)
    BY <1>2, <1>3, <1>4, <1>7 DEF EnterLock, ReadQuote, CheckBuyer, ConsumeSave, At
<1>8. CASE IssueSave(w) \/ ExpireSave(w)
    BY <1>2, <1>8 DEF IssueSave, ExpireSave
<1>9. CASE IssueLoad(w)
    BY <1>5, <1>9 DEF IssueLoad, Holding, PutLabels, PutSaves
<1> QED
    BY <1>6, <1>7, <1>8, <1>9

(* The handler takes a copy of a stored record.                               *)
LEMMA TakeShows ==
    ASSUME IInv, ShownInv, UNCHANGED <<chainVars, hires>>, NEW w \in Workers,
           FindHire(w) \/ ReadHire(w)
    PROVE  ShownInv'
<1>1. \A h \in HireIds : hires'[h] # None => ShowsOK(hires'[h])
    BY StoredShows
<1>2. CASE Reply(w)
    BY <1>1, <1>2, ReplyShows
<1>3. ASSUME NEW l \in {"byQuote", "chain"}, Goto(w, l) PROVE ShownInv'
    BY <1>1, <1>3, GotoShows DEF PutSaves, Holding, PutLabels
<1>4. ASSUME NEW h \in HireIds, Stored(h), NEW n, n.rec = hires[h], n.pc \in {"owner", "status"},
             task' = [task EXCEPT ![w] = n]
      PROVE  ShownInv'
    <2>1. HeldOK(n)
        BY <1>4 DEF HeldOK, ShownInv, PutSaves
    <2> QED
        BY <1>1, <1>4, <2>1, ShowStep
<1>5. task[w] \in Task
    BY DEF IInv, StateOK
<1>6. CASE FindHire(w)
    <2>1. ASSUME NEW h \in Matches(w),
                 task' = [task EXCEPT ![w].pc = "owner", ![w].id = h, ![w].rec = hires[h],
                                      ![w].todo = task[w].req.txs]
          PROVE  ShownInv'
        <3> DEFINE n == [task[w] EXCEPT !.pc = "owner", !.id = h, !.rec = hires[h],
                                        !.todo = task[w].req.txs]
        <3>1. n.pc = "owner" /\ n.rec = hires[h] /\ task' = [task EXCEPT ![w] = n]
            BY <1>5, <2>1 DEF Task
        <3>2. h \in HireIds /\ Stored(h)
            BY DEF Matches
        <3> HIDE DEF n
        <3> QED
            BY <1>4, <3>1, <3>2
    <2> QED
        BY <1>2, <1>3, <1>6, <2>1 DEF FindHire
<1>7. CASE ReadHire(w)
    <2> DEFINE r == task[w].req
    <2>1. ASSUME Readable(r),
                 task' = [task EXCEPT ![w].pc = "status", ![w].id = r.hire, ![w].rec = hires[r.hire]]
          PROVE  ShownInv'
        <3> DEFINE n == [task[w] EXCEPT !.pc = "status", !.id = r.hire, !.rec = hires[r.hire]]
        <3>1. n.pc = "status" /\ n.rec = hires[r.hire] /\ task' = [task EXCEPT ![w] = n]
            BY <1>5, <2>1 DEF Task
        <3>2. r.hire \in HireIds /\ Stored(r.hire)
            BY <1>7, <2>1, RequestType, ServerAssumption DEF Readable, ReadHire, At, IInv, TaskOK
        <3> HIDE DEF n
        <3> QED
            BY <1>4, <3>1, <3>2
    <2> QED
        BY <1>2, <1>7, <2>1 DEF ReadHire
<1> QED
    BY <1>6, <1>7

(* A new record shows nothing; a put takes and writes what shows no more.      *)
LEMMA PutShows ==
    ASSUME IInv, ShownInv, UNCHANGED chainVars, NEW w \in Workers,
           BindSave(w) \/ PutLoad(w) \/ SaveHire(w)
    PROVE  ShownInv'
<1>1. task[w] \in Task
    BY DEF IInv, StateOK
<1>2. CASE BindSave(w)
    <2>1. PICK h \in HireIds :
            task' = [task EXCEPT ![w].pc = "newPut", ![w].id = h,
                                 ![w].rec = NewHire(task[w].req.quote, task[w].req.key)]
        BY <1>2 DEF BindSave
    <2> DEFINE rec == NewHire(task[w].req.quote, task[w].req.key)
               n == [task[w] EXCEPT !.pc = "newPut", !.id = h, !.rec = rec]
    <2>2. rec.result = FALSE /\ rec.job = None
        BY DEF NewHire
    <2>3. n.pc = "newPut" /\ n.rec = rec /\ task' = [task EXCEPT ![w] = n]
        BY <1>1, <2>1 DEF Task
    <2> HIDE DEF n, rec
    <2>4. HeldOK(n)
        BY <2>2, <2>3 DEF HeldOK, ShowsOK, PutSaves
    <2> QED
        BY <1>2, <2>3, <2>4, StoredShows, ShowStep DEF BindSave
<1>3. CASE PutLoad(w)
    <2> DEFINE n == [task[w] EXCEPT !.pc = PutSave[task[w].pc], !.hsnap = hires]
    <2>1. task[w].pc \in PutLabels /\ PutSave[task[w].pc] # "fetch"
        BY <1>3 DEF PutLoad, PutLabels, PutSave
    <2>2. /\ n.pc = PutSave[task[w].pc] /\ n.rec = task[w].rec /\ n.hsnap = hires
          /\ task' = [task EXCEPT ![w] = n]
        BY <1>1, <1>3 DEF Task, PutLoad
    <2> HIDE DEF n
    <2>3. HeldOK(n)
        BY <2>1, <2>2 DEF HeldOK, ShownInv, Holding, Stored
    <2> QED
        BY <1>3, <2>2, <2>3, StoredShows, ShowStep DEF PutLoad, documents
<1>4. CASE SaveHire(w)
    <2>1. /\ task[w].pc \in PutSaves /\ task[w].pc \in Holding
          /\ hires' = [task[w].hsnap EXCEPT ![task[w].id] = task[w].rec]
        BY <1>4 DEF SaveHire, Holding
    <2>2. task[w].hsnap \in HireDoc
        BY <2>1 DEF IInv, TaskOK, DocOK
    <2>3. /\ ShowsOK(task[w].rec)
          /\ \A h \in HireIds : task[w].hsnap[h] # None => ShowsOK(task[w].hsnap[h])
        BY <2>1 DEF ShownInv, HeldOK
    <2>4. \A h \in HireIds : hires'[h] = task[w].rec \/ hires'[h] = task[w].hsnap[h]
        BY <2>1, <2>2 DEF HireDoc
    <2>5. \A h \in HireIds : hires'[h] # None => ShowsOK(hires'[h])
        BY <2>3, <2>4
    <2>6. ASSUME NEW l \in {"stepPut", "step"}, Goto(w, l) PROVE ShownInv'
        BY <2>1, <2>5, <2>6, GotoShows DEF PutSaves
    <2>7. CASE Reply(w)
        BY <2>5, <2>7, ReplyShows
    <2> QED
        BY <1>4, <2>6, <2>7 DEF SaveHire
<1> QED
    BY <1>2, <1>3, <1>4

(* The loop over the steps of a submission.                                  *)
LEMMA LoopShows ==
    ASSUME IInv, ShownInv, UNCHANGED <<chainVars, hires>>, NEW w \in Workers,
           \/ CheckOwner(w) \/ StartSteps(w) \/ FinishSteps(w) \/ NotifyProvider(w)
           \/ \E t \in Tx : ReplayStep(w, t) \/ ConflictStep(w, t) \/ RejectStep(w, t)
    PROVE  ShownInv'
<1>1. \A h \in HireIds : hires'[h] # None => ShowsOK(hires'[h])
    BY StoredShows
<1>2. CASE Reply(w)
    BY <1>1, <1>2, ReplyShows
<1>3. task[w] \in Task /\ task[w].pc \in {"owner", "step", "notify"} /\ task[w].pc \in Holding
    BY DEF IInv, StateOK, CheckOwner, StartSteps, FinishSteps, NotifyProvider, ReplayStep, ConflictStep,
        RejectStep, NextStep, At, Holding
<1>4. ASSUME NEW l \in {"owner", "step"}, NEW todo,
             task' = [task EXCEPT ![w] = [task[w] EXCEPT !.pc = l, !.todo = todo]]
      PROVE  ShownInv'
    <2> DEFINE n == [task[w] EXCEPT !.pc = l, !.todo = todo]
    <2>1. n.pc = l /\ n.rec = task[w].rec /\ task' = [task EXCEPT ![w] = n]
        BY <1>3, <1>4 DEF Task
    <2> HIDE DEF n
    <2> QED
        BY <1>1, <1>3, <2>1, GoingOn DEF PutSaves
<1>5. CASE StartSteps(w)
    <2>1. task' = [task EXCEPT ![w] = [task[w] EXCEPT !.pc = "step", !.todo = task[w].req.txs]]
        BY <1>5 DEF StartSteps
    <2> QED
        BY <1>4, <2>1
<1>6. ASSUME NEW t, task' = [task EXCEPT ![w].todo = @ \ {t}], task[w].pc \in {"owner", "step"} PROVE ShownInv'
    <2>1. task' = [task EXCEPT ![w] = [task[w] EXCEPT !.pc = task[w].pc, !.todo = task[w].todo \ {t}]]
        BY <1>3, <1>6 DEF Task
    <2> QED
        BY <1>4, <1>6, <2>1
<1>7. ASSUME NEW l \in {"failPut", "notePut"}, NEW rec, rec.result = task[w].rec.result,
             rec.job = task[w].rec.job, rec.status = task[w].rec.status,
             task' = [task EXCEPT ![w] = [task[w] EXCEPT !.pc = l, !.rec = rec]]
      PROVE  ShownInv'
    <2> DEFINE n == [task[w] EXCEPT !.pc = l, !.rec = rec]
    <2>1. n.pc = l /\ n.rec = rec /\ task' = [task EXCEPT ![w] = n]
        BY <1>3, <1>7 DEF Task
    <2> HIDE DEF n
    <2>2. ShowsOK(rec)
        BY <1>3, <1>7 DEF ShownInv, HeldOK, ShowsOK
    <2>3. HeldOK(n)
        BY <2>1, <2>2 DEF HeldOK, PutSaves
    <2> QED
        BY <1>1, <2>1, <2>3, ShowStep
<1>8. task[w].rec \in HireRecord
    BY <1>3 DEF IInv, TaskOK
<1>9. CASE NotifyProvider(w)
    <2>1. PICK outcome : task' = [task EXCEPT ![w].pc = "notePut", ![w].rec.notify = outcome]
        BY <1>9 DEF NotifyProvider
    <2> DEFINE rec == [task[w].rec EXCEPT !.notify = outcome]
    <2>2. rec.result = task[w].rec.result /\ rec.job = task[w].rec.job /\ rec.status = task[w].rec.status
        BY <1>8 DEF HireRecord
    <2>3. task' = [task EXCEPT ![w] = [task[w] EXCEPT !.pc = "notePut", !.rec = rec]]
        BY <1>3, <2>1 DEF Task
    <2> HIDE DEF rec
    <2> QED
        BY <1>7, <2>2, <2>3
<1>10. ASSUME NEW t \in Tx, RejectStep(w, t) PROVE ShownInv'
    <2> DEFINE rec == [task[w].rec EXCEPT !.failure = "step"]
    <2>1. rec.result = task[w].rec.result /\ rec.job = task[w].rec.job /\ rec.status = task[w].rec.status
        BY <1>8 DEF HireRecord
    <2>2. task' = [task EXCEPT ![w] = [task[w] EXCEPT !.pc = "failPut", !.rec = rec]]
        BY <1>3, <1>10 DEF Task, RejectStep
    <2> HIDE DEF rec
    <2> QED
        BY <1>7, <2>1, <2>2
<1> QED
    BY <1>2, <1>5, <1>6, <1>9, <1>10
    DEF CheckOwner, FinishSteps, ReplayStep, ConflictStep, NextStep, At

(* A created job is named with its status, a funded one is funded.             *)
LEMMA AcceptShows ==
    ASSUME IInv, ShownInv, UNCHANGED <<chainVars, hires>>, NEW w \in Workers,
           NEW t \in Tx, AcceptStep(w, t)
    PROVE  ShownInv'
<1> DEFINE rec == task[w].rec
           new == Reconciled(rec, t)
           l == IF t.kind = "fund" THEN "consume" ELSE "stepPut"
           n == [task[w] EXCEPT !.pc = l, !.rec = new, !.todo = @ \ {t}]
<1>1. task[w].pc = "step" /\ Verifies(rec, t) /\ ~ Recorded(rec, t.kind)
    BY DEF AcceptStep, NextStep, At
<1>2. rec \in HireRecord /\ Verified(rec) /\ ShowsOK(rec)
    BY <1>1 DEF IInv, TaskOK, ShownInv, HeldOK, Holding
<1>3. t.kind \in Kinds /\ t.job \in Jobs
    BY DEF Tx
<1>4. ShowsOK(new)
    <2>1. CASE t.kind \in {"approve", "register", "budget"}
        <3>1. new.result = rec.result /\ new.job = rec.job /\ new.status = rec.status
            BY <1>2, <2>1 DEF Reconciled, HireRecord
        <3> QED
            BY <1>2, <3>1 DEF ShowsOK
    <2>2. CASE t.kind = "create"
        <3>1. new.result = rec.result /\ new.job = t.job /\ new.status = jobStatus[t.job]
            BY <1>2, <2>2 DEF Reconciled, HireRecord
        <3>2. rec.job = None
            BY <1>1, <1>2, <2>2 DEF Verified, Recorded, TxOf
        <3> QED
            BY <1>2, <3>1, <3>2 DEF ShowsOK, Upto
    <2>3. CASE t.kind = "fund"
        <3>1. new.result = rec.result /\ new.job = rec.job /\ new.status = "FUNDED"
            BY <1>2, <2>3 DEF Reconciled, HireRecord
        <3>2. rec.job = t.job /\ jobStatus[t.job] = "FUNDED"
            BY <1>1, <2>3 DEF Verifies
        <3> QED
            BY <1>2, <3>1, <3>2 DEF ShowsOK, Upto
    <2> QED
        BY <1>3, <2>1, <2>2, <2>3 DEF Kinds
<1>5. task[w] \in Task
    BY DEF IInv, StateOK
<1> HIDE DEF new
<1>6. n.pc = l /\ n.rec = new /\ task' = [task EXCEPT ![w] = n]
    BY <1>5 DEF AcceptStep, Task, new
<1> HIDE DEF n
<1>7. HeldOK(n)
    BY <1>4, <1>6 DEF HeldOK, PutSaves
<1> QED
    BY <1>6, <1>7, StoredShows, ShowStep

(* The views store the status they read; a result only of what was delivered.  *)
LEMMA ViewShows ==
    ASSUME IInv, ShownInv, UNCHANGED <<chainVars, hires>>, NEW w \in Workers,
           StopReading(w) \/ RefreshJob(w) \/ ResolveDelivery(w) \/ FetchDelivery(w)
    PROVE  ShownInv'
<1> DEFINE rec == task[w].rec
<1>1. \A h \in HireIds : hires'[h] # None => ShowsOK(hires'[h])
    BY StoredShows
<1>2. task[w].pc \in {"status", "fetch"} /\ task[w] \in Task
    BY DEF IInv, StateOK, StopReading, RefreshJob, ResolveDelivery, FetchDelivery, At
<1>3. rec \in HireRecord /\ ShowsOK(rec) /\ rec.job # None
    BY <1>2 DEF IInv, TaskOK, ShownInv, HeldOK, Holding
<1>4. ASSUME NEW l \in {"viewPut", "fetch"}, NEW new, ShowsOK(new),
             l = "fetch" => HasDeliverable(new.job),
             task' = [task EXCEPT ![w] = [task[w] EXCEPT !.pc = l, !.rec = new]]
      PROVE  ShownInv'
    <2> DEFINE n == [task[w] EXCEPT !.pc = l, !.rec = new]
    <2>1. n.pc = l /\ n.rec = new /\ task' = [task EXCEPT ![w] = n]
        BY <1>2, <1>4 DEF Task
    <2> HIDE DEF n
    <2>2. HeldOK(n)
        BY <1>4, <2>1 DEF HeldOK, PutSaves
    <2> QED
        BY <1>1, <2>1, <2>2, ShowStep
<1>5. CASE StopReading(w)
    BY <1>1, <1>5, ReplyShows DEF StopReading
<1>6. CASE RefreshJob(w)
    <2>1. PICK resolved \in BOOLEAN :
            task' = [task EXCEPT ![w].pc = "viewPut", ![w].rec.status = jobStatus[rec.job],
                                 ![w].rec.url = @ \/ (HasDeliverable(rec.job) /\ resolved)]
        BY <1>6 DEF RefreshJob
    <2> DEFINE url == rec.url \/ (HasDeliverable(rec.job) /\ resolved)
               new == [rec EXCEPT !.status = jobStatus[rec.job], !.url = url]
    <2>2. task' = [task EXCEPT ![w] = [task[w] EXCEPT !.pc = "viewPut", !.rec = new]]
        BY <1>2, <2>1 DEF Task
    <2> HIDE DEF url
    <2>3. new.result = rec.result /\ new.job = rec.job /\ new.status = jobStatus[rec.job]
        BY <1>3 DEF HireRecord
    <2> HIDE DEF new
    <2>4. ShowsOK(new)
        BY <1>3, <2>3 DEF ShowsOK, Upto
    <2> QED
        BY <1>4, <2>2, <2>4
<1>7. CASE ResolveDelivery(w)
    <2> DEFINE new == [rec EXCEPT !.status = jobStatus[rec.job], !.url = TRUE]
    <2>1. task' = [task EXCEPT ![w] = [task[w] EXCEPT !.pc = "fetch", !.rec = new]]
        BY <1>2, <1>7 DEF Task, ResolveDelivery
    <2>2. new.result = rec.result /\ new.job = rec.job /\ new.status = jobStatus[rec.job]
        BY <1>3 DEF HireRecord
    <2> HIDE DEF new
    <2>3. ShowsOK(new)
        BY <1>3, <2>2 DEF ShowsOK, Upto
    <2>4. HasDeliverable(new.job)
        BY <1>7, <2>2 DEF ResolveDelivery, HasDeliverable
    <2> QED
        BY <1>4, <2>1, <2>3, <2>4
<1>8. CASE FetchDelivery(w)
    <2>1. HasDeliverable(rec.job)
        BY <1>8 DEF FetchDelivery, At, ShownInv, HeldOK
    <2>2. ASSUME NEW new, new.job = rec.job, new.status = rec.status,
                 task' = [task EXCEPT ![w] = [task[w] EXCEPT !.pc = "viewPut", !.rec = new]]
          PROVE  ShownInv'
        <3>1. ShowsOK(new)
            BY <1>3, <2>1, <2>2 DEF ShowsOK
        <3> QED
            BY <1>4, <2>2, <3>1
    <2>3. CASE Goto(w, "viewPut")
        <3>1. task' = [task EXCEPT ![w] = [task[w] EXCEPT !.pc = "viewPut", !.rec = rec]]
            BY <1>2, <2>3 DEF Goto, Task
        <3> QED
            BY <2>2, <3>1
    <2>4. CASE task' = [task EXCEPT ![w].pc = "viewPut", ![w].rec.failure = "result"]
        <3> DEFINE new == [rec EXCEPT !.failure = "result"]
        <3>1. new.job = rec.job /\ new.status = rec.status
            BY <1>3 DEF HireRecord
        <3>2. task' = [task EXCEPT ![w] = [task[w] EXCEPT !.pc = "viewPut", !.rec = new]]
            BY <1>2, <2>4 DEF Task
        <3> HIDE DEF new
        <3> QED
            BY <2>2, <3>1, <3>2
    <2>5. CASE task' = [task EXCEPT ![w].pc = "viewPut", ![w].rec.failure = "none",
                                    ![w].rec.result = TRUE]
        <3> DEFINE new == [rec EXCEPT !.failure = "none", !.result = TRUE]
        <3>1. new.job = rec.job /\ new.status = rec.status
            BY <1>3 DEF HireRecord
        <3>2. task' = [task EXCEPT ![w] = [task[w] EXCEPT !.pc = "viewPut", !.rec = new]]
            BY <1>2, <2>5 DEF Task
        <3> HIDE DEF new
        <3> QED
            BY <2>2, <3>1, <3>2
    <2> QED
        BY <1>8, <2>3, <2>4, <2>5 DEF FetchDelivery
<1> QED
    BY <1>5, <1>6, <1>7, <1>8

LEMMA HandleShows ==
    ASSUME IInv, ShownInv, UNCHANGED chainVars, NEW w \in Workers, Handle(w)
    PROVE  ShownInv'
<1>1. CASE \/ EnterLock(w) \/ IssueLoad(w) \/ IssueSave(w) \/ ReadQuote(w) \/ CheckBuyer(w)
           \/ TransitionLoad(w) \/ ExpireSave(w) \/ ConsumeSave(w)
    BY <1>1, QuoteShows
<1>2. CASE FindHire(w) \/ ReadHire(w)
    BY <1>2, TakeShows DEF FindHire, ReadHire, documents
<1>3. CASE BindSave(w) \/ PutLoad(w) \/ SaveHire(w)
    BY <1>3, PutShows
<1>4. CASE \/ CheckOwner(w) \/ StartSteps(w) \/ FinishSteps(w) \/ NotifyProvider(w)
           \/ \E t \in Tx : ReplayStep(w, t) \/ ConflictStep(w, t) \/ RejectStep(w, t)
    <2>1. UNCHANGED hires
        BY <1>4 DEF CheckOwner, StartSteps, FinishSteps, NotifyProvider, ReplayStep, ConflictStep, RejectStep,
            documents
    <2> QED
        BY <1>4, <2>1, LoopShows
<1>5. ASSUME NEW t \in Tx, AcceptStep(w, t) PROVE ShownInv'
    BY <1>5, AcceptShows DEF AcceptStep, documents
<1>6. CASE StopReading(w) \/ RefreshJob(w) \/ ResolveDelivery(w) \/ FetchDelivery(w)
    BY <1>6, ViewShows DEF StopReading, RefreshJob, ResolveDelivery, FetchDelivery, documents
<1> QED
    BY <1>1, <1>2, <1>3, <1>4, <1>5, <1>6 DEF Handle

LEMMA ShownNextOK == IInv /\ ShownInv /\ [Next]_vars => ShownInv'
<1> SUFFICES ASSUME IInv, ShownInv, [Next]_vars PROVE ShownInv'
    OBVIOUS
<1>1. ASSUME NEW w \in Workers, Handle(w), UNCHANGED chainVars PROVE ShownInv'
    BY <1>1, HandleShows
<1>2. ASSUME NEW w \in Workers, NEW r \in Requests, Receive(w, r), UNCHANGED chainVars PROVE ShownInv'
    <2> DEFINE n == [IdleTask EXCEPT !.pc = Entry[r.op], !.req = r]
    <2>1. r.op \in Ops
        BY ServerAssumption DEF Request
    <2>2. n.pc \in {"issue", "lock", "read"}
        BY <2>1 DEF IdleTask, Entry, Ops
    <2>3. task' = [task EXCEPT ![w] = n]
        BY <1>2 DEF Receive
    <2> HIDE DEF n
    <2>4. HeldOK(n)
        BY <2>2 DEF HeldOK, Holding, PutLabels, PutSaves
    <2> QED
        BY <1>2, <2>3, <2>4, StoredShows, ShowStep DEF Receive, documents
<1>3. ASSUME Crash, UNCHANGED chainVars PROVE ShownInv'
    <2>1. HeldOK(IdleTask)'
        BY DEF HeldOK, IdleTask, Holding, PutSaves, PutLabels
    <2>2. \A w \in Workers : HeldOK(task[w])'
        BY <1>3, <2>1 DEF Crash, HeldOK, ShowsOK, HasDeliverable, Mined
    <2> QED
        BY <1>3, <2>2 DEF ShownInv, Crash, documents, chainVars, ChainOK, Stored, ShowsOK, HasDeliverable, Mined
<1>4. ASSUME UNCHANGED <<task, hires, chainVars>> PROVE ShownInv'
    BY <1>4 DEF ShownInv, chainVars, ChainOK, Stored, HeldOK, ShowsOK, HasDeliverable, Mined
<1>5. ASSUME NEW q \in Quotes, Lapse(q), UNCHANGED chainVars PROVE ShownInv'
    BY <1>4, <1>5 DEF Lapse, documents
<1>6. ASSUME NEW j \in Jobs, WalletStep(j) \/ ChainStep(j), UNCHANGED serverVars PROVE ShownInv'
    BY <1>6, ChainShows
<1>7. ASSUME UNCHANGED vars PROVE ShownInv'
    BY <1>4, <1>7 DEF vars, serverVars
<1> QED
    BY <1>1, <1>2, <1>3, <1>5, <1>6, <1>7 DEF Next, ServerStep

LEMMA ShownAlways == Spec => []ShownInv
<1>1. Init => ShownInv
    BY ShownInitOK
<1>2. IInv /\ ShownInv /\ [Next]_vars => ShownInv'
    BY ShownNextOK
<1> QED
    BY <1>1, <1>2, Invariant, PTL DEF Spec

(* The job and result routes: a result that is stored was delivered on chain,  *)
(* whatever a stale copy was written over, for any number of hires and jobs.   *)
THEOREM ResultsAreDelivered == Spec => []ResultDelivered
<1>1. ShownInv => ResultDelivered
    BY DEF ShownInv, ResultDelivered, ShowsOK
<1> QED
    BY <1>1, ShownAlways, PTL

(* A stored status is one the job has or has had.                             *)
THEOREM StatusIsPast == Spec => []StatusNeverAhead
<1>1. ShownInv => StatusNeverAhead
    BY DEF ShownInv, StatusNeverAhead, ShowsOK, Upto
<1> QED
    BY <1>1, ShownAlways, PTL

(* ------------------------ the step of a handler, in short ----------------- *)

(* The parts of the program that serve each kind of request.                 *)
Issuing == {"issue", "issuing"}

Preparing == {"expire", "expiring", "chain", "bind", "binding", "newPut", "newSave"}

Submitting ==
    {"owner", "step", "consume", "consuming", "notify", "notePut", "noteSave", "stepPut",
     "stepSave", "failPut", "failSave"}

Viewing == {"read", "status", "fetch", "viewPut", "viewSave"}

(* A handler stands where its kind of request brings it.                     *)
OfOp(t) ==
    /\ t.pc \in Issuing => t.req.op = "quote"
    /\ t.pc \in Preparing => t.req.op = "prepare"
    /\ t.pc \in Submitting => t.req.op = "submit"
    /\ t.pc \in Viewing => t.req.op \in {"job", "result"}

kept == <<quotes, hires, minted>>

(* The handler t becomes n with the same request, hire and copies.            *)
SameCopies(t, n) == n.req = t.req /\ n.id = t.id /\ n.rec = t.rec /\ n.hsnap = t.hsnap

(* It goes on, and looks at the quote at most.                               *)
GoesOn(t, n) ==
    \/ t.pc = "lock" /\ n.pc = "quote"
    \/ t.pc = "quote" /\ n.pc = "byKey"
    \/ t.pc = "quote" /\ n.pc = "expire" /\ t.req.op = "prepare"
    \/ t.pc = "byKey" /\ n.pc = "byQuote"
    \/ t.pc = "byQuote" /\ n.pc = "chain" /\ t.req.op # "submit"
    \/ t.pc = "chain" /\ n.pc = "bind"
    \/ t.pc = "issue" /\ n.pc = "issuing"
    \/ t.pc = "owner" /\ n.pc \in {"owner", "step"}
    \/ t.pc = "step" /\ n.pc = "step"
    \/ t.pc \in CasLabels /\ n.pc = CasSave[t.pc] /\ quotes[t.req.quote] \in CasFrom[t.pc]
    \/ /\ t.pc = "consume" /\ n.pc = "notify"
       /\ quotes[t.req.quote] \notin {"PREPARED", "ISSUED"}

Glides(t, n) == SameCopies(t, n) /\ GoesOn(t, n) /\ UNCHANGED kept

Stops(t, n) == t.pc # "idle" /\ n = IdleTask /\ UNCHANGED kept

(* It writes the quote document.                                            *)
Marks(t, n, status) ==
    /\ quotes' \in QuoteDoc
    /\ quotes'[t.req.quote] = status
    /\ UNCHANGED hires

Issues(t, n) == t.pc = "issuing" /\ n = IdleTask /\ Marks(t, n, "ISSUED") /\ UNCHANGED minted

Expires(t, n) == t.pc = "expiring" /\ n = IdleTask /\ Marks(t, n, "EXPIRED") /\ UNCHANGED minted

Consumes(t, n) ==
    /\ t.pc = "consuming" /\ n.pc = "notify" /\ SameCopies(t, n)
    /\ Marks(t, n, "CONSUMED")
    /\ UNCHANGED minted

Binds(t, n) ==
    /\ t.pc = "binding" /\ n.pc = "newPut" /\ n.req = t.req
    /\ Marks(t, n, "PREPARED")
    /\ n.id \in HireIds /\ minted[n.id] = None
    /\ minted' = [minted EXCEPT ![n.id] = t.req.quote]
    /\ n.rec.quote = t.req.quote /\ n.rec.state = "PREPARED"
    /\ n.rec.txs = {} /\ n.rec.job = None

(* It takes a copy of a record, or of the document.                          *)
Takes(t, n) ==
    /\ n.req = t.req /\ n.id \in HireIds /\ Stored(n.id) /\ n.rec = hires[n.id]
    /\ \/ /\ t.pc \in {"byKey", "byQuote"} /\ n.pc = "owner" /\ t.req.op = "submit"
          /\ n.rec.state # "FUNDED"
       \/ t.pc = "read" /\ n.pc = "status"
    /\ UNCHANGED kept

Loads(t, n) ==
    /\ t.pc \in PutLabels /\ n.pc = PutSave[t.pc]
    /\ n.req = t.req /\ n.id = t.id /\ n.rec = t.rec /\ n.hsnap = hires
    /\ UNCHANGED kept

Saves(t, n) ==
    /\ t.pc \in PutSaves
    /\ hires' = [t.hsnap EXCEPT ![t.id] = t.rec]
    /\ \/ t.pc = "noteSave" /\ n.pc = "stepPut" /\ SameCopies(t, n)
       \/ t.pc = "stepSave" /\ n.pc = "step" /\ SameCopies(t, n)
       \/ t.pc \notin {"noteSave", "stepSave"} /\ n = IdleTask
    /\ UNCHANGED <<quotes, minted>>

(* It rewrites its copy of the record: with a receipt, or in other fields.    *)
Accepts(t, n) ==
    /\ t.pc = "step" /\ n.req = t.req /\ n.id = t.id /\ n.hsnap = t.hsnap
    /\ n.rec.quote = t.rec.quote
    /\ t.rec.state # "FUNDED"
    /\ \E x \in Tx :
        /\ n.pc = IF x.kind = "fund" THEN "consume" ELSE "stepPut"
        /\ n.rec.txs = t.rec.txs \cup {x}
        /\ ~ Recorded(t.rec, x.kind)
        /\ x.kind \in {"register", "budget", "fund"} => t.rec.job = x.job
        /\ x.kind # "fund" => n.rec.state # "FUNDED"
        /\ t.rec.job # None => n.rec.job = t.rec.job
    /\ UNCHANGED kept

Edits(t, n) ==
    /\ n.req = t.req /\ n.id = t.id /\ n.hsnap = t.hsnap
    /\ n.rec.quote = t.rec.quote /\ n.rec.state = t.rec.state
    /\ n.rec.txs = t.rec.txs /\ n.rec.job = t.rec.job
    /\ \/ t.pc = "step" /\ n.pc = "failPut"
       \/ t.pc = "notify" /\ n.pc = "notePut"
       \/ t.pc = "status" /\ n.pc \in {"viewPut", "fetch"}
       \/ t.pc = "fetch" /\ n.pc = "viewPut"
    /\ UNCHANGED kept

Step(t, n) ==
    \/ Glides(t, n) \/ Stops(t, n)
    \/ Issues(t, n) \/ Expires(t, n) \/ Consumes(t, n) \/ Binds(t, n)
    \/ Takes(t, n) \/ Loads(t, n) \/ Saves(t, n)
    \/ Accepts(t, n) \/ Edits(t, n)

Steps(w) == \E n : task' = [task EXCEPT ![w] = n] /\ Step(task[w], n)

(* Every handler step is one of these.                                       *)
LEMMA GlideStep ==
    ASSUME IInv, NEW w \in Workers, UNCHANGED kept, NEW l, Goto(w, l),
           GoesOn(task[w], [task[w] EXCEPT !.pc = l])
    PROVE  Steps(w)
<1> DEFINE n == [task[w] EXCEPT !.pc = l]
<1>1. task[w] \in Task
    BY DEF IInv, StateOK
<1>2. SameCopies(task[w], n) /\ task' = [task EXCEPT ![w] = n]
    BY <1>1 DEF Goto, Task, SameCopies
<1> HIDE DEF n
<1>3. Glides(task[w], n)
    BY <1>2 DEF Glides, n
<1> QED
    BY <1>2, <1>3 DEF Steps, Step

LEMMA StopStep ==
    ASSUME NEW w \in Workers, task[w].pc # "idle", UNCHANGED kept, Reply(w)
    PROVE  Steps(w)
<1>1. Stops(task[w], IdleTask)
    BY DEF Stops
<1> QED
    BY <1>1 DEF Steps, Step, Reply

LEMMA QuoteSteps ==
    ASSUME IInv, NEW w \in Workers,
           \/ EnterLock(w) \/ IssueLoad(w) \/ ReadQuote(w) \/ CheckBuyer(w) \/ TransitionLoad(w)
    PROVE  Steps(w)
<1>1. UNCHANGED kept /\ task[w].pc # "idle" /\ task[w] \in Task
    BY DEF EnterLock, IssueLoad, ReadQuote, CheckBuyer, TransitionLoad, documents, clocks, kept, At, IInv,
        StateOK, CasLabels
<1>2. CASE Reply(w)
    BY <1>1, <1>2, StopStep
<1>3. ASSUME NEW l, Goto(w, l), GoesOn(task[w], [task[w] EXCEPT !.pc = l]) PROVE Steps(w)
    BY <1>1, <1>3, GlideStep
<1>4. \A l : LET n == [task[w] EXCEPT !.pc = l] IN n.pc = l /\ n.req = task[w].req
    BY <1>1 DEF Task
<1>5. CASE EnterLock(w)
    BY <1>3, <1>4, <1>5 DEF EnterLock, At, GoesOn
<1>6. CASE ReadQuote(w)
    BY <1>2, <1>3, <1>4, <1>6 DEF ReadQuote, At, GoesOn, QuoteLapsed
<1>7. CASE CheckBuyer(w)
    BY <1>2, <1>3, <1>4, <1>7 DEF CheckBuyer, At, GoesOn
<1>8. ASSUME NEW l, task' = [task EXCEPT ![w].pc = l, ![w].qsnap = quotes],
             \/ task[w].pc = "issue" /\ l = "issuing"
             \/ /\ task[w].pc \in CasLabels /\ l = CasSave[task[w].pc]
                /\ quotes[task[w].req.quote] \in CasFrom[task[w].pc]
      PROVE  Steps(w)
    <2> DEFINE n == [task[w] EXCEPT !.pc = l, !.qsnap = quotes]
    <2>1. n.pc = l /\ SameCopies(task[w], n) /\ task' = [task EXCEPT ![w] = n]
        BY <1>1, <1>8 DEF Task, SameCopies
    <2> HIDE DEF n
    <2>2. Glides(task[w], n)
        BY <1>1, <1>8, <2>1 DEF Glides, GoesOn
    <2> QED
        BY <2>1, <2>2 DEF Steps, Step
<1>9. CASE IssueLoad(w)
    BY <1>8, <1>9 DEF IssueLoad, At
<1>10. CASE TransitionLoad(w)
    <2>1. CASE quotes[task[w].req.quote] \in CasFrom[task[w].pc]
        <3>1. PICK l : l = CasSave[task[w].pc]
            OBVIOUS
        <3>2. task' = [task EXCEPT ![w].pc = l, ![w].qsnap = quotes]
            BY <1>10, <2>1, <3>1 DEF TransitionLoad
        <3> QED
            BY <1>8, <1>10, <2>1, <3>1, <3>2 DEF TransitionLoad
    <2>2. CASE quotes[task[w].req.quote] \notin CasFrom[task[w].pc]
        <3>1. CASE task[w].pc = "consume"
            <4>1. quotes[task[w].req.quote] \notin {"PREPARED", "ISSUED"}
                BY <2>2, <3>1 DEF CasFrom
            <4>2. Goto(w, "notify")
                BY <1>10, <2>2, <3>1 DEF TransitionLoad, At
            <4> QED
                BY <1>3, <1>4, <3>1, <4>1, <4>2 DEF GoesOn
        <3> QED
            BY <1>2, <1>10, <2>2, <3>1 DEF TransitionLoad, At
    <2> QED
        BY <2>1, <2>2
<1> QED
    BY <1>5, <1>6, <1>7, <1>9, <1>10

(* The quote document is written with one status changed.                     *)
LEMMA MarkSteps ==
    ASSUME IInv, NEW w \in Workers, task[w].req.quote \in Quotes,
           IssueSave(w) \/ ExpireSave(w) \/ ConsumeSave(w) \/ BindSave(w)
    PROVE  Steps(w)
<1> DEFINE t == task[w]
<1>1. t \in Task /\ t.pc \in HoldingQuotes
    BY DEF IInv, StateOK, IssueSave, ExpireSave, ConsumeSave, BindSave, At, HoldingQuotes, CasSaves
<1>2. t.qsnap \in QuoteDoc
    BY <1>1 DEF IInv, TaskOK
<1>3. ASSUME NEW status \in QuoteStatus, quotes' = [t.qsnap EXCEPT ![t.req.quote] = status]
      PROVE  quotes' \in QuoteDoc /\ quotes'[t.req.quote] = status
    BY <1>2, <1>3 DEF QuoteDoc
<1>4. CASE IssueSave(w)
    <2>1. quotes' \in QuoteDoc /\ quotes'[t.req.quote] = "ISSUED"
        BY <1>3, <1>4 DEF IssueSave, QuoteStatus
    <2>2. Issues(t, IdleTask)
        BY <1>4, <2>1 DEF Issues, Marks, IssueSave, At, clocks
    <2> QED
        BY <1>4, <2>2 DEF Steps, Step, IssueSave, Reply
<1>5. CASE ExpireSave(w)
    <2>1. quotes' \in QuoteDoc /\ quotes'[t.req.quote] = "EXPIRED"
        BY <1>3, <1>5 DEF ExpireSave, SaveTransition, CasTo, At, QuoteStatus
    <2>2. Expires(t, IdleTask)
        BY <1>5, <2>1 DEF Expires, Marks, ExpireSave, At, clocks
    <2> QED
        BY <1>5, <2>2 DEF Steps, Step, ExpireSave, Reply
<1>6. CASE ConsumeSave(w)
    <2> DEFINE n == [t EXCEPT !.pc = "notify"]
    <2>1. quotes' \in QuoteDoc /\ quotes'[t.req.quote] = "CONSUMED"
        BY <1>3, <1>6 DEF ConsumeSave, SaveTransition, CasTo, At, QuoteStatus
    <2>2. n.pc = "notify" /\ SameCopies(t, n) /\ task' = [task EXCEPT ![w] = n]
        BY <1>1, <1>6 DEF Goto, Task, SameCopies, ConsumeSave
    <2> HIDE DEF n
    <2>3. Consumes(t, n)
        BY <1>6, <2>1, <2>2 DEF Consumes, Marks, ConsumeSave, At, clocks
    <2> QED
        BY <2>2, <2>3 DEF Steps, Step
<1>7. CASE BindSave(w)
    <2>0. t.pc = "binding" /\ SaveTransition(w)
        BY <1>7 DEF BindSave, At
    <2>1. quotes' \in QuoteDoc /\ quotes'[t.req.quote] = "PREPARED"
        BY <1>3, <2>0 DEF SaveTransition, CasTo, QuoteStatus
    <2>2. PICK h \in HireIds :
            /\ minted[h] = None
            /\ minted' = [minted EXCEPT ![h] = t.req.quote]
            /\ task' = [task EXCEPT ![w].pc = "newPut", ![w].id = h,
                                    ![w].rec = NewHire(t.req.quote, t.req.key)]
        BY <1>7 DEF BindSave
    <2> DEFINE rec == NewHire(t.req.quote, t.req.key)
               n == [t EXCEPT !.pc = "newPut", !.id = h, !.rec = rec]
    <2>3. rec.quote = t.req.quote /\ rec.state = "PREPARED" /\ rec.txs = {} /\ rec.job = None
        BY DEF NewHire
    <2>4. /\ n.pc = "newPut" /\ n.id = h /\ n.rec = rec /\ n.req = t.req
          /\ task' = [task EXCEPT ![w] = n]
        BY <1>1, <2>2 DEF Task
    <2> HIDE DEF n, rec
    <2>5. Binds(t, n)
        BY <1>7, <2>1, <2>2, <2>3, <2>4 DEF Binds, Marks, BindSave, At
    <2> QED
        BY <2>4, <2>5 DEF Steps, Step
<1> QED
    BY <1>4, <1>5, <1>6, <1>7

(* A record is taken, the document is loaded or saved.                        *)
LEMMA CopySteps ==
    ASSUME IInv, NEW w \in Workers,
           FindHire(w) \/ ReadHire(w) \/ PutLoad(w) \/ SaveHire(w)
    PROVE  Steps(w)
<1> DEFINE t == task[w]
<1>1. t \in Task /\ t.pc # "idle"
    BY DEF IInv, StateOK, FindHire, ReadHire, PutLoad, SaveHire, At, PutLabels, PutSaves
<1>2. CASE FindHire(w)
    <2>1. UNCHANGED kept
        BY <1>2 DEF FindHire, documents, clocks, kept
    <2>2. CASE Reply(w)
        BY <1>1, <2>1, <2>2, StopStep
    <2>3. \A l : LET n == [t EXCEPT !.pc = l] IN n.pc = l /\ n.req = t.req
        BY <1>1 DEF Task
    <2>4. CASE t.pc = "byKey" /\ Goto(w, "byQuote")
        BY <2>1, <2>3, <2>4, GlideStep DEF GoesOn
    <2>5. CASE t.pc = "byQuote" /\ t.req.op # "submit" /\ Goto(w, "chain")
        BY <2>1, <2>3, <2>5, GlideStep DEF GoesOn
    <2>6. ASSUME NEW h \in Matches(w), Usable(w, h),
                 task' = [task EXCEPT ![w].pc = "owner", ![w].id = h, ![w].rec = hires[h],
                                      ![w].todo = task[w].req.txs]
          PROVE  Steps(w)
        <3> DEFINE n == [t EXCEPT !.pc = "owner", !.id = h, !.rec = hires[h], !.todo = t.req.txs]
        <3>1. /\ n.pc = "owner" /\ n.id = h /\ n.rec = hires[h] /\ n.req = t.req
              /\ task' = [task EXCEPT ![w] = n]
            BY <1>1, <2>6 DEF Task
        <3> HIDE DEF n
        <3>2. h \in HireIds /\ Stored(h)
            BY DEF Matches
        <3>3. Takes(t, n)
            BY <1>2, <2>1, <2>6, <3>1, <3>2 DEF Takes, FindHire, Usable
        <3> QED
            BY <3>1, <3>3 DEF Steps, Step
    <2> QED
        BY <1>2, <2>2, <2>4, <2>5, <2>6 DEF FindHire, At
<1>3. CASE ReadHire(w)
    <2> DEFINE r == t.req
    <2>1. UNCHANGED kept
        BY <1>3 DEF ReadHire, documents, clocks, kept
    <2>2. CASE Reply(w)
        BY <1>1, <2>1, <2>2, StopStep
    <2>3. ASSUME Readable(r),
                 task' = [task EXCEPT ![w].pc = "status", ![w].id = r.hire, ![w].rec = hires[r.hire]]
          PROVE  Steps(w)
        <3> DEFINE n == [t EXCEPT !.pc = "status", !.id = r.hire, !.rec = hires[r.hire]]
        <3>1. /\ n.pc = "status" /\ n.id = r.hire /\ n.rec = hires[r.hire] /\ n.req = r
              /\ task' = [task EXCEPT ![w] = n]
            BY <1>1, <2>3 DEF Task
        <3> HIDE DEF n
        <3>2. r.hire \in HireIds /\ Stored(r.hire)
            BY <1>3, <2>3, RequestType, ServerAssumption DEF Readable, ReadHire, At, IInv, TaskOK
        <3>3. Takes(t, n)
            BY <1>3, <2>1, <3>1, <3>2 DEF Takes, ReadHire, At
        <3> QED
            BY <3>1, <3>3 DEF Steps, Step
    <2> QED
        BY <1>3, <2>2, <2>3 DEF ReadHire
<1>4. CASE PutLoad(w)
    <2> DEFINE n == [t EXCEPT !.pc = PutSave[t.pc], !.hsnap = hires]
    <2>1. /\ n.pc = PutSave[t.pc] /\ n.req = t.req /\ n.id = t.id /\ n.rec = t.rec /\ n.hsnap = hires
          /\ task' = [task EXCEPT ![w] = n]
        BY <1>1, <1>4 DEF Task, PutLoad
    <2> HIDE DEF n
    <2>2. Loads(t, n)
        BY <1>4, <2>1 DEF Loads, PutLoad, documents, clocks, kept
    <2> QED
        BY <2>1, <2>2 DEF Steps, Step
<1>5. CASE SaveHire(w)
    <2>1. /\ t.pc \in PutSaves
          /\ hires' = [t.hsnap EXCEPT ![t.id] = t.rec]
          /\ UNCHANGED <<quotes, minted>>
        BY <1>5 DEF SaveHire, clocks
    <2>2. ASSUME NEW l, Goto(w, l), \/ t.pc = "noteSave" /\ l = "stepPut"
                                    \/ t.pc = "stepSave" /\ l = "step"
          PROVE  Steps(w)
        <3> DEFINE n == [t EXCEPT !.pc = l]
        <3>1. n.pc = l /\ SameCopies(t, n) /\ task' = [task EXCEPT ![w] = n]
            BY <1>1, <2>2 DEF Task, Goto, SameCopies
        <3> HIDE DEF n
        <3>2. Saves(t, n)
            BY <2>1, <2>2, <3>1 DEF Saves
        <3> QED
            BY <3>1, <3>2 DEF Steps, Step
    <2>3. CASE Reply(w) /\ t.pc \notin {"noteSave", "stepSave"}
        <3>1. Saves(t, IdleTask)
            BY <2>1, <2>3 DEF Saves
        <3> QED
            BY <2>3, <3>1 DEF Steps, Step, Reply
    <2> QED
        BY <1>5, <2>2, <2>3 DEF SaveHire, At
<1> QED
    BY <1>2, <1>3, <1>4, <1>5

(* A submission goes through its transactions.                                *)
LEMMA LoopSteps ==
    ASSUME IInv, NEW w \in Workers,
           \/ CheckOwner(w) \/ StartSteps(w) \/ FinishSteps(w) \/ NotifyProvider(w)
           \/ \E x \in Tx : ReplayStep(w, x) \/ ConflictStep(w, x) \/ RejectStep(w, x)
    PROVE  Steps(w)
<1> DEFINE t == task[w]
<1>1. UNCHANGED kept
    BY DEF CheckOwner, StartSteps, FinishSteps, NotifyProvider, ReplayStep, ConflictStep, RejectStep, documents,
        clocks, kept
<1>2. t \in Task /\ t.pc \in {"owner", "step", "notify"} /\ t.pc \in Holding
    BY DEF IInv, StateOK, CheckOwner, StartSteps, FinishSteps, NotifyProvider, ReplayStep, ConflictStep,
        RejectStep, NextStep, At, Holding
<1>3. CASE Reply(w)
    BY <1>1, <1>2, <1>3, StopStep
<1>4. ASSUME NEW l, NEW todo, task' = [task EXCEPT ![w] = [t EXCEPT !.pc = l, !.todo = todo]],
             \/ t.pc = "owner" /\ l \in {"owner", "step"}
             \/ t.pc = "step" /\ l = "step"
      PROVE  Steps(w)
    <2> DEFINE n == [t EXCEPT !.pc = l, !.todo = todo]
    <2>1. n.pc = l /\ SameCopies(t, n)
        BY <1>2 DEF Task, SameCopies
    <2> HIDE DEF n
    <2>2. Glides(t, n)
        BY <1>1, <1>4, <2>1 DEF Glides, GoesOn
    <2>3. task' = [task EXCEPT ![w] = n]
        BY <1>4 DEF n
    <2> QED
        BY <2>2, <2>3 DEF Steps, Step
<1>5. CASE StartSteps(w)
    <2>1. task' = [task EXCEPT ![w] = [t EXCEPT !.pc = "step", !.todo = t.req.txs]] /\ t.pc = "owner"
        BY <1>5 DEF StartSteps, At
    <2> QED
        BY <1>4, <2>1
<1>6. ASSUME NEW x, task' = [task EXCEPT ![w].todo = @ \ {x}], t.pc \in {"owner", "step"} PROVE Steps(w)
    <2>1. task' = [task EXCEPT ![w] = [t EXCEPT !.pc = t.pc, !.todo = t.todo \ {x}]]
        BY <1>2, <1>6 DEF Task
    <2> QED
        BY <1>4, <1>6, <2>1
<1>7. ASSUME NEW l, NEW rec, rec.quote = t.rec.quote, rec.state = t.rec.state, rec.txs = t.rec.txs,
             rec.job = t.rec.job,
             task' = [task EXCEPT ![w] = [t EXCEPT !.pc = l, !.rec = rec]],
             \/ t.pc = "step" /\ l = "failPut"
             \/ t.pc = "notify" /\ l = "notePut"
      PROVE  Steps(w)
    <2> DEFINE n == [t EXCEPT !.pc = l, !.rec = rec]
    <2>1. n.pc = l /\ n.rec = rec /\ n.req = t.req /\ n.id = t.id /\ n.hsnap = t.hsnap
        BY <1>2 DEF Task
    <2> HIDE DEF n
    <2>2. Edits(t, n)
        BY <1>1, <1>7, <2>1 DEF Edits
    <2>3. task' = [task EXCEPT ![w] = n]
        BY <1>7 DEF n
    <2> QED
        BY <2>2, <2>3 DEF Steps, Step
<1>8. t.rec \in HireRecord
    BY <1>2 DEF IInv, TaskOK
<1>9. CASE NotifyProvider(w)
    <2>1. PICK outcome : task' = [task EXCEPT ![w].pc = "notePut", ![w].rec.notify = outcome]
        BY <1>9 DEF NotifyProvider
    <2> DEFINE rec == [t.rec EXCEPT !.notify = outcome]
    <2>2. rec.quote = t.rec.quote /\ rec.state = t.rec.state /\ rec.txs = t.rec.txs /\ rec.job = t.rec.job
        BY <1>8 DEF HireRecord
    <2>3. task' = [task EXCEPT ![w] = [t EXCEPT !.pc = "notePut", !.rec = rec]] /\ t.pc = "notify"
        BY <1>2, <1>9, <2>1 DEF Task, NotifyProvider, At
    <2> HIDE DEF rec
    <2> QED
        BY <1>7, <2>2, <2>3
<1>10. ASSUME NEW x \in Tx, RejectStep(w, x) PROVE Steps(w)
    <2> DEFINE rec == [t.rec EXCEPT !.failure = "step"]
    <2>1. rec.quote = t.rec.quote /\ rec.state = t.rec.state /\ rec.txs = t.rec.txs /\ rec.job = t.rec.job
        BY <1>8 DEF HireRecord
    <2>2. task' = [task EXCEPT ![w] = [t EXCEPT !.pc = "failPut", !.rec = rec]] /\ t.pc = "step"
        BY <1>2, <1>10 DEF Task, RejectStep, NextStep, At
    <2> HIDE DEF rec
    <2> QED
        BY <1>7, <2>1, <2>2
<1> QED
    BY <1>3, <1>5, <1>6, <1>9, <1>10
    DEF CheckOwner, FinishSteps, ReplayStep, ConflictStep, NextStep, At

(* A transaction is accepted into a record that is not funded: fund comes last. *)
LEMMA AcceptSteps ==
    ASSUME IInv, NEW w \in Workers, NEW x \in Tx, AcceptStep(w, x)
    PROVE  Steps(w)
<1> DEFINE t == task[w]
           rec == t.rec
           new == Reconciled(rec, x)
           l == IF x.kind = "fund" THEN "consume" ELSE "stepPut"
           n == [t EXCEPT !.pc = l, !.rec = new, !.todo = @ \ {x}]
<1>1. /\ t.pc = "step" /\ Verifies(rec, x) /\ ~ Recorded(rec, x.kind) /\ x \in t.todo
      /\ UNCHANGED kept
    BY DEF AcceptStep, NextStep, At, documents, clocks, kept
<1>2. rec \in HireRecord /\ Verified(rec) /\ LoopOK(t)
    BY <1>1 DEF IInv, TaskOK, Holding
<1>3. x.kind \in Kinds /\ x.job \in Jobs
    BY DEF Tx
<1>4. rec.state # "FUNDED"
    <2>1. rec.state = "FUNDED" => x.kind = "fund"
        BY <1>1, <1>2 DEF LoopOK, Looping
    <2> QED
        BY <1>1, <1>2, <2>1 DEF Verified, Recorded
<1>5. x.kind = "create" => rec.job = None
    BY <1>1, <1>2 DEF Verified, Recorded, TxOf
<1>6. /\ new.quote = rec.quote /\ new.txs = rec.txs \cup {x}
      /\ x.kind # "fund" => new.state # "FUNDED"
      /\ rec.job # None => new.job = rec.job
    <2>1. CASE x.kind = "approve"
        BY <1>2, <1>4, <2>1 DEF Reconciled, HireRecord
    <2>2. CASE x.kind = "create"
        BY <1>2, <1>5, <2>2 DEF Reconciled, HireRecord
    <2>3. CASE x.kind = "register"
        BY <1>2, <2>3 DEF Reconciled, HireRecord
    <2>4. CASE x.kind = "budget"
        BY <1>2, <2>4 DEF Reconciled, HireRecord
    <2>5. CASE x.kind = "fund"
        BY <1>2, <2>5 DEF Reconciled, HireRecord
    <2> QED
        BY <1>3, <2>1, <2>2, <2>3, <2>4, <2>5 DEF Kinds
<1>7. t \in Task
    BY DEF IInv, StateOK
<1> HIDE DEF new
<1>8. /\ n.pc = l /\ n.rec = new /\ n.req = t.req /\ n.id = t.id /\ n.hsnap = t.hsnap
      /\ task' = [task EXCEPT ![w] = n]
    BY <1>7 DEF AcceptStep, Task, new
<1> HIDE DEF n
<1>9. x.kind \in {"register", "budget", "fund"} => rec.job = x.job
    BY <1>1 DEF Verifies
<1>10. Accepts(t, n)
    BY <1>1, <1>4, <1>6, <1>8, <1>9 DEF Accepts
<1> QED
    BY <1>8, <1>10 DEF Steps, Step

(* A view reads the job and rewrites what it shows.                           *)
LEMMA ViewSteps ==
    ASSUME IInv, NEW w \in Workers,
           StopReading(w) \/ RefreshJob(w) \/ ResolveDelivery(w) \/ FetchDelivery(w)
    PROVE  Steps(w)
<1> DEFINE t == task[w]
           rec == t.rec
<1>1. UNCHANGED kept /\ t \in Task /\ t.pc \in {"status", "fetch"}
    BY DEF StopReading, RefreshJob, ResolveDelivery, FetchDelivery, At, documents, clocks, kept, IInv, StateOK
<1>2. rec \in HireRecord
    BY <1>1 DEF IInv, TaskOK, Holding
<1>3. ASSUME NEW l, NEW new, new.quote = rec.quote, new.state = rec.state, new.txs = rec.txs,
             new.job = rec.job,
             task' = [task EXCEPT ![w] = [t EXCEPT !.pc = l, !.rec = new]],
             \/ t.pc = "status" /\ l \in {"viewPut", "fetch"}
             \/ t.pc = "fetch" /\ l = "viewPut"
      PROVE  Steps(w)
    <2> DEFINE n == [t EXCEPT !.pc = l, !.rec = new]
    <2>1. n.pc = l /\ n.rec = new /\ n.req = t.req /\ n.id = t.id /\ n.hsnap = t.hsnap
        BY <1>1 DEF Task
    <2> HIDE DEF n
    <2>2. Edits(t, n)
        BY <1>1, <1>3, <2>1 DEF Edits
    <2>3. task' = [task EXCEPT ![w] = n]
        BY <1>3 DEF n
    <2> QED
        BY <2>2, <2>3 DEF Steps, Step
<1>4. CASE StopReading(w)
    BY <1>1, <1>4, StopStep DEF StopReading
<1>5. CASE RefreshJob(w)
    <2>1. PICK resolved \in BOOLEAN :
            task' = [task EXCEPT ![w].pc = "viewPut", ![w].rec.status = jobStatus[rec.job],
                                 ![w].rec.url = @ \/ (HasDeliverable(rec.job) /\ resolved)]
        BY <1>5 DEF RefreshJob
    <2> DEFINE url == rec.url \/ (HasDeliverable(rec.job) /\ resolved)
               new == [rec EXCEPT !.status = jobStatus[rec.job], !.url = url]
    <2>2. task' = [task EXCEPT ![w] = [t EXCEPT !.pc = "viewPut", !.rec = new]]
        BY <1>1, <2>1 DEF Task
    <2>4. t.pc = "status"
        BY <1>5 DEF RefreshJob, At
    <2> HIDE DEF url
    <2>3. new.quote = rec.quote /\ new.state = rec.state /\ new.txs = rec.txs /\ new.job = rec.job
        BY <1>2 DEF HireRecord
    <2> HIDE DEF new
    <2> QED
        BY <1>3, <2>2, <2>3, <2>4
<1>6. CASE ResolveDelivery(w)
    <2> DEFINE new == [rec EXCEPT !.status = jobStatus[rec.job], !.url = TRUE]
    <2>1. task' = [task EXCEPT ![w] = [t EXCEPT !.pc = "fetch", !.rec = new]] /\ t.pc = "status"
        BY <1>1, <1>6 DEF Task, ResolveDelivery, At
    <2>2. new.quote = rec.quote /\ new.state = rec.state /\ new.txs = rec.txs /\ new.job = rec.job
        BY <1>2 DEF HireRecord
    <2> HIDE DEF new
    <2> QED
        BY <1>3, <2>1, <2>2
<1>7. CASE FetchDelivery(w)
    <2>0. t.pc = "fetch"
        BY <1>7 DEF FetchDelivery, At
    <2>1. CASE Goto(w, "viewPut")
        <3>1. task' = [task EXCEPT ![w] = [t EXCEPT !.pc = "viewPut", !.rec = rec]]
            BY <1>1, <2>1 DEF Goto, Task
        <3> QED
            BY <1>3, <2>0, <3>1
    <2>2. CASE task' = [task EXCEPT ![w].pc = "viewPut", ![w].rec.failure = "result"]
        <3> DEFINE new == [rec EXCEPT !.failure = "result"]
        <3>1. new.quote = rec.quote /\ new.state = rec.state /\ new.txs = rec.txs /\ new.job = rec.job
            BY <1>2 DEF HireRecord
        <3>2. task' = [task EXCEPT ![w] = [t EXCEPT !.pc = "viewPut", !.rec = new]]
            BY <1>1, <2>2 DEF Task
        <3> HIDE DEF new
        <3> QED
            BY <1>3, <2>0, <3>1, <3>2
    <2>3. CASE task' = [task EXCEPT ![w].pc = "viewPut", ![w].rec.failure = "none",
                                    ![w].rec.result = TRUE]
        <3> DEFINE new == [rec EXCEPT !.failure = "none", !.result = TRUE]
        <3>1. new.quote = rec.quote /\ new.state = rec.state /\ new.txs = rec.txs /\ new.job = rec.job
            BY <1>2 DEF HireRecord
        <3>2. task' = [task EXCEPT ![w] = [t EXCEPT !.pc = "viewPut", !.rec = new]]
            BY <1>1, <2>3 DEF Task
        <3> HIDE DEF new
        <3> QED
            BY <1>3, <2>0, <3>1, <3>2
    <2> QED
        BY <1>7, <2>1, <2>2, <2>3 DEF FetchDelivery
<1> QED
    BY <1>4, <1>5, <1>6, <1>7

LEMMA HandleSteps ==
    ASSUME IInv, NEW w \in Workers, Handle(w)
    PROVE  Steps(w) /\ UNCHANGED issued
<1>1. UNCHANGED issued
    BY DEF Handle, EnterLock, IssueLoad, IssueSave, ReadQuote, FindHire, CheckBuyer, TransitionLoad, ExpireSave,
        BindSave, ConsumeSave, PutLoad, SaveHire, CheckOwner, StartSteps, FinishSteps, NotifyProvider,
        ReplayStep, ConflictStep, AcceptStep, RejectStep, ReadHire, StopReading, RefreshJob, ResolveDelivery,
        FetchDelivery, clocks
<1>2. task[w].pc # "idle" => task[w].req.quote \in Quotes
    BY RequestType DEF Request
<1>3. Steps(w)
    <2>1. CASE \/ EnterLock(w) \/ IssueLoad(w) \/ ReadQuote(w) \/ CheckBuyer(w) \/ TransitionLoad(w)
        BY <2>1, QuoteSteps
    <2>2. CASE IssueSave(w) \/ ExpireSave(w) \/ ConsumeSave(w) \/ BindSave(w)
        <3>1. task[w].pc # "idle"
            BY <2>2 DEF IssueSave, ExpireSave, ConsumeSave, BindSave, At
        <3> QED
            BY <1>2, <2>2, <3>1, MarkSteps
    <2>3. CASE FindHire(w) \/ ReadHire(w) \/ PutLoad(w) \/ SaveHire(w)
        BY <2>3, CopySteps
    <2>4. CASE \/ CheckOwner(w) \/ StartSteps(w) \/ FinishSteps(w) \/ NotifyProvider(w)
               \/ \E x \in Tx : ReplayStep(w, x) \/ ConflictStep(w, x) \/ RejectStep(w, x)
        BY <2>4, LoopSteps
    <2>5. ASSUME NEW x \in Tx, AcceptStep(w, x) PROVE Steps(w)
        BY <2>5, AcceptSteps
    <2>6. CASE StopReading(w) \/ RefreshJob(w) \/ ResolveDelivery(w) \/ FetchDelivery(w)
        BY <2>6, ViewSteps
    <2> QED
        BY <2>1, <2>2, <2>3, <2>4, <2>5, <2>6 DEF Handle
<1> QED
    BY <1>1, <1>3

(* -------------------- one quote: who may write its status ----------------- *)

(* Every request that is about a quote is about q.                           *)
OnlyQuote(q) == \A r \in Requests : r.op \notin {"job", "result"} => r.quote = q

Opened == \E h \in HireIds : minted[h] # None

(* A quote is issued once, before anything else, and bound to no hire before   *)
(* the one that is being bound.                                              *)
TurnOK(q, t) ==
    /\ t.pc \in Issuing => quotes[q] = None /\ q \in issued
    /\ t.pc \in CasSaves => quotes[q] # None
    /\ t.pc = "binding" => ~ Opened

IssuedOnce(q) ==
    \A v, w \in Workers : task[v].pc \in Issuing /\ task[w].pc \in Issuing => v = w

QuoteInv(q) ==
    /\ \A w \in Workers : OfOp(task[w]) /\ TurnOK(q, task[w])
    /\ IssuedOnce(q)
    /\ \A h \in HireIds : minted[h] \in {None, q}
    /\ Opened => quotes[q] \notin {None, "ISSUED"}
    /\ OneHirePerQuote
    /\ q \notin issued => quotes[q] = None

(* Nobody else stands where this handler stands in its lock: requests of one    *)
(* kind about one quote take the same lock, because they spell it alike.       *)
LEMMA Alone ==
    ASSUME IInv, NEW q \in Quotes, OnlyQuote(q), SpeltAlike, NEW v \in Workers, NEW w \in Workers,
           task[v].pc \notin {"idle", "lock"}, task[w].pc \notin {"idle", "lock"},
           task[v].req.op \in Locking, task[w].req.op = task[v].req.op
    PROVE  v = w
<1>1. task[v].req \in Requests /\ task[w].req \in Requests
    BY RequestType
<1>2. task[v].req.quote = q /\ task[w].req.quote = q
    BY <1>1 DEF OnlyQuote, Locking
<1>3. LockKey(task[v].req) = LockKey(task[w].req)
    BY <1>1, <1>2 DEF LockKey, SpeltAlike
<1> DEFINE k == LockKey(task[v].req)
<1>4. StandsIn(v, locks[k]) /\ StandsIn(w, locks[k])
    BY <1>3 DEF IInv, Queued
<1> HIDE DEF k
<1>5. locks[k][1] = v /\ locks[k][1] = w
    BY <1>4 DEF StandsIn
<1> QED
    BY <1>5

(* Where a handler goes, its kind of request brings it.                       *)
LEMMA StepOfOp ==
    ASSUME NEW t, NEW n, OfOp(t), Step(t, n),
           t.pc \in InLocked => t.req.op \in Locking
    PROVE  OfOp(n) /\ t.pc # "idle"
<1> USE DEF OfOp, Issuing, Preparing, Submitting, Viewing
<1>1. CASE Stops(t, n) \/ Issues(t, n) \/ Expires(t, n)
    BY <1>1 DEF Stops, Issues, Expires, IdleTask
<1>2. CASE Glides(t, n)
    BY <1>2 DEF Glides, GoesOn, SameCopies, CasLabels, CasSave, InLocked, Locking
<1>3. CASE Consumes(t, n) \/ Binds(t, n)
    BY <1>3 DEF Consumes, Binds, SameCopies
<1>4. CASE Takes(t, n)
    BY <1>4 DEF Takes
<1>5. CASE Loads(t, n)
    BY <1>5 DEF Loads, PutLabels, PutSave
<1>6. CASE Saves(t, n)
    <2>1. n.pc = "idle" \/ (n.req = t.req /\ t.pc \in {"noteSave", "stepSave"} /\ n.pc \in {"stepPut", "step"})
        BY <1>6 DEF Saves, SameCopies, IdleTask
    <2>2. t.pc # "idle"
        BY <1>6 DEF Saves, PutSaves
    <2> QED
        BY <2>1, <2>2
<1>7. CASE Accepts(t, n)
    BY <1>7 DEF Accepts
<1>8. CASE Edits(t, n)
    BY <1>8 DEF Edits
<1> QED
    BY <1>1, <1>2, <1>3, <1>4, <1>5, <1>6, <1>7, <1>8 DEF Step

(* What a handler stands to write to the quote document, and when it may.      *)
LEMMA StepTurn ==
    ASSUME NEW q \in Quotes, NEW t, NEW n, Step(t, n), UNCHANGED issued,
           OfOp(t), TurnOK(q, t),
           t.pc # "idle" /\ t.req.op \notin {"job", "result"} => t.req.quote = q,
           t.pc \in InLocked => t.req.op \in Locking,
           Opened => quotes[q] \notin {None, "ISSUED"}
    PROVE  /\ n.pc \in Issuing => t.pc \in Issuing /\ quotes' = quotes
           /\ n.pc \in CasSaves => quotes' = quotes /\ quotes[q] # None
           /\ n.pc = "binding" => ~ Opened
           /\ t.pc \notin {"issuing"} \cup CasSaves => quotes' = quotes /\ minted' = minted
           /\ t.pc \in {"issuing", "expiring", "consuming"} => minted' = minted
           /\ t.pc = "issuing" => quotes'[q] \in {quotes[q], "ISSUED"}
           /\ t.pc \in CasSaves => quotes'[q] \in {quotes[q], "EXPIRED", "CONSUMED", "PREPARED"}
           /\ t.pc \in {"expiring", "consuming"} =>
                \/ quotes'[q] \in {"EXPIRED", "CONSUMED"}
                \/ quotes' = quotes /\ n.pc = "idle"
           /\ \/ minted' = minted
              \/ /\ t.pc = "binding" /\ n.id \in HireIds
                 /\ minted' = [minted EXCEPT ![n.id] = q]
                 /\ quotes'[q] = "PREPARED"
<1> USE DEF Issuing, Preparing, Submitting, Viewing, CasSaves, kept
<1>1. CASE Stops(t, n)
    <2>1. n.pc = "idle" /\ quotes' = quotes /\ minted' = minted
        BY <1>1 DEF Stops, IdleTask
    <2>2. n.pc \notin {"issue", "issuing", "expiring", "binding", "consuming"}
        BY <2>1
    <2> HIDE DEF Stops
    <2> QED
        BY <2>1, <2>2
<1>2. CASE Glides(t, n)
    <2>1. UNCHANGED <<quotes, minted>>
        BY <1>2 DEF Glides
    <2>2. n.pc \in Issuing => t.pc \in Issuing
        BY <1>2 DEF Glides, GoesOn, CasLabels, CasSave
    <2>3. ASSUME n.pc \in CasSaves
          PROVE  /\ t.pc \in CasLabels /\ n.pc = CasSave[t.pc]
                 /\ quotes[t.req.quote] \in CasFrom[t.pc]
        BY <1>2, <2>3 DEF Glides, GoesOn
    <2>4. n.pc \in CasSaves => t.req.quote = q
        BY <2>3 DEF OfOp, CasLabels, InLocked, Locking
    <2>5. n.pc \in CasSaves => quotes[q] \in {"ISSUED", "PREPARED"}
        BY <2>3, <2>4 DEF CasFrom, CasLabels
    <2>6. n.pc = "binding" => quotes[q] = "ISSUED"
        BY <2>3, <2>4 DEF CasFrom, CasLabels, CasSave
    <2>7. None \notin {"ISSUED", "PREPARED"}
        BY NullAssumption DEF QuoteStatus
    <2>8. t.pc \in CasSaves => FALSE
        BY <1>2 DEF Glides, GoesOn, CasLabels
    <2> QED
        BY <2>1, <2>2, <2>5, <2>6, <2>7, <2>8
<1>3. CASE Issues(t, n)
    BY <1>3 DEF Issues, Marks, IdleTask, OfOp
<1>4. CASE Expires(t, n)
    BY <1>4 DEF Expires, Marks, IdleTask, OfOp
<1>5. CASE Consumes(t, n)
    BY <1>5 DEF Consumes, Marks, OfOp
<1>6. CASE Binds(t, n)
    BY <1>6 DEF Binds, Marks, OfOp
<1>7. CASE Takes(t, n)
    BY <1>7 DEF Takes
<1>8. CASE Loads(t, n)
    BY <1>8 DEF Loads, PutLabels, PutSave
<1>9. CASE Saves(t, n)
    BY <1>9 DEF Saves, PutSaves, IdleTask
<1>10. CASE Accepts(t, n)
    BY <1>10 DEF Accepts
<1>11. CASE Edits(t, n)
    BY <1>11 DEF Edits
<1> QED
    BY <1>1, <1>2, <1>3, <1>4, <1>5, <1>6, <1>7, <1>8, <1>9, <1>10, <1>11 DEF Step

LEMMA QuoteHandle ==
    ASSUME NEW q \in Quotes, OnlyQuote(q), SpeltAlike, IInv, QuoteInv(q), NEW w \in Workers, Handle(w)
    PROVE  QuoteInv(q)'
<1> DEFINE t == task[w]
<1>1. UNCHANGED issued /\ Steps(w)
    BY HandleSteps
<1>2. PICK n : task' = [task EXCEPT ![w] = n] /\ Step(t, n)
    BY <1>1 DEF Steps
<1>3. /\ OfOp(t) /\ TurnOK(q, t) /\ TaskOK(t)
      /\ t.pc \in InLocked => t.req.op \in Locking
    BY DEF QuoteInv, IInv, TaskOK
<1>4. OfOp(n) /\ t.pc # "idle"
    BY <1>2, <1>3, StepOfOp
<1>5. t.pc # "idle" /\ t.req.op \notin {"job", "result"} => t.req.quote = q
    BY RequestType DEF OnlyQuote
<1>6. Opened => quotes[q] \notin {None, "ISSUED"}
    BY DEF QuoteInv
<1>7. /\ n.pc \in Issuing => t.pc \in Issuing /\ quotes' = quotes
      /\ n.pc \in CasSaves => quotes' = quotes /\ quotes[q] # None
      /\ n.pc = "binding" => ~ Opened
      /\ t.pc \notin {"issuing"} \cup CasSaves => quotes' = quotes /\ minted' = minted
      /\ t.pc \in {"issuing", "expiring", "consuming"} => minted' = minted
      /\ t.pc = "issuing" => quotes'[q] \in {quotes[q], "ISSUED"}
      /\ t.pc \in CasSaves => quotes'[q] \in {quotes[q], "EXPIRED", "CONSUMED", "PREPARED"}
      /\ \/ minted' = minted
         \/ /\ t.pc = "binding" /\ n.id \in HireIds
            /\ minted' = [minted EXCEPT ![n.id] = q]
            /\ quotes'[q] = "PREPARED"
    BY <1>1, <1>2, <1>3, <1>5, <1>6, StepTurn
<1>8. None \notin {"ISSUED", "EXPIRED", "CONSUMED", "PREPARED"}
    BY NullAssumption DEF QuoteStatus
<1>9. task'[w] = n /\ \A v \in Workers : v # w => task'[v] = task[v]
    BY <1>2 DEF IInv, StateOK
<1>10. minted \in [HireIds -> Quotes \cup {None}] /\ None \notin Quotes
    BY ChainAssumption DEF IInv, StateOK
<1>11. CASE t.pc \notin {"issuing"} \cup CasSaves
    <2>1. UNCHANGED <<quotes, minted, issued>>
        BY <1>1, <1>7, <1>11
    <2>2. Opened' = Opened
        BY <2>1 DEF Opened
    <2>3. TurnOK(q, n)'
        BY <1>3, <1>7, <2>1, <2>2 DEF TurnOK, CasSaves, Issuing
    <2>4. ASSUME NEW v \in Workers PROVE OfOp(task[v])' /\ TurnOK(q, task[v])'
        <3>1. CASE v = w
            BY <1>4, <1>9, <2>3, <3>1 DEF OfOp, TurnOK, Opened
        <3>2. CASE v # w
            BY <1>9, <2>1, <2>2, <3>2 DEF QuoteInv, OfOp, TurnOK
        <3> QED
            BY <3>1, <3>2
    <2>5. IssuedOnce(q)'
        BY <1>7, <1>9 DEF QuoteInv, IssuedOnce
    <2>6. OneHirePerQuote'
        BY <2>1 DEF QuoteInv, OneHirePerQuote
    <2> QED
        BY <2>1, <2>2, <2>4, <2>5, <2>6 DEF QuoteInv
<1>12. CASE t.pc = "issuing"
    <2>1. UNCHANGED <<minted, issued>> /\ quotes'[q] \in {quotes[q], "ISSUED"} /\ q \in issued
        BY <1>1, <1>3, <1>7, <1>12 DEF TurnOK, Issuing
    <2>2. Opened' = Opened /\ ~ Opened
        BY <1>3, <1>6, <1>12, <2>1 DEF Opened, TurnOK, Issuing
    <2>3. n.pc \notin CasSaves \cup {"binding"}
        BY <1>3, <1>7, <1>12 DEF TurnOK, Issuing, CasSaves
    <2>4. TurnOK(q, n)'
        BY <1>3, <1>7, <1>12, <2>1, <2>3 DEF TurnOK, Issuing
    <2>5. ASSUME NEW v \in Workers, v # w PROVE task[v].pc \notin Issuing
        BY <1>12, <2>5 DEF QuoteInv, IssuedOnce, Issuing
    <2>6. ASSUME NEW v \in Workers PROVE OfOp(task[v])' /\ TurnOK(q, task[v])'
        <3>1. CASE v = w
            BY <1>4, <1>9, <2>4, <3>1 DEF OfOp, TurnOK, Opened
        <3>2. CASE v # w
            <4>1. OfOp(task[v]) /\ TurnOK(q, task[v]) /\ task'[v] = task[v]
                BY <1>9, <3>2 DEF QuoteInv
            <4> QED
                BY <1>8, <2>1, <2>2, <2>5, <3>2, <4>1 DEF OfOp, TurnOK
        <3> QED
            BY <3>1, <3>2
    <2>7. IssuedOnce(q)'
        BY <1>7, <1>9 DEF QuoteInv, IssuedOnce
    <2>8. OneHirePerQuote'
        BY <2>1 DEF QuoteInv, OneHirePerQuote
    <2> QED
        BY <2>1, <2>2, <2>6, <2>7, <2>8 DEF QuoteInv
<1>13. CASE t.pc \in CasSaves
    <2>1. /\ quotes[q] # None
          /\ quotes'[q] \in {quotes[q], "EXPIRED", "CONSUMED", "PREPARED"}
        BY <1>3, <1>7, <1>13 DEF TurnOK
    <2>2. quotes'[q] # None /\ q \in issued
        BY <1>8, <2>1 DEF QuoteInv
    <2>3. \A v \in Workers : task[v].pc \notin Issuing
        BY <2>1 DEF QuoteInv, TurnOK
    <2>4. t.pc # "binding" => minted' = minted
        BY <1>7, <1>13 DEF CasSaves
    <2>5. CASE minted' = minted
        <3>1. Opened' = Opened
            BY <2>5 DEF Opened
        <3>2. ASSUME NEW v \in Workers PROVE OfOp(task[v])' /\ TurnOK(q, task[v])'
            <4>1. CASE v = w
                BY <1>4, <1>7, <1>9, <2>2, <2>3, <3>1, <4>1 DEF OfOp, TurnOK
            <4>2. CASE v # w
                <5>1. OfOp(task[v]) /\ TurnOK(q, task[v]) /\ task'[v] = task[v]
                    BY <1>9, <4>2 DEF QuoteInv
                <5> QED
                    BY <2>2, <2>3, <3>1, <5>1 DEF OfOp, TurnOK
            <4> QED
                BY <4>1, <4>2
        <3>3. IssuedOnce(q)'
            BY <1>7, <1>9 DEF QuoteInv, IssuedOnce
        <3>4. Opened' => quotes'[q] \notin {None, "ISSUED"}
            BY <1>6, <2>1, <2>2, <3>1
        <3> QED
            BY <1>1, <2>2, <2>5, <3>2, <3>3, <3>4 DEF QuoteInv, OneHirePerQuote
    <2>6. CASE /\ t.pc = "binding" /\ n.id \in HireIds
               /\ minted' = [minted EXCEPT ![n.id] = q]
               /\ quotes'[q] = "PREPARED"
        <3>1. \A h \in HireIds : minted[h] = None
            BY <1>3, <2>6 DEF TurnOK, Opened
        <3>2. \A h \in HireIds : minted'[h] = IF h = n.id THEN q ELSE None
            BY <1>10, <2>6, <3>1
        <3>3. OneHirePerQuote'
            BY <3>2 DEF OneHirePerQuote
        <3>4. n.pc \notin CasSaves \cup Issuing
            BY <1>2, <2>3, <2>6 , <1>7 DEF Step, Stops, Glides, GoesOn, CasLabels, Issues, Expires, Consumes,
                Binds, Takes, Loads, PutLabels, Saves, PutSaves, Accepts, Edits, IdleTask, CasSaves, Issuing
        <3>5. ASSUME NEW v \in Workers, v # w PROVE task[v].pc # "binding"
            BY <1>3, <1>5, <2>6, <3>5, Alone DEF QuoteInv, OfOp, Preparing, Locking
        <3>6. ASSUME NEW v \in Workers PROVE OfOp(task[v])' /\ TurnOK(q, task[v])'
            <4>1. CASE v = w
                BY <1>4, <1>9, <3>4, <4>1 DEF OfOp, TurnOK, CasSaves
            <4>2. CASE v # w
                <5>1. OfOp(task[v]) /\ TurnOK(q, task[v]) /\ task'[v] = task[v]
                    BY <1>9, <4>2 DEF QuoteInv
                <5> QED
                    BY <2>2, <2>3, <3>5, <4>2, <5>1 DEF OfOp, TurnOK
            <4> QED
                BY <4>1, <4>2
        <3>7. IssuedOnce(q)'
            BY <1>7, <1>9 DEF QuoteInv, IssuedOnce
        <3>8. quotes'[q] \notin {None, "ISSUED"}
            BY <2>2, <2>6
        <3> QED
            BY <1>1, <2>2, <3>2, <3>3, <3>6, <3>7, <3>8 DEF QuoteInv
    <2> QED
        BY <1>7, <2>5, <2>6
<1> QED
    BY <1>11, <1>12, <1>13

LEMMA QuoteReceive ==
    ASSUME NEW q \in Quotes, OnlyQuote(q), SpeltAlike, IInv, QuoteInv(q), NEW w \in Workers, NEW r \in Requests,
           Receive(w, r)
    PROVE  QuoteInv(q)'
<1> DEFINE n == [IdleTask EXCEPT !.pc = Entry[r.op], !.req = r]
<1>1. r.op \in Ops
    BY ServerAssumption DEF Request
<1>2. /\ n.pc = Entry[r.op] /\ n.req = r /\ n.pc \in {"issue", "lock", "read"}
      /\ n.pc = "issue" => r.op = "quote"
      /\ n.pc = "read" => r.op \in {"job", "result"}
    BY <1>1 DEF IdleTask, Entry, Ops
<1>3. task' = [task EXCEPT ![w] = n]
    BY DEF Receive
<1> HIDE DEF n
<1>4. task'[w] = n /\ \A v \in Workers : v # w => task'[v] = task[v]
    BY <1>3 DEF IInv, StateOK
<1>5. UNCHANGED <<quotes, minted>> /\ issued \subseteq issued'
    BY DEF Receive, documents
<1>6. Opened' = Opened
    BY <1>5 DEF Opened
<1>7. r.op = "quote" => r.quote = q /\ q \notin issued /\ q \in issued'
    BY DEF Receive, OnlyQuote
<1>8. OfOp(n) /\ TurnOK(q, n)'
    BY <1>2, <1>5, <1>7 DEF OfOp, TurnOK, Issuing, Preparing, Submitting, Viewing, CasSaves, QuoteInv
<1>9. ASSUME NEW v \in Workers PROVE OfOp(task[v])' /\ TurnOK(q, task[v])'
    <2>1. CASE v = w
        BY <1>4, <1>8, <2>1 DEF OfOp, TurnOK
    <2>2. CASE v # w
        <3>1. OfOp(task[v]) /\ TurnOK(q, task[v]) /\ task'[v] = task[v]
            BY <1>4, <2>2 DEF QuoteInv
        <3> QED
            BY <1>5, <1>6, <3>1 DEF OfOp, TurnOK
    <2> QED
        BY <2>1, <2>2
<1>10. n.pc \in Issuing => \A v \in Workers : task[v].pc \notin Issuing
    BY <1>2, <1>7 DEF QuoteInv, TurnOK, Issuing
<1>11. IssuedOnce(q)'
    BY <1>4, <1>10 DEF QuoteInv, IssuedOnce
<1> QED
    BY <1>5, <1>6, <1>9, <1>11 DEF QuoteInv, OneHirePerQuote

LEMMA QuoteNext ==
    ASSUME NEW q \in Quotes, OnlyQuote(q), SpeltAlike, IInv, QuoteInv(q), [Next]_vars
    PROVE  QuoteInv(q)'
<1>1. ASSUME NEW w \in Workers, Handle(w) PROVE QuoteInv(q)'
    BY <1>1, QuoteHandle
<1>2. ASSUME NEW w \in Workers, NEW r \in Requests, Receive(w, r) PROVE QuoteInv(q)'
    BY <1>2, QuoteReceive
<1>3. CASE Crash
    <2>1. UNCHANGED <<quotes, minted, issued>> /\ \A w \in Workers : task'[w].pc = "idle"
        BY <1>3 DEF Crash, documents, clocks, IdleTask
    <2>2. Opened' = Opened
        BY <2>1 DEF Opened
    <2>3. \A w \in Workers : OfOp(task[w])' /\ TurnOK(q, task[w])'
        BY <2>1 DEF OfOp, TurnOK, Issuing, Preparing, Submitting, Viewing, CasSaves
    <2>4. IssuedOnce(q)'
        BY <2>1 DEF IssuedOnce, Issuing
    <2> QED
        BY <2>1, <2>2, <2>3, <2>4 DEF QuoteInv, OneHirePerQuote
<1>4. CASE UNCHANGED <<quotes, minted, issued, task>>
    BY <1>4 DEF QuoteInv, OfOp, TurnOK, Opened, IssuedOnce, OneHirePerQuote
<1> QED
    BY <1>1, <1>2, <1>3, <1>4 DEF Next, ServerStep, Lapse, documents, vars, serverVars

LEMMA QuoteAlways ==
    ASSUME NEW q \in Quotes, OnlyQuote(q), SpeltAlike
    PROVE  Spec => []QuoteInv(q)
<1>1. Init => QuoteInv(q)
    BY DEF Init, ServerInit, QuoteInv, OfOp, TurnOK, Opened, IssuedOnce, OneHirePerQuote, IdleTask, Issuing,
        Preparing, Submitting, Viewing, CasSaves
<1>2. IInv /\ QuoteInv(q) /\ [Next]_vars => QuoteInv(q)'
    BY QuoteNext
<1> QED
    BY <1>1, <1>2, Invariant, PTL DEF Spec

(* The lock of the quote is enough for clients that spell its id alike: while    *)
(* every request is about one quote, no two hire records are made for it,        *)
(* whatever is retried, expires or crashes.  Without SpeltAlike it is false:     *)
(* two spellings take two locks.                                              *)
THEOREM QuoteOpensOneHire ==
    ASSUME NEW q \in Quotes, OnlyQuote(q), SpeltAlike
    PROVE  Spec => []OneHirePerQuote
<1>1. QuoteInv(q) => OneHirePerQuote
    BY DEF QuoteInv
<1> QED
    BY <1>1, QuoteAlways, PTL

(* ------------------------ one quote: funded is closed --------------------- *)

Closed(q) == quotes[q] \in {"CONSUMED", "EXPIRED"}

HiresOK(q, doc) ==
    \A h \in HireIds : doc[h] # None =>
        /\ doc[h].quote = q /\ minted[h] = q
        /\ doc[h].state = "FUNDED" => Closed(q)

CopyOK(q, t) ==
    /\ t.pc \in Holding => t.rec.quote = q /\ minted[t.id] = q
    /\ (t.pc \in Holding \ {"consume", "consuming"} /\ t.rec.state = "FUNDED") => Closed(q)
    /\ t.pc \in PutSaves => HiresOK(q, t.hsnap)

ClosedInv(q) == HiresOK(q, hires) /\ \A w \in Workers : CopyOK(q, task[w])

(* A quote that has its hire stays closed once it is.                         *)
LEMMA StaysClosed ==
    ASSUME NEW q \in Quotes, OnlyQuote(q), SpeltAlike, IInv, QuoteInv(q), NEW w \in Workers,
           NEW n, Step(task[w], n), UNCHANGED issued
    PROVE  /\ Opened /\ Closed(q) => Closed(q)'
           /\ \A h \in HireIds : minted[h] = q => minted'[h] = q
           /\ task[w].pc = "consuming" /\ n.pc # "idle" => Closed(q)'
<1> DEFINE t == task[w]
<1>1. /\ OfOp(t) /\ TurnOK(q, t)
      /\ t.pc \in InLocked => t.req.op \in Locking
    BY DEF QuoteInv, IInv, TaskOK
<1>2. t.pc # "idle" /\ t.req.op \notin {"job", "result"} => t.req.quote = q
    BY RequestType DEF OnlyQuote
<1>3. Opened => quotes[q] \notin {None, "ISSUED"}
    BY DEF QuoteInv
<1>4. /\ t.pc \notin {"issuing"} \cup CasSaves => quotes' = quotes /\ minted' = minted
      /\ t.pc \in {"expiring", "consuming"} =>
            \/ quotes'[q] \in {"EXPIRED", "CONSUMED"}
            \/ quotes' = quotes /\ n.pc = "idle"
      /\ \/ minted' = minted
         \/ /\ t.pc = "binding" /\ n.id \in HireIds
            /\ minted' = [minted EXCEPT ![n.id] = q]
            /\ quotes'[q] = "PREPARED"
    BY <1>1, <1>2, <1>3, StepTurn
<1>5. minted \in [HireIds -> Quotes \cup {None}]
    BY DEF IInv, StateOK
<1>6. \A h \in HireIds : minted[h] = q => minted'[h] = q
    BY <1>4, <1>5
<1>7. t.pc \in {"issuing", "binding"} => ~ (Opened /\ Closed(q))
    BY <1>1, NullAssumption DEF TurnOK, Issuing, Closed, QuoteStatus
<1> QED
    BY <1>4, <1>6, <1>7 DEF Closed, CasSaves

LEMMA HiresStay ==
    ASSUME NEW q, NEW doc, HiresOK(q, doc), Opened /\ Closed(q) => Closed(q)',
           \A h \in HireIds : minted[h] = q => minted'[h] = q, q # None
    PROVE  HiresOK(q, doc)'
BY DEF HiresOK, Opened

LEMMA CopyStays ==
    ASSUME NEW q, NEW t, CopyOK(q, t), TaskOK(t), Opened /\ Closed(q) => Closed(q)',
           \A h \in HireIds : minted[h] = q => minted'[h] = q, q # None
    PROVE  CopyOK(q, t)'
<1>1. t.pc \in PutSaves => HiresOK(q, t.hsnap)'
    BY HiresStay DEF CopyOK
<1>2. t.pc \in Holding => t.id \in HireIds
    BY DEF TaskOK
<1> QED
    BY <1>1, <1>2 DEF CopyOK, Opened

(* What a handler holds after a step is of q, and closed if it is funded; so is *)
(* what it wrote.                                                            *)
LEMMA CopyStep ==
    ASSUME NEW q \in Quotes, OnlyQuote(q), SpeltAlike, IInv, QuoteInv(q), ClosedInv(q), NEW w \in Workers,
           NEW t, t = task[w], NEW old, old = hires, NEW new, new = hires',
           NEW n, Step(t, n), UNCHANGED issued
    PROVE  CopyOK(q, n)' /\ HiresOK(q, new)'
<1>1. /\ Opened /\ Closed(q) => Closed(q)'
      /\ \A h \in HireIds : minted[h] = q => minted'[h] = q
      /\ t.pc = "consuming" /\ n.pc # "idle" => Closed(q)'
    <2>1. Step(task[w], n)
        OBVIOUS
    <2>2. /\ Opened /\ Closed(q) => Closed(q)'
          /\ \A h \in HireIds : minted[h] = q => minted'[h] = q
          /\ task[w].pc = "consuming" /\ n.pc # "idle" => Closed(q)'
        BY <2>1, StaysClosed
    <2> QED
        BY <2>2
<1>2. q # None
    BY ChainAssumption
<1>3. CopyOK(q, t) /\ TaskOK(t) /\ OfOp(t) /\ HiresOK(q, old)
    BY DEF ClosedInv, IInv, QuoteInv
<1>4. CopyOK(q, t)' /\ HiresOK(q, old)'
    BY <1>1, <1>2, <1>3, CopyStays, HiresStay
<1>5. t.pc # "idle" /\ t.req.op \notin {"job", "result"} => t.req.quote = q
    BY RequestType DEF OnlyQuote
<1>6. /\ t.pc \in Holding => t.id \in HireIds
      /\ t.pc \in PutSaves => t.hsnap \in HireDoc
    BY <1>3 DEF TaskOK, DocOK
<1>7. HiresOK(q, new)'
    <2>1. CASE Saves(t, n)
        <3>1. new = [t.hsnap EXCEPT ![t.id] = t.rec] /\ t.pc \in PutSaves /\ t.pc \in Holding
            BY <2>1 DEF Saves, Holding
        <3>2. \A h \in HireIds : new[h] = IF h = t.id THEN t.rec ELSE t.hsnap[h]
            BY <1>6, <3>1 DEF HireDoc
        <3>3. HiresOK(q, t.hsnap)'
            BY <1>4, <3>1 DEF CopyOK
        <3>4. t.rec.quote = q /\ minted'[t.id] = q /\ (t.rec.state = "FUNDED" => Closed(q)')
            BY <1>4, <3>1 DEF CopyOK, PutSaves
        <3> QED
            BY <3>2, <3>3, <3>4 DEF HiresOK
    <2>2. CASE ~ Saves(t, n)
        <3>1. new = old
            BY <2>2 DEF Step, Stops, Glides, Issues, Expires, Consumes, Marks, Binds, Takes, Loads, Accepts, Edits,
                kept
        <3> QED
            BY <1>4, <3>1
    <2> QED
        BY <2>1, <2>2
<1>8. CopyOK(q, n)'
    <2>1. CASE Stops(t, n) \/ Issues(t, n) \/ Expires(t, n)
        BY <2>1 DEF Stops, Issues, Expires, IdleTask, CopyOK, Holding, PutLabels, PutSaves
    <2>2. CASE Glides(t, n)
        <3>1. n.pc \notin PutSaves /\ (n.pc \in Holding => t.pc \in Holding)
            BY <2>2 DEF Glides, GoesOn, CasLabels, CasSave, Holding, PutLabels, PutSaves
        <3>2. n.rec = t.rec /\ n.id = t.id
            BY <2>2 DEF Glides, SameCopies
        <3>3. ASSUME n.pc \in Holding \ {"consume", "consuming"}, n.rec.state = "FUNDED"
              PROVE  Closed(q)'
            <4>1. CASE t.pc \in Holding \ {"consume", "consuming"}
                BY <1>4, <3>2, <3>3, <4>1 DEF CopyOK
            <4>2. CASE t.pc = "consume"
                <5>1. quotes[t.req.quote] \notin {"PREPARED", "ISSUED"} /\ UNCHANGED quotes
                    BY <2>2, <3>3, <4>2 DEF Glides, GoesOn, CasLabels, CasSave, kept
                <5>2. t.req.quote = q
                    BY <1>3, <1>5, <4>2 DEF OfOp, Submitting
                <5>3. Opened
                    BY <1>2, <1>3, <1>6, <4>2 DEF CopyOK, Holding, Opened
                <5>4. quotes[q] \in QuoteStatus \cup {None} /\ quotes[q] # None
                    BY <5>3 DEF QuoteInv, IInv, StateOK, QuoteDoc
                <5> QED
                    BY <5>1, <5>2, <5>4 DEF Closed, QuoteStatus
            <4>3. t.pc # "consuming"
                BY <2>2 DEF Glides, GoesOn, CasLabels
            <4> QED
                BY <3>1, <3>3, <4>1, <4>2, <4>3
        <3> QED
            BY <1>4, <3>1, <3>2, <3>3 DEF CopyOK
    <2>3. CASE Consumes(t, n)
        BY <1>1, <1>4, <2>3 DEF Consumes, SameCopies, CopyOK, Holding, PutSaves
    <2>4. CASE Binds(t, n)
        <3>1. t.req.quote = q
            BY <1>3, <1>5, <2>4 DEF Binds, OfOp, Preparing
        <3>2. minted \in [HireIds -> Quotes \cup {None}]
            BY DEF IInv, StateOK
        <3>3. n.rec.quote = q /\ minted'[n.id] = q /\ n.rec.state = "PREPARED" /\ n.pc = "newPut"
            BY <2>4, <3>1, <3>2 DEF Binds
        <3> QED
            BY <3>3 DEF CopyOK, PutSaves
    <2>5. CASE Takes(t, n)
        <3>1. n.id \in HireIds /\ old[n.id] # None /\ n.rec = old[n.id] /\ n.pc \in {"owner", "status"}
            BY <2>5 DEF Takes, Stored
        <3>2. n.rec.quote = q /\ minted'[n.id] = q /\ (n.rec.state = "FUNDED" => Closed(q)')
            BY <1>4, <3>1 DEF HiresOK
        <3> QED
            BY <3>1, <3>2 DEF CopyOK, PutSaves
    <2>6. CASE Loads(t, n)
        <3>1. /\ t.pc \in Holding \ {"consume", "consuming"}
              /\ n.rec = t.rec /\ n.id = t.id /\ n.hsnap = old
            BY <2>6 DEF Loads, Holding, PutLabels
        <3> QED
            BY <1>4, <3>1 DEF CopyOK
    <2>7. CASE Saves(t, n)
        <3>1. \/ n.pc = "idle"
              \/ /\ t.pc \in Holding \ {"consume", "consuming"} /\ n.pc \in {"stepPut", "step"}
                 /\ n.rec = t.rec /\ n.id = t.id
            BY <2>7 DEF Saves, SameCopies, IdleTask, Holding, PutSaves
        <3> QED
            BY <1>4, <3>1 DEF CopyOK, Holding, PutLabels, PutSaves
    <2>8. CASE Accepts(t, n)
        <3>1. /\ t.pc \in Holding /\ n.id = t.id /\ n.rec.quote = t.rec.quote
              /\ n.pc = "consume" \/ (n.pc = "stepPut" /\ n.rec.state # "FUNDED")
            BY <2>8 DEF Accepts, Holding
        <3> QED
            BY <1>4, <3>1 DEF CopyOK, PutSaves
    <2>9. CASE Edits(t, n)
        <3>1. /\ t.pc \in Holding \ {"consume", "consuming"} /\ n.pc \notin PutSaves
              /\ n.id = t.id /\ n.rec.quote = t.rec.quote /\ n.rec.state = t.rec.state
            BY <2>9 DEF Edits, Holding, PutSaves
        <3> QED
            BY <1>4, <3>1 DEF CopyOK
    <2> QED
        BY <2>1, <2>2, <2>3, <2>4, <2>5, <2>6, <2>7, <2>8, <2>9 DEF Step
<1> QED
    BY <1>7, <1>8

LEMMA ClosedHandle ==
    ASSUME NEW q \in Quotes, OnlyQuote(q), SpeltAlike, IInv, QuoteInv(q), ClosedInv(q), NEW w \in Workers, Handle(w)
    PROVE  ClosedInv(q)'
<1>1. UNCHANGED issued /\ Steps(w)
    BY HandleSteps
<1>2. PICK n : task' = [task EXCEPT ![w] = n] /\ Step(task[w], n)
    BY <1>1 DEF Steps
<1>3. \A new : new = hires' => HiresOK(q, new)'
    BY <1>1, <1>2, CopyStep
<1>4. HiresOK(q, hires)'
    BY <1>3 DEF HiresOK
<1>5. CopyOK(q, n)'
    <2>1. PICK t, old, new : t = task[w] /\ old = hires /\ new = hires'
        OBVIOUS
    <2>2. Step(t, n)
        BY <1>2, <2>1
    <2> QED
        BY <1>1, <2>1, <2>2, CopyStep
<1>6. task'[w] = n /\ \A v \in Workers : v # w => task'[v] = task[v]
    BY <1>2 DEF IInv, StateOK
<1>7. ASSUME NEW v \in Workers PROVE CopyOK(q, task[v])'
    <2>1. CASE v = w
        BY <1>5, <1>6, <2>1 DEF CopyOK
    <2>2. CASE v # w
        <3>1. PICK t : t = task[v]
            OBVIOUS
        <3>2. CopyOK(q, t) /\ TaskOK(t) /\ q # None
            BY <3>1, ChainAssumption DEF ClosedInv, IInv
        <3>3. CopyOK(q, t)'
            BY <1>1, <1>2, <3>2, StaysClosed, CopyStays
        <3> QED
            BY <1>6, <2>2, <3>1, <3>3 DEF CopyOK
    <2> QED
        BY <2>1, <2>2
<1> QED
    BY <1>4, <1>7 DEF ClosedInv

LEMMA ClosedNext ==
    ASSUME NEW q \in Quotes, OnlyQuote(q), SpeltAlike, IInv, QuoteInv(q), ClosedInv(q), [Next]_vars
    PROVE  ClosedInv(q)'
<1>1. ASSUME NEW w \in Workers, Handle(w) PROVE ClosedInv(q)'
    BY <1>1, ClosedHandle
<1>2. ASSUME UNCHANGED <<quotes, hires, minted>>,
             \A v \in Workers : task'[v] = task[v] \/ task'[v].pc \notin Holding
      PROVE  ClosedInv(q)'
    <2>1. HiresOK(q, hires)'
        BY <1>2 DEF ClosedInv, HiresOK, Closed
    <2>2. ASSUME NEW v \in Workers PROVE CopyOK(q, task[v])'
        BY <1>2 DEF ClosedInv, CopyOK, HiresOK, Closed, Holding
    <2> QED
        BY <2>1, <2>2 DEF ClosedInv
<1>3. ASSUME NEW w \in Workers, NEW r \in Requests, Receive(w, r) PROVE ClosedInv(q)'
    <2> DEFINE n == [IdleTask EXCEPT !.pc = Entry[r.op], !.req = r]
    <2>1. r.op \in Ops
        BY ServerAssumption DEF Request
    <2>2. n.pc \notin Holding
        BY <2>1 DEF IdleTask, Entry, Ops, Holding, PutLabels, PutSaves
    <2>3. task' = [task EXCEPT ![w] = n]
        BY <1>3 DEF Receive
    <2> HIDE DEF n
    <2>4. \A v \in Workers : task'[v] = task[v] \/ task'[v].pc \notin Holding
        BY <2>2, <2>3 DEF IInv, StateOK
    <2> QED
        BY <1>2, <1>3, <2>4 DEF Receive, documents
<1>4. CASE Crash
    <2>1. \A v \in Workers : task'[v].pc \notin Holding
        BY <1>4 DEF Crash, IdleTask, Holding, PutLabels, PutSaves
    <2> QED
        BY <1>2, <1>4, <2>1 DEF Crash, documents, clocks
<1>5. CASE UNCHANGED <<quotes, hires, minted, task>>
    BY <1>2, <1>5
<1> QED
    BY <1>1, <1>3, <1>4, <1>5 DEF Next, ServerStep, Lapse, documents, vars, serverVars

LEMMA ClosedAlways ==
    ASSUME NEW q \in Quotes, OnlyQuote(q), SpeltAlike
    PROVE  Spec => []ClosedInv(q)
<1>1. Init => ClosedInv(q)
    BY DEF Init, ServerInit, ClosedInv, HiresOK, CopyOK, IdleTask, Holding, PutLabels, PutSaves
<1>2. IInv /\ QuoteInv(q) /\ ClosedInv(q) /\ [Next]_vars => ClosedInv(q)'
    BY ClosedNext
<1> QED
    BY <1>1, <1>2, Invariant, QuoteAlways, PTL DEF Spec

(* While every request is about one quote, spelt alike: when a hire is stored    *)
(* as funded its quote is consumed, or expired, and can be bound or resumed no  *)
(* more.                                                                      *)
THEOREM FundedIsClosed ==
    ASSUME NEW q \in Quotes, OnlyQuote(q), SpeltAlike
    PROVE  Spec => []FundedQuoteClosed
<1>1. ClosedInv(q) => FundedQuoteClosed
    BY DEF ClosedInv, HiresOK, Closed, FundedQuoteClosed, Stored
<1> QED
    BY <1>1, ClosedAlways, PTL

(* ---------------------- one quote, no views: the ledger ------------------- *)

(* No job or result request, which store a record without a lock.             *)
NoViews == \A r \in Requests : r.op \notin {"job", "result"}

(* The handler may hold one receipt that is not stored yet.                   *)
Carrying == {"consume", "consuming", "notify", "notePut", "noteSave", "stepPut", "stepSave"}

(* A receipt that may follow txs: the wallet's steps in order, fund last.      *)
MayFollow(txs, x) ==
    /\ \A y \in txs : y.kind \notin {"fund", x.kind}
    /\ x.kind \in {"register", "budget", "fund"} =>
            \E c \in txs : c.kind = "create" /\ c.job = x.job

AheadOf(old, rec) ==
    /\ rec.quote = old.quote
    /\ old.job # None => rec.job = old.job
    /\ \/ rec.txs = old.txs
       \/ \E x \in Tx : rec.txs = old.txs \cup {x} /\ MayFollow(old.txs, x)

(* Who is to write the hires: nobody else wrote since it read them.           *)
WriterOK(t) ==
    /\ t.pc \in {"newPut", "newSave"} => (\A h \in HireIds : ~ Stored(h)) /\ t.rec.txs = {}
    /\ t.pc \in Submitting =>
        /\ Stored(t.id) /\ AheadOf(hires[t.id], t.rec)
        /\ t.pc \notin Carrying => t.rec.txs = hires[t.id].txs
    /\ t.pc \in PutSaves => t.hsnap = hires

WriterInv == \A w \in Workers : WriterOK(task[w])

(* What a step may do to the stored hires: open the first, or add a receipt.   *)
HireWritten(q) ==
    \/ UNCHANGED hires
    \/ \E h \in HireIds, rec \in HireRecord :
        /\ hires' = [hires EXCEPT ![h] = rec]
        /\ rec.quote = q
        /\ \/ (\A g \in HireIds : ~ Stored(g)) /\ rec.txs = {}
           \/ Stored(h) /\ AheadOf(hires[h], rec)

(* With no views in between, an open quote or a submission is all there is.    *)
LEMMA NotViewing ==
    ASSUME NoViews, IInv, NEW w \in Workers, OfOp(task[w])
    PROVE  /\ task[w].pc \notin Viewing
           /\ task[w].pc \in PutSaves => task[w].pc \in Submitting \cup {"newSave"}
<1>1. task[w].pc # "idle" => task[w].req.op \notin {"job", "result"}
    BY RequestType DEF NoViews
<1>2. task[w].pc \notin Viewing
    BY <1>1 DEF OfOp, Viewing
<1> QED
    BY <1>2 DEF Viewing, PutSaves, Submitting

(* Binding a quote, the handler finds no hire stored.                         *)
LEMMA NoneBefore ==
    ASSUME NEW q \in Quotes, QuoteInv(q), ClosedInv(q), NEW w \in Workers, task[w].pc = "binding"
    PROVE  \A h \in HireIds : ~ Stored(h)
<1>1. ~ Opened
    BY DEF QuoteInv, TurnOK
<1>2. q # None
    BY ChainAssumption
<1> QED
    BY <1>1, <1>2 DEF ClosedInv, HiresOK, Opened, Stored

(* What the handler saves.                                                   *)
LEMMA SaveWritten ==
    ASSUME NEW q \in Quotes, OnlyQuote(q), SpeltAlike, NoViews, IInv, QuoteInv(q), ClosedInv(q), WriterInv,
           NEW w \in Workers, NEW t, t = task[w], NEW n, Saves(t, n)
    PROVE  /\ t.id \in HireIds /\ t.rec \in HireRecord /\ t.rec.quote = q
           /\ hires' = [hires EXCEPT ![t.id] = t.rec]
           /\ \/ t.pc = "newSave" /\ (\A g \in HireIds : ~ Stored(g)) /\ t.rec.txs = {}
              \/ t.pc \in Submitting /\ Stored(t.id) /\ AheadOf(hires[t.id], t.rec)
<1>1. t.pc \in PutSaves /\ t.pc \in Holding /\ hires' = [t.hsnap EXCEPT ![t.id] = t.rec]
    BY DEF Saves, Holding
<1>2. OfOp(t) /\ TaskOK(t) /\ CopyOK(q, t) /\ WriterOK(t)
    BY DEF QuoteInv, IInv, ClosedInv, WriterInv
<1>3. t.pc \in Submitting \cup {"newSave"}
    BY <1>1, <1>2, NotViewing
<1>4. t.hsnap = hires
    BY <1>1, <1>2 DEF WriterOK
<1>5. t.id \in HireIds /\ t.rec \in HireRecord /\ t.rec.quote = q
    BY <1>1, <1>2 DEF TaskOK, CopyOK
<1> QED
    BY <1>1, <1>2, <1>3, <1>4, <1>5 DEF WriterOK

LEMMA StepWritten ==
    ASSUME NEW q \in Quotes, OnlyQuote(q), SpeltAlike, NoViews, IInv, QuoteInv(q), ClosedInv(q), WriterInv,
           NEW w \in Workers, NEW n, Step(task[w], n)
    PROVE  HireWritten(q)
<1>1. PICK t : t = task[w]
    OBVIOUS
<1>2. Step(t, n)
    BY <1>1
<1>3. CASE Saves(t, n)
    <2>1. /\ t.id \in HireIds /\ t.rec \in HireRecord /\ t.rec.quote = q
          /\ hires' = [hires EXCEPT ![t.id] = t.rec]
          /\ \/ (\A g \in HireIds : ~ Stored(g)) /\ t.rec.txs = {}
             \/ Stored(t.id) /\ AheadOf(hires[t.id], t.rec)
        BY <1>1, <1>3, SaveWritten
    <2> QED
        BY <2>1 DEF HireWritten
<1>4. CASE ~ Saves(t, n)
    BY <1>2, <1>4 DEF Step, Stops, Glides, Issues, Expires, Consumes, Marks, Binds, Takes, Loads, Accepts, Edits,
        kept, HireWritten
<1> QED
    BY <1>3, <1>4

(* The handler itself, after its step.                                       *)
LEMMA WriterStep ==
    ASSUME NEW q \in Quotes, OnlyQuote(q), SpeltAlike, NoViews, IInv, QuoteInv(q), ClosedInv(q), WriterInv,
           NEW w \in Workers, NEW t, t = task[w], NEW n, Step(t, n)
    PROVE  WriterOK(n)'
<1>1. OfOp(t) /\ TaskOK(t) /\ WriterOK(t)
    BY DEF QuoteInv, IInv, WriterInv
<1>2. t.pc \notin Viewing
    BY <1>1, NotViewing
<1>3. t.pc \in Submitting => t.pc \in Holding
    BY DEF Submitting, Holding, PutLabels, PutSaves
<1>4. ~ Saves(t, n) => UNCHANGED hires
    BY DEF Step, Stops, Glides, Issues, Expires, Consumes, Marks, Binds, Takes, Loads, Accepts, Edits, kept
<1>5. CASE n = IdleTask
    BY <1>5 DEF IdleTask, WriterOK, Submitting, PutSaves
<1>6. ASSUME t.pc \in Submitting, n.pc \in Submitting \ PutSaves, n.id = t.id, n.rec = t.rec, UNCHANGED hires,
             t.pc \in Carrying => n.pc \in Carrying
      PROVE  WriterOK(n)'
    <2>1. n.pc \notin {"newPut", "newSave"}
        BY <1>6 DEF Submitting
    <2> QED
        BY <1>1, <1>6, <2>1 DEF WriterOK, Stored, AheadOf
<1>7. CASE Glides(t, n)
    <2>1. n.id = t.id /\ n.rec = t.rec /\ UNCHANGED hires
        BY <1>7 DEF Glides, SameCopies, kept
    <2>2. CASE n.pc \in Submitting
        <3>1. /\ t.pc \in Submitting /\ n.pc \notin PutSaves
              /\ t.pc \in Carrying => n.pc \in Carrying
            BY <1>7, <2>2 DEF Glides, GoesOn, CasLabels, CasSave, Submitting, Carrying, PutSaves
        <3> QED
            BY <1>6, <2>1, <2>2, <3>1
    <2>3. CASE n.pc \notin Submitting
        <3>1. n.pc \notin PutSaves \cup {"newPut", "newSave"}
            BY <1>7 DEF Glides, GoesOn, CasLabels, CasSave, PutSaves
        <3> QED
            BY <2>3, <3>1 DEF WriterOK
    <2> QED
        BY <2>2, <2>3
<1>8. CASE Consumes(t, n)
    <2>1. t.pc \in Submitting /\ n.pc \in Submitting \ PutSaves /\ n.pc \in Carrying
        BY <1>8 DEF Consumes, Submitting, PutSaves, Carrying
    <2> QED
        BY <1>6, <1>8, <2>1 DEF Consumes, SameCopies, Marks
<1>9. CASE Binds(t, n)
    <2>1. \A h \in HireIds : ~ Stored(h)
        BY <1>9, NoneBefore DEF Binds
    <2>2. n.pc = "newPut" /\ n.rec.txs = {} /\ UNCHANGED hires
        BY <1>9 DEF Binds, Marks
    <2> QED
        BY <2>1, <2>2 DEF WriterOK, Stored, Submitting, PutSaves
<1>10. CASE Takes(t, n)
    <2>1. n.pc = "owner" /\ Stored(n.id) /\ n.rec = hires[n.id] /\ UNCHANGED hires
        BY <1>2, <1>10 DEF Takes, Viewing, kept
    <2>2. AheadOf(hires[n.id], n.rec) /\ n.rec.txs = hires[n.id].txs
        BY <2>1 DEF AheadOf
    <2> QED
        BY <2>1, <2>2 DEF WriterOK, Stored, PutSaves, AheadOf
<1>11. CASE Loads(t, n)
    <2>1. /\ t.pc \in Submitting \cup {"newPut"} /\ n.id = t.id /\ n.rec = t.rec /\ n.hsnap = hires
          /\ n.pc = PutSave[t.pc] /\ t.pc \in PutLabels /\ UNCHANGED hires
        BY <1>2, <1>11 DEF Loads, PutLabels, Viewing, Submitting, kept
    <2>2. /\ n.pc \in Submitting => t.pc \in Submitting
          /\ n.pc \in {"newPut", "newSave"} => t.pc = "newPut"
          /\ t.pc \in Carrying => n.pc \in Carrying
        BY <2>1 DEF PutSave, PutLabels, Submitting, Carrying
    <2> QED
        BY <1>1, <2>1, <2>2 DEF WriterOK, Stored, AheadOf
<1>12. CASE Saves(t, n)
    <2>1. /\ t.id \in HireIds /\ t.rec \in HireRecord
          /\ hires' = [hires EXCEPT ![t.id] = t.rec]
        BY <1>12, SaveWritten
    <2>2. hires'[t.id] = t.rec /\ t.rec # None
        BY <2>1, NullAssumption DEF IInv, StateOK, DocOK, HireDoc
    <2>3. CASE n.pc \in {"stepPut", "step"} /\ SameCopies(t, n)
        <3>1. /\ n.id = t.id /\ n.rec = t.rec
              /\ n.pc \notin PutSaves \cup {"newPut", "newSave"}
            BY <2>3 DEF SameCopies, PutSaves
        <3> QED
            BY <2>2, <3>1 DEF WriterOK, Stored, AheadOf
    <2> QED
        BY <1>5, <1>12, <2>3 DEF Saves
<1>13. CASE Accepts(t, n)
    <2>1. PICK x \in Tx :
            /\ n.pc \in {"consume", "stepPut"}
            /\ n.rec.txs = t.rec.txs \cup {x}
            /\ ~ Recorded(t.rec, x.kind)
            /\ x.kind \in {"register", "budget", "fund"} => t.rec.job = x.job
            /\ t.rec.job # None => n.rec.job = t.rec.job
        BY <1>13 DEF Accepts
    <2>2. /\ t.pc = "step" /\ n.id = t.id /\ n.rec.quote = t.rec.quote /\ t.rec.state # "FUNDED"
          /\ UNCHANGED hires
        BY <1>13 DEF Accepts, kept
    <2>3. Stored(t.id) /\ AheadOf(hires[t.id], t.rec) /\ t.rec.txs = hires[t.id].txs
        BY <1>1, <2>2 DEF WriterOK, Submitting, Carrying
    <2>4. Verified(t.rec)
        BY <1>1, <2>2 DEF TaskOK, Holding
    <2>5. MayFollow(t.rec.txs, x)
        <3>1. \A y \in t.rec.txs : y.kind \notin {"fund", x.kind}
            BY <2>1, <2>2, <2>4 DEF Recorded, Verified
        <3>2. ASSUME x.kind \in {"register", "budget", "fund"}
              PROVE  \E c \in t.rec.txs : c.kind = "create" /\ c.job = x.job
            <4>1. x.job \in Jobs /\ x.job # None
                BY ChainAssumption DEF Tx
            <4>2. TxOf("create", x.job) \in t.rec.txs
                BY <2>1, <2>4, <3>2, <4>1 DEF Verified
            <4> QED
                BY <4>2 DEF TxOf
        <3> QED
            BY <3>1, <3>2 DEF MayFollow
    <2>6. AheadOf(hires[t.id], n.rec)
        BY <2>1, <2>2, <2>3, <2>5 DEF AheadOf
    <2>7. n.pc \in Carrying /\ n.pc \notin PutSaves \cup {"newPut", "newSave"}
        BY <2>1 DEF Carrying, PutSaves
    <2> QED
        BY <2>2, <2>3, <2>6, <2>7 DEF WriterOK, Stored, AheadOf, MayFollow
<1>14. CASE Edits(t, n)
    <2>1. /\ t.pc \in Submitting /\ n.pc \in {"failPut", "notePut"}
          /\ t.pc \in Carrying => n.pc \in Carrying
          /\ n.id = t.id /\ n.rec.quote = t.rec.quote /\ n.rec.txs = t.rec.txs /\ n.rec.job = t.rec.job
          /\ UNCHANGED hires
        BY <1>2, <1>14 DEF Edits, Viewing, Submitting, Carrying, kept
    <2>2. n.pc \notin PutSaves \cup {"newPut", "newSave"}
        BY <2>1 DEF PutSaves
    <2> QED
        BY <1>1, <2>1, <2>2 DEF WriterOK, Stored, AheadOf
<1> QED
    BY <1>5, <1>7, <1>8, <1>9, <1>10, <1>11, <1>12, <1>13, <1>14 DEF Step, Stops, Issues, Expires

LEMMA WriterHandle ==
    ASSUME NEW q \in Quotes, OnlyQuote(q), SpeltAlike, NoViews, IInv, QuoteInv(q), ClosedInv(q), WriterInv,
           NEW w \in Workers, Handle(w)
    PROVE  WriterInv' /\ HireWritten(q)
<1>1. Steps(w)
    BY HandleSteps
<1>2. PICK n : task' = [task EXCEPT ![w] = n] /\ Step(task[w], n)
    BY <1>1 DEF Steps
<1>3. PICK t : t = task[w]
    OBVIOUS
<1>4. Step(t, n)
    BY <1>2, <1>3
<1>5. WriterOK(n)'
    BY <1>3, <1>4, WriterStep
<1>6. task'[w] = n /\ \A v \in Workers : v # w => task'[v] = task[v]
    BY <1>2 DEF IInv, StateOK
<1>7. ASSUME NEW v \in Workers PROVE WriterOK(task[v])'
    <2>1. CASE v = w
        BY <1>5, <1>6, <2>1 DEF WriterOK
    <2>2. CASE v # w
        <3>1. WriterOK(task[v]) /\ OfOp(task[v]) /\ task'[v] = task[v]
            BY <1>6, <2>2 DEF WriterInv, QuoteInv
        <3>2. CASE ~ Saves(t, n)
            <4>1. UNCHANGED hires
                BY <1>4, <3>2 DEF Step, Stops, Glides, Issues, Expires, Consumes, Marks, Binds, Takes, Loads, Accepts,
                    Edits, kept
            <4> QED
                BY <3>1, <4>1 DEF WriterOK, Stored, AheadOf
        <3>3. CASE Saves(t, n)
            <4>1. /\ t.id \in HireIds
                  /\ \/ t.pc = "newSave" /\ \A g \in HireIds : ~ Stored(g)
                     \/ t.pc \in Submitting /\ Stored(t.id)
                BY <1>3, <3>3, SaveWritten
            <4>2. OfOp(t)
                BY <1>3 DEF QuoteInv
            <4>3. task[v].pc \in Submitting => task[v].id \in HireIds
                BY DEF IInv, TaskOK, Submitting, Holding, PutLabels, PutSaves
            <4>4. task[v].pc \notin Submitting
                <5>1. ASSUME task[v].pc \in Submitting, t.pc \in Submitting PROVE FALSE
                    BY <1>3, <2>2, <3>1, <4>2, <5>1, Alone DEF OfOp, Submitting, Locking
                <5> QED
                    BY <3>1, <4>1, <4>3, <5>1 DEF WriterOK
            <4>5. task[v].pc \notin {"newPut", "newSave"}
                <5>1. ASSUME task[v].pc \in {"newPut", "newSave"}, t.pc = "newSave" PROVE FALSE
                    BY <1>3, <2>2, <3>1, <4>2, <5>1, Alone DEF OfOp, Preparing, Locking
                <5> QED
                    BY <3>1, <4>1, <5>1 DEF WriterOK
            <4>6. task[v].pc \notin PutSaves
                BY <3>1, <4>4, <4>5, NotViewing
            <4> QED
                BY <3>1, <4>4, <4>5, <4>6 DEF WriterOK
        <3> QED
            BY <3>2, <3>3
    <2> QED
        BY <2>1, <2>2
<1>8. HireWritten(q)
    BY <1>2, StepWritten
<1> QED
    BY <1>7, <1>8 DEF WriterInv

LEMMA WriterNext ==
    ASSUME NEW q \in Quotes, OnlyQuote(q), SpeltAlike, NoViews, IInv, QuoteInv(q), ClosedInv(q), WriterInv, [Next]_vars
    PROVE  WriterInv' /\ HireWritten(q)
<1>1. ASSUME NEW w \in Workers, Handle(w) PROVE WriterInv' /\ HireWritten(q)
    BY <1>1, WriterHandle
<1>2. ASSUME UNCHANGED hires,
             \A v \in Workers : task'[v] = task[v] \/ task'[v].pc \in {"idle", "issue", "lock", "read"}
      PROVE  WriterInv' /\ HireWritten(q)
    <2>1. ASSUME NEW v \in Workers PROVE WriterOK(task[v])'
        BY <1>2 DEF WriterInv, WriterOK, Stored, AheadOf, Submitting, PutSaves
    <2> QED
        BY <1>2, <2>1 DEF WriterInv, HireWritten
<1>3. ASSUME NEW w \in Workers, NEW r \in Requests, Receive(w, r) PROVE WriterInv' /\ HireWritten(q)
    <2> DEFINE n == [IdleTask EXCEPT !.pc = Entry[r.op], !.req = r]
    <2>1. r.op \in Ops
        BY ServerAssumption DEF Request
    <2>2. n.pc \in {"issue", "lock", "read"}
        BY <2>1 DEF IdleTask, Entry, Ops
    <2>3. task' = [task EXCEPT ![w] = n]
        BY <1>3 DEF Receive
    <2> HIDE DEF n
    <2>4. \A v \in Workers : task'[v] = task[v] \/ task'[v].pc \in {"idle", "issue", "lock", "read"}
        BY <2>2, <2>3 DEF IInv, StateOK
    <2> QED
        BY <1>2, <1>3, <2>4 DEF Receive, documents
<1>4. CASE Crash
    <2>1. \A v \in Workers : task'[v].pc = "idle"
        BY <1>4 DEF Crash, IdleTask
    <2> QED
        BY <1>2, <1>4, <2>1 DEF Crash, documents
<1>5. CASE UNCHANGED <<hires, task>>
    BY <1>2, <1>5
<1> QED
    BY <1>1, <1>3, <1>4, <1>5 DEF Next, ServerStep, Lapse, documents, vars, serverVars

LEMMA WritesAlways ==
    ASSUME NEW q \in Quotes, OnlyQuote(q), SpeltAlike, NoViews
    PROVE  Spec => [][IInv /\ HireWritten(q)]_vars
<1>1. Init => WriterInv
    BY DEF Init, ServerInit, WriterInv, WriterOK, IdleTask, Submitting, PutSaves
<1>2. IInv /\ QuoteInv(q) /\ ClosedInv(q) /\ WriterInv /\ [Next]_vars => WriterInv'
    BY WriterNext
<1>3. IInv /\ QuoteInv(q) /\ ClosedInv(q) /\ WriterInv /\ [Next]_vars => [IInv /\ HireWritten(q)]_vars
    BY WriterNext
<1> QED
    BY <1>1, <1>2, <1>3, Invariant, QuoteAlways, ClosedAlways, PTL DEF Spec

(* What was written last about a hire is all that was ever accepted for it.     *)
LEMMA WrittenKeeps ==
    ASSUME NEW q \in Quotes, IInv, HireWritten(q), NEW g \in HireIds, Stored(g)
    PROVE  /\ Stored(g)' /\ hires[g].txs \subseteq hires'[g].txs
           /\ hires[g].job # None => hires'[g].job = hires[g].job
<1>1. CASE UNCHANGED hires
    BY <1>1 DEF Stored
<1>2. ASSUME NEW h \in HireIds, NEW rec \in HireRecord, hires' = [hires EXCEPT ![h] = rec],
             Stored(h), AheadOf(hires[h], rec)
      PROVE  /\ Stored(g)' /\ hires[g].txs \subseteq hires'[g].txs
             /\ hires[g].job # None => hires'[g].job = hires[g].job
    <2>1. hires'[h] = rec /\ \A i \in HireIds \ {h} : hires'[i] = hires[i]
        BY <1>2 DEF IInv, StateOK, DocOK, HireDoc
    <2>2. rec # None
        BY NullAssumption
    <2> QED
        BY <1>2, <2>1, <2>2 DEF Stored, AheadOf
<1> QED
    BY <1>1, <1>2 DEF HireWritten

(* While every request prepares or submits one quote, spelt alike, or issues     *)
(* it: no receipt the server accepted is lost, whatever is retried and wherever it crashes.    *)
THEOREM ReceiptsStay ==
    ASSUME NEW q \in Quotes, OnlyQuote(q), SpeltAlike, NoViews
    PROVE  Spec => ReceiptsKept
<1>1. [IInv /\ HireWritten(q)]_vars
        => [\A h \in HireIds : Stored(h) => Stored(h)' /\ hires[h].txs \subseteq hires'[h].txs]_vars
    BY WrittenKeeps
<1> QED
    BY <1>1, WritesAlways, PTL DEF ReceiptsKept

(* In the same case, a hire that has an on-chain job keeps it.                  *)
THEOREM JobsStay ==
    ASSUME NEW q \in Quotes, OnlyQuote(q), SpeltAlike, NoViews
    PROVE  Spec => JobBoundOnce
<1>1. [IInv /\ HireWritten(q)]_vars
        => [\A h \in HireIds :
                (Stored(h) /\ hires[h].job # None) => (Stored(h)' /\ hires'[h].job = hires[h].job)]_vars
    BY WrittenKeeps
<1> QED
    BY <1>1, WritesAlways, PTL DEF JobBoundOnce

(* What the documents say to the ledger.                                      *)
LEMMA LedgerStep ==
    ASSUME NEW q \in Quotes, IInv, HireWritten(q)
    PROVE  [Ledger!LedgerNext]_(Ledger!ledgerVars)
<1> DEFINE OpenedBefore(g) == IF Stored(g) THEN hires[g].quote ELSE None
           OpenedAfter(g) == IF Stored(g)' THEN hires'[g].quote ELSE None
           ReceiptsBefore(g) == IF Stored(g) THEN hires[g].txs ELSE {}
           ReceiptsAfter(g) == IF Stored(g)' THEN hires'[g].txs ELSE {}
<1>1. CASE UNCHANGED hires
    BY <1>1 DEF Ledger!ledgerVars, Stored
<1>2. /\ Ledger!ledgerVars = <<[g \in HireIds |-> OpenedBefore(g)], [g \in HireIds |-> ReceiptsBefore(g)]>>
      /\ Ledger!ledgerVars' = <<[g \in HireIds |-> OpenedAfter(g)], [g \in HireIds |-> ReceiptsAfter(g)]>>
    BY DEF Ledger!ledgerVars
<1>3. ASSUME NEW h \in HireIds, NEW rec \in HireRecord, hires' = [hires EXCEPT ![h] = rec], rec.quote = q,
             \/ (\A g \in HireIds : ~ Stored(g)) /\ rec.txs = {}
             \/ Stored(h) /\ AheadOf(hires[h], rec)
      PROVE  [Ledger!LedgerNext]_(Ledger!ledgerVars)
    <2>1. hires'[h] = rec /\ \A i \in HireIds \ {h} : hires'[i] = hires[i]
        BY <1>3 DEF IInv, StateOK, DocOK, HireDoc
    <2>2. rec # None /\ q # None
        BY NullAssumption, ChainAssumption
    <2>3. CASE (\A g \in HireIds : ~ Stored(g)) /\ rec.txs = {}
        <3>1. \A g \in HireIds : hires[g] = None /\ hires'[g] = IF g = h THEN rec ELSE None
            BY <2>1, <2>3 DEF Stored
        <3>2. /\ \A g \in HireIds : OpenedBefore(g) = None /\ OpenedAfter(g) = IF g = h THEN q ELSE None
              /\ \A g \in HireIds : ReceiptsBefore(g) = {} /\ ReceiptsAfter(g) = {}
            BY <1>3, <2>2, <2>3, <3>1 DEF Stored
        <3> HIDE DEF OpenedBefore, OpenedAfter, ReceiptsBefore, ReceiptsAfter
        <3>3. /\ [g \in HireIds |-> OpenedAfter(g)] = [[g \in HireIds |-> OpenedBefore(g)] EXCEPT ![h] = q]
              /\ [g \in HireIds |-> ReceiptsAfter(g)] = [g \in HireIds |-> ReceiptsBefore(g)]
            BY <3>2
        <3>4. \A g \in HireIds : OpenedBefore(g) = None /\ OpenedBefore(g) # q
            BY <2>2, <3>2
        <3>5. Ledger!Open(h, q)
            BY <3>3, <3>4 DEF Ledger!Open, OpenedBefore, OpenedAfter, ReceiptsBefore, ReceiptsAfter
        <3> QED
            BY <3>5 DEF Ledger!LedgerNext
    <2>4. ASSUME Stored(h), AheadOf(hires[h], rec), NEW x \in Tx, rec.txs = hires[h].txs \cup {x},
                 MayFollow(hires[h].txs, x)
          PROVE  Ledger!Accept(h, x)
        <3>1. /\ \A g \in HireIds : OpenedAfter(g) = OpenedBefore(g)
              /\ \A g \in HireIds : ReceiptsAfter(g) = IF g = h THEN ReceiptsBefore(h) \cup {x} ELSE ReceiptsBefore(g)
              /\ OpenedBefore(h) # None /\ ReceiptsBefore(h) = hires[h].txs
            BY <1>3, <2>1, <2>2, <2>4 DEF Stored, AheadOf
        <3>2. /\ \A y \in ReceiptsBefore(h) : y.kind \notin {"fund", x.kind}
              /\ x.kind \in {"register", "budget", "fund"} =>
                    \E c \in ReceiptsBefore(h) : c.kind = "create" /\ c.job = x.job
            BY <2>4, <3>1 DEF MayFollow
        <3> QED
            BY <1>2, <3>1, <3>2 DEF Ledger!Accept, Ledger!Closed, Ledger!HasKind
    <2>5. ASSUME Stored(h), AheadOf(hires[h], rec), rec.txs = hires[h].txs PROVE UNCHANGED Ledger!ledgerVars
        BY <1>3, <2>1, <2>2, <2>5 DEF Ledger!ledgerVars, Stored, AheadOf
    <2> QED
        BY <1>3, <2>3, <2>4, <2>5 DEF Ledger!LedgerNext, AheadOf
<1> QED
    BY <1>1, <1>3 DEF HireWritten

(* The documents implement the ledger: one hire for a quote, at most one receipt *)
(* of a kind, create before what is done to its job, nothing after fund.  The     *)
(* same case: one quote, spelt alike, and no views.                             *)
THEOREM LedgerImplemented ==
    ASSUME NEW q \in Quotes, OnlyQuote(q), SpeltAlike, NoViews
    PROVE  Spec => ImplementsLedger
<1>1. Init => Ledger!LedgerInit
    BY DEF Init, ServerInit, Ledger!LedgerInit, Stored
<1>2. [IInv /\ HireWritten(q)]_vars => [Ledger!LedgerNext]_(Ledger!ledgerVars)
    <2>1. CASE IInv /\ HireWritten(q)
        BY <2>1, LedgerStep
    <2>2. CASE UNCHANGED vars
        BY <2>2 DEF vars, serverVars, Ledger!ledgerVars, Stored
    <2> QED
        BY <2>1, <2>2
<1> QED
    BY <1>1, <1>2, WritesAlways, PTL DEF Spec, ImplementsLedger, Ledger!LedgerSpec

=============================================================================
