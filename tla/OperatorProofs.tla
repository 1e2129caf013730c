----------------------------- MODULE OperatorProofs -----------------------------
(***************************************************************************)
(* Theorems about Operator, for any number of runs of any kind, killed and    *)
(* reconciled at any point.                                                  *)
(*                                                                          *)
(* The argument for escrow: every document, and every copy of one that a      *)
(* script or the watcher may write back, names the job once it was created    *)
(* (OperatorInv).  The argument for recorded runs: what a script has seen and  *)
(* holds is true of the chain and the deliverable and stays so, and an entry   *)
(* is complete only of a run for which it is, in the stored list of runs and   *)
(* in every copy of it that a script may write back (EarnedInv).  The argument *)
(* for types: a run that is in a list, or stands where its script appends, has  *)
(* its document, and one that stands before settle an attempt left (TypeInv).   *)
(***************************************************************************)
EXTENDS Operator, TLAPS

(* A document that names the job.                                            *)
Named(d) == d \in JobRecords /\ d.job = TRUE

(* A job that holds no money yet, or none at all.                            *)
Unpaid == {None, "OPEN"}

Shapes ==
    /\ DOMAIN pc = Runs /\ DOMAIN step = Runs /\ DOMAIN chain = Runs /\ DOMAIN seen = Runs
    /\ DOMAIN doc = Runs /\ DOMAIN rec = Runs
    /\ DOMAIN saving = Runs /\ DOMAIN hold = Runs /\ DOMAIN cb = Runs /\ DOMAIN held = Runs

(* A job that is paid for is named.                                          *)
PaidOK(r) ==
    /\ chain[r] \in Read /\ seen[r] \in Read
    /\ step[r] \in 1..4
    /\ chain[r] \notin Unpaid => Named(doc[r])

(* The buyer's part: nothing is paid before the first transaction, and from the *)
(* second on record and document name the job.                               *)
BuyOK(r) ==
    /\ pc[r] \in {"check", "commit", "c_commit"} => step[r] = 1
    /\ pc[r] \in {"check", "commit", "c_commit", "send", "note", "fail"} => cb[r] = "off"
    /\ pc[r] \in {"check", "commit", "c_commit", "send", "c_send"} /\ step[r] = 1 =>
        chain[r] \in Unpaid /\ rec[r] \in JobRecords
    /\ pc[r] \in {"send", "c_send"} /\ step[r] # 1 => Named(doc[r]) /\ Named(rec[r])
    /\ pc[r] = "note" => Named(rec[r])
    /\ pc[r] = "fail" => chain[r] \in Unpaid \/ Named(rec[r])

(* The control's: every copy of its document names the job once it was created.  *)
ControlOK(r) ==
    /\ pc[r] \in {"c_note", "c_load", "c_save", "c_look", "c_stop", "c_last", "c_fetch", "c_doc", "c_keep"}
        => Named(doc[r]) /\ Named(rec[r])
    /\ pc[r] \in {"c_load", "c_save"} =>
        /\ saving[r].status \in Read
        /\ saving[r].event \in {"create", "register", "budget"} => step[r] < 4
        /\ saving[r].event \in {"create", "register", "budget", "fund", "look", "last", "deliverable"}
    /\ pc[r] = "c_save" => Named(hold[r])
    /\ cb[r] \notin {"off", "over"} => Named(doc[r])
    /\ held[r] # None => Named(held[r])

RunOK(r) == PaidOK(r) /\ BuyOK(r) /\ ControlOK(r)

OperatorInv == Shapes /\ \A r \in Runs : RunOK(r)

(* ------------------------------- documents ------------------------------- *)

LEMMA FreshOK == Fresh \in JobRecords
  BY DEF Fresh, JobRecords, RecordStates, Currents, Events

LEMMA CurrentSet ==
    ASSUME NEW d, NEW s \in Currents, Named(d)
    PROVE  Named([d EXCEPT !.current = s])
  BY DEF Named, JobRecords

LEMMA EventSet ==
    ASSUME NEW d, NEW e \in Events, NEW s \in Currents, Named(d)
    PROVE  Named([d EXCEPT !.events = @ \cup {e}, !.current = s])
  BY DEF Named, JobRecords

LEMMA StateSet ==
    ASSUME NEW d, Named(d)
    PROVE  Named([d EXCEPT !.state = "error"])
  BY DEF Named, JobRecords, RecordStates

LEMMA JobSet ==
    ASSUME NEW d \in JobRecords
    PROVE  /\ Named([d EXCEPT !.job = TRUE])
           /\ Named([d EXCEPT !.job = TRUE, !.state = "created"])
  BY DEF Named, JobRecords, RecordStates

LEMMA FundedSet ==
    ASSUME NEW d, Named(d)
    PROVE  Named([d EXCEPT !.funded = TRUE, !.state = "funded"])
  BY DEF Named, JobRecords, RecordStates

LEMMA MarkedSet ==
    ASSUME NEW d, NEW s \in Currents, Named(d)
    PROVE  Named([d EXCEPT !.current = s, !.funded = TRUE])
  BY DEF Named, JobRecords

(* --------------------------------- steps --------------------------------- *)

Same(s) ==
    /\ pc'[s] = pc[s] /\ step'[s] = step[s] /\ chain'[s] = chain[s] /\ seen'[s] = seen[s]
    /\ doc'[s] = doc[s] /\ rec'[s] = rec[s]
    /\ saving'[s] = saving[s] /\ hold'[s] = hold[s] /\ cb'[s] = cb[s] /\ held'[s] = held[s]

LEMMA SameOK ==
    ASSUME NEW s \in Runs, RunOK(s), Same(s)
    PROVE  RunOK(s)'
  BY DEF RunOK, Same, PaidOK, BuyOK, ControlOK

(* A step of one run disturbs no other.                                      *)
LEMMA StepOK ==
    ASSUME OperatorInv, NEW r \in Runs, Shapes', \A s \in Runs \ {r} : Same(s), RunOK(r)'
    PROVE  OperatorInv'
  <1>1. \A s \in Runs \ {r} : RunOK(s)'
    BY SameOK DEF OperatorInv
  <1> QED
    BY <1>1 DEF OperatorInv

LEMMA InitOK == Init => OperatorInv
  <1> SUFFICES ASSUME Init PROVE OperatorInv
    OBVIOUS
  <1>1. Shapes
    BY DEF Init, Shapes, ChainInit, RunInit, ControlInit
  <1>2. ASSUME NEW r \in Runs PROVE RunOK(r)
    BY <1>2, FreshOK DEF Init, RunOK, PaidOK, BuyOK, ControlOK, ChainInit, RunInit, ControlInit, Read, Unpaid
  <1> QED
    BY <1>1, <1>2 DEF OperatorInv

(* What the script's own variables are after a step that reads only, and goes    *)
(* on to a place of which nothing is asked.                                   *)
Asked ==
    {"check", "commit", "c_commit", "send", "c_send", "note", "fail", "c_note", "c_load", "c_save",
     "c_look", "c_stop", "c_last", "c_fetch", "c_doc", "c_keep"}

LEMMA LateOK ==
    ASSUME OperatorInv, NEW r \in Runs, NEW l, l \notin Asked, Goto(r, l),
           UNCHANGED <<step, rec>>, UNCHANGED controlVars,
           \/ UNCHANGED chain
           \/ chain[r] \notin Unpaid /\ \E x \in Read : chain' = [chain EXCEPT ![r] = x],
           \/ UNCHANGED seen
           \/ \E x \in Read : seen' = [seen EXCEPT ![r] = x],
           \/ UNCHANGED doc
           \/ \E x \in Read : Persist(r, x)
    PROVE  OperatorInv'
  <1>1. Shapes'
    BY DEF OperatorInv, Shapes, Goto, Persist, controlVars
  <1>2. \A s \in Runs \ {r} : Same(s)
    BY DEF OperatorInv, Shapes, Goto, Persist, controlVars, Same
  <1>3. pc'[r] = l /\ seen'[r] \in Read /\ chain'[r] \in Read
    BY DEF OperatorInv, Shapes, Goto, RunOK, PaidOK
  <1>4. Named(doc[r]) => Named(doc'[r])
    <2>1. CASE UNCHANGED doc
      BY <2>1
    <2>2. CASE \E x \in Read : Persist(r, x)
      <3>1. PICK x \in Read : doc'[r] = [doc[r] EXCEPT !.current = x]
        BY <2>2 DEF Persist, OperatorInv, Shapes
      <3> QED
        BY <3>1, CurrentSet DEF Read, Currents
    <2> QED
      BY <2>1, <2>2
  <1>5. chain'[r] \notin Unpaid => chain[r] \notin Unpaid
    BY DEF OperatorInv, Shapes
  <1>6. RunOK(r)'
    BY <1>3, <1>4, <1>5 DEF OperatorInv, RunOK, PaidOK, BuyOK, ControlOK, Asked, controlVars
  <1> QED
    BY <1>1, <1>2, <1>6, StepOK

(* ----------------------------- the hire scripts -------------------------- *)

LEMMA PreflightOK ==
    ASSUME OperatorInv, NEW r \in Runs, Preflight(r), UNCHANGED controlVars
    PROVE  OperatorInv'
  <1>1. PICK l \in {"commit", "stopped"} : Goto(r, l)
    BY DEF Preflight
  <1>2. Shapes' /\ \A s \in Runs \ {r} : Same(s)
    BY <1>1 DEF OperatorInv, Shapes, Preflight, Goto, controlVars, env, chainVars, lookVars, Same
  <1>3. RunOK(r)'
    BY <1>1 DEF OperatorInv, Shapes, Preflight, Goto, controlVars, env, chainVars, lookVars,
                RunOK, PaidOK, BuyOK, ControlOK
  <1> QED
    BY <1>2, <1>3, StepOK

LEMMA CommitOK ==
    ASSUME OperatorInv, NEW r \in Runs, Commit(r), UNCHANGED controlVars
    PROVE  OperatorInv'
  <1>1. PICK l \in {"send", "stopped"} : Goto(r, l)
    BY DEF Commit
  <1>2. Shapes' /\ \A s \in Runs \ {r} : Same(s)
    BY <1>1 DEF OperatorInv, Shapes, Commit, Goto, controlVars, env, chainVars, lookVars, Same
  <1>3. RunOK(r)'
    BY <1>1 DEF OperatorInv, Shapes, Commit, Goto, controlVars, env, chainVars, lookVars,
                RunOK, PaidOK, BuyOK, ControlOK
  <1> QED
    BY <1>2, <1>3, StepOK

(* A buyer transaction: the first makes the job, and only another can pay.     *)
LEMMA MineOK ==
    ASSUME OperatorInv, NEW r \in Runs, Mine(r, Steps[step[r]])
    PROVE  /\ DOMAIN chain' = Runs
           /\ \A s \in Runs \ {r} : chain'[s] = chain[s]
           /\ chain'[r] \in Read
           /\ step[r] = 1 => chain'[r] = "OPEN" /\ Steps[step[r]] = "create"
  <1>1. Steps[1] = "create"
    BY DEF Steps
  <1>2. chain[r] \in Read
    BY DEF OperatorInv, RunOK, PaidOK
  <1> QED
    BY <1>1, <1>2 DEF Mine, OperatorInv, Shapes, Read, Statuses

LEMMA SendOK ==
    ASSUME OperatorInv, NEW r \in Runs, Send(r), UNCHANGED controlVars
    PROVE  OperatorInv'
  <1>0. PICK l \in {"note", "fail"} : Goto(r, l)
    BY DEF Send
  <1>1. UNCHANGED <<step, doc, seen>> /\ UNCHANGED <<saving, hold, cb, held>> /\ pc[r] = "send"
    BY DEF Send, lookVars, controlVars
  <1>2. Mine(r, Steps[step[r]]) \/ UNCHANGED chain
    BY DEF Send
  <1>3. /\ DOMAIN chain' = Runs
        /\ \A s \in Runs \ {r} : chain'[s] = chain[s]
        /\ chain'[r] \in Read
        /\ step[r] = 1 => chain'[r] \in Unpaid
    BY <1>2, <1>1, MineOK DEF OperatorInv, RunOK, Shapes, PaidOK, BuyOK, Unpaid
  <1>4. /\ DOMAIN rec' = Runs
        /\ \A s \in Runs \ {r} : rec'[s] = rec[s]
        /\ rec'[r] \in {rec[r], [rec[r] EXCEPT !.job = TRUE, !.state = "created"],
                        [rec[r] EXCEPT !.funded = TRUE, !.state = "funded"]}
    BY DEF Send, OperatorInv, Shapes
  <1>5. Named(rec[r]) => Named(rec'[r])
    BY <1>4, JobSet, FundedSet DEF Named
  <1>6. step[r] = 1 /\ l = "note" => Named(rec'[r])
    <2>1. SUFFICES ASSUME step[r] = 1, l = "note" PROVE Named(rec'[r])
      OBVIOUS
    <2>2. Steps[step[r]] = "create"
      BY <2>1 DEF Steps
    <2>3. rec'[r] = [rec[r] EXCEPT !.job = TRUE, !.state = "created"]
      BY <2>1, <2>2, <1>0 DEF Send, Goto, OperatorInv, Shapes
    <2>4. rec[r] \in JobRecords
      BY <2>1, <1>1 DEF OperatorInv, RunOK, BuyOK
    <2> QED
      BY <2>3, <2>4, JobSet
  <1>7. Shapes' /\ \A s \in Runs \ {r} : Same(s)
    BY <1>0, <1>1, <1>3, <1>4 DEF OperatorInv, Shapes, Goto, Same
  <1>8. pc'[r] = l
    BY <1>0 DEF Goto, OperatorInv, Shapes
  <1>9. RunOK(r)'
    <2>1. step[r] # 1 => Named(doc[r]) /\ Named(rec[r])
      BY <1>1 DEF OperatorInv, RunOK, BuyOK
    <2>2. PaidOK(r)'
      BY <2>1, <1>1, <1>3 DEF OperatorInv, RunOK, PaidOK
    <2>3. BuyOK(r)'
      BY <2>1, <1>1, <1>3, <1>5, <1>6, <1>8 DEF OperatorInv, RunOK, BuyOK
    <2>4. ControlOK(r)'
      BY <1>1, <1>8 DEF OperatorInv, RunOK, ControlOK
    <2> QED
      BY <2>2, <2>3, <2>4 DEF RunOK
  <1> QED
    BY <1>7, <1>9, StepOK

LEMMA NoteOK ==
    ASSUME OperatorInv, NEW r \in Runs, Note(r), UNCHANGED controlVars
    PROVE  OperatorInv'
  <1>1. UNCHANGED <<chain, seen>> /\ UNCHANGED <<saving, hold, cb, held>> /\ pc[r] = "note"
    BY DEF Note, lookVars, controlVars, env, chainVars
  <1>2. Named(rec[r]) /\ chain[r] \in Currents
    BY <1>1 DEF OperatorInv, RunOK, BuyOK, PaidOK, Read, Currents
  <1>3. CASE Goto(r, "fail") /\ UNCHANGED <<step, rec, doc>>
    <2>1. Shapes' /\ \A s \in Runs \ {r} : Same(s)
      BY <1>1, <1>3 DEF OperatorInv, Shapes, Goto, Same
    <2>2. RunOK(r)'
      BY <1>1, <1>2, <1>3 DEF OperatorInv, Shapes, Goto, RunOK, PaidOK, BuyOK, ControlOK
    <2> QED
      BY <2>1, <2>2, StepOK
  <1>4. CASE /\ rec' = [rec EXCEPT ![r].current = chain[r]]
             /\ doc' = [doc EXCEPT ![r] = rec'[r]]
             /\ IF step[r] < Len(Steps)
                THEN Goto(r, "send") /\ step' = [step EXCEPT ![r] = @ + 1]
                ELSE Goto(r, "observe") /\ UNCHANGED step
    <2>1. step[r] \in 1..4
      BY DEF OperatorInv, RunOK, PaidOK
    <2>2. PICK l \in {"send", "observe"} : Goto(r, l) /\ (l = "observe" => UNCHANGED step)
      BY <1>4
    <2>3. /\ DOMAIN step' = Runs
          /\ \A s \in Runs \ {r} : step'[s] = step[s]
          /\ step'[r] \in 1..4
          /\ l = "send" => step'[r] = step[r] + 1
      <3>1. Len(Steps) = 4
        BY DEF Steps
      <3> QED
        BY <1>4, <2>1, <2>2, <3>1 DEF Goto, OperatorInv, Shapes
    <2>4. /\ rec' = [rec EXCEPT ![r] = [rec[r] EXCEPT !.current = chain[r]]]
          /\ doc' = [doc EXCEPT ![r] = [rec[r] EXCEPT !.current = chain[r]]]
      BY <1>4 DEF OperatorInv, Shapes
    <2>5. Shapes' /\ \A s \in Runs \ {r} : Same(s)
      BY <1>1, <2>2, <2>4, <2>3 DEF OperatorInv, Shapes, Goto, Same
    <2>6. Named(rec'[r]) /\ Named(doc'[r])
      BY <1>2, <2>4, CurrentSet DEF OperatorInv, Shapes
    <2>7. pc'[r] = l
      BY <2>2 DEF Goto, OperatorInv, Shapes
    <2>8. RunOK(r)'
      BY <1>1, <2>1, <2>3, <2>6, <2>7 DEF OperatorInv, RunOK, PaidOK, BuyOK, ControlOK
    <2> QED
      BY <2>5, <2>8, StepOK
  <1> QED
    BY <1>3, <1>4 DEF Note

LEMMA FailOK ==
    ASSUME OperatorInv, NEW r \in Runs, Fail(r), UNCHANGED controlVars
    PROVE  OperatorInv'
  <1>1. /\ UNCHANGED <<chain, seen, step>> /\ UNCHANGED <<saving, hold, cb, held>>
        /\ pc[r] = "fail" /\ Goto(r, "stopped")
    BY DEF Fail, lookVars, controlVars, env, chainVars
  <1>2. /\ rec' = [rec EXCEPT ![r] = [rec[r] EXCEPT !.state = "error"]]
        /\ doc' = [doc EXCEPT ![r] = [rec[r] EXCEPT !.state = "error"]]
    BY DEF Fail, OperatorInv, Shapes
  <1>3. Shapes' /\ \A s \in Runs \ {r} : Same(s)
    BY <1>1, <1>2 DEF OperatorInv, Shapes, Goto, Same
  <1>4. chain[r] \in Unpaid \/ Named(doc'[r])
    BY <1>1, <1>2, StateSet DEF OperatorInv, Shapes, RunOK, BuyOK
  <1>5. pc'[r] = "stopped" /\ cb'[r] = "off"
    BY <1>1 DEF Goto, OperatorInv, Shapes, RunOK, BuyOK
  <1>6. RunOK(r)'
    BY <1>1, <1>4, <1>5 DEF OperatorInv, RunOK, PaidOK, BuyOK, ControlOK
  <1> QED
    BY <1>3, <1>6, StepOK

(* Everything after the job is funded reads, or settles what is paid for.      *)
LEMMA ChainRead == ASSUME OperatorInv, NEW r \in Runs PROVE chain[r] \in Read /\ seen[r] \in Read
  BY DEF OperatorInv, RunOK, PaidOK

(* A job that can be refunded, settled or disputed is one that was paid for.    *)
LEMMA PaidMoves ==
    ASSUME OperatorInv, NEW r \in Runs, MineRefund(r) \/ MineSettle(r) \/ MineReject(r)
    PROVE  chain[r] \notin Unpaid /\ \E x \in Read : chain' = [chain EXCEPT ![r] = x]
  BY NoneAssumption DEF MineRefund, MineSettle, MineReject, Unpaid, Read, Statuses

LEMMA WatchOK ==
    ASSUME OperatorInv, NEW r \in Runs, UNCHANGED controlVars,
           Observe(r) \/ StopObserving(r) \/ Fetch(r) \/ CountRuns(r) \/ LoadRuns(r)
           \/ SaveRun(r) \/ Report(r)
    PROVE  OperatorInv'
  <1> USE DEF buyVars, lookVars, env, chainVars
  <1>1. CASE Observe(r)
    <2>1. PICK l \in {"fetch", "observe"} : Goto(r, l)
      BY <1>1 DEF Observe
    <2> QED
      BY <1>1, <2>1, LateOK, ChainRead DEF Observe, Asked
  <1>2. CASE StopObserving(r)
    BY <1>2, LateOK DEF StopObserving, Asked
  <1>3. CASE Fetch(r)
    <2>1. PICK l \in {"refund", "settle", "count"} : Goto(r, l)
      BY <1>3 DEF Fetch
    <2> QED
      BY <1>3, <2>1, LateOK DEF Fetch, Asked
  <1>4. CASE CountRuns(r)
    BY <1>4, LateOK DEF CountRuns, Asked
  <1>5. CASE LoadRuns(r)
    BY <1>5, LateOK DEF LoadRuns, Asked
  <1>6. CASE SaveRun(r)
    BY <1>6, LateOK DEF SaveRun, Asked
  <1>7. CASE Report(r)
    BY <1>7, LateOK DEF Report, Asked
  <1> QED
    BY <1>1, <1>2, <1>3, <1>4, <1>5, <1>6, <1>7

LEMMA SettleOK ==
    ASSUME OperatorInv, NEW r \in Runs, UNCHANGED controlVars,
           Refund(r) \/ Settle(r) \/ Confirm(r) \/ Retry(r)
    PROVE  OperatorInv'
  <1> USE DEF buyVars, lookVars, env, chainVars
  <1>1. CASE Refund(r)
    BY <1>1, LateOK, PaidMoves DEF Refund, Asked, Read, Statuses
  <1>2. CASE Settle(r)
    <2>1. PICK l \in {"confirm", "r_confirm", "retry", "r_retry"} : Goto(r, l)
      BY <1>2 DEF Settle
    <2> QED
      BY <1>2, <2>1, LateOK, PaidMoves DEF Settle, Asked
  <1>3. CASE Confirm(r)
    <2>1. PICK l \in {"retry", "r_retry", "settle", "count", "r_settle", "r_load"} : Goto(r, l)
      BY <1>3 DEF Confirm, Again
    <2> QED
      BY <1>3, <2>1, LateOK, ChainRead DEF Confirm, Asked
  <1>4. CASE Retry(r)
    <2>1. PICK l \in {"dead", "settle", "count", "r_settle", "r_load"} : Goto(r, l)
      BY <1>4 DEF Retry, Again
    <2> QED
      BY <1>4, <2>1, LateOK, ChainRead DEF Retry, Asked
  <1> QED
    BY <1>1, <1>2, <1>3, <1>4

LEMMA ReconcileOK ==
    ASSUME OperatorInv, NEW r \in Runs, UNCHANGED controlVars,
           Reconcile(r) \/ ReconcileRead(r) \/ ReconcileFetch(r) \/ ReconcileDoc(r)
           \/ ReconcileSave(r)
    PROVE  OperatorInv'
  <1> USE DEF buyVars, lookVars, env, chainVars
  <1>1. CASE Reconcile(r)
    BY <1>1, LateOK DEF Reconcile, Asked
  <1>2. CASE ReconcileRead(r)
    <2>1. PICK l \in {"r_fetch", "r_settle", "r_load"} : Goto(r, l)
      BY <1>2 DEF ReconcileRead
    <2> QED
      BY <1>2, <2>1, LateOK, ChainRead DEF ReconcileRead, Asked
  <1>3. CASE ReconcileFetch(r)
    <2>1. PICK l \in {"r_load", "r_settle", "dead"} : Goto(r, l)
      BY <1>3 DEF ReconcileFetch
    <2> QED
      BY <1>3, <2>1, LateOK DEF ReconcileFetch, Asked
  <1>4. CASE ReconcileDoc(r)
    BY <1>4, LateOK, ChainRead DEF ReconcileDoc, Asked
  <1>5. CASE ReconcileSave(r)
    BY <1>5, LateOK DEF ReconcileSave, Asked
  <1> QED
    BY <1>1, <1>2, <1>3, <1>4, <1>5

LEMMA AgentOK ==
    ASSUME OperatorInv, NEW r \in Runs, Agent(r)
    PROVE  OperatorInv'
  BY PreflightOK, CommitOK, SendOK, NoteOK, FailOK, WatchOK, SettleOK, ReconcileOK
  DEF Agent, Script

(* ----------------------------- the control ------------------------------- *)

LEMMA ControlStartOK ==
    ASSUME OperatorInv, NEW r \in Runs, ControlStart(r)
    PROVE  OperatorInv'
  <1> USE DEF buyVars, lookVars, controlVars, env, chainVars
  <1>1. PICK l \in {"stopped", "c_commit"} : Goto(r, l)
    BY DEF ControlStart
  <1>2. Shapes' /\ \A s \in Runs \ {r} : Same(s)
    BY <1>1 DEF OperatorInv, Shapes, ControlStart, Goto, Same
  <1>3. RunOK(r)'
    BY <1>1 DEF OperatorInv, Shapes, ControlStart, Goto, RunOK, PaidOK, BuyOK, ControlOK
  <1> QED
    BY <1>2, <1>3, StepOK

LEMMA ControlCommitOK ==
    ASSUME OperatorInv, NEW r \in Runs, ControlCommit(r)
    PROVE  OperatorInv'
  <1> USE DEF lookVars, controlVars, env, chainVars
  <1>2. Shapes' /\ \A s \in Runs \ {r} : Same(s)
    BY DEF OperatorInv, Shapes, ControlCommit, Goto, Same
  <1>3. RunOK(r)'
    BY DEF OperatorInv, Shapes, ControlCommit, Goto, RunOK, PaidOK, BuyOK, ControlOK
  <1> QED
    BY <1>2, <1>3, StepOK

LEMMA ControlSendOK ==
    ASSUME OperatorInv, NEW r \in Runs, ControlSend(r)
    PROVE  OperatorInv'
  <1>0. PICK l \in {"c_note", "c_error"} : Goto(r, l)
    BY DEF ControlSend
  <1>1. UNCHANGED <<step, seen>> /\ UNCHANGED <<saving, hold, cb, held>> /\ pc[r] = "c_send"
    BY DEF ControlSend, lookVars, controlVars
  <1>2. Mine(r, Steps[step[r]]) \/ UNCHANGED chain
    BY DEF ControlSend
  <1>3. /\ DOMAIN chain' = Runs
        /\ \A s \in Runs \ {r} : chain'[s] = chain[s]
        /\ chain'[r] \in Read
        /\ step[r] = 1 => chain'[r] \in Unpaid
    BY <1>2, <1>1, MineOK DEF OperatorInv, RunOK, Shapes, PaidOK, BuyOK, Unpaid
  <1>4. /\ DOMAIN rec' = Runs
        /\ \A s \in Runs \ {r} : rec'[s] = rec[s]
        /\ rec'[r] \in {rec[r], [rec[r] EXCEPT !.job = TRUE],
                        [rec[r] EXCEPT !.funded = TRUE, !.state = "funded"]}
    BY DEF ControlSend, OperatorInv, Shapes
  <1>5. /\ DOMAIN doc' = Runs
        /\ \A s \in Runs \ {r} : doc'[s] = doc[s]
        /\ doc'[r] = doc[r] \/ doc'[r] = rec'[r]
    BY DEF ControlSend, OperatorInv, Shapes
  <1>6. step[r] # 1 => Named(doc[r]) /\ Named(rec[r]) /\ Named(doc'[r]) /\ Named(rec'[r])
    <2>1. step[r] # 1 => Named(doc[r]) /\ Named(rec[r])
      BY <1>1 DEF OperatorInv, RunOK, BuyOK
    <2>2. Named(rec[r]) => Named(rec'[r])
      BY <1>4, JobSet, FundedSet DEF Named
    <2> QED
      BY <2>1, <2>2, <1>5
  <1>7. step[r] = 1 /\ l = "c_note" => Named(rec'[r]) /\ Named(doc'[r])
    <2>1. SUFFICES ASSUME step[r] = 1, l = "c_note" PROVE Named(rec'[r]) /\ Named(doc'[r])
      OBVIOUS
    <2>2. Steps[step[r]] = "create"
      BY <2>1 DEF Steps
    <2>3. rec'[r] = [rec[r] EXCEPT !.job = TRUE] /\ doc'[r] = rec'[r]
      BY <2>1, <2>2, <1>0 DEF ControlSend, Goto, OperatorInv, Shapes
    <2>4. rec[r] \in JobRecords
      BY <2>1, <1>1 DEF OperatorInv, RunOK, BuyOK
    <2> QED
      BY <2>3, <2>4, JobSet
  <1>8. l = "c_error" => UNCHANGED <<rec, doc>>
    BY <1>0 DEF ControlSend, Goto, OperatorInv, Shapes
  <1>9. Shapes' /\ \A s \in Runs \ {r} : Same(s)
    BY <1>0, <1>1, <1>3, <1>4, <1>5 DEF OperatorInv, Shapes, Goto, Same
  <1>10. pc'[r] = l
    BY <1>0 DEF Goto, OperatorInv, Shapes
  <1>11. RunOK(r)'
    <2>1. PaidOK(r)'
      BY <1>1, <1>3, <1>6 DEF OperatorInv, RunOK, PaidOK
    <2>2. BuyOK(r)'
      BY <1>10 DEF BuyOK
    <2>3. ControlOK(r)'
      BY <1>1, <1>6, <1>7, <1>8, <1>10 DEF OperatorInv, RunOK, ControlOK
    <2> QED
      BY <2>1, <2>2, <2>3 DEF RunOK
  <1> QED
    BY <1>9, <1>11, StepOK

LEMMA ControlReadOK ==
    ASSUME OperatorInv, NEW r \in Runs, ControlNote(r) \/ ControlLook(r) \/ ControlLast(r)
    PROVE  OperatorInv'
  <1> USE DEF buyVars, lookVars, env, chainVars
  <1>1. PICK l \in {"c_load", "c_fetch", "c_error"} : Goto(r, l)
    BY DEF ControlNote, ControlLook, ControlLast
  <1>2. UNCHANGED <<step, rec, doc, chain>> /\ UNCHANGED <<hold, cb, held>>
    BY DEF ControlNote, ControlLook, ControlLast
  <1>3. seen' = [seen EXCEPT ![r] = chain[r]] \/ UNCHANGED seen
    BY DEF ControlNote, ControlLook, ControlLast
  <1>4. PICK e \in {Steps[step[r]], "look", "last"} :
          \/ saving' = [saving EXCEPT ![r] = [event |-> e, status |-> chain[r]]]
          \/ l # "c_load" /\ UNCHANGED saving
    BY <1>1 DEF ControlNote, ControlLook, ControlLast, Goto, OperatorInv, Shapes
  <1>5. Shapes' /\ \A s \in Runs \ {r} : Same(s)
    BY <1>1, <1>2, <1>3, <1>4 DEF OperatorInv, Shapes, Goto, Same
  <1>6. /\ pc'[r] = l
        /\ seen'[r] \in Read
        /\ l = "c_load" => saving'[r] = [event |-> e, status |-> chain[r]]
    BY <1>1, <1>3, <1>4, ChainRead DEF OperatorInv, Shapes, Goto
  <1>7. /\ e \in {"create", "register", "budget", "fund", "look", "last"}
        /\ e \in {"create", "register", "budget"} => step[r] < 4
    <2>1. step[r] \in 1..4
      BY DEF OperatorInv, RunOK, PaidOK
    <2> QED
      BY <2>1 DEF Steps
  <1>8. pc[r] \in {"c_note", "c_look", "c_last"}
    BY DEF ControlNote, ControlLook, ControlLast
  <1>9. RunOK(r)'
    <2>1. PaidOK(r)'
      BY <1>2, <1>6 DEF OperatorInv, RunOK, PaidOK
    <2>2. BuyOK(r)'
      BY <1>6 DEF BuyOK
    <2>3. ControlOK(r)'
      BY <1>2, <1>6, <1>7, <1>8, ChainRead DEF OperatorInv, RunOK, ControlOK
    <2> QED
      BY <2>1, <2>2, <2>3 DEF RunOK
  <1> QED
    BY <1>5, <1>9, StepOK

LEMMA SaveLoadOK ==
    ASSUME OperatorInv, NEW r \in Runs, SaveLoad(r)
    PROVE  OperatorInv'
  <1> USE DEF buyVars, lookVars, env, chainVars
  <1>1. Shapes' /\ \A s \in Runs \ {r} : Same(s)
    BY DEF OperatorInv, Shapes, SaveLoad, Goto, Same
  <1>2. RunOK(r)'
    BY DEF OperatorInv, Shapes, SaveLoad, Goto, RunOK, PaidOK, BuyOK, ControlOK
  <1> QED
    BY <1>1, <1>2, StepOK

LEMMA SaveWriteOK ==
    ASSUME OperatorInv, NEW r \in Runs, SaveWrite(r)
    PROVE  OperatorInv'
  <1> DEFINE e == saving[r].event
             d == [hold[r] EXCEPT !.events = @ \cup {e}, !.current = saving[r].status]
  <1> USE DEF lookVars, env, chainVars
  <1>1. /\ pc[r] = "c_save" /\ Named(hold[r]) /\ saving[r].status \in Read
        /\ e \in {"create", "register", "budget", "fund", "look", "last", "deliverable"}
        /\ e \in {"create", "register", "budget"} => step[r] < 4
        /\ step[r] \in 1..4
    BY DEF SaveWrite, OperatorInv, RunOK, ControlOK, PaidOK
  <1>2. Named(d)
    BY <1>1, EventSet, ZenonT(60) DEF Events, Read, Currents
  <1>3. PICK l \in {"c_send", "c_look", "c_stop", "c_fetch", "c_doc"} :
          Goto(r, l) /\ (l = "c_send" => e \in {"create", "register", "budget"})
    BY <1>1 DEF SaveWrite, AfterSave
  <1>4. /\ doc' = [doc EXCEPT ![r] = d] /\ rec' = [rec EXCEPT ![r] = d]
        /\ saving' = [saving EXCEPT ![r] = None] /\ hold' = [hold EXCEPT ![r] = None]
        /\ UNCHANGED <<chain, seen, held>>
    BY DEF SaveWrite, OperatorInv, Shapes
  <1>5. /\ DOMAIN step' = Runs
        /\ \A s \in Runs \ {r} : step'[s] = step[s]
        /\ step'[r] \in 1..4
        /\ l = "c_send" => step'[r] # 1
    BY <1>1, <1>3 DEF SaveWrite, OperatorInv, Shapes
  <1>6. /\ DOMAIN cb' = Runs
        /\ \A s \in Runs \ {r} : cb'[s] = cb[s]
    BY DEF SaveWrite, OperatorInv, Shapes
  <1>7. Shapes' /\ \A s \in Runs \ {r} : Same(s)
    BY <1>3, <1>4, <1>5, <1>6 DEF OperatorInv, Shapes, Goto, Same
  <1>8. pc'[r] = l /\ doc'[r] = d /\ rec'[r] = d
    BY <1>3, <1>4 DEF OperatorInv, Shapes, Goto
  <1>9. RunOK(r)'
    <2> HIDE DEF d
    <2>1. PaidOK(r)'
      BY <1>2, <1>4, <1>5, <1>8 DEF OperatorInv, RunOK, PaidOK
    <2>2. BuyOK(r)'
      BY <1>2, <1>5, <1>8 DEF BuyOK
    <2>3. ControlOK(r)'
      BY <1>2, <1>4, <1>8 DEF OperatorInv, RunOK, ControlOK
    <2> QED
      BY <2>1, <2>2, <2>3 DEF RunOK
  <1> QED
    BY <1>7, <1>9, StepOK

LEMMA ControlStopOK ==
    ASSUME OperatorInv, NEW r \in Runs, ControlLookEnds(r) \/ ControlStop(r)
    PROVE  OperatorInv'
  <1> USE DEF buyVars, lookVars, controlVars, env, chainVars
  <1>1. CASE ControlLookEnds(r)
    <2>1. Shapes' /\ \A s \in Runs \ {r} : Same(s)
      BY <1>1 DEF OperatorInv, Shapes, ControlLookEnds, Goto, Same
    <2>2. RunOK(r)'
      BY <1>1 DEF OperatorInv, Shapes, ControlLookEnds, Goto, RunOK, PaidOK, BuyOK, ControlOK
    <2> QED
      BY <2>1, <2>2, StepOK
  <1>2. CASE ControlStop(r)
    <2>1. Shapes' /\ \A s \in Runs \ {r} : Same(s)
      BY <1>2 DEF OperatorInv, Shapes, ControlStop, Goto, Same
    <2>2. RunOK(r)'
      BY <1>2 DEF OperatorInv, Shapes, ControlStop, Goto, RunOK, PaidOK, BuyOK, ControlOK
    <2> QED
      BY <2>1, <2>2, StepOK
  <1> QED
    BY <1>1, <1>2

LEMMA ControlFetchOK ==
    ASSUME OperatorInv, NEW r \in Runs, ControlFetch(r)
    PROVE  OperatorInv'
  <1> USE DEF buyVars, env, chainVars
  <1>1. PICK l \in {"c_load", "c_error", "c_doc"} : Goto(r, l)
    BY DEF ControlFetch
  <1>2. UNCHANGED <<step, rec, doc, chain, seen>> /\ UNCHANGED <<hold, cb, held>> /\ pc[r] = "c_fetch"
    BY DEF ControlFetch
  <1>3. \/ saving' = [saving EXCEPT ![r] = [event |-> "deliverable", status |-> seen[r]]]
        \/ l # "c_load" /\ UNCHANGED saving
    BY <1>1 DEF ControlFetch, Goto, OperatorInv, Shapes
  <1>4. Shapes' /\ \A s \in Runs \ {r} : Same(s)
    BY <1>1, <1>2, <1>3 DEF OperatorInv, Shapes, Goto, Same
  <1>5. pc'[r] = l
    BY <1>1 DEF OperatorInv, Shapes, Goto
  <1>6. l = "c_load" => saving'[r] = [event |-> "deliverable", status |-> seen[r]]
    BY <1>3 DEF OperatorInv, Shapes
  <1>7. RunOK(r)'
    BY <1>2, <1>5, <1>6, ChainRead DEF OperatorInv, RunOK, PaidOK, BuyOK, ControlOK
  <1> QED
    BY <1>4, <1>7, StepOK

LEMMA ControlDocOK ==
    ASSUME OperatorInv, NEW r \in Runs, ControlDoc(r) \/ ControlKeep(r)
    PROVE  OperatorInv'
  <1> USE DEF buyVars, lookVars, controlVars, env, chainVars
  <1>1. CASE ControlDoc(r)
    <2>1. Shapes' /\ \A s \in Runs \ {r} : Same(s)
      BY <1>1 DEF OperatorInv, Shapes, ControlDoc, Goto, Same
    <2>2. Named(doc[r]) /\ seen[r] \in Currents
      BY <1>1, ChainRead DEF ControlDoc, OperatorInv, RunOK, ControlOK, Read, Currents
    <2>3. rec'[r] = [doc[r] EXCEPT !.current = seen[r], !.funded = TRUE]
      BY <1>1 DEF ControlDoc, OperatorInv, Shapes
    <2>4. Named(rec'[r])
      BY <2>2, <2>3, MarkedSet, ZenonT(60)
    <2>5. RunOK(r)'
      BY <1>1, <2>4 DEF OperatorInv, Shapes, ControlDoc, Goto, RunOK, PaidOK, BuyOK, ControlOK
    <2> QED
      BY <2>1, <2>5, StepOK
  <1>2. CASE ControlKeep(r)
    <2>1. Shapes' /\ \A s \in Runs \ {r} : Same(s)
      BY <1>2 DEF OperatorInv, Shapes, ControlKeep, Goto, Same
    <2>2. RunOK(r)'
      BY <1>2 DEF OperatorInv, Shapes, ControlKeep, Goto, RunOK, PaidOK, BuyOK, ControlOK
    <2> QED
      BY <2>1, <2>2, StepOK
  <1> QED
    BY <1>1, <1>2

LEMMA ControlBookOK ==
    ASSUME OperatorInv, NEW r \in Runs,
           ControlRuns(r) \/ ControlSave(r) \/ ControlReconcile(r) \/ ControlReread(r)
           \/ ControlRewrite(r)
    PROVE  OperatorInv'
  <1> USE DEF buyVars, lookVars, env, chainVars
  <1>1. PICK l \in {"c_book", "done", "rc_read", "rc_save", "dead"} : Goto(r, l)
    BY DEF ControlRuns, ControlSave, ControlReconcile, ControlReread, ControlRewrite
  <1>2. UNCHANGED <<step, rec, doc, chain>> /\ UNCHANGED controlVars
    BY DEF ControlRuns, ControlSave, ControlReconcile, ControlReread, ControlRewrite
  <1>3. seen' = [seen EXCEPT ![r] = chain[r]] \/ UNCHANGED seen
    BY DEF ControlRuns, ControlSave, ControlReconcile, ControlReread, ControlRewrite
  <1> QED
    BY <1>1, <1>2, <1>3, LateOK, ChainRead DEF Asked

LEMMA ControlErrorOK ==
    ASSUME OperatorInv, NEW r \in Runs, ControlError(r)
    PROVE  OperatorInv'
  <1> DEFINE x == IF doc[r].current = None THEN "ERROR" ELSE doc[r].current
             d == [doc[r] EXCEPT !.events = @ \cup {"control_error"}, !.current = x]
  <1> USE DEF lookVars, env, chainVars
  <1>1. Named(doc[r]) => Named(d)
    <2>1. "control_error" \in Events
      BY DEF Events
    <2>2. Named(doc[r]) => x \in Currents
      BY DEF Named, JobRecords, Currents
    <2> HIDE DEF x
    <2> QED
      BY <2>1, <2>2, EventSet
  <1>2. doc' = [doc EXCEPT ![r] = d] /\ rec' = [rec EXCEPT ![r] = d]
    BY DEF ControlError, OperatorInv, Shapes
  <1>3. Shapes' /\ \A s \in Runs \ {r} : Same(s)
    BY <1>2 DEF OperatorInv, Shapes, ControlError, Goto, Same
  <1>4. /\ pc'[r] = "stopped" /\ doc'[r] = d
        /\ cb'[r] \in {cb[r], "over"}
        /\ UNCHANGED <<step, chain, seen, held>>
    BY <1>2 DEF OperatorInv, Shapes, ControlError, Goto
  <1> HIDE DEF d
  <1>5. RunOK(r)'
    BY <1>1, <1>4 DEF OperatorInv, RunOK, PaidOK, BuyOK, ControlOK
  <1> QED
    BY <1>3, <1>5, StepOK

LEMMA ControlsOK ==
    ASSUME OperatorInv, NEW r \in Runs, Control(r)
    PROVE  OperatorInv'
  BY ControlStartOK, ControlCommitOK, ControlSendOK, ControlReadOK, SaveLoadOK, SaveWriteOK,
     ControlStopOK, ControlFetchOK, ControlDocOK, ControlBookOK, ControlErrorOK
  DEF Control

(* ----------------------------- the callback ------------------------------ *)

LEMMA DetectOK ==
    ASSUME OperatorInv, NEW r \in Runs, Detect(r)
    PROVE  OperatorInv'
  <1> USE DEF runVars, buyVars, lookVars, env, chainVars
  <1>1. Shapes' /\ \A s \in Runs \ {r} : Same(s)
    BY DEF OperatorInv, Shapes, Detect, Same
  <1>2. RunOK(r)'
    BY DEF OperatorInv, Shapes, Detect, RunOK, PaidOK, BuyOK, ControlOK
  <1> QED
    BY <1>1, <1>2, StepOK

LEMMA CallbackLoadOK ==
    ASSUME OperatorInv, NEW r \in Runs, CallbackLoad(r)
    PROVE  OperatorInv'
  <1> USE DEF runVars, buyVars, lookVars, env, chainVars
  <1>1. Shapes' /\ \A s \in Runs \ {r} : Same(s)
    BY DEF OperatorInv, Shapes, CallbackLoad, Same
  <1>2. RunOK(r)'
    BY DEF OperatorInv, Shapes, CallbackLoad, RunOK, PaidOK, BuyOK, ControlOK
  <1> QED
    BY <1>1, <1>2, StepOK

LEMMA CallbackSaveOK ==
    ASSUME OperatorInv, NEW r \in Runs, CallbackSave(r)
    PROVE  OperatorInv'
  <1> DEFINE x == IF cb[r] = "detect" THEN "FUNDED" ELSE held[r].current
             d == [held[r] EXCEPT !.events = @ \cup {cb[r]}, !.current = x]
  <1> USE DEF lookVars, env, chainVars
  <1>1. Named(held[r]) /\ cb[r] \in {"detect", "work", "result", "error"}
    BY DEF CallbackSave, OperatorInv, RunOK, ControlOK
  <1>2. Named(d)
    <2>1. x \in Currents
      BY <1>1 DEF Named, JobRecords, Currents, Statuses
    <2> QED
      BY <1>1, <2>1, EventSet DEF Events
  <1>3. doc' = [doc EXCEPT ![r] = d] /\ rec' = [rec EXCEPT ![r] = d]
    BY DEF CallbackSave, OperatorInv, Shapes
  <1>4. PICK c \in {"work", "submit", "over", "idle"} : cb' = [cb EXCEPT ![r] = c]
    BY DEF CallbackSave
  <1>5. /\ UNCHANGED <<pc, step, chain, seen, saving, hold>>
        /\ held' = [held EXCEPT ![r] = None]
    BY DEF CallbackSave
  <1>6. Shapes' /\ \A s \in Runs \ {r} : Same(s)
    BY <1>3, <1>4, <1>5 DEF OperatorInv, Shapes, Same
  <1>7. doc'[r] = d /\ rec'[r] = d /\ held'[r] = None
    BY <1>3, <1>5 DEF OperatorInv, Shapes
  <1>8. d \in JobRecords
    BY <1>2 DEF Named
  <1> HIDE DEF d
  <1>9. RunOK(r)'
    BY <1>1, <1>2, <1>5, <1>7, <1>8 DEF OperatorInv, RunOK, PaidOK, BuyOK, ControlOK
  <1> QED
    BY <1>6, <1>9, StepOK

(* The job of a run moves where it was paid for: its document stays named.     *)
LEMMA PaidOnOK ==
    ASSUME OperatorInv, NEW r \in Runs, UNCHANGED runVars, UNCHANGED <<saving, hold, held>>,
           \/ UNCHANGED chain
           \/ chain[r] \notin Unpaid /\ \E x \in Read : chain' = [chain EXCEPT ![r] = x],
           \/ UNCHANGED cb
           \/ cb[r] # "off" /\ Named(doc[r]) /\ \E c : cb' = [cb EXCEPT ![r] = c]
    PROVE  OperatorInv'
  <1> USE DEF runVars, buyVars, lookVars
  <1>1. Shapes' /\ \A s \in Runs \ {r} : Same(s)
    BY DEF OperatorInv, Shapes, Same
  <1>2. chain'[r] \in Read /\ (chain'[r] \notin Unpaid => chain[r] \notin Unpaid)
    BY ChainRead DEF OperatorInv, Shapes
  <1>3. chain[r] \in Unpaid => chain'[r] = chain[r]
    OBVIOUS
  <1>4. RunOK(r)'
    BY <1>2, <1>3 DEF OperatorInv, RunOK, PaidOK, BuyOK, ControlOK
  <1> QED
    BY <1>1, <1>4, StepOK

LEMMA DeliverMoves ==
    ASSUME OperatorInv, NEW r \in Runs, NEW c, Deliver(r, c)
    PROVE  chain[r] \notin Unpaid /\ \E x \in Read : chain' = [chain EXCEPT ![r] = x]
  BY NoneAssumption DEF Deliver, Unpaid, Read, Statuses

LEMMA CallbackSubmitOK ==
    ASSUME OperatorInv, NEW r \in Runs, CallbackSubmit(r)
    PROVE  OperatorInv'
  <1>1. cb[r] # "off" /\ Named(doc[r])
    BY DEF CallbackSubmit, OperatorInv, RunOK, ControlOK
  <1>2. \E c : cb' = [cb EXCEPT ![r] = c]
    BY DEF CallbackSubmit
  <1>3. Deliver(r, "good") \/ UNCHANGED chain
    BY DEF CallbackSubmit
  <1> QED
    BY <1>1, <1>2, <1>3, DeliverMoves, PaidOnOK DEF CallbackSubmit

(* -------------------------- the world around them ------------------------ *)

LEMMA ChainOK ==
    ASSUME OperatorInv, NEW r \in Runs, Chain(r)
    PROVE  OperatorInv'
  <1>1. UNCHANGED runVars /\ UNCHANGED <<saving, hold, cb, held>>
    BY DEF Chain, controlVars
  <1>2. MineSettle(r) \/ MineRefund(r) \/ MineReject(r) \/ UNCHANGED chain
    BY DEF Chain, Lapse, Ripen
  <1> QED
    BY <1>1, <1>2, PaidMoves, PaidOnOK

LEMMA SellerOK ==
    ASSUME OperatorInv, NEW r \in Runs, Seller(r) \/ Restart(r)
    PROVE  OperatorInv'
  <1>1. UNCHANGED runVars /\ UNCHANGED <<saving, hold, cb, held>>
    BY DEF Seller, Restart, controlVars
  <1>2. UNCHANGED chain \/ \E c : Deliver(r, c)
    BY DEF Seller, Restart, Verify, StartWork, EndWork, SubmitResult, RestartAgent, chainVars
  <1> QED
    BY <1>1, <1>2, DeliverMoves, PaidOnOK

LEMMA KillOK ==
    ASSUME OperatorInv, NEW r \in Runs, Kill(r)
    PROVE  OperatorInv'
  <1> USE DEF buyVars, lookVars, env, chainVars
  <1>1. Shapes' /\ \A s \in Runs \ {r} : Same(s)
    BY DEF OperatorInv, Shapes, Kill, Die, Goto, Same
  <1>2. RunOK(r)'
    BY DEF OperatorInv, Shapes, Kill, Die, Goto, RunOK, PaidOK, BuyOK, ControlOK
  <1> QED
    BY <1>1, <1>2, StepOK

LEMMA NextOK == OperatorInv /\ [Next]_vars => OperatorInv'
  <1> SUFFICES ASSUME OperatorInv, [Next]_vars PROVE OperatorInv'
    OBVIOUS
  <1>1. CASE UNCHANGED vars
    BY <1>1 DEF vars, runVars, buyVars, lookVars, controlVars, env, chainVars, OperatorInv, Shapes,
                RunOK, PaidOK, BuyOK, ControlOK
  <1>2. ASSUME NEW r \in Runs, Agent(r) \/ Control(r) \/ Detect(r) \/ Callback(r)
        PROVE  OperatorInv'
    BY <1>2, AgentOK, ControlsOK, DetectOK, CallbackLoadOK, CallbackSaveOK, CallbackSubmitOK
    DEF Callback
  <1>3. ASSUME NEW r \in Runs, Reconciling(r) \/ Kill(r)
        PROVE  OperatorInv'
    BY <1>3, ReconcileOK, ControlBookOK, KillOK DEF Reconciling
  <1>4. ASSUME NEW r \in Runs, Seller(r) \/ Chain(r) \/ Restart(r)
        PROVE  OperatorInv'
    BY <1>4, SellerOK, ChainOK
  <1> QED
    BY <1>1, <1>2, <1>3, <1>4 DEF Next

LEMMA InvNamed == OperatorInv => EscrowKnown
  <1> SUFFICES ASSUME OperatorInv, NEW r \in Runs, chain[r] \notin Unpaid
               PROVE  doc[r] # None /\ doc[r].job
    BY DEF EscrowKnown, Unpaid
  <1>1. Named(doc[r])
    BY DEF OperatorInv, RunOK, PaidOK
  <1> QED
    BY <1>1, RecordAssumption DEF Named

(* Whatever is killed, lost or reordered, money is never in a job that no      *)
(* document names (createFundedJob and run-protocol-control).                 *)
THEOREM EscrowNamed == Spec => []EscrowKnown
  <1>1. Spec => []OperatorInv
    BY InitOK, NextOK, PTL DEF Spec
  <1> QED
    BY <1>1, InvNamed, PTL

(* ------------------------ what a recorded run was ------------------------ *)
Answered == {"SUBMITTED", "COMPLETED", "REJECTED"}

(* The points before a hire script has written the run.                          *)
Before ==
    {"check", "commit", "send", "note", "fail", "observe", "fetch", "refund", "settle", "confirm",
     "retry", "count", "load", "save"}

ControlPoints ==
    {"c_commit", "c_send", "c_note", "c_load", "c_save", "c_look", "c_stop", "c_last", "c_fetch",
     "c_doc", "c_keep", "c_runs", "c_book", "c_error", "rc_read", "rc_save"}

(* The points between the precommit and the end of the observation.              *)
Precommitted ==
    {"send", "note", "c_send", "c_note", "c_load", "c_save", "c_look", "c_stop", "c_last",
     "c_fetch"}

(* The points of a reconciliation, from the first read on.                       *)
Rereading == {"r_fetch", "r_settle", "r_confirm", "r_retry", "r_load", "r_save"}

Committed(r) ==
    /\ committed[r] # {}
    /\ kind[r] \in {"yield", "range", "health"} => "baseline" \in committed[r]

(* Whose scripts take a run's steps.                                            *)
KindOK(r) ==
    /\ kind[r] \in Kinds
    /\ kind[r] = "control" => pc[r] \in ControlPoints \cup Ended \cup {"check"}
    /\ kind[r] # "control" =>
        pc[r] \notin ControlPoints /\ cb[r] \in {"off", "over"} /\ rec[r] \in JobRecords

(* What was delivered stays, and nobody pays a job that was answered.            *)
AnswerOK(r) ==
    /\ content[r] \in {None, "good"} \cup Refused(kind[r])
    /\ content[r] # None <=> chain[r] \in Answered
    /\ chain[r] # None => Committed(r)
    /\ pc[r] \in Precommitted => Committed(r)
    /\ pc[r] \in {"check", "commit", "c_commit", "send", "c_send"} => chain[r] \in Unpaid
    /\ pc[r] \in {"note", "c_note"} /\ step[r] < 4 => chain[r] \in Unpaid
    /\ pc[r] \in {"c_load", "c_save"} /\ saving[r].event \in {"create", "register", "budget"}
        => chain[r] \in Unpaid

(* What a script has seen was so, and is.                                       *)
SeenOK(r) ==
    /\ seen[r] \in Delivered => content[r] # None
    /\ seen[r] = "COMPLETED" => chain[r] = "COMPLETED"
    /\ valid[r] = TRUE => content[r] = "good"
    /\ pc[r] = "r_fetch" => valid[r] # TRUE /\ seen[r] \in Delivered
    /\ kind[r] # "control" =>
        /\ Named(doc[r]) /\ doc[r].current = "COMPLETED" => chain[r] = "COMPLETED"
        /\ rec[r].current = "COMPLETED" => chain[r] = "COMPLETED"
    /\ pc[r] \in Rereading \cup {"r_read", "rc_read", "rc_save"} => snap[r][r] # None
    /\ pc[r] = "rc_save" => valid[r] \in BOOLEAN

Settled(r) ==
    /\ chain[r] = "COMPLETED" /\ valid[r] = TRUE
    /\ Named(doc[r]) /\ doc[r].current = "COMPLETED"
    /\ pc[r] \in Rereading => seen[r] = "COMPLETED"

EntryOK(e, r) ==
    /\ e \in Entries /\ pc[r] \notin Before
    /\ kind[r] = "control" => e.record = FALSE
    /\ e.complete =>
        /\ Committed(r) /\ content[r] = "good"
        /\ kind[r] # "control" => Settled(r)
        /\ e.record => doc[r].funded

ListOK(list) ==
    DOMAIN list = Runs /\ \A r \in Runs : list[r] # None => EntryOK(list[r], r)

Wide ==
    /\ DOMAIN kind = Runs /\ DOMAIN content = Runs /\ DOMAIN committed = Runs /\ DOMAIN valid = Runs
    /\ DOMAIN snap = Runs

(* The invariant: what a script has seen and holds is true of the chain and  *)
(* of what was delivered, and so is every copy of the runs that it may write *)
(* back, whoever has loaded it.                                              *)
EarnedInv ==
    /\ Wide
    /\ \A r \in Runs : KindOK(r) /\ AnswerOK(r) /\ SeenOK(r)
    /\ ListOK(book) /\ \A s \in Runs : ListOK(snap[s])


(* ----------------------------- the framework ------------------------------ *)

(* A run that a step leaves alone.                                              *)
Left(s) ==
    /\ pc'[s] = pc[s] /\ step'[s] = step[s] /\ kind'[s] = kind[s] /\ chain'[s] = chain[s]
    /\ content'[s] = content[s] /\ committed'[s] = committed[s] /\ seen'[s] = seen[s]
    /\ valid'[s] = valid[s] /\ doc'[s] = doc[s] /\ rec'[s] = rec[s] /\ cb'[s] = cb[s]
    /\ saving'[s] = saving[s] /\ snap'[s] = snap[s]

EntryStays(r) == \A e : EntryOK(e, r) => EntryOK(e, r)'

SelfOK(r) == KindOK(r) /\ AnswerOK(r) /\ SeenOK(r)

LEMMA LeftOK ==
    ASSUME NEW s \in Runs, Left(s), SelfOK(s)
    PROVE  SelfOK(s)' /\ EntryStays(s)
  <1>1. KindOK(s)'
    BY DEF Left, SelfOK, KindOK
  <1>2. AnswerOK(s)'
    BY DEF Left, SelfOK, AnswerOK, Committed
  <1>3. SeenOK(s)'
    BY DEF Left, SelfOK, SeenOK
  <1>4. EntryStays(s)
    BY DEF Left, EntryStays, EntryOK, Committed, Settled
  <1> QED
    BY <1>1, <1>2, <1>3, <1>4 DEF SelfOK

(* How a step may treat the document of the runs and the copies of it.           *)
ListsKept(q) ==
    /\ \/ book' = book
       \/ \E e : EntryOK(e, q)' /\ book' = [snap[q] EXCEPT ![q] = e]
    /\ snap'[q] = snap[q] \/ snap'[q] = book \/ snap'[q] = NoEntry

LEMMA ListStays ==
    ASSUME \A s \in Runs : EntryStays(s), NEW list, ListOK(list)
    PROVE  ListOK(list)'
  BY DEF ListOK, EntryStays

LEMMA EarnedStep ==
    ASSUME EarnedInv, NEW q \in Runs, Wide', \A s \in Runs \ {q} : Left(s), SelfOK(q)',
           EntryStays(q), ListsKept(q)
    PROVE  EarnedInv'
  <1>1. \A s \in Runs : SelfOK(s)' /\ EntryStays(s)
    BY LeftOK DEF EarnedInv, SelfOK
  <1>2. ListOK(book)'
    <2>1. CASE book' = book
      <3>1. ASSUME NEW list, list = book PROVE ListOK(list)'
        BY <1>1, <3>1, ListStays DEF EarnedInv
      <3> QED
        BY <2>1, <3>1 DEF ListOK
    <2>2. CASE \E e : EntryOK(e, q)' /\ book' = [snap[q] EXCEPT ![q] = e]
      <3>1. PICK e : EntryOK(e, q)' /\ book' = [snap[q] EXCEPT ![q] = e]
        BY <2>2
      <3>2. ListOK(snap[q])
        BY DEF EarnedInv
      <3>3. DOMAIN book' = Runs
        BY <3>1, <3>2 DEF ListOK
      <3>4. ASSUME NEW s \in Runs, NEW d, d = book'[s], d # None PROVE EntryOK(d, s)'
        <4>1. CASE s = q
          BY <3>1, <3>2, <3>4, <4>1 DEF ListOK
        <4>2. CASE s # q
          <5>1. d = snap[q][s]
            BY <3>1, <3>2, <3>4, <4>2 DEF ListOK
          <5>2. EntryOK(d, s)
            BY <3>2, <3>4, <5>1 DEF ListOK
          <5> QED
            BY <1>1, <5>2 DEF EntryStays
        <4> QED
          BY <4>1, <4>2
      <3> QED
        BY <3>3, <3>4 DEF ListOK
    <2> QED
      BY <2>1, <2>2 DEF ListsKept
  <1>3. ASSUME NEW s \in Runs PROVE ListOK(snap[s])'
    <2>1. ASSUME NEW list, ListOK(list), snap'[s] = list PROVE ListOK(snap[s])'
      <3>1. ListOK(list)'
        BY <1>1, <2>1, ListStays
      <3> QED
        BY <2>1, <3>1 DEF ListOK
    <2>2. ListOK(NoEntry)
      BY DEF ListOK, NoEntry
    <2>3. snap'[s] = snap[s] \/ snap'[s] = book \/ snap'[s] = NoEntry
      BY DEF ListsKept, Left
    <2>4. ListOK(snap[s]) /\ ListOK(book)
      BY DEF EarnedInv
    <2> QED
      BY <2>1, <2>2, <2>3, <2>4
  <1> QED
    BY <1>1, <1>2, <1>3 DEF EarnedInv, SelfOK

LEMMA EarnedInitOK == Init => EarnedInv
  <1> SUFFICES ASSUME Init PROVE EarnedInv
    OBVIOUS
  <1> USE DEF Init, ChainInit, RunInit, ControlInit
  <1>1. Wide
    BY DEF Wide
  <1>2. ASSUME NEW r \in Runs PROVE KindOK(r) /\ AnswerOK(r) /\ SeenOK(r)
    <2>1. KindOK(r)
      BY FreshOK DEF KindOK, ControlPoints
    <2>2. AnswerOK(r)
      BY NoneAssumption DEF AnswerOK, Unpaid, Answered, Statuses, Precommitted
    <2>3. SeenOK(r)
      BY NoneAssumption, RecordAssumption DEF SeenOK, Delivered, Rereading, Named, Fresh, Statuses
    <2> QED
      BY <2>1, <2>2, <2>3
  <1>3. ListOK(book) /\ \A s \in Runs : ListOK(snap[s])
    BY DEF ListOK, NoEntry
  <1> QED
    BY <1>1, <1>2, <1>3 DEF EarnedInv

(* ------------------------- after the job is funded ------------------------ *)

Late ==
    {"observe", "fetch", "refund", "settle", "confirm", "retry", "count", "load", "save", "report",
     "r_read"} \cup Rereading

(* A document whose status is set.                                              *)
LEMMA Marked ==
    ASSUME NEW d, NEW x
    PROVE  /\ Named([d EXCEPT !.current = x]) => [d EXCEPT !.current = x].current = x
           /\ Named(d) => /\ [d EXCEPT !.current = x].current = x
                          /\ [d EXCEPT !.current = x].funded = d.funded
  BY DEF Named, JobRecords

(* What a late step of a hire script may do.                                    *)
LateMoves(q, l) ==
    /\ Goto(q, l) /\ pc[q] \in Late /\ l \in Late \cup {"done", "dead"}
    /\ pc[q] \notin Before => l \notin Before
    /\ UNCHANGED <<kind, content, committed, rec, step>> /\ UNCHANGED controlVars
    /\ UNCHANGED chain \/ MineSettle(q) \/ MineRefund(q)
    /\ UNCHANGED seen \/ seen' = [seen EXCEPT ![q] = chain'[q]]
    /\ \/ UNCHANGED valid
       \/ /\ pc[q] \in {"fetch", "r_fetch"}
          /\ \E v : valid' = [valid EXCEPT ![q] = v] /\ (v = TRUE => content[q] = "good")
    /\ \/ UNCHANGED doc
       \/ \E x : Persist(q, x) /\ (x = chain'[q] \/ (x = seen[q] /\ pc[q] = "r_load"))
    /\ l \in Rereading => pc[q] \in Rereading \/ seen' = [seen EXCEPT ![q] = chain'[q]]
    /\ l = "r_fetch" => valid'[q] # TRUE /\ seen'[q] \in Delivered
    /\ l \in Rereading \cup {"r_read"} => pc[q] \in Rereading \cup {"r_read"} /\ UNCHANGED snap
    /\ DOMAIN snap' = Runs /\ \A s \in Runs \ {q} : snap'[s] = snap[s]

LateFacts(q, l) ==
    /\ pc'[q] = l /\ kind'[q] = kind[q] /\ content'[q] = content[q] /\ committed'[q] = committed[q]
    /\ rec'[q] = rec[q] /\ step'[q] = step[q] /\ cb'[q] = cb[q] /\ saving'[q] = saving[q]
    /\ \/ chain'[q] = chain[q]
       \/ chain[q] = "SUBMITTED" /\ chain'[q] = "COMPLETED"
       \/ chain[q] = "FUNDED" /\ chain'[q] = "EXPIRED"
    /\ seen'[q] = seen[q] \/ seen'[q] = chain'[q]
    /\ valid'[q] = valid[q] \/ (pc[q] \in {"fetch", "r_fetch"} /\ (valid'[q] = TRUE => content[q] = "good"))
    /\ Named(doc'[q]) => \/ doc'[q] = doc[q]
                         \/ doc'[q].current = chain'[q]
                         \/ doc'[q].current = seen[q] /\ pc[q] = "r_load"
    /\ Named(doc[q]) => Named(doc'[q]) /\ doc'[q].funded = doc[q].funded
    /\ l \in Rereading => pc[q] \in Rereading \/ seen'[q] = chain'[q]

LEMMA LateOnly ==
    ASSUME OperatorInv, EarnedInv, NEW q \in Runs, NEW l, LateMoves(q, l)
    PROVE  /\ Wide' /\ \A s \in Runs \ {q} : Left(s)
           /\ LateFacts(q, l)
  <1> USE DEF LateMoves, OperatorInv, Shapes, EarnedInv, Wide, controlVars, Goto
  <1>1. /\ DOMAIN chain' = Runs /\ \A s \in Runs \ {q} : chain'[s] = chain[s]
        /\ \/ chain'[q] = chain[q]
           \/ chain[q] = "SUBMITTED" /\ chain'[q] = "COMPLETED"
           \/ chain[q] = "FUNDED" /\ chain'[q] = "EXPIRED"
    BY DEF MineSettle, MineRefund
  <1>2. /\ \A s \in Runs \ {q} : seen'[s] = seen[s]
        /\ seen'[q] = seen[q] \/ seen'[q] = chain'[q]
        /\ l \in Rereading => pc[q] \in Rereading \/ seen'[q] = chain'[q]
    OBVIOUS
  <1>3. /\ DOMAIN valid' = Runs /\ \A s \in Runs \ {q} : valid'[s] = valid[s]
        /\ valid'[q] = valid[q] \/ (pc[q] \in {"fetch", "r_fetch"} /\ (valid'[q] = TRUE => content[q] = "good"))
    OBVIOUS
  <1>4. /\ \A s \in Runs \ {q} : doc'[s] = doc[s]
        /\ \/ doc'[q] = doc[q]
           \/ \E x : /\ doc'[q] = [doc[q] EXCEPT !.current = x]
                     /\ x = chain'[q] \/ (x = seen[q] /\ pc[q] = "r_load")
    BY DEF Persist
  <1>5. /\ Named(doc'[q]) => \/ doc'[q] = doc[q]
                             \/ doc'[q].current = chain'[q]
                             \/ doc'[q].current = seen[q] /\ pc[q] = "r_load"
        /\ Named(doc[q]) => Named(doc'[q]) /\ doc'[q].funded = doc[q].funded
    <2>1. CASE doc'[q] = doc[q]
      BY <2>1
    <2>2. ASSUME NEW x, doc'[q] = [doc[q] EXCEPT !.current = x],
                 x = chain'[q] \/ (x = seen[q] /\ pc[q] = "r_load")
          PROVE  <1>5!1 /\ <1>5!2
      <3>1. x \in Currents
        <4>1. chain'[q] \in Read /\ seen[q] \in Read
          BY <1>1, ChainRead DEF Read, Statuses
        <4> QED
          BY <2>2, <4>1 DEF Read, Currents
      <3> QED
        BY <2>2, <3>1, Marked, CurrentSet
    <2> QED
      BY <1>4, <2>1, <2>2
  <1>6. Wide'
    BY <1>1, <1>3
  <1>7. \A s \in Runs \ {q} : Left(s)
    BY <1>1, <1>2, <1>3, <1>4 DEF Left
  <1>8. /\ pc'[q] = l /\ kind'[q] = kind[q] /\ content'[q] = content[q]
        /\ committed'[q] = committed[q] /\ rec'[q] = rec[q] /\ step'[q] = step[q]
        /\ cb'[q] = cb[q] /\ saving'[q] = saving[q]
    OBVIOUS
  <1> QED
    BY <1>1, <1>2, <1>3, <1>5, <1>6, <1>7, <1>8 DEF LateFacts

LEMMA LateSelf ==
    ASSUME OperatorInv, EarnedInv, NEW q \in Runs, NEW l, LateMoves(q, l)
    PROVE  SelfOK(q)' /\ EntryStays(q)
  <1>1. LateFacts(q, l) /\ KindOK(q) /\ AnswerOK(q) /\ SeenOK(q)
    BY LateOnly DEF EarnedInv
  <1>2. /\ pc[q] \in Late /\ l \in Late \cup {"done", "dead"}
        /\ pc[q] \notin Before => l \notin Before
        /\ l = "r_fetch" => valid'[q] # TRUE /\ seen'[q] \in Delivered
        /\ l \in Rereading \cup {"r_read"} => snap'[q][q] # None
    BY <1>1 DEF LateMoves, SeenOK
  <1>3. kind[q] # "control"
    BY <1>1, <1>2 DEF KindOK, Late, Rereading, ControlPoints, Ended
  <1>4. KindOK(q)'
    BY <1>1, <1>2, <1>3 DEF LateFacts, KindOK, Late, Rereading, ControlPoints, Ended
  <1>5. AnswerOK(q)'
    <2>1. Committed(q)' <=> Committed(q)
      BY <1>1 DEF LateFacts, Committed
    <2>2. content'[q] # None <=> chain'[q] \in Answered
      BY <1>1 DEF LateFacts, AnswerOK, Answered
    <2>3. chain'[q] # None => chain[q] # None
      BY <1>1, NoneAssumption DEF LateFacts, Statuses
    <2>4. /\ l \notin {"send", "c_send", "check", "commit", "c_commit", "note", "c_note", "c_load", "c_save"}
          /\ l \notin Precommitted
      BY <1>2 DEF Late, Rereading, Precommitted
    <2> QED
      BY <1>1, <2>1, <2>2, <2>3, <2>4 DEF LateFacts, AnswerOK
  <1>6. /\ chain[q] = "COMPLETED" => chain'[q] = "COMPLETED"
        /\ seen[q] = "COMPLETED" => chain'[q] = "COMPLETED"
    BY <1>1 DEF LateFacts, SeenOK
  <1>7. SeenOK(q)'
    <2>1. seen'[q] \in Delivered => content'[q] # None
      BY <1>1, <1>5 DEF LateFacts, SeenOK, AnswerOK, Delivered, Answered
    <2>2. seen'[q] = "COMPLETED" => chain'[q] = "COMPLETED"
      BY <1>1, <1>6 DEF LateFacts
    <2>3. valid'[q] = TRUE => content'[q] = "good"
      BY <1>1 DEF LateFacts, SeenOK
    <2>4. Named(doc'[q]) /\ doc'[q].current = "COMPLETED" => chain'[q] = "COMPLETED"
      BY <1>1, <1>3, <1>6 DEF LateFacts, SeenOK
    <2>5. rec'[q].current = "COMPLETED" => chain'[q] = "COMPLETED"
      BY <1>1, <1>3, <1>6 DEF LateFacts, SeenOK
    <2>6. l \notin {"rc_read", "rc_save"}
      BY <1>2 DEF Late, Rereading
    <2>7. pc'[q] = l
      BY <1>1 DEF LateFacts
    <2> QED
      BY <1>2, <2>1, <2>2, <2>3, <2>4, <2>5, <2>6, <2>7 DEF SeenOK
  <1>8. ASSUME NEW e, EntryOK(e, q) PROVE EntryOK(e, q)'
    <2>1. /\ e \in Entries /\ pc[q] \notin Before
          /\ e.complete => /\ Committed(q) /\ content[q] = "good" /\ Settled(q)
                           /\ e.record => doc[q].funded
      BY <1>3, <1>8 DEF EntryOK
    <2>2. pc'[q] \notin Before /\ kind'[q] = kind[q]
      BY <1>1, <1>2, <2>1 DEF LateFacts
    <2>3. ASSUME Settled(q) PROVE Settled(q)' /\ doc'[q].funded = doc[q].funded
      <3>1. chain[q] = "COMPLETED" /\ chain'[q] = "COMPLETED" /\ valid[q] = TRUE
            /\ Named(doc[q]) /\ doc[q].current = "COMPLETED"
            /\ (pc[q] \in Rereading => seen[q] = "COMPLETED")
        BY <1>6, <2>3 DEF Settled
      <3>2. pc[q] \notin {"fetch", "r_fetch"}
        BY <1>1, <2>1, <3>1 DEF SeenOK, Before
      <3>3. valid'[q] = TRUE
        BY <1>1, <3>1, <3>2 DEF LateFacts
      <3>4. Named(doc'[q]) /\ doc'[q].funded = doc[q].funded
        BY <1>1, <3>1 DEF LateFacts
      <3>5. doc'[q].current = "COMPLETED"
        BY <1>1, <3>1, <3>4 DEF LateFacts, Rereading
      <3>6. l \in Rereading => seen'[q] = "COMPLETED"
        BY <1>1, <3>1 DEF LateFacts
      <3>7. pc'[q] = l
        BY <1>1 DEF LateFacts
      <3> QED
        BY <3>1, <3>3, <3>4, <3>5, <3>6, <3>7 DEF Settled
    <2>4. Committed(q) => Committed(q)'
      BY <1>1 DEF LateFacts, Committed
    <2>5. content'[q] = content[q]
      BY <1>1 DEF LateFacts
    <2> QED
      BY <1>3, <2>1, <2>2, <2>3, <2>4, <2>5 DEF EntryOK
  <1> QED
    BY <1>4, <1>5, <1>7, <1>8 DEF SelfOK, EntryStays

(* A late step that does not write the runs.                                    *)
LEMMA LateStep ==
    ASSUME OperatorInv, EarnedInv, NEW q \in Runs, NEW l, LateMoves(q, l), UNCHANGED book,
           snap'[q] = snap[q] \/ snap'[q] = book \/ snap'[q] = NoEntry
    PROVE  EarnedInv'
  <1>1. ListsKept(q)
    BY DEF ListsKept
  <1> QED
    BY <1>1, LateOnly, LateSelf, EarnedStep

LEMMA SnapLists ==
    ASSUME EarnedInv, NEW q \in Runs,
           UNCHANGED snap \/ snap' = [snap EXCEPT ![q] = book] \/ snap' = [snap EXCEPT ![q] = NoEntry]
    PROVE  /\ DOMAIN snap' = Runs /\ \A s \in Runs \ {q} : snap'[s] = snap[s]
           /\ snap'[q] = snap[q] \/ snap'[q] = book \/ snap'[q] = NoEntry
  BY DEF EarnedInv, Wide

LEMMA ObserveEarned ==
    ASSUME OperatorInv, EarnedInv, NEW q \in Runs, UNCHANGED controlVars,
           Observe(q) \/ StopObserving(q) \/ CountRuns(q) \/ LoadRuns(q) \/ Report(q)
    PROVE  EarnedInv'
  <1> USE DEF buyVars, lookVars, bookVars, env, chainVars
  <1>1. UNCHANGED snap \/ snap' = [snap EXCEPT ![q] = book]
    BY DEF Observe, StopObserving, CountRuns, LoadRuns, Report
  <1>2. UNCHANGED book
    BY DEF Observe, StopObserving, CountRuns, LoadRuns, Report
  <1>3. CASE Observe(q)
    <2>1. PICK l \in {"fetch", "observe"} : Goto(q, l)
      BY <1>3 DEF Observe
    <2>2. seen' = [seen EXCEPT ![q] = chain'[q]] /\ Persist(q, chain'[q])
      BY <1>3 DEF Observe
    <2>3. LateMoves(q, l)
      BY <1>1, <1>3, <2>1, <2>2, SnapLists DEF Observe, LateMoves, Late, Rereading, Before
    <2> QED
      BY <1>1, <1>2, <2>3, SnapLists, LateStep
  <1>4. CASE StopObserving(q) \/ CountRuns(q) \/ LoadRuns(q) \/ Report(q)
    <2>1. PICK l \in {"fetch", "load", "save", "done"} :
            Goto(q, l) /\ (l # "done" => pc[q] # "report")
      BY <1>4 DEF StopObserving, CountRuns, LoadRuns, Report
    <2>2. LateMoves(q, l)
      BY <1>1, <1>4, <2>1, SnapLists
      DEF StopObserving, CountRuns, LoadRuns, Report, LateMoves, Late, Rereading, Before
    <2> QED
      BY <1>1, <1>2, <2>2, SnapLists, LateStep
  <1> QED
    BY <1>3, <1>4

(* A deliverable that validates answers the task.                               *)
LEMMA ValidGood ==
    ASSUME EarnedInv, NEW q \in Runs, content[q] # None, NEW genuine \in BOOLEAN
    PROVE  Validated(q, genuine) = TRUE => content[q] = "good"
  BY DEF EarnedInv, AnswerOK, Validated

LEMMA FetchEarned ==
    ASSUME OperatorInv, EarnedInv, NEW q \in Runs, UNCHANGED controlVars, Fetch(q)
    PROVE  EarnedInv'
  <1> USE DEF buyVars, lookVars, bookVars, env, chainVars
  <1>1. PICK l \in {"refund", "settle", "count"} : Goto(q, l)
    BY DEF Fetch
  <1>2. \/ UNCHANGED valid
        \/ \E v : valid' = [valid EXCEPT ![q] = v] /\ (v = TRUE => content[q] = "good")
    <2>1. ASSUME seen[q] \in {"SUBMITTED", "COMPLETED"}, NEW genuine \in BOOLEAN,
                 valid' = [valid EXCEPT ![q] = Validated(q, genuine)]
          PROVE  \E v : valid' = [valid EXCEPT ![q] = v] /\ (v = TRUE => content[q] = "good")
      <3>1. content[q] # None
        BY <2>1 DEF EarnedInv, SeenOK, Delivered
      <3> QED
        BY <2>1, <3>1, ValidGood
    <2> QED
      BY <2>1 DEF Fetch
  <1>3. UNCHANGED <<book, snap>> /\ pc[q] = "fetch"
    BY DEF Fetch
  <1>4. LateMoves(q, l)
    BY <1>1, <1>2, <1>3, SnapLists DEF Fetch, LateMoves, Late, Rereading, Before
  <1> QED
    BY <1>3, <1>4, LateStep

LEMMA RefundEarned ==
    ASSUME OperatorInv, EarnedInv, NEW q \in Runs, UNCHANGED controlVars, Refund(q)
    PROVE  EarnedInv'
  <1> USE DEF buyVars, lookVars, bookVars, env, chainVars
  <1>1. UNCHANGED <<book, snap>> /\ pc[q] = "refund" /\ Goto(q, "count")
    BY DEF Refund
  <1>2. MineRefund(q) => chain'[q] = "EXPIRED"
    BY DEF MineRefund, OperatorInv, Shapes
  <1>3. LateMoves(q, "count")
    BY <1>1, <1>2, SnapLists DEF Refund, LateMoves, Late, Rereading, Before
  <1> QED
    BY <1>1, <1>3, LateStep

LEMMA SettleEarned ==
    ASSUME OperatorInv, EarnedInv, NEW q \in Runs, UNCHANGED controlVars,
           Settle(q) \/ Confirm(q) \/ Retry(q)
    PROVE  EarnedInv'
  <1> USE DEF buyVars, lookVars, bookVars, env, chainVars
  <1>1. UNCHANGED <<book, snap>>
    BY DEF Settle, Confirm, Retry
  <1>2. CASE Settle(q)
    <2>1. PICK l \in {"confirm", "r_confirm", "retry", "r_retry"} :
            Goto(q, l) /\ (l \in {"r_confirm", "r_retry"} <=> pc[q] = "r_settle")
      BY <1>2 DEF Settle
    <2>2. LateMoves(q, l)
      BY <1>1, <1>2, <2>1, SnapLists DEF Settle, LateMoves, Late, Rereading, Before
    <2> QED
      BY <1>1, <2>2, LateStep
  <1>3. CASE Confirm(q)
    <2>1. PICK l \in {"retry", "r_retry", "settle", "count", "r_settle", "r_load"} :
            Goto(q, l) /\ (l \in {"r_retry", "r_settle", "r_load"} <=> pc[q] = "r_confirm")
      BY <1>3 DEF Confirm, Again
    <2>2. \/ seen' = [seen EXCEPT ![q] = chain'[q]] /\ Persist(q, chain'[q])
          \/ UNCHANGED <<seen, doc>>
      BY <1>3 DEF Confirm
    <2>3. LateMoves(q, l)
      BY <1>1, <1>3, <2>1, <2>2, SnapLists DEF Confirm, LateMoves, Late, Rereading, Before
    <2> QED
      BY <1>1, <2>3, LateStep
  <1>4. CASE Retry(q)
    <2>1. PICK l \in {"dead", "settle", "count", "r_settle", "r_load"} :
            Goto(q, l) /\ (l \in {"r_settle", "r_load"} => pc[q] = "r_retry")
            /\ (l \in {"settle", "count"} => pc[q] = "retry")
      BY <1>4 DEF Retry, Again
    <2>2. seen' = [seen EXCEPT ![q] = chain'[q]] \/ UNCHANGED seen
      BY <1>4 DEF Retry
    <2>3. LateMoves(q, l)
      BY <1>1, <1>4, <2>1, <2>2, SnapLists DEF Retry, LateMoves, Late, Rereading, Before
    <2> QED
      BY <1>1, <2>3, LateStep
  <1> QED
    BY <1>2, <1>3, <1>4

LEMMA RereadEarned ==
    ASSUME OperatorInv, EarnedInv, NEW q \in Runs, UNCHANGED controlVars,
           ReconcileRead(q) \/ ReconcileFetch(q) \/ ReconcileDoc(q)
    PROVE  EarnedInv'
  <1> USE DEF buyVars, lookVars, bookVars, env, chainVars
  <1>1. UNCHANGED <<book, snap>>
    BY DEF ReconcileRead, ReconcileFetch, ReconcileDoc
  <1>2. CASE ReconcileRead(q)
    <2>1. PICK l \in {"r_fetch", "r_settle", "r_load"} : Goto(q, l)
      BY <1>2 DEF ReconcileRead
    <2>2. seen' = [seen EXCEPT ![q] = chain'[q]] /\ Persist(q, chain'[q]) /\ UNCHANGED valid
      BY <1>2 DEF ReconcileRead
    <2>3. l = "r_fetch" => valid[q] # TRUE /\ seen'[q] \in Delivered
      <3>1. pc'[q] = l /\ seen'[q] = chain[q]
        BY <1>2, <2>1 DEF ReconcileRead, Goto, OperatorInv, Shapes
      <3>2. l = "r_fetch" => chain[q] \in {"SUBMITTED", "COMPLETED"} /\ valid[q] # TRUE
        BY <1>2, <3>1 DEF ReconcileRead, Goto, OperatorInv, Shapes
      <3> QED
        BY <3>1, <3>2 DEF Delivered
    <2>4. LateMoves(q, l)
      BY <1>1, <1>2, <2>1, <2>2, <2>3, SnapLists DEF ReconcileRead, LateMoves, Late, Rereading, Before
    <2> QED
      BY <1>1, <2>4, LateStep
  <1>3. CASE ReconcileFetch(q)
    <2>1. PICK l \in {"r_load", "r_settle", "dead"} : Goto(q, l)
      BY <1>3 DEF ReconcileFetch
    <2>2. content[q] # None /\ pc[q] = "r_fetch"
      BY <1>3 DEF ReconcileFetch, EarnedInv, SeenOK
    <2>3. \/ UNCHANGED valid
          \/ \E v : valid' = [valid EXCEPT ![q] = v] /\ (v = TRUE => content[q] = "good")
      BY <1>3, <2>2, ValidGood DEF ReconcileFetch
    <2>4. LateMoves(q, l)
      BY <1>1, <1>3, <2>1, <2>2, <2>3, SnapLists DEF ReconcileFetch, LateMoves, Late, Rereading, Before
    <2> QED
      BY <1>1, <2>4, LateStep
  <1>4. CASE ReconcileDoc(q)
    <2>1. LateMoves(q, "r_save")
      BY <1>1, <1>4, SnapLists DEF ReconcileDoc, LateMoves, Late, Rereading, Before
    <2> QED
      BY <1>1, <2>1, LateStep
  <1> QED
    BY <1>2, <1>3, <1>4

(* ---------------------------- writing the run ----------------------------- *)

LEMMA Answers ==
    ASSUME OperatorInv, EarnedInv, NEW q \in Runs, valid[q] = TRUE
    PROVE  /\ content[q] = "good" /\ content[q] # None /\ chain[q] \in Answered
           /\ Committed(q) /\ Named(doc[q])
  <1>1. content[q] = "good" /\ "good" # None
    BY NoneAssumption DEF EarnedInv, SeenOK, Contents
  <1>2. chain[q] \in Answered
    BY <1>1 DEF EarnedInv, AnswerOK
  <1>3. chain[q] # None /\ chain[q] \notin Unpaid
    BY <1>2, NoneAssumption DEF Answered, Unpaid, Statuses
  <1>4. Committed(q)
    BY <1>3 DEF EarnedInv, AnswerOK
  <1>5. Named(doc[q])
    BY <1>3 DEF OperatorInv, RunOK, PaidOK
  <1> QED
    BY <1>1, <1>2, <1>4, <1>5

(* A run recorded as complete, at the point where its script writes it.          *)
LEMMA CompleteEarned ==
    ASSUME OperatorInv, EarnedInv, NEW q \in Runs, kind[q] # "control", Complete(q)
    PROVE  /\ Committed(q) /\ content[q] = "good" /\ chain[q] = "COMPLETED" /\ valid[q] = TRUE
           /\ Named(doc[q]) /\ doc[q].current = "COMPLETED"
  BY Answers DEF Complete, EarnedInv, SeenOK

LEMMA SaveRunEarned ==
    ASSUME OperatorInv, EarnedInv, NEW q \in Runs, UNCHANGED controlVars, SaveRun(q)
    PROVE  EarnedInv'
  <1> USE DEF buyVars, lookVars, env, chainVars
  <1> DEFINE e == Entry(q)
  <1>1. /\ pc[q] = "save" /\ Goto(q, "report") /\ book' = [snap[q] EXCEPT ![q] = e]
        /\ snap' = [snap EXCEPT ![q] = NoEntry]
    BY DEF SaveRun
  <1>2. LateMoves(q, "report")
    BY <1>1, SnapLists DEF SaveRun, LateMoves, Late, Rereading, Before
  <1>3. kind[q] # "control" /\ pc'[q] = "report"
    BY <1>1 DEF EarnedInv, KindOK, ControlPoints, Ended, Goto, OperatorInv, Shapes
  <1>4. /\ Complete(q) \in BOOLEAN /\ TrackRecord(q) \in BOOLEAN
        /\ (Complete(q) /\ ~ prior[q]) \in BOOLEAN
        /\ Execution(q) \in Endings /\ seen[q] \in Read
    <2>1. Complete(q) \in BOOLEAN
      BY DEF Complete
    <2>2. TrackRecord(q) \in BOOLEAN
      <3>1. TrackRecord(q) = TRUE \/ TrackRecord(q) = FALSE
        <4>1. CASE Complete(q) /\ committed[q] # {}
          <5>1. doc[q].funded \in BOOLEAN
            BY <1>3, <4>1, CompleteEarned DEF Named, JobRecords
          <5> QED
            BY <4>1, <5>1 DEF TrackRecord
        <4>2. CASE ~ (Complete(q) /\ committed[q] # {})
          BY <4>2 DEF TrackRecord
        <4> QED
          BY <4>1, <4>2
      <3> QED
        BY <3>1
    <2>3. Execution(q) \in Endings
      BY DEF Execution, Endings
    <2> QED
      BY <2>1, <2>2, <2>3, ChainRead
  <1>5. e \in Entries /\ e.complete = Complete(q) /\ e.record = TrackRecord(q)
    <2> DEFINE c == Complete(q)
               t == TrackRecord(q)
               v == (Complete(q) /\ ~ prior[q])
               x == Execution(q)
    <2>1. c \in BOOLEAN /\ t \in BOOLEAN /\ v \in BOOLEAN /\ x \in Endings /\ seen[q] \in Read
      BY <1>4
    <2>2. e = [complete |-> c, record |-> t, public |-> FALSE, verified |-> v, terminal |-> x,
               shown |-> seen[q], hash |-> FALSE]
      BY DEF Entry
    <2> HIDE DEF c, t, v, x, e
    <2>3. e \in Entries /\ e.complete = c /\ e.record = t
      BY <2>1, <2>2 DEF Entries
    <2> QED
      BY <2>3 DEF c, t
  <1> HIDE DEF e
  <1>6. ASSUME NEW d, d = e PROVE EntryOK(d, q)'
    <2>1. LateFacts(q, "report") /\ UNCHANGED <<chain, doc, valid>>
      BY <1>2, LateOnly DEF SaveRun
    <2>2. ASSUME d.complete
          PROVE  Committed(q)' /\ content'[q] = "good" /\ Settled(q)' /\ (d.record => doc'[q].funded)
      <3>1. Complete(q) /\ (d.record => TrackRecord(q))
        BY <1>5, <1>6, <2>2
      <3>2. /\ Committed(q) /\ content[q] = "good" /\ chain[q] = "COMPLETED" /\ valid[q] = TRUE
            /\ Named(doc[q]) /\ doc[q].current = "COMPLETED"
        BY <1>3, <3>1, CompleteEarned
      <3>3. d.record => doc[q].funded
        BY <3>1 DEF TrackRecord
      <3> QED
        BY <1>3, <2>1, <3>2, <3>3 DEF LateFacts, Committed, Settled, Rereading
    <2>3. kind'[q] # "control" /\ pc'[q] \notin Before
      BY <1>3, <2>1 DEF LateFacts, Before
    <2> QED
      BY <1>5, <1>6, <2>2, <2>3 DEF EntryOK
  <1>7. ListsKept(q)
    <2>1. PICK d : d = e
      OBVIOUS
    <2>2. EntryOK(d, q)' /\ book' = [snap[q] EXCEPT ![q] = d]
      BY <1>1, <1>6, <2>1
    <2>3. snap'[q] = NoEntry
      BY <1>1 DEF EarnedInv, Wide
    <2> QED
      BY <2>2, <2>3 DEF ListsKept
  <1> QED
    BY <1>2, <1>7, LateOnly, LateSelf, EarnedStep

(* What a reconciliation writes.                                                *)
LEMMA ReconciledEntry ==
    ASSUME OperatorInv, EarnedInv, NEW q \in Runs, pc[q] = "r_save", kind[q] # "control"
    PROVE  /\ Reconciled(q) \in Entries /\ Reconciled(q).complete = Complete(q)
           /\ Reconciled(q).record = TrackRecord(q)
  <1> DEFINE c == Complete(q)
             t == TrackRecord(q)
             p == (TrackRecord(q) /\ valid[q] = TRUE)
             v == (Complete(q) /\ ~ Verified([snap[q] EXCEPT ![q] = None]))
             x == CASE valid[q] = TRUE /\ seen[q] = "COMPLETED" -> "completed"
                    [] seen[q] = "EXPIRED" -> "expired"
                    [] OTHER -> snap[q][q].terminal
  <1>1. c \in BOOLEAN /\ t \in BOOLEAN /\ p \in BOOLEAN /\ v \in BOOLEAN /\ x \in Endings
        /\ seen[q] \in Read
    <2>1. c \in BOOLEAN /\ v \in BOOLEAN
      BY DEF Complete
    <2>2. t \in BOOLEAN /\ p \in BOOLEAN
      <3>1. TrackRecord(q) = TRUE \/ TrackRecord(q) = FALSE
        <4>1. CASE Complete(q) /\ committed[q] # {}
          <5>1. doc[q].funded \in BOOLEAN
            BY <4>1, CompleteEarned DEF Named, JobRecords
          <5> QED
            BY <4>1, <5>1 DEF TrackRecord
        <4>2. CASE ~ (Complete(q) /\ committed[q] # {})
          BY <4>2 DEF TrackRecord
        <4> QED
          BY <4>1, <4>2
      <3> QED
        BY <3>1
    <2>3. x \in Endings
      <3>1. snap[q][q] # None /\ ListOK(snap[q])
        BY DEF EarnedInv, SeenOK, Rereading
      <3>2. snap[q][q] \in Entries
        BY <3>1 DEF ListOK, EntryOK
      <3>3. snap[q][q].terminal \in Endings
        BY <3>2 DEF Entries
      <3> QED
        BY <3>3 DEF Endings
    <2> QED
      BY <2>1, <2>2, <2>3, ChainRead
  <1>2. ASSUME NEW e, e = Reconciled(q)
        PROVE  e \in Entries /\ e.complete = c /\ e.record = t
    <2>1. e = [complete |-> c, record |-> t, public |-> p, verified |-> v, terminal |-> x,
               shown |-> seen[q], hash |-> FALSE]
      BY <1>2 DEF Reconciled
    <2> HIDE DEF c, t, p, v, x
    <2> QED
      BY <1>1, <2>1 DEF Entries
  <1> QED
    BY <1>2

LEMMA ReconcileSaveEarned ==
    ASSUME OperatorInv, EarnedInv, NEW q \in Runs, UNCHANGED controlVars, ReconcileSave(q)
    PROVE  EarnedInv'
  <1> USE DEF buyVars, lookVars, env, chainVars
  <1> DEFINE e == Reconciled(q)
  <1>1. /\ pc[q] = "r_save" /\ Goto(q, "report") /\ book' = [snap[q] EXCEPT ![q] = e]
        /\ snap' = [snap EXCEPT ![q] = NoEntry]
    BY DEF ReconcileSave
  <1>2. LateMoves(q, "report")
    BY <1>1, SnapLists DEF ReconcileSave, LateMoves, Late, Rereading, Before
  <1>3. kind[q] # "control" /\ pc'[q] = "report"
    BY <1>1 DEF EarnedInv, KindOK, ControlPoints, Ended, Goto, OperatorInv, Shapes
  <1>5. e \in Entries /\ e.complete = Complete(q) /\ e.record = TrackRecord(q)
    BY <1>1, <1>3, ReconciledEntry
  <1> HIDE DEF e
  <1>6. ASSUME NEW d, d = e PROVE EntryOK(d, q)'
    <2>1. LateFacts(q, "report") /\ UNCHANGED <<chain, doc, valid>>
      BY <1>2, LateOnly DEF ReconcileSave
    <2>2. ASSUME d.complete
          PROVE  Committed(q)' /\ content'[q] = "good" /\ Settled(q)' /\ (d.record => doc'[q].funded)
      <3>1. Complete(q) /\ (d.record => TrackRecord(q))
        BY <1>5, <1>6, <2>2
      <3>2. /\ Committed(q) /\ content[q] = "good" /\ chain[q] = "COMPLETED" /\ valid[q] = TRUE
            /\ Named(doc[q]) /\ doc[q].current = "COMPLETED"
        BY <1>3, <3>1, CompleteEarned
      <3>3. d.record => doc[q].funded
        BY <3>1 DEF TrackRecord
      <3> QED
        BY <1>3, <2>1, <3>2, <3>3 DEF LateFacts, Committed, Settled, Rereading
    <2>3. kind'[q] # "control" /\ pc'[q] \notin Before
      BY <1>3, <2>1 DEF LateFacts, Before
    <2> QED
      BY <1>5, <1>6, <2>2, <2>3 DEF EntryOK
  <1>7. ListsKept(q)
    <2>1. PICK d : d = e
      OBVIOUS
    <2>2. EntryOK(d, q)' /\ book' = [snap[q] EXCEPT ![q] = d]
      BY <1>1, <1>6, <2>1
    <2>3. snap'[q] = NoEntry
      BY <1>1 DEF EarnedInv, Wide
    <2> QED
      BY <2>2, <2>3 DEF ListsKept
  <1> QED
    BY <1>2, <1>7, LateOnly, LateSelf, EarnedStep

(* A step that only goes elsewhere and may copy the runs.                        *)
Rests(q) ==
    /\ step'[q] = step[q] /\ kind'[q] = kind[q] /\ chain'[q] = chain[q]
    /\ content'[q] = content[q] /\ committed'[q] = committed[q] /\ seen'[q] = seen[q]
    /\ valid'[q] = valid[q] /\ doc'[q] = doc[q] /\ rec'[q] = rec[q]

LEMMA RestsOK ==
    ASSUME EarnedInv, NEW q \in Runs, Rests(q),
           pc'[q] \in Ended \cup {"r_read", "rc_read"},
           pc'[q] = "r_read" => kind[q] # "control",
           pc'[q] = "rc_read" => kind[q] = "control",
           pc'[q] \in {"r_read", "rc_read"} => snap'[q][q] # None,
           cb'[q] \in {cb[q], "over"}
    PROVE  SelfOK(q)' /\ EntryStays(q)
  <1>1. KindOK(q) /\ AnswerOK(q) /\ SeenOK(q)
    BY DEF EarnedInv
  <1>2. KindOK(q)'
    BY <1>1 DEF Rests, KindOK, ControlPoints, Ended
  <1>3. AnswerOK(q)'
    BY <1>1 DEF Rests, AnswerOK, Committed, Ended, Precommitted
  <1>4. SeenOK(q)'
    BY <1>1 DEF Rests, SeenOK, Ended, Rereading
  <1>5. pc'[q] \notin Before /\ pc'[q] \notin Rereading
    BY DEF Ended, Before, Rereading
  <1>6. EntryStays(q)
    BY <1>5 DEF Rests, EntryStays, EntryOK, Committed, Settled
  <1> QED
    BY <1>2, <1>3, <1>4, <1>6 DEF SelfOK

LEMMA ReconcileEarned ==
    ASSUME OperatorInv, EarnedInv, NEW q \in Runs,
           (Reconcile(q) /\ UNCHANGED controlVars) \/ ControlReconcile(q)
    PROVE  EarnedInv'
  <1> USE DEF buyVars, lookVars, env, chainVars, controlVars
  <1>1. PICK l \in {"r_read", "rc_read"} :
          /\ Goto(q, l) /\ (l = "r_read" => kind[q] = "health") /\ (l = "rc_read" => kind[q] = "control")
    BY DEF Reconcile, ControlReconcile
  <1>2. /\ snap' = [snap EXCEPT ![q] = book] /\ book[q] # None
        /\ UNCHANGED <<step, committed, rec, doc, seen, valid, book>>
        /\ UNCHANGED <<kind, content, chain, cb, saving>>
    BY DEF Reconcile, ControlReconcile
  <1>3. /\ Wide' /\ \A s \in Runs \ {q} : Left(s)
    BY <1>1, <1>2 DEF EarnedInv, Wide, Left, Goto, OperatorInv, Shapes
  <1>4. /\ pc'[q] = l /\ snap'[q] = book /\ Rests(q)
    BY <1>1, <1>2 DEF EarnedInv, Wide, Goto, OperatorInv, Shapes, Rests
  <1>5. SelfOK(q)' /\ EntryStays(q)
    BY <1>1, <1>2, <1>4, RestsOK
  <1>6. ListsKept(q)
    BY <1>2, <1>4 DEF ListsKept
  <1> QED
    BY <1>3, <1>5, <1>6, EarnedStep

LEMMA KillEarned ==
    ASSUME OperatorInv, EarnedInv, NEW q \in Runs, Kill(q)
    PROVE  EarnedInv'
  <1> USE DEF buyVars, lookVars, env, chainVars
  <1>1. /\ Goto(q, "dead") /\ cb' = [cb EXCEPT ![q] = "over"]
        /\ saving' = [saving EXCEPT ![q] = None]
        /\ snap' = [snap EXCEPT ![q] = NoEntry]
        /\ UNCHANGED <<step, committed, rec, doc, seen, valid, book>>
        /\ UNCHANGED <<kind, content, chain>>
    BY DEF Kill, Die
  <1>2. /\ Wide' /\ \A s \in Runs \ {q} : Left(s)
    BY <1>1 DEF EarnedInv, Wide, Left, Goto, OperatorInv, Shapes
  <1>3. /\ pc'[q] = "dead" /\ snap'[q] = NoEntry /\ Rests(q) /\ cb'[q] = "over"
    BY <1>1 DEF EarnedInv, Wide, Goto, OperatorInv, Shapes, Rests
  <1>4. SelfOK(q)' /\ EntryStays(q)
    BY <1>3, RestsOK DEF Ended
  <1>5. ListsKept(q)
    BY <1>1, <1>3 DEF ListsKept
  <1> QED
    BY <1>2, <1>4, <1>5, EarnedStep

(* -------------------------- the buyer's transactions ----------------------- *)

LEMMA AgentKind == ASSUME EarnedInv, NEW q \in Runs, kind[q] # "control" PROVE kind[q] \in Agents
  BY DEF EarnedInv, KindOK, Agents

LEMMA TermsOK ==
    ASSUME NEW k \in Kinds \ {"control"}
    PROVE  Terms(k) # {} /\ (k \in {"yield", "range", "health"} => "baseline" \in Terms(k))
  BY DEF Kinds, Terms, GridTerms, YieldTerms, RangeTerms, HealthTerms

(* A step of a hire script before it has written the run; nothing is listed.     *)
LEMMA BuyStep ==
    ASSUME OperatorInv, EarnedInv, NEW q \in Runs, kind[q] # "control", pc[q] \in Before,
           Wide', \A s \in Runs \ {q} : Left(s),
           kind'[q] = kind[q] /\ content'[q] = content[q] /\ cb'[q] = cb[q] /\ seen'[q] = seen[q]
           /\ valid'[q] = valid[q],
           rec'[q] \in JobRecords,
           pc'[q] \in {"commit", "stopped", "send", "note", "fail", "observe"},
           committed'[q] = committed[q] \/ Committed(q)',
           chain'[q] = chain[q] \/ (chain[q] \in Unpaid /\ chain'[q] \in {"OPEN", "FUNDED"}),
           chain'[q] # None => Committed(q)',
           pc'[q] \in {"send", "note"} => Committed(q)',
           pc'[q] \in {"commit", "send"} => chain'[q] \in Unpaid,
           pc'[q] = "note" /\ step'[q] < 4 => chain'[q] \in Unpaid,
           rec'[q].current = "COMPLETED" => chain'[q] = "COMPLETED",
           doc'[q] = doc[q] \/ doc'[q].current # "COMPLETED" \/ chain'[q] = "COMPLETED",
           UNCHANGED <<book, snap>>
    PROVE  EarnedInv'
  <1>1. KindOK(q) /\ AnswerOK(q) /\ SeenOK(q)
    BY DEF EarnedInv
  <1>2. KindOK(q)'
    BY <1>1 DEF KindOK, ControlPoints
  <1>3. AnswerOK(q)'
    <2>1. content'[q] # None <=> chain'[q] \in Answered
      <3>1. chain[q] \in Unpaid => chain[q] \notin Answered
        BY NoneAssumption DEF Unpaid, Answered, Statuses
      <3> QED
        BY <1>1, <3>1 DEF AnswerOK, Answered
    <2> QED
      BY <1>1, <2>1 DEF AnswerOK, Precommitted
  <1>4. chain[q] = "COMPLETED" => chain'[q] = "COMPLETED"
    BY NoneAssumption DEF Unpaid, Statuses
  <1>5. SeenOK(q)'
    BY <1>1, <1>4 DEF SeenOK, Rereading
  <1>6. EntryStays(q)
    BY DEF EntryStays, EntryOK
  <1>7. ListsKept(q)
    BY DEF ListsKept
  <1> QED
    BY <1>2, <1>3, <1>5, <1>6, <1>7, EarnedStep DEF SelfOK

LEMMA PreflightEarned ==
    ASSUME OperatorInv, EarnedInv, NEW q \in Runs, UNCHANGED controlVars, Preflight(q)
    PROVE  EarnedInv'
  <1> USE DEF buyVars, lookVars, bookVars, env, chainVars, controlVars
  <1>1. PICK l \in {"commit", "stopped"} : Goto(q, l)
    BY DEF Preflight
  <1>2. /\ pc[q] = "check" /\ kind[q] # "control"
        /\ UNCHANGED <<step, committed, rec, doc, seen, valid, book, snap>>
        /\ UNCHANGED <<kind, content, chain, cb, saving>>
    BY DEF Preflight, Agents
  <1>3. /\ Wide' /\ \A s \in Runs \ {q} : Left(s)
    BY <1>1, <1>2 DEF EarnedInv, Wide, Left, Goto, OperatorInv, Shapes
  <1>4. pc'[q] = l /\ KindOK(q) /\ AnswerOK(q) /\ SeenOK(q)
    BY <1>1 DEF Goto, OperatorInv, Shapes, EarnedInv
  <1> QED
    BY <1>2, <1>3, <1>4, BuyStep DEF KindOK, AnswerOK, SeenOK, Before, Committed

LEMMA CommitEarned ==
    ASSUME OperatorInv, EarnedInv, NEW q \in Runs, UNCHANGED controlVars, Commit(q)
    PROVE  EarnedInv'
  <1> USE DEF buyVars, lookVars, bookVars, env, chainVars, controlVars
  <1>1. PICK l \in {"send", "stopped"} : Goto(q, l)
    BY DEF Commit
  <1>2. /\ pc[q] = "commit" /\ committed' = [committed EXCEPT ![q] = Terms(kind[q])]
        /\ UNCHANGED <<step, rec, doc, seen, valid, book, snap>>
        /\ UNCHANGED <<kind, content, chain, cb, saving>>
    BY DEF Commit
  <1>3. /\ Wide' /\ \A s \in Runs \ {q} : Left(s)
    BY <1>1, <1>2 DEF EarnedInv, Wide, Left, Goto, OperatorInv, Shapes
  <1>4. pc'[q] = l /\ KindOK(q) /\ AnswerOK(q) /\ SeenOK(q)
    BY <1>1 DEF Goto, OperatorInv, Shapes, EarnedInv
  <1>5. kind[q] # "control"
    BY <1>2, <1>4 DEF KindOK, ControlPoints, Ended
  <1>6. Committed(q)'
    <2>1. kind[q] \in Kinds \ {"control"} /\ committed'[q] = Terms(kind[q]) /\ kind'[q] = kind[q]
      BY <1>2, <1>4, <1>5 DEF KindOK, EarnedInv, Wide
    <2> QED
      BY <2>1, TermsOK DEF Committed
  <1> QED
    BY <1>2, <1>3, <1>4, <1>5, <1>6, BuyStep DEF KindOK, AnswerOK, SeenOK, Before

LEMMA SendEarned ==
    ASSUME OperatorInv, EarnedInv, NEW q \in Runs, UNCHANGED controlVars, Send(q)
    PROVE  EarnedInv'
  <1> USE DEF lookVars, bookVars, env, chainVars, controlVars
  <1>1. PICK l \in {"note", "fail"} : Goto(q, l)
    BY DEF Send
  <1>2. /\ pc[q] = "send"
        /\ UNCHANGED <<step, committed, doc, seen, valid, book, snap>>
        /\ UNCHANGED <<kind, content, cb, saving>>
        /\ Mine(q, Steps[step[q]]) \/ UNCHANGED chain
    BY DEF Send
  <1>3. /\ DOMAIN chain' = Runs /\ \A s \in Runs \ {q} : chain'[s] = chain[s]
    BY <1>2, MineOK DEF OperatorInv, Shapes
  <1>4. /\ DOMAIN rec' = Runs
        /\ \A s \in Runs \ {q} : rec'[s] = rec[s]
        /\ rec'[q] \in {rec[q], [rec[q] EXCEPT !.job = TRUE, !.state = "created"],
                        [rec[q] EXCEPT !.funded = TRUE, !.state = "funded"]}
    BY DEF Send, OperatorInv, Shapes
  <1>5. /\ Wide' /\ \A s \in Runs \ {q} : Left(s)
    BY <1>1, <1>2, <1>3, <1>4 DEF EarnedInv, Wide, Left, Goto, OperatorInv, Shapes
  <1>6. pc'[q] = l /\ KindOK(q) /\ AnswerOK(q) /\ SeenOK(q)
    BY <1>1 DEF Goto, OperatorInv, Shapes, EarnedInv
  <1>7. kind[q] # "control" /\ rec[q] \in JobRecords
    BY <1>2, <1>6 DEF KindOK, ControlPoints, Ended
  <1>8. rec'[q] \in JobRecords /\ rec'[q].current = rec[q].current
    BY <1>4, <1>7 DEF JobRecords, RecordStates
  <1>9. chain[q] \in Unpaid /\ Committed(q)
    BY <1>2, <1>6 DEF AnswerOK, Precommitted
  <1>10. chain'[q] = chain[q] \/ chain'[q] \in {"OPEN", "FUNDED"}
    BY <1>2 DEF Mine, OperatorInv, Shapes
  <1>11. step[q] < 4 => chain'[q] \in Unpaid
    <2>1. step[q] \in 1..4
      BY DEF OperatorInv, RunOK, PaidOK
    <2>2. step[q] < 4 => Steps[step[q]] \in {"create", "register", "budget"}
      BY <2>1 DEF Steps
    <2>3. step[q] < 4 => chain'[q] = chain[q] \/ chain'[q] = "OPEN"
      BY <1>2, <2>2 DEF Mine, OperatorInv, Shapes
    <2> QED
      BY <1>9, <2>3 DEF Unpaid
  <1>12. chain[q] # "COMPLETED" /\ rec'[q].current # "COMPLETED"
    BY <1>6, <1>7, <1>8, <1>9, NoneAssumption DEF Unpaid, Statuses, SeenOK
  <1>13. Committed(q)'
    BY <1>2, <1>9 DEF Committed
  <1> QED
    BY <1>2, <1>5, <1>6, <1>7, <1>8, <1>9, <1>10, <1>11, <1>12, <1>13, BuyStep DEF Before

LEMMA NoteEarned ==
    ASSUME OperatorInv, EarnedInv, NEW q \in Runs, UNCHANGED controlVars, Note(q)
    PROVE  EarnedInv'
  <1> USE DEF lookVars, bookVars, env, chainVars, controlVars
  <1>1. /\ pc[q] = "note"
        /\ UNCHANGED <<committed, seen, valid, book, snap>>
        /\ UNCHANGED <<kind, content, chain, cb, saving>>
    BY DEF Note
  <1>2. KindOK(q) /\ AnswerOK(q) /\ SeenOK(q)
    BY DEF EarnedInv
  <1>3. kind[q] # "control" /\ rec[q] \in JobRecords /\ step[q] \in 1..4
    BY <1>1, <1>2 DEF KindOK, ControlPoints, Ended, OperatorInv, RunOK, PaidOK
  <1>4. Committed(q) /\ Committed(q)'
    BY <1>1, <1>2 DEF AnswerOK, Precommitted, Committed
  <1>5. CASE Goto(q, "fail") /\ UNCHANGED <<step, rec, doc>>
    <2>1. /\ Wide' /\ \A s \in Runs \ {q} : Left(s)
      BY <1>1, <1>5 DEF EarnedInv, Wide, Left, Goto, OperatorInv, Shapes
    <2>2. pc'[q] = "fail"
      BY <1>5 DEF Goto, OperatorInv, Shapes
    <2> QED
      BY <1>1, <1>2, <1>3, <1>4, <1>5, <2>1, <2>2, BuyStep DEF SeenOK, Before
  <1>6. CASE /\ rec' = [rec EXCEPT ![q].current = chain[q]]
             /\ doc' = [doc EXCEPT ![q] = rec'[q]]
             /\ IF step[q] < Len(Steps)
                THEN Goto(q, "send") /\ step' = [step EXCEPT ![q] = @ + 1]
                ELSE Goto(q, "observe") /\ UNCHANGED step
    <2>1. Len(Steps) = 4
      BY DEF Steps
    <2>2. PICK l \in {"send", "observe"} : Goto(q, l) /\ (l = "send" => step[q] < 4)
      BY <1>6, <2>1
    <2>3. \A s \in Runs \ {q} : step'[s] = step[s]
      BY <1>6 DEF OperatorInv, Shapes
    <2>4. /\ \A s \in Runs \ {q} : rec'[s] = rec[s] /\ doc'[s] = doc[s]
          /\ rec'[q] = [rec[q] EXCEPT !.current = chain[q]] /\ doc'[q] = rec'[q]
      BY <1>6 DEF OperatorInv, Shapes
    <2>5. chain[q] \in Currents
      BY ChainRead DEF Read, Currents
    <2>6. rec'[q] \in JobRecords /\ rec'[q].current = chain[q]
      BY <1>3, <2>4, <2>5 DEF JobRecords
    <2>7. /\ Wide' /\ \A s \in Runs \ {q} : Left(s)
      BY <1>1, <2>2, <2>3, <2>4 DEF EarnedInv, Wide, Left, Goto, OperatorInv, Shapes
    <2>8. pc'[q] = l
      BY <2>2 DEF Goto, OperatorInv, Shapes
    <2>9. step[q] < 4 => chain[q] \in Unpaid
      BY <1>1, <1>2 DEF AnswerOK
    <2>10. chain'[q] = chain[q] /\ kind'[q] = kind[q] /\ content'[q] = content[q]
           /\ cb'[q] = cb[q] /\ seen'[q] = seen[q] /\ valid'[q] = valid[q]
           /\ committed'[q] = committed[q] /\ UNCHANGED <<book, snap>>
      BY <1>1
    <2>11. /\ rec'[q].current = "COMPLETED" => chain'[q] = "COMPLETED"
           /\ doc'[q].current = "COMPLETED" => chain'[q] = "COMPLETED"
      BY <2>4, <2>6, <2>10
    <2>12. /\ pc'[q] \in {"commit", "send"} => chain'[q] \in Unpaid
           /\ pc'[q] # "note" /\ pc[q] \in Before
           /\ pc'[q] \in {"commit", "stopped", "send", "note", "fail", "observe"}
      BY <1>1, <2>2, <2>8, <2>9, <2>10 DEF Before
    <2> QED
      BY <1>3, <1>4, <2>6, <2>7, <2>10, <2>11, <2>12, BuyStep
  <1> QED
    BY <1>5, <1>6 DEF Note

LEMMA FailEarned ==
    ASSUME OperatorInv, EarnedInv, NEW q \in Runs, UNCHANGED controlVars, Fail(q)
    PROVE  EarnedInv'
  <1> USE DEF lookVars, bookVars, env, chainVars, controlVars
  <1>1. /\ pc[q] = "fail" /\ Goto(q, "stopped")
        /\ UNCHANGED <<step, committed, seen, valid, book, snap>>
        /\ UNCHANGED <<kind, content, chain, cb, saving>>
    BY DEF Fail
  <1>2. KindOK(q) /\ AnswerOK(q) /\ SeenOK(q)
    BY DEF EarnedInv
  <1>3. kind[q] # "control" /\ rec[q] \in JobRecords
    BY <1>1, <1>2 DEF KindOK, ControlPoints, Ended
  <1>4. /\ \A s \in Runs \ {q} : rec'[s] = rec[s] /\ doc'[s] = doc[s]
        /\ rec'[q] = [rec[q] EXCEPT !.state = "error"] /\ doc'[q] = rec'[q]
    BY DEF Fail, OperatorInv, Shapes
  <1>5. rec'[q] \in JobRecords /\ rec'[q].current = rec[q].current
    BY <1>3, <1>4 DEF JobRecords, RecordStates
  <1>6. /\ Wide' /\ \A s \in Runs \ {q} : Left(s)
    BY <1>1, <1>4 DEF EarnedInv, Wide, Left, Goto, OperatorInv, Shapes
  <1>7. pc'[q] = "stopped" /\ chain'[q] = chain[q]
    BY <1>1 DEF Goto, OperatorInv, Shapes
  <1>8. rec'[q].current = "COMPLETED" => chain'[q] = "COMPLETED"
    BY <1>2, <1>3, <1>5, <1>7 DEF SeenOK
  <1>9. chain'[q] # None => Committed(q)'
    BY <1>1, <1>2, <1>7 DEF AnswerOK, Committed
  <1> QED
    BY <1>1, <1>3, <1>4, <1>5, <1>6, <1>7, <1>8, <1>9, BuyStep DEF Before

(* ------------------------------- the control ------------------------------ *)

Registering == {"create", "register", "budget"}

(* What a step of the control may do to its run.                                *)
LEMMA ControlStep ==
    ASSUME OperatorInv, EarnedInv, NEW q \in Runs, kind[q] = "control",
           Wide', \A s \in Runs \ {q} : Left(s),
           kind'[q] = kind[q] /\ content'[q] = content[q],
           pc'[q] \in ControlPoints \cup Ended,
           committed'[q] = committed[q] \/ Committed(q)',
           pc'[q] \in Precommitted => Committed(q)',
           chain'[q] = chain[q]
             \/ (chain[q] \in Unpaid /\ chain'[q] \in {"OPEN", "FUNDED"} /\ Committed(q)'),
           pc'[q] \in {"c_commit", "c_send"} => chain'[q] \in Unpaid,
           pc'[q] = "c_note" /\ step'[q] < 4 => chain'[q] \in Unpaid,
           pc'[q] \in {"c_load", "c_save"} /\ saving'[q].event \in Registering
             => chain'[q] \in Unpaid,
           seen'[q] = seen[q] \/ seen'[q] = chain'[q],
           valid'[q] = valid[q] \/ (valid'[q] = TRUE => content[q] = "good"),
           pc'[q] \in {"rc_read", "rc_save"} => snap'[q][q] # None,
           pc'[q] = "rc_save" => valid'[q] \in BOOLEAN,
           pc[q] # "check" \/ UNCHANGED <<book, snap>>,
           ListsKept(q)
    PROVE  EarnedInv'
  <1>1. KindOK(q) /\ AnswerOK(q) /\ SeenOK(q)
    BY DEF EarnedInv
  <1>2. KindOK(q)'
    BY <1>1 DEF KindOK
  <1>3. AnswerOK(q)'
    <2>1. content'[q] # None <=> chain'[q] \in Answered
      <3>1. chain[q] \in Unpaid => chain[q] \notin Answered
        BY NoneAssumption DEF Unpaid, Answered, Statuses
      <3> QED
        BY <1>1, <3>1 DEF AnswerOK, Answered
    <2>2. chain'[q] # None => Committed(q)'
      BY <1>1 DEF AnswerOK, Committed
    <2>3. pc'[q] \notin {"send", "check", "commit", "note"}
      BY DEF ControlPoints, Ended
    <2> QED
      BY <1>1, <2>1, <2>2, <2>3 DEF AnswerOK, Registering
  <1>4. /\ chain[q] = "COMPLETED" => chain'[q] = "COMPLETED"
        /\ seen[q] = "COMPLETED" => chain'[q] = "COMPLETED"
    BY <1>1, NoneAssumption DEF SeenOK, Unpaid, Statuses
  <1>5. SeenOK(q)'
    <2>1. seen'[q] \in Delivered => content'[q] # None
      BY <1>1, <1>3 DEF SeenOK, AnswerOK, Delivered, Answered
    <2>2. pc'[q] \notin Rereading \cup {"r_read"}
      BY DEF ControlPoints, Ended, Rereading
    <2>3. seen'[q] = "COMPLETED" => chain'[q] = "COMPLETED"
      BY <1>4
    <2>4. valid'[q] = TRUE => content'[q] = "good"
      BY <1>1 DEF SeenOK
    <2> QED
      BY <2>1, <2>2, <2>3, <2>4 DEF SeenOK, Rereading
  <1>6. EntryStays(q)
    <2>1. pc'[q] \notin Before
      BY DEF ControlPoints, Ended, Before
    <2>2. Committed(q) => Committed(q)'
      BY DEF Committed
    <2> QED
      BY <2>1, <2>2 DEF EntryStays, EntryOK
  <1> QED
    BY <1>2, <1>3, <1>5, <1>6, EarnedStep DEF SelfOK

(* A step of the control's main flow that leaves the chain and the runs alone.    *)
LEMMA QuietStep ==
    ASSUME OperatorInv, EarnedInv, NEW q \in Runs, NEW l, Goto(q, l), kind[q] = "control",
           l \in (ControlPoints \ {"c_commit", "c_note", "rc_read", "rc_save"}) \cup Ended,
           l \in Precommitted => pc[q] \in Precommitted,
           l = "c_send" => chain[q] \in Unpaid,
           DOMAIN step' = Runs, DOMAIN doc' = Runs, DOMAIN rec' = Runs, DOMAIN cb' = Runs,
           DOMAIN saving' = Runs, DOMAIN valid' = Runs,
           \A s \in Runs \ {q} : /\ step'[s] = step[s] /\ doc'[s] = doc[s] /\ rec'[s] = rec[s]
                                 /\ cb'[s] = cb[s] /\ saving'[s] = saving[s]
                                 /\ valid'[s] = valid[s],
           UNCHANGED <<kind, content, committed, chain, book, snap>>,
           UNCHANGED seen \/ seen' = [seen EXCEPT ![q] = chain[q]],
           valid'[q] = valid[q] \/ (valid'[q] = TRUE => content[q] = "good"),
           l \in {"c_load", "c_save"} /\ saving'[q].event \in Registering => chain[q] \in Unpaid
    PROVE  EarnedInv'
  <1>1. pc'[q] = l /\ seen'[q] \in {seen[q], chain[q]}
    BY DEF Goto, OperatorInv, Shapes
  <1>2. /\ Wide' /\ \A s \in Runs \ {q} : Left(s)
    BY DEF EarnedInv, Wide, Left, Goto, OperatorInv, Shapes
  <1>3. l \in Precommitted => Committed(q) /\ Committed(q)'
    BY DEF EarnedInv, AnswerOK, Committed
  <1>4. ListsKept(q)
    BY DEF ListsKept
  <1>5. /\ kind'[q] = kind[q] /\ content'[q] = content[q] /\ committed'[q] = committed[q]
        /\ chain'[q] = chain[q] /\ UNCHANGED <<book, snap>>
    OBVIOUS
  <1>6. /\ pc'[q] \in ControlPoints \cup Ended
        /\ pc'[q] \notin {"c_commit", "c_note", "rc_read", "rc_save"}
    BY <1>1 DEF Ended
  <1> QED
    BY <1>1, <1>2, <1>3, <1>4, <1>5, <1>6, ControlStep

LEMMA ControlKind ==
    ASSUME EarnedInv, NEW q \in Runs, pc[q] \in ControlPoints
    PROVE  kind[q] = "control"
  BY DEF EarnedInv, KindOK

LEMMA ControlStartEarned ==
    ASSUME OperatorInv, EarnedInv, NEW q \in Runs, ControlStart(q)
    PROVE  EarnedInv'
  <1> USE DEF buyVars, lookVars, bookVars, env, chainVars, controlVars
  <1>1. PICK l \in {"stopped", "c_commit"} : Goto(q, l)
    BY DEF ControlStart
  <1>2. /\ pc[q] = "check" /\ kind[q] = "control"
        /\ UNCHANGED <<step, committed, rec, doc, seen, valid, book, snap>>
        /\ UNCHANGED <<kind, content, chain, cb, saving>>
    BY DEF ControlStart
  <1>3. /\ Wide' /\ \A s \in Runs \ {q} : Left(s)
    BY <1>1, <1>2 DEF EarnedInv, Wide, Left, Goto, OperatorInv, Shapes
  <1>4. pc'[q] = l /\ chain[q] \in Unpaid
    BY <1>1, <1>2 DEF Goto, OperatorInv, Shapes, EarnedInv, AnswerOK
  <1>5. ListsKept(q)
    BY <1>2 DEF ListsKept
  <1> QED
    BY <1>2, <1>3, <1>4, <1>5, ControlStep DEF ControlPoints, Ended, Precommitted

LEMMA ControlCommitEarned ==
    ASSUME OperatorInv, EarnedInv, NEW q \in Runs, ControlCommit(q)
    PROVE  EarnedInv'
  <1> USE DEF lookVars, bookVars, env, chainVars, controlVars
  <1>1. /\ pc[q] = "c_commit" /\ Goto(q, "c_send")
        /\ committed' = [committed EXCEPT ![q] = ControlTerms]
        /\ doc' = [doc EXCEPT ![q] = Fresh]
        /\ UNCHANGED <<step, rec, seen, valid, book, snap>>
        /\ UNCHANGED <<kind, content, chain, cb, saving>>
    BY DEF ControlCommit
  <1>2. kind[q] = "control"
    BY <1>1, ControlKind DEF ControlPoints
  <1>3. /\ Wide' /\ \A s \in Runs \ {q} : Left(s)
    BY <1>1 DEF EarnedInv, Wide, Left, Goto, OperatorInv, Shapes
  <1>4. pc'[q] = "c_send" /\ chain[q] \in Unpaid
    BY <1>1 DEF Goto, OperatorInv, Shapes, EarnedInv, AnswerOK
  <1>5. Committed(q)'
    BY <1>1, <1>2 DEF Committed, ControlTerms, EarnedInv, Wide
  <1>6. ListsKept(q)
    BY <1>1 DEF ListsKept
  <1> QED
    BY <1>1, <1>2, <1>3, <1>4, <1>5, <1>6, ControlStep DEF ControlPoints, Ended

LEMMA ControlSendEarned ==
    ASSUME OperatorInv, EarnedInv, NEW q \in Runs, ControlSend(q)
    PROVE  EarnedInv'
  <1> USE DEF lookVars, bookVars, env, chainVars, controlVars
  <1>1. PICK l \in {"c_note", "c_error"} : Goto(q, l)
    BY DEF ControlSend
  <1>2. /\ pc[q] = "c_send"
        /\ UNCHANGED <<step, committed, seen, valid, book, snap>>
        /\ UNCHANGED <<kind, content, cb, saving>>
        /\ Mine(q, Steps[step[q]]) \/ UNCHANGED chain
    BY DEF ControlSend
  <1>3. /\ DOMAIN chain' = Runs /\ \A s \in Runs \ {q} : chain'[s] = chain[s]
    BY <1>2, MineOK DEF OperatorInv, Shapes
  <1>4. \A s \in Runs \ {q} : rec'[s] = rec[s] /\ doc'[s] = doc[s]
    BY DEF ControlSend, OperatorInv, Shapes
  <1>5. /\ Wide' /\ \A s \in Runs \ {q} : Left(s)
    BY <1>1, <1>2, <1>3, <1>4 DEF EarnedInv, Wide, Left, Goto, OperatorInv, Shapes
  <1>6. pc'[q] = l /\ kind[q] = "control"
    BY <1>1, <1>2, ControlKind DEF Goto, OperatorInv, Shapes, ControlPoints
  <1>7. chain[q] \in Unpaid /\ Committed(q) /\ Committed(q)'
    BY <1>2 DEF EarnedInv, AnswerOK, Precommitted, Committed
  <1>8. chain'[q] = chain[q] \/ chain'[q] \in {"OPEN", "FUNDED"}
    BY <1>2 DEF Mine, OperatorInv, Shapes
  <1>9. step[q] < 4 => chain'[q] \in Unpaid
    <2>1. step[q] \in 1..4
      BY DEF OperatorInv, RunOK, PaidOK
    <2>2. step[q] < 4 => Steps[step[q]] \in {"create", "register", "budget"}
      BY <2>1 DEF Steps
    <2>3. step[q] < 4 => chain'[q] = chain[q] \/ chain'[q] = "OPEN"
      BY <1>2, <2>2 DEF Mine, OperatorInv, Shapes
    <2> QED
      BY <1>7, <2>3 DEF Unpaid
  <1>10. ListsKept(q)
    BY <1>2 DEF ListsKept
  <1> QED
    BY <1>2, <1>5, <1>6, <1>7, <1>8, <1>9, <1>10, ControlStep DEF ControlPoints, Ended

(* The main flow's steps, one by one.                                            *)
LEMMA ControlNoteEarned ==
    ASSUME OperatorInv, EarnedInv, NEW q \in Runs, ControlNote(q)
    PROVE  EarnedInv'
  <1> USE DEF buyVars, lookVars, bookVars, env, chainVars
  <1>1. PICK l \in {"c_load", "c_error"} : Goto(q, l)
    BY DEF ControlNote
  <1>2. /\ pc[q] = "c_note"
        /\ UNCHANGED <<step, committed, rec, doc, seen, valid, book, snap>>
        /\ UNCHANGED <<kind, content, chain, cb>>
    BY DEF ControlNote
  <1>3. /\ DOMAIN saving' = Runs /\ \A s \in Runs \ {q} : saving'[s] = saving[s]
        /\ l = "c_load" => saving'[q].event = Steps[step[q]]
    BY <1>1 DEF ControlNote, Goto, OperatorInv, Shapes
  <1>4. kind[q] = "control"
    BY <1>2, ControlKind DEF ControlPoints
  <1>5. Steps[step[q]] \in Registering => step[q] < 4
    BY DEF OperatorInv, RunOK, PaidOK, Steps, Registering
  <1>6. l = "c_load" /\ saving'[q].event \in Registering => chain[q] \in Unpaid
    BY <1>2, <1>3, <1>5 DEF EarnedInv, AnswerOK
  <1>7. l \in Precommitted => pc[q] \in Precommitted
    BY <1>2 DEF Precommitted
  <1> HIDE DEF Precommitted
  <1> QED
    BY <1>1, <1>2, <1>3, <1>4, <1>6, <1>7, QuietStep DEF ControlPoints, OperatorInv, Shapes, EarnedInv, Wide

LEMMA SaveLoadEarned ==
    ASSUME OperatorInv, EarnedInv, NEW q \in Runs, SaveLoad(q)
    PROVE  EarnedInv'
  <1> USE DEF buyVars, lookVars, bookVars, env, chainVars
  <1>1. /\ Goto(q, "c_save") /\ pc[q] = "c_load"
        /\ UNCHANGED <<step, committed, rec, doc, seen, valid, book, snap>>
        /\ UNCHANGED <<kind, content, chain, cb, saving>>
    BY DEF SaveLoad
  <1>2. kind[q] = "control"
    BY <1>1, ControlKind DEF ControlPoints
  <1>3. saving'[q].event \in Registering => chain[q] \in Unpaid
    BY <1>1 DEF EarnedInv, AnswerOK, Registering
  <1>4. pc[q] \in Precommitted
    BY <1>1 DEF Precommitted
  <1> QED
    BY <1>1, <1>2, <1>3, <1>4, QuietStep DEF ControlPoints, OperatorInv, Shapes, EarnedInv, Wide

LEMMA SaveWriteEarned ==
    ASSUME OperatorInv, EarnedInv, NEW q \in Runs, SaveWrite(q)
    PROVE  EarnedInv'
  <1> USE DEF lookVars, bookVars, env, chainVars
  <1>1. /\ pc[q] = "c_save"
        /\ UNCHANGED <<committed, seen, valid, book, snap>>
        /\ UNCHANGED <<kind, content, chain>>
    BY DEF SaveWrite
  <1> DEFINE event == saving[q].event
  <1>2. event \in {"create", "register", "budget", "fund", "look", "last", "deliverable"}
    BY <1>1 DEF OperatorInv, RunOK, ControlOK
  <1>3. PICK l : Goto(q, l) /\ l = AfterSave(q, event)
    BY DEF SaveWrite
  <1>4. /\ l \in {"c_send", "c_look", "c_stop", "c_fetch", "c_doc"}
        /\ l = "c_send" => event \in Registering
    BY <1>2, <1>3 DEF AfterSave, Registering
  <1>5. /\ DOMAIN step' = Runs /\ DOMAIN doc' = Runs /\ DOMAIN rec' = Runs /\ DOMAIN cb' = Runs
        /\ DOMAIN saving' = Runs /\ DOMAIN valid' = Runs
    BY <1>1 DEF SaveWrite, OperatorInv, Shapes, EarnedInv, Wide
  <1>6. \A s \in Runs \ {q} : /\ step'[s] = step[s] /\ doc'[s] = doc[s] /\ rec'[s] = rec[s]
                              /\ cb'[s] = cb[s] /\ saving'[s] = saving[s]
                              /\ valid'[s] = valid[s]
    <2>1. ASSUME NEW s \in Runs \ {q}
          PROVE  step'[s] = step[s] /\ doc'[s] = doc[s] /\ cb'[s] = cb[s] /\ saving'[s] = saving[s]
      BY DEF SaveWrite, OperatorInv, Shapes
    <2>2. ASSUME NEW s \in Runs \ {q} PROVE rec'[s] = rec[s]
      BY DEF SaveWrite, OperatorInv, Shapes
    <2> QED
      BY <2>1, <2>2, <1>1
  <1>7. kind[q] = "control"
    BY <1>1, ControlKind DEF ControlPoints
  <1>8. l = "c_send" => chain[q] \in Unpaid
    BY <1>1, <1>4 DEF EarnedInv, AnswerOK, Registering
  <1>9. pc[q] \in Precommitted /\ l \in ControlPoints \ {"c_commit", "c_note", "rc_read", "rc_save"}
        /\ l \notin {"c_load", "c_save"}
    BY <1>1, <1>4 DEF Precommitted, ControlPoints
  <1> HIDE DEF event
  <1> QED
    BY <1>1, <1>3, <1>5, <1>6, <1>7, <1>8, <1>9, QuietStep

LEMMA LookEarned ==
    ASSUME OperatorInv, EarnedInv, NEW q \in Runs, ControlLook(q) \/ ControlLast(q)
    PROVE  EarnedInv'
  <1> USE DEF buyVars, lookVars, bookVars, env, chainVars
  <1>1. PICK l \in {"c_load", "c_fetch"} : Goto(q, l)
    BY DEF ControlLook, ControlLast
  <1>2. /\ pc[q] \in {"c_look", "c_last"}
        /\ seen' = [seen EXCEPT ![q] = chain[q]]
        /\ UNCHANGED <<step, committed, rec, doc, valid, book, snap>>
        /\ UNCHANGED <<kind, content, chain, cb>>
    BY DEF ControlLook, ControlLast
  <1>3. /\ DOMAIN saving' = Runs /\ \A s \in Runs \ {q} : saving'[s] = saving[s]
        /\ l = "c_load" => saving'[q].event \in {"look", "last"}
    BY <1>1 DEF ControlLook, ControlLast, Goto, OperatorInv, Shapes
  <1>4. kind[q] = "control"
    BY <1>2, ControlKind DEF ControlPoints
  <1>5. pc[q] \in Precommitted /\ l \in ControlPoints \ {"c_commit", "c_note", "rc_read", "rc_save"}
        /\ l # "c_save"
    BY <1>2 DEF Precommitted, ControlPoints
  <1>6. l = "c_load" => saving'[q].event \notin Registering
    BY <1>3 DEF Registering
  <1> QED
    BY <1>1, <1>2, <1>3, <1>4, <1>5, <1>6, QuietStep DEF OperatorInv, Shapes, EarnedInv, Wide

LEMMA PassEarned ==
    ASSUME OperatorInv, EarnedInv, NEW q \in Runs,
           ControlLookEnds(q) \/ ControlStop(q) \/ ControlDoc(q) \/ ControlKeep(q)
    PROVE  EarnedInv'
  <1> USE DEF buyVars, lookVars, bookVars, env, chainVars, controlVars
  <1>1. PICK l \in {"c_stop", "c_last", "c_keep", "c_runs"} : Goto(q, l)
    BY DEF ControlLookEnds, ControlStop, ControlDoc, ControlKeep
  <1>2. /\ pc[q] \in {"c_look", "c_stop", "c_doc", "c_keep"}
        /\ pc[q] \in {"c_doc", "c_keep"} => l \in {"c_keep", "c_runs"}
        /\ UNCHANGED <<step, committed, seen, valid, book, snap>>
        /\ UNCHANGED <<kind, content, chain, saving>>
    BY <1>1 DEF ControlLookEnds, ControlStop, ControlDoc, ControlKeep, Goto, OperatorInv, Shapes
  <1>3. /\ DOMAIN rec' = Runs /\ DOMAIN doc' = Runs /\ DOMAIN cb' = Runs
        /\ \A s \in Runs \ {q} : rec'[s] = rec[s] /\ doc'[s] = doc[s] /\ cb'[s] = cb[s]
    BY DEF ControlLookEnds, ControlStop, ControlDoc, ControlKeep, OperatorInv, Shapes
  <1>4. kind[q] = "control"
    BY <1>2, ControlKind DEF ControlPoints
  <1>5. l \in Precommitted => pc[q] \in Precommitted
    BY <1>2 DEF Precommitted
  <1>6. /\ l \in ControlPoints \ {"c_commit", "c_note", "rc_read", "rc_save"}
        /\ l \notin {"c_load", "c_save", "c_send"}
    BY DEF ControlPoints
  <1> QED
    BY <1>1, <1>2, <1>3, <1>4, <1>5, <1>6, QuietStep DEF OperatorInv, Shapes, EarnedInv, Wide

LEMMA ControlFetchEarned ==
    ASSUME OperatorInv, EarnedInv, NEW q \in Runs, ControlFetch(q)
    PROVE  EarnedInv'
  <1> USE DEF buyVars, lookVars, bookVars, env, chainVars
  <1>1. PICK l \in {"c_load", "c_error", "c_doc"} : Goto(q, l)
    BY DEF ControlFetch
  <1>2. /\ pc[q] = "c_fetch"
        /\ UNCHANGED <<step, committed, rec, doc, seen, book, snap>>
        /\ UNCHANGED <<kind, content, chain, cb>>
    BY DEF ControlFetch
  <1>3. pc'[q] = l
    BY <1>1 DEF Goto, OperatorInv, Shapes
  <1>4. /\ DOMAIN saving' = Runs /\ \A s \in Runs \ {q} : saving'[s] = saving[s]
        /\ l = "c_load" => saving'[q].event = "deliverable"
    BY <1>3 DEF ControlFetch, Goto, OperatorInv, Shapes
  <1>5. \/ UNCHANGED valid
        \/ seen[q] \in Delivered /\ \E genuine \in BOOLEAN :
             valid' = [valid EXCEPT ![q] = known'[q] /\ Validated(q, genuine)]
    BY DEF ControlFetch
  <1>6. /\ DOMAIN valid' = Runs /\ \A s \in Runs \ {q} : valid'[s] = valid[s]
    BY <1>5 DEF EarnedInv, Wide
  <1>7. valid'[q] = valid[q] \/ (valid'[q] = TRUE => content[q] = "good")
    <2>1. CASE UNCHANGED valid
      BY <2>1
    <2>2. CASE seen[q] \in Delivered /\ \E genuine \in BOOLEAN :
                 valid' = [valid EXCEPT ![q] = known'[q] /\ Validated(q, genuine)]
      <3>1. PICK genuine \in BOOLEAN :
               valid' = [valid EXCEPT ![q] = known'[q] /\ Validated(q, genuine)]
        BY <2>2
      <3>2. valid'[q] = TRUE => Validated(q, genuine)
        BY <3>1 DEF EarnedInv, Wide
      <3>3. content[q] # None /\ content[q] \in {None, "good"} \cup Refused(kind[q])
        BY <2>2 DEF EarnedInv, SeenOK, AnswerOK
      <3>4. Validated(q, genuine) => content[q] \notin Refused(kind[q])
        BY DEF Validated
      <3> QED
        BY <3>2, <3>3, <3>4
    <2> QED
      BY <1>5, <2>1, <2>2
  <1>8. kind[q] = "control"
    BY <1>2, ControlKind DEF ControlPoints
  <1>9. /\ pc[q] \in Precommitted /\ l \notin {"c_save", "c_send"}
        /\ l \in ControlPoints \ {"c_commit", "c_note", "rc_read", "rc_save"}
    BY <1>2 DEF Precommitted, ControlPoints
  <1>10. l = "c_load" => saving'[q].event \notin Registering
    BY <1>4 DEF Registering
  <1> QED
    BY <1>1, <1>2, <1>4, <1>6, <1>7, <1>8, <1>9, <1>10, QuietStep DEF OperatorInv, Shapes

LEMMA ControlErrorEarned ==
    ASSUME OperatorInv, EarnedInv, NEW q \in Runs, ControlError(q)
    PROVE  EarnedInv'
  <1> USE DEF buyVars, lookVars, bookVars, env, chainVars, controlVars
  <1>1. /\ pc[q] = "c_error" /\ Goto(q, "stopped")
        /\ UNCHANGED <<step, committed, seen, valid, book, snap>>
        /\ UNCHANGED <<kind, content, chain, saving>>
    BY DEF ControlError
  <1>2. /\ DOMAIN rec' = Runs /\ DOMAIN doc' = Runs /\ DOMAIN cb' = Runs
        /\ \A s \in Runs \ {q} : rec'[s] = rec[s] /\ doc'[s] = doc[s] /\ cb'[s] = cb[s]
    <2>1. DOMAIN doc' = Runs /\ \A s \in Runs \ {q} : doc'[s] = doc[s]
      BY DEF ControlError, OperatorInv, Shapes
    <2> QED
      BY <2>1 DEF ControlError, OperatorInv, Shapes
  <1>3. kind[q] = "control"
    BY <1>1, ControlKind DEF ControlPoints
  <1>4. "stopped" \in Ended /\ "stopped" \notin Precommitted
    BY DEF Ended, Precommitted
  <1> QED
    BY <1>1, <1>2, <1>3, <1>4, QuietStep DEF OperatorInv, Shapes, EarnedInv, Wide

LEMMA ControlRunsEarned ==
    ASSUME OperatorInv, EarnedInv, NEW q \in Runs, ControlRuns(q)
    PROVE  EarnedInv'
  <1> USE DEF buyVars, lookVars, env, chainVars, controlVars
  <1>1. /\ pc[q] = "c_runs" /\ Goto(q, "c_book")
        /\ UNCHANGED <<step, committed, rec, doc, seen, valid, book>>
        /\ UNCHANGED <<kind, content, chain, cb, saving>>
        /\ snap' = [snap EXCEPT ![q] = book]
    BY DEF ControlRuns
  <1>2. kind[q] = "control"
    BY <1>1, ControlKind DEF ControlPoints
  <1>3. /\ Wide' /\ \A s \in Runs \ {q} : Left(s)
    BY <1>1 DEF EarnedInv, Wide, Left, Goto, OperatorInv, Shapes
  <1>4. pc'[q] = "c_book"
    BY <1>1 DEF Goto, OperatorInv, Shapes
  <1>5. ListsKept(q)
    BY <1>1 DEF ListsKept, EarnedInv, Wide
  <1>6. "c_book" \in ControlPoints /\ "c_book" \notin Precommitted
    BY DEF ControlPoints, Precommitted
  <1> QED
    BY <1>1, <1>2, <1>3, <1>4, <1>5, <1>6, ControlStep

LEMMA ControlSaveEarned ==
    ASSUME OperatorInv, EarnedInv, NEW q \in Runs, ControlSave(q), known[q] \in BOOLEAN
    PROVE  EarnedInv'
  <1> USE DEF buyVars, lookVars, env, chainVars, controlVars
  <1>1. /\ pc[q] = "c_book" /\ Goto(q, "done")
        /\ UNCHANGED <<step, committed, rec, doc, seen, valid>>
        /\ UNCHANGED <<kind, content, chain, cb, saving>>
        /\ snap' = [snap EXCEPT ![q] = NoEntry]
        /\ book' = [snap[q] EXCEPT ![q] = ControlEntry(q)]
    BY DEF ControlSave
  <1>2. kind[q] = "control"
    BY <1>1, ControlKind DEF ControlPoints
  <1>3. /\ Wide' /\ \A s \in Runs \ {q} : Left(s)
    BY <1>1 DEF EarnedInv, Wide, Left, Goto, OperatorInv, Shapes
  <1>4. pc'[q] = "done"
    BY <1>1 DEF Goto, OperatorInv, Shapes
  <1>5. ASSUME NEW d, d = ControlEntry(q) PROVE EntryOK(d, q)'
    <2>1. d \in Entries
      <3>1. seen[q] \in Read
        BY DEF OperatorInv, RunOK, PaidOK
      <3>2. ControlComplete(q) \in BOOLEAN
        BY DEF ControlComplete
      <3>3. Classification(q, seen[q], ControlComplete(q), known[q]) \in Endings
        BY DEF Classification, Endings
      <3> QED
        BY <1>5, <3>1, <3>2, <3>3 DEF ControlEntry, Entries
    <2>2. d.record = FALSE /\ (d.complete <=> ControlComplete(q))
      BY <1>5 DEF ControlEntry
    <2>3. d.complete => Committed(q) /\ content[q] = "good"
      <3> SUFFICES ASSUME d.complete PROVE Committed(q) /\ content[q] = "good"
        OBVIOUS
      <3>1. valid[q] = TRUE
        BY <2>2 DEF ControlComplete
      <3>2. content[q] = "good"
        BY <3>1 DEF EarnedInv, SeenOK
      <3>3. content[q] # None
        BY <3>2, NoneAssumption DEF Contents
      <3>4. chain[q] \in Answered
        BY <3>3 DEF EarnedInv, AnswerOK
      <3>5. chain[q] # None
        BY <3>4, NoneAssumption DEF Answered, Statuses
      <3> QED
        BY <3>2, <3>5 DEF EarnedInv, AnswerOK
    <2>4. pc'[q] \notin Before
      BY <1>4 DEF Before
    <2>5. d.complete => Committed(q)'
      BY <1>1, <2>3 DEF Committed
    <2> QED
      BY <1>1, <1>2, <2>1, <2>2, <2>3, <2>4, <2>5 DEF EntryOK
  <1>6. ListsKept(q)
    <2>1. PICK d : d = ControlEntry(q)
      OBVIOUS
    <2>2. EntryOK(d, q)' /\ book' = [snap[q] EXCEPT ![q] = d]
      BY <1>1, <1>5, <2>1
    <2>3. snap'[q] = NoEntry
      BY <1>1 DEF EarnedInv, Wide
    <2> QED
      BY <2>2, <2>3 DEF ListsKept
  <1>7. "done" \in Ended /\ "done" \notin Precommitted
    BY DEF Ended, Precommitted
  <1> QED
    BY <1>1, <1>2, <1>3, <1>4, <1>6, <1>7, ControlStep

LEMMA ValidGood2 ==
    ASSUME EarnedInv, NEW q \in Runs, NEW genuine, chain[q] \in Delivered, Validated(q, genuine)
    PROVE  content[q] = "good"
  <1>1. chain[q] \in Answered
    BY DEF Delivered, Answered
  <1>2. content[q] # None /\ content[q] \in {None, "good"} \cup Refused(kind[q])
    BY <1>1 DEF EarnedInv, AnswerOK
  <1> QED
    BY <1>2 DEF Validated

LEMMA ControlRereadEarned ==
    ASSUME OperatorInv, EarnedInv, NEW q \in Runs, ControlReread(q)
    PROVE  EarnedInv'
  <1> USE DEF buyVars, lookVars, bookVars, env, chainVars, controlVars
  <1>1. PICK l \in {"rc_save", "dead"} : Goto(q, l)
    BY DEF ControlReread
  <1>2. /\ pc[q] = "rc_read"
        /\ UNCHANGED <<step, committed, rec, doc, book, snap>>
        /\ UNCHANGED <<kind, content, chain, cb, saving>>
        /\ seen' = [seen EXCEPT ![q] = chain[q]]
    BY DEF ControlReread
  <1>3. PICK genuine \in BOOLEAN :
           valid' = [valid EXCEPT ![q] = chain[q] \in Delivered /\ Validated(q, genuine)]
    BY DEF ControlReread
  <1>4. kind[q] = "control"
    BY <1>2, ControlKind DEF ControlPoints
  <1>5. /\ Wide' /\ \A s \in Runs \ {q} : Left(s)
    BY <1>1, <1>2, <1>3 DEF EarnedInv, Wide, Left, Goto, OperatorInv, Shapes
  <1>6. pc'[q] = l /\ seen'[q] = chain[q]
    BY <1>1, <1>2 DEF Goto, OperatorInv, Shapes
  <1>7. valid'[q] \in BOOLEAN /\ (valid'[q] = TRUE => content[q] = "good")
    <2>1. valid'[q] = (chain[q] \in Delivered /\ Validated(q, genuine))
      BY <1>3 DEF EarnedInv, Wide
    <2>2. valid'[q] \in BOOLEAN
      BY <2>1
    <2> QED
      BY <2>1, <2>2, ValidGood2
  <1>8. snap'[q][q] # None
    BY <1>2 DEF EarnedInv, SeenOK
  <1>9. ListsKept(q)
    BY <1>2 DEF ListsKept
  <1>10. l \in ControlPoints \cup Ended /\ l \notin Precommitted
    BY DEF ControlPoints, Ended, Precommitted
  <1> QED
    BY <1>1, <1>2, <1>4, <1>5, <1>6, <1>7, <1>8, <1>9, <1>10, ControlStep

Changed(t, v, s, w) == [t EXCEPT !.complete = v, !.shown = s, !.terminal = w]

LEMMA RewriteEntry ==
    ASSUME NEW t \in Entries, NEW v \in BOOLEAN, NEW s \in Read, NEW w \in Endings, NEW d,
           d = Changed(t, v, s, w)
    PROVE  d \in Entries /\ d.complete = v /\ d.record = t.record
  BY DEF Entries, Changed

LEMMA ControlRewriteEarned ==
    ASSUME OperatorInv, EarnedInv, NEW q \in Runs, ControlRewrite(q)
    PROVE  EarnedInv'
  <1> USE DEF buyVars, lookVars, env, chainVars, controlVars
  <1>1. /\ pc[q] = "rc_save" /\ Goto(q, "done")
        /\ UNCHANGED <<step, committed, rec, doc, seen, valid>>
        /\ UNCHANGED <<kind, content, chain, cb, saving>>
        /\ snap' = [snap EXCEPT ![q] = NoEntry]
    BY DEF ControlRewrite
  <1>2. kind[q] = "control"
    BY <1>1, ControlKind DEF ControlPoints
  <1>3. /\ Wide' /\ \A s \in Runs \ {q} : Left(s)
    BY <1>1 DEF EarnedInv, Wide, Left, Goto, OperatorInv, Shapes
  <1>4. pc'[q] = "done"
    BY <1>1 DEF Goto, OperatorInv, Shapes
  <1>5. PICK t : t = snap[q][q]
    OBVIOUS
  <1>6. DOMAIN snap[q] = Runs /\ EntryOK(t, q) /\ valid[q] \in BOOLEAN
    BY <1>1, <1>5 DEF EarnedInv, SeenOK, ListOK
  <1>7. book' = [snap[q] EXCEPT ![q] = Rewritten(q, t)]
    BY <1>5 DEF ControlRewrite
  <1>8. ASSUME NEW d, d = Rewritten(q, t) PROVE EntryOK(d, q)'
    <2>1. t \in Entries /\ t.record = FALSE /\ seen[q] \in Read
      BY <1>2, <1>6 DEF EntryOK, OperatorInv, RunOK, PaidOK
    <2>3. d \in Entries /\ d.complete = valid[q] /\ d.record = FALSE
      <3>1. t.terminal \in Endings
        BY <2>1 DEF Entries
      <3>2. ASSUME NEW w, w = CASE valid[q] -> "completed"
                      [] ~ valid[q] /\ seen[q] \in Delivered -> "observation_path_broken"
                      [] OTHER -> t.terminal
            PROVE  w \in Endings
        BY <1>6, <3>1, <3>2 DEF Endings
      <3>3. PICK w \in Endings : d = Changed(t, valid[q], seen[q], w)
        BY <1>8, <3>2 DEF Rewritten, Changed
      <3> QED
        BY <1>6, <2>1, <3>3, RewriteEntry
    <2>4. d.complete => Committed(q) /\ content[q] = "good"
      <3> SUFFICES ASSUME d.complete PROVE Committed(q) /\ content[q] = "good"
        OBVIOUS
      <3>1. content[q] = "good"
        BY <2>3 DEF EarnedInv, SeenOK
      <3>2. content[q] # None
        BY <3>1, NoneAssumption DEF Contents
      <3>3. chain[q] \in Answered
        BY <3>2 DEF EarnedInv, AnswerOK
      <3>4. chain[q] # None
        BY <3>3, NoneAssumption DEF Answered, Statuses
      <3> QED
        BY <3>1, <3>4 DEF EarnedInv, AnswerOK
    <2>5. pc'[q] \notin Before
      BY <1>4 DEF Before
    <2>6. d.complete => Committed(q)'
      BY <1>1, <2>4 DEF Committed
    <2> QED
      BY <1>1, <1>2, <2>3, <2>4, <2>5, <2>6 DEF EntryOK
  <1>9. ListsKept(q)
    <2>1. PICK d : d = Rewritten(q, t)
      OBVIOUS
    <2>2. EntryOK(d, q)' /\ book' = [snap[q] EXCEPT ![q] = d]
      BY <1>7, <1>8, <2>1
    <2>3. snap'[q] = NoEntry
      BY <1>1 DEF EarnedInv, Wide
    <2> QED
      BY <2>2, <2>3 DEF ListsKept
  <1>10. "done" \in Ended /\ "done" \notin Precommitted
    BY DEF Ended, Precommitted
  <1> QED
    BY <1>1, <1>2, <1>3, <1>4, <1>9, <1>10, ControlStep

(* --------------------- the watcher, and everybody else -------------------- *)

(* A step that no script takes: the job moves on, or the control's watcher       *)
(* writes its document.                                                      *)
LEMMA WorldStep ==
    ASSUME OperatorInv, EarnedInv, NEW q \in Runs,
           DOMAIN content' = Runs, DOMAIN chain' = Runs, DOMAIN doc' = Runs, DOMAIN rec' = Runs,
           DOMAIN cb' = Runs,
           \A s \in Runs \ {q} : /\ chain'[s] = chain[s] /\ content'[s] = content[s]
                                 /\ doc'[s] = doc[s] /\ rec'[s] = rec[s] /\ cb'[s] = cb[s],
           UNCHANGED <<pc, step, kind, committed, seen, valid, saving, snap, book>>,
           kind[q] = "control" \/ (doc'[q] = doc[q] /\ rec'[q] = rec[q] /\ cb'[q] = cb[q]),
           \/ chain'[q] = chain[q] /\ content'[q] = content[q]
           \/ /\ chain[q] = "FUNDED" /\ chain'[q] = "SUBMITTED"
              /\ content'[q] \in {"good"} \cup Refused(kind[q])
           \/ /\ chain[q] = "SUBMITTED" /\ chain'[q] \in {"COMPLETED", "REJECTED"}
              /\ content'[q] = content[q]
           \/ /\ chain[q] = "FUNDED" /\ chain'[q] = "EXPIRED"
              /\ content'[q] = content[q]
    PROVE  EarnedInv'
  <1>1. KindOK(q) /\ AnswerOK(q) /\ SeenOK(q)
    BY DEF EarnedInv
  <1>2. \A s \in Runs \ {q} : Left(s)
    BY DEF Left
  <1>3. Wide'
    BY DEF EarnedInv, Wide
  <1>4. KindOK(q)'
    BY <1>1 DEF KindOK
  <1>5. content'[q] \in {"good"} \cup Refused(kind[q]) => content'[q] # None
    <2>1. kind[q] \in Kinds
      BY <1>1 DEF KindOK
    <2> QED
      BY <2>1, NoneAssumption DEF Contents
  <1>6. /\ chain[q] \in Unpaid => chain'[q] = chain[q]
        /\ chain[q] = "COMPLETED" => chain'[q] = chain[q]
        /\ chain[q] \in Answered => chain'[q] \in Answered
        /\ content[q] # None => content'[q] = content[q]
        /\ chain'[q] = None => chain[q] = None
    BY <1>1, NoneAssumption DEF Unpaid, Statuses, Answered, AnswerOK
  <1>7. content'[q] # None <=> chain'[q] \in Answered
    BY <1>1, <1>5, NoneAssumption DEF Statuses, Answered, AnswerOK
  <1>8. Committed(q) => Committed(q)'
    BY DEF Committed
  <1>9. AnswerOK(q)'
    <2>1. content'[q] \in {None, "good"} \cup Refused(kind'[q])
      BY <1>1 DEF AnswerOK
    <2>2. chain'[q] # None => Committed(q)'
      BY <1>1, <1>6, <1>8, NoneAssumption DEF AnswerOK, Statuses
    <2>3. chain[q] \in Unpaid => chain'[q] \in Unpaid
      BY <1>6
    <2> QED
      BY <1>1, <1>7, <1>8, <2>1, <2>2, <2>3 DEF AnswerOK
  <1>10. SeenOK(q)'
    <2>1. content[q] = "good" => content'[q] = "good"
      BY <1>6, NoneAssumption DEF Contents
    <2>2. kind'[q] # "control" =>
            /\ Named(doc'[q]) /\ doc'[q].current = "COMPLETED" => chain'[q] = "COMPLETED"
            /\ rec'[q].current = "COMPLETED" => chain'[q] = "COMPLETED"
      BY <1>1, <1>6 DEF SeenOK
    <2> QED
      BY <1>1, <1>6, <2>1, <2>2 DEF SeenOK
  <1>11. EntryStays(q)
    <2>1. content[q] = "good" => content'[q] = "good"
      BY <1>6, NoneAssumption DEF Contents
    <2>2. kind[q] # "control" /\ Settled(q) => Settled(q)'
      BY <1>6 DEF Settled
    <2>3. SUFFICES ASSUME NEW e, EntryOK(e, q) PROVE EntryOK(e, q)'
      BY DEF EntryStays
    <2>4. e.complete /\ e.record => doc'[q].funded
      BY <2>3 DEF EntryOK
    <2> QED
      BY <1>8, <2>1, <2>2, <2>3, <2>4 DEF EntryOK
  <1>12. ListsKept(q)
    BY DEF ListsKept
  <1> QED
    BY <1>2, <1>3, <1>4, <1>9, <1>10, <1>11, <1>12, EarnedStep DEF SelfOK

LEMMA CallbackKind ==
    ASSUME EarnedInv, NEW q \in Runs, cb[q] \notin {"off", "over"}
    PROVE  kind[q] = "control"
  BY DEF EarnedInv, KindOK

LEMMA WatcherEarned ==
    ASSUME OperatorInv, EarnedInv, NEW q \in Runs, Detect(q) \/ CallbackLoad(q) \/ CallbackSave(q)
    PROVE  EarnedInv'
  <1> USE DEF runVars, buyVars, lookVars, bookVars, env, chainVars
  <1>1. /\ UNCHANGED <<pc, step, kind, committed, seen, valid, saving, snap, book>>
        /\ UNCHANGED <<chain, content>>
        /\ cb[q] \notin {"off", "over"}
    BY DEF Detect, CallbackLoad, CallbackSave
  <1>2. DOMAIN cb' = Runs /\ \A s \in Runs \ {q} : cb'[s] = cb[s]
    BY DEF Detect, CallbackLoad, CallbackSave, OperatorInv, Shapes
  <1>3. DOMAIN doc' = Runs /\ \A s \in Runs \ {q} : doc'[s] = doc[s]
    BY DEF Detect, CallbackLoad, CallbackSave, OperatorInv, Shapes
  <1>4. DOMAIN rec' = Runs /\ \A s \in Runs \ {q} : rec'[s] = rec[s]
    BY DEF Detect, CallbackLoad, CallbackSave, OperatorInv, Shapes
  <1>5. kind[q] = "control"
    BY <1>1, CallbackKind
  <1>6. DOMAIN chain' = Runs /\ DOMAIN content' = Runs
    BY <1>1 DEF OperatorInv, Shapes, EarnedInv, Wide
  <1> QED
    BY <1>1, <1>2, <1>3, <1>4, <1>5, <1>6, WorldStep

LEMMA DeliverOK ==
    ASSUME OperatorInv, EarnedInv, NEW q \in Runs, NEW c, Deliver(q, c)
    PROVE  /\ DOMAIN chain' = Runs /\ DOMAIN content' = Runs
           /\ \A s \in Runs \ {q} : chain'[s] = chain[s] /\ content'[s] = content[s]
           /\ chain[q] = "FUNDED" /\ chain'[q] = "SUBMITTED" /\ content'[q] = c
  BY DEF Deliver, OperatorInv, Shapes, EarnedInv, Wide

LEMMA CallbackSubmitEarned ==
    ASSUME OperatorInv, EarnedInv, NEW q \in Runs, CallbackSubmit(q)
    PROVE  EarnedInv'
  <1> USE DEF runVars, buyVars, lookVars, bookVars
  <1>1. /\ UNCHANGED <<pc, step, kind, committed, seen, valid, saving, snap, book, doc, rec>>
        /\ cb[q] = "submit"
        /\ Deliver(q, "good") \/ UNCHANGED <<chain, content>>
    BY DEF CallbackSubmit
  <1>2. DOMAIN cb' = Runs /\ \A s \in Runs \ {q} : cb'[s] = cb[s]
    BY DEF CallbackSubmit, OperatorInv, Shapes
  <1>3. kind[q] = "control"
    BY <1>1, CallbackKind
  <1>4. DOMAIN doc' = Runs /\ DOMAIN rec' = Runs
    BY <1>1 DEF OperatorInv, Shapes
  <1>5. CASE Deliver(q, "good")
    <2>1. /\ DOMAIN chain' = Runs /\ DOMAIN content' = Runs
          /\ \A s \in Runs \ {q} : chain'[s] = chain[s] /\ content'[s] = content[s]
          /\ chain[q] = "FUNDED" /\ chain'[q] = "SUBMITTED" /\ content'[q] = "good"
      BY <1>5, DeliverOK
    <2> QED
      BY <1>1, <1>2, <1>3, <1>4, <2>1, WorldStep
  <1>6. CASE UNCHANGED <<chain, content>>
    <2>1. DOMAIN chain' = Runs /\ DOMAIN content' = Runs
      BY <1>6 DEF OperatorInv, Shapes, EarnedInv, Wide
    <2> QED
      BY <1>1, <1>2, <1>3, <1>4, <1>6, <2>1, WorldStep
  <1> QED
    BY <1>1, <1>5, <1>6

LEMMA ChainEarned ==
    ASSUME OperatorInv, EarnedInv, NEW q \in Runs, Chain(q)
    PROVE  EarnedInv'
  <1> USE DEF runVars, buyVars, lookVars, bookVars, controlVars
  <1>1. UNCHANGED <<pc, step, kind, committed, seen, valid, saving, snap, book, doc, rec, cb, content>>
    BY DEF Chain, Lapse, Ripen
  <1>2. /\ DOMAIN chain' = Runs /\ \A s \in Runs \ {q} : chain'[s] = chain[s]
        /\ \/ chain'[q] = chain[q]
           \/ chain[q] = "SUBMITTED" /\ chain'[q] \in {"COMPLETED", "REJECTED"}
           \/ chain[q] = "FUNDED" /\ chain'[q] = "EXPIRED"
    BY DEF Chain, Lapse, Ripen, MineSettle, MineRefund, MineReject, OperatorInv, Shapes
  <1>3. DOMAIN doc' = Runs /\ DOMAIN rec' = Runs /\ DOMAIN cb' = Runs /\ DOMAIN content' = Runs
    BY <1>1 DEF OperatorInv, Shapes, EarnedInv, Wide
  <1> QED
    BY <1>1, <1>2, <1>3, WorldStep

LEMMA SellerEarned ==
    ASSUME OperatorInv, EarnedInv, NEW q \in Runs, Seller(q) \/ Restart(q)
    PROVE  EarnedInv'
  <1> USE DEF runVars, buyVars, lookVars, bookVars, controlVars, chainVars
  <1>1. /\ UNCHANGED <<pc, step, kind, committed, seen, valid, saving, snap, book, doc, rec, cb>>
        /\ \/ \E c \in {"good"} \cup Refused(kind[q]) : Deliver(q, c)
           \/ UNCHANGED <<chain, content>>
    BY DEF Seller, Restart, Verify, StartWork, EndWork, SubmitResult, RestartAgent
  <1>2. DOMAIN doc' = Runs /\ DOMAIN rec' = Runs /\ DOMAIN cb' = Runs
    BY <1>1 DEF OperatorInv, Shapes
  <1>3. CASE \E c \in {"good"} \cup Refused(kind[q]) : Deliver(q, c)
    <2>1. PICK c \in {"good"} \cup Refused(kind[q]) : Deliver(q, c)
      BY <1>3
    <2>2. /\ DOMAIN chain' = Runs /\ DOMAIN content' = Runs
          /\ \A s \in Runs \ {q} : chain'[s] = chain[s] /\ content'[s] = content[s]
          /\ chain[q] = "FUNDED" /\ chain'[q] = "SUBMITTED" /\ content'[q] = c
      BY <2>1, DeliverOK
    <2> QED
      BY <1>1, <1>2, <2>2, WorldStep
  <1>4. CASE UNCHANGED <<chain, content>>
    <2>1. DOMAIN chain' = Runs /\ DOMAIN content' = Runs
      BY <1>4 DEF OperatorInv, Shapes, EarnedInv, Wide
    <2> QED
      BY <1>1, <1>2, <1>4, <2>1, WorldStep
  <1> QED
    BY <1>1, <1>3, <1>4

(* ------------------------------- every step ------------------------------- *)

(* Whether the control found its submission is known or not.                 *)
KnownOK == known \in [Runs -> BOOLEAN]

LEMMA KnownStep == KnownOK /\ [Next]_vars => KnownOK'
  <1> SUFFICES ASSUME KnownOK, [Next]_vars, known' # known PROVE KnownOK'
    BY DEF KnownOK
  <1> USE DEF controlVars, buyVars, lookVars, bookVars
  <1>1. PICK r \in Runs : Control(r) \/ Callback(r) \/ Detect(r) \/ ControlReconcile(r) \/ Kill(r)
    BY DEF Next, vars, Agent, Reconciling, Seller, Chain, Restart
  <1>2. Control(r)
    BY <1>1 DEF Callback, CallbackLoad, CallbackSave, CallbackSubmit, Detect, ControlReconcile, Kill
  <1>3. ControlFetch(r)
    BY <1>2 DEF Control, ControlStart, ControlCommit, ControlSend, ControlNote, SaveLoad, SaveWrite,
                ControlLook, ControlLookEnds, ControlStop, ControlLast, ControlDoc, ControlKeep,
                ControlRuns, ControlSave, ControlError, ControlReread, ControlRewrite
  <1>4. known' = [known EXCEPT ![r] = "result" \in rec[r].events]
    BY <1>3 DEF ControlFetch
  <1>5. ("result" \in rec[r].events) \in BOOLEAN
    OBVIOUS
  <1> QED
    BY <1>4, <1>5 DEF KnownOK

LEMMA AgentEarned ==
    ASSUME OperatorInv, EarnedInv, NEW q \in Runs, Agent(q)
    PROVE  EarnedInv'
  <1>1. UNCHANGED controlVars /\ Script(q)
    BY DEF Agent
  <1> QED
    BY <1>1, PreflightEarned, CommitEarned, SendEarned, NoteEarned, FailEarned, ObserveEarned,
       FetchEarned, RefundEarned, SettleEarned, RereadEarned, SaveRunEarned, ReconcileSaveEarned
    DEF Script

LEMMA ControlsEarned ==
    ASSUME OperatorInv, EarnedInv, KnownOK, NEW q \in Runs, Control(q)
    PROVE  EarnedInv'
  <1>1. known[q] \in BOOLEAN
    BY DEF KnownOK
  <1> QED
    BY <1>1, ControlStartEarned, ControlCommitEarned, ControlSendEarned, ControlNoteEarned,
       SaveLoadEarned, SaveWriteEarned, LookEarned, PassEarned, ControlFetchEarned,
       ControlRunsEarned, ControlSaveEarned, ControlErrorEarned, ControlRereadEarned,
       ControlRewriteEarned
    DEF Control

LEMMA EarnedNextOK == OperatorInv /\ KnownOK /\ EarnedInv /\ [Next]_vars => EarnedInv'
  <1> SUFFICES ASSUME OperatorInv, KnownOK, EarnedInv, [Next]_vars PROVE EarnedInv'
    OBVIOUS
  <1>1. CASE UNCHANGED vars
    <2> USE <1>1 DEF vars, runVars, buyVars, lookVars, bookVars, controlVars, env, chainVars
    <2>1. \A r \in Runs : Left(r)
      BY DEF Left
    <2>2. \A r \in Runs : SelfOK(r)' /\ EntryStays(r)
      BY <2>1, LeftOK DEF EarnedInv, SelfOK
    <2>3. ListOK(book)' /\ \A s \in Runs : ListOK(snap[s])'
      BY <2>2 DEF EarnedInv, ListOK, EntryStays
    <2>4. Wide'
      BY DEF EarnedInv, Wide
    <2> QED
      BY <2>2, <2>3, <2>4 DEF EarnedInv, SelfOK
  <1>2. ASSUME NEW r \in Runs, Agent(r) \/ Control(r) \/ Detect(r) \/ Callback(r)
        PROVE  EarnedInv'
    BY <1>2, AgentEarned, ControlsEarned, WatcherEarned, CallbackSubmitEarned DEF Callback
  <1>3. ASSUME NEW r \in Runs, Reconciling(r) \/ Kill(r)
        PROVE  EarnedInv'
    BY <1>3, ReconcileEarned, KillEarned DEF Reconciling
  <1>4. ASSUME NEW r \in Runs, Seller(r) \/ Chain(r) \/ Restart(r)
        PROVE  EarnedInv'
    BY <1>4, SellerEarned, ChainEarned
  <1> QED
    BY <1>1, <1>2, <1>3, <1>4 DEF Next

LEMMA EarnedHolds == EarnedInv => QualifiedIsEarned
  <1> SUFFICES ASSUME EarnedInv, NEW r \in Runs, book[r] # None /\ book[r].complete
               PROVE  /\ committed[r] # {}
                      /\ kind[r] \in {"yield", "range", "health"} => "baseline" \in committed[r]
                      /\ content[r] = "good"
                      /\ kind[r] # "control" => chain[r] = "COMPLETED"
                      /\ book[r].record => doc[r].funded
    BY DEF QualifiedIsEarned
  <1>1. EntryOK(book[r], r)
    BY DEF EarnedInv, ListOK
  <1> QED
    BY <1>1 DEF EntryOK, Committed, Settled

LEMMA EarnedAlways == Spec => [](OperatorInv /\ KnownOK /\ EarnedInv)
  <1>1. Init => KnownOK
    BY DEF Init, ControlInit, KnownOK
  <1> QED
    BY <1>1, InitOK, NextOK, KnownStep, EarnedInitOK, EarnedNextOK, PTL DEF Spec

(* A run that is recorded as complete was precommitted, answered with a          *)
(* deliverable that answers the task and, a paid one, settled on chain, whatever   *)
(* is killed, run twice at once or written over (deriveQualificationFlags,        *)
(* buildControlQualification, appendJsonArray).                              *)
THEOREM CompleteIsEarned == Spec => []QualifiedIsEarned
  BY EarnedAlways, EarnedHolds, PTL

(* The steps that write the document of the runs.                               *)
LEMMA BookStep ==
    ASSUME Next, book' # book
    PROVE  \E q \in Runs : SaveRun(q) \/ ReconcileSave(q) \/ ControlSave(q) \/ ControlRewrite(q)
  <1> USE DEF runVars, bookVars
  <1>1. PICK q \in Runs : Agent(q) \/ Control(q)
    BY DEF Next, Reconciling, Reconcile, ControlReconcile, Kill, Die, Detect, Callback, CallbackLoad,
           CallbackSave, CallbackSubmit, Seller, Chain, Restart
  <1>2. Agent(q) => SaveRun(q) \/ ReconcileSave(q)
    BY DEF Agent, Script, Preflight, Commit, Send, Note, Fail, Observe, StopObserving, Fetch, Refund,
           Settle, Confirm, Retry, CountRuns, LoadRuns, Report, ReconcileRead, ReconcileFetch,
           ReconcileDoc
  <1>3. Control(q) => ControlSave(q) \/ ControlRewrite(q)
    BY DEF Control, ControlStart, ControlCommit, ControlSend, ControlNote, SaveLoad, SaveWrite,
           ControlLook, ControlLookEnds, ControlStop, ControlLast, ControlFetch, ControlDoc,
           ControlKeep, ControlRuns, ControlError, ControlReread
  <1> QED
    BY <1>1, <1>2, <1>3

LEMMA KeptStep ==
    ASSUME OperatorInv, EarnedInv, Next, NEW r \in Runs,
           book[r] # None /\ book[r].complete /\ kind[r] # "control"
    PROVE  \/ book'[r] # None /\ book'[r].complete
           \/ \E s \in Runs \ {r} : book'[r] = snap[s][r]
  <1>1. CASE book' = book
    BY <1>1
  <1>2. CASE book' # book
    <2>1. PICK q \in Runs : SaveRun(q) \/ ReconcileSave(q) \/ ControlSave(q) \/ ControlRewrite(q)
      BY <1>2, BookStep
    <2>2. PICK d : book' = [snap[q] EXCEPT ![q] = d]
      BY <2>1 DEF SaveRun, ReconcileSave, ControlSave, ControlRewrite
    <2>3. DOMAIN snap[q] = Runs
      BY DEF EarnedInv, ListOK
    <2>4. CASE q # r
      BY <2>2, <2>3, <2>4
    <2>5. CASE q = r
      <3>1. EntryOK(book[r], r)
        BY DEF EarnedInv, ListOK
      <3>2. pc[r] \notin Before /\ Settled(r)
        BY <3>1 DEF EntryOK
      <3>3. pc[r] \notin ControlPoints
        BY DEF EarnedInv, KindOK
      <3>4. ReconcileSave(r)
        BY <2>1, <2>5, <3>2, <3>3 DEF SaveRun, ControlSave, ControlRewrite, Before, ControlPoints
      <3>5. Complete(r)
        BY <3>2 DEF Settled, Complete
      <3>6. book'[r] = Reconciled(r)
        BY <2>3, <2>5, <3>4 DEF ReconcileSave
      <3>7. Reconciled(r).complete
        BY <3>5 DEF Reconciled
      <3>8. pc[r] = "r_save"
        BY <3>4 DEF ReconcileSave
      <3>9. Reconciled(r) # None
        BY <3>8, ReconciledEntry, RecordAssumption
      <3> QED
        BY <3>6, <3>7, <3>9
    <2> QED
      BY <2>4, <2>5
  <1> QED
    BY <1>1, <1>2

(* A paid run that is recorded as complete stays so, but for a copy of the runs    *)
(* that another script had loaded before and writes back                       *)
(* (reconcile-health-guard-hire, appendJsonArray).                             *)
THEOREM CompleteIsKept == Spec => QualificationKept
  <1>1. OperatorInv /\ KnownOK /\ EarnedInv /\ [Next]_vars =>
          [\A r \in Runs :
             book[r] # None /\ book[r].complete /\ kind[r] # "control"
             => \/ book'[r] # None /\ book'[r].complete
                \/ \E s \in Runs \ {r} : book'[r] = snap[s][r]]_vars
    BY KeptStep
  <1> QED
    BY <1>1, EarnedAlways, PTL DEF Spec, QualificationKept

(* ------------------------------- the types ------------------------------- *)

(* The points at which a script relies on the document being there.          *)
Keeps == (Late \cup ControlPoints) \ {"c_commit"}

(* The points before a script tries to settle.                               *)
Untried == {"check", "commit", "send", "note", "observe", "fetch", "r_read", "r_fetch"}

Settling == {"settle", "r_settle"}

AllTerms == ControlTerms \cup UNION {Terms(k) : k \in Agents}

(* The variables of the world, and of a run's script.                        *)
WorldTyped == ChainTypeOK /\ SellerTypeOK /\ ControlTypeOK

ScriptTyped ==
    /\ pc \in [Runs -> Points]
    /\ step \in [Runs -> 1..4]
    /\ committed \in [Runs -> SUBSET AllTerms]
    /\ rec \in [Runs -> JobRecords]
    /\ doc \in [Runs -> JobRecords \cup {None}]
    /\ seen \in [Runs -> Read]
    /\ valid \in [Runs -> BOOLEAN \cup {None}]
    /\ tries \in [Runs -> 0..Attempts]
    /\ prior \in [Runs -> BOOLEAN]
    /\ report \in [Runs -> BOOLEAN]

(* The lists of runs: their entries are the invariant's above.                *)
Tabled ==
    /\ book = [t \in Runs |-> book[t]]
    /\ snap = [s \in Runs |-> [t \in Runs |-> snap[s][t]]]

(* A script has an attempt left where it settles, and a document where it     *)
(* writes into it.                                                           *)
Ready(r) ==
    /\ pc[r] \in Untried => tries[r] = 0
    /\ pc[r] \in Settling => tries[r] < Attempts
    /\ pc[r] \in Keeps => doc[r] \in JobRecords

(* A run that is in the list, or in a copy of it, has its document.           *)
Listed(r) ==
    (book[r] # None \/ \E s \in Runs : snap[s][r] # None) => doc[r] \in JobRecords

TypeInv ==
    /\ WorldTyped /\ ScriptTyped /\ Tabled
    /\ \A r \in Runs : Ready(r) /\ Listed(r)

LEMMA TypeInitOK == Init => TypeInv
  <1> SUFFICES ASSUME Init PROVE TypeInv
    OBVIOUS
  <1> USE DEF Init, ChainInit, SellerInit, RunInit, ControlInit
  <1>1. WorldTyped
    BY DEF WorldTyped, ChainTypeOK, SellerTypeOK, ControlTypeOK, WorkerStates
  <1>2. ScriptTyped
    BY AttemptsAssumption, FreshOK DEF ScriptTyped, Points, Ended, Read
  <1>3. Tabled
    BY DEF Tabled, NoEntry
  <1>4. ASSUME NEW r \in Runs PROVE Ready(r) /\ Listed(r)
    BY DEF Ready, Listed, Untried, Settling, Keeps, Late, Rereading, ControlPoints, NoEntry
  <1> QED
    BY <1>1, <1>2, <1>3, <1>4 DEF TypeInv

(* How a step may treat a run's document, and the lists.                      *)
DocMoves(q) ==
    UNCHANGED doc \/ \E d \in JobRecords : doc' = [doc EXCEPT ![q] = d]

ListMoves(q) ==
    /\ \/ UNCHANGED book
       \/ pc[q] \in Keeps /\ \E e : book' = [snap[q] EXCEPT ![q] = e]
    /\ \/ UNCHANGED snap
       \/ snap' = [snap EXCEPT ![q] = book]
       \/ snap' = [snap EXCEPT ![q] = NoEntry]

OthersRest(q) == \A s \in Runs \ {q} : pc'[s] = pc[s] /\ tries'[s] = tries[s]

LEMMA TypeStep ==
    ASSUME TypeInv, NEW q \in Runs, WorldTyped', ScriptTyped', DocMoves(q), ListMoves(q),
           OthersRest(q), Ready(q)'
    PROVE  TypeInv'
  <1>1. \A s \in Runs : doc[s] \in JobRecords => doc'[s] \in JobRecords
    BY DEF DocMoves, TypeInv, ScriptTyped
  <1>2. Tabled'
    <2>1. book' = [t \in Runs |-> book'[t]]
      <3>1. CASE UNCHANGED book
        BY <3>1 DEF TypeInv, Tabled
      <3>2. CASE \E e : book' = [snap[q] EXCEPT ![q] = e]
        <4>1. snap[q] = [t \in Runs |-> snap[q][t]]
          BY DEF TypeInv, Tabled
        <4> QED
          BY <3>2, <4>1
      <3> QED
        BY <3>1, <3>2 DEF ListMoves
    <2>2. snap' = [s \in Runs |-> [t \in Runs |-> snap'[s][t]]]
      <3>1. /\ snap' = [s \in Runs |-> snap'[s]]
            /\ \A s \in Runs : snap'[s] \in {snap[s], book, NoEntry}
        BY DEF ListMoves, TypeInv, Tabled
      <3>2. \A s \in Runs : snap'[s] = [t \in Runs |-> snap'[s][t]]
        BY <3>1 DEF TypeInv, Tabled, NoEntry
      <3> QED
        BY <3>1, <3>2
    <2> QED
      BY <2>1, <2>2 DEF Tabled
  <1>3. ASSUME NEW s \in Runs PROVE Ready(s)'
    <2>1. CASE s = q
      BY <2>1
    <2>2. CASE s # q
      BY <1>1, <2>2 DEF OthersRest, TypeInv, Ready
    <2> QED
      BY <2>1, <2>2
  <1>4. ASSUME NEW r \in Runs PROVE Listed(r)'
    <2>1. SUFFICES ASSUME book'[r] # None \/ \E s \in Runs : snap'[s][r] # None
                   PROVE  doc[r] \in JobRecords
      BY <1>1 DEF Listed
    <2>2. Listed(r) /\ (pc[q] \in Keeps => doc[q] \in JobRecords)
      BY DEF TypeInv, Ready
    <2>3. CASE book'[r] # None
      <3>1. CASE UNCHANGED book
        BY <2>2, <2>3, <3>1 DEF Listed
      <3>2. CASE pc[q] \in Keeps /\ \E e : book' = [snap[q] EXCEPT ![q] = e]
        <4>1. r # q => book'[r] = snap[q][r]
          BY <3>2 DEF TypeInv, Tabled
        <4> QED
          BY <2>2, <2>3, <3>2, <4>1 DEF Listed
      <3> QED
        BY <3>1, <3>2 DEF ListMoves
    <2>4. CASE \E s \in Runs : snap'[s][r] # None
      <3>1. PICK s \in Runs : snap'[s][r] # None
        BY <2>4
      <3>2. snap'[s] \in {snap[s], book, NoEntry}
        BY DEF ListMoves, TypeInv, Tabled
      <3>3. NoEntry[r] = None
        BY DEF NoEntry
      <3> QED
        BY <2>2, <3>1, <3>2, <3>3 DEF Listed
    <2> QED
      BY <2>1, <2>3, <2>4
  <1> QED
    BY <1>2, <1>3, <1>4 DEF TypeInv

(* ------------------------------ hire scripts ------------------------------ *)

LEMMA Reads == Read \subseteq Currents
  BY DEF Read, Currents

LEMMA RecordSet ==
    ASSUME NEW d \in JobRecords, NEW x \in Currents
    PROVE  [d EXCEPT !.current = x] \in JobRecords
  BY DEF JobRecords

LEMMA RecordMade ==
    ASSUME NEW d \in JobRecords
    PROVE  /\ [d EXCEPT !.job = TRUE] \in JobRecords
           /\ [d EXCEPT !.job = TRUE, !.state = "created"] \in JobRecords
           /\ [d EXCEPT !.funded = TRUE, !.state = "funded"] \in JobRecords
           /\ [d EXCEPT !.state = "error"] \in JobRecords
  BY DEF JobRecords, RecordStates

LEMMA ValidatedBoolean == \A r, g : g \in BOOLEAN => Validated(r, g) \in BOOLEAN
  BY DEF Validated

LEMMA MineTyped ==
    ASSUME ChainTypeOK, NEW r \in Runs, NEW s, Mine(r, s)
    PROVE  chain' \in [Runs -> Statuses \cup {None}]
  BY DEF ChainTypeOK, Mine, Statuses

LEMMA MoveTyped ==
    ASSUME ChainTypeOK, NEW r \in Runs, MineSettle(r) \/ MineRefund(r) \/ MineReject(r)
    PROVE  chain' \in [Runs -> Statuses \cup {None}]
  BY DEF ChainTypeOK, MineSettle, MineRefund, MineReject, Statuses

LEMMA WorldKept ==
    ASSUME WorldTyped, UNCHANGED <<kind, content, window, ripe>>, UNCHANGED sellerVars,
           chain' \in [Runs -> Statuses \cup {None}], UNCHANGED known,
           cb' \in [Runs -> {"off", "idle", "detect", "work", "submit", "result", "error", "over"}]
    PROVE  WorldTyped'
  BY DEF WorldTyped, ChainTypeOK, SellerTypeOK, ControlTypeOK, sellerVars

LEMMA WorldSame ==
    ASSUME WorldTyped, UNCHANGED env, UNCHANGED controlVars
    PROVE  WorldTyped'
  BY DEF WorldTyped, ChainTypeOK, SellerTypeOK, ControlTypeOK, env, chainVars, sellerVars, controlVars

(* The pc of a step that goes on.                                            *)
LEMMA GotoTyped ==
    ASSUME TypeInv, NEW q \in Runs, NEW l \in Points, Goto(q, l)
    PROVE  /\ pc' \in [Runs -> Points] /\ pc'[q] = l
           /\ \A s \in Runs \ {q} : pc'[s] = pc[s]
  BY DEF TypeInv, ScriptTyped, Goto

(* A step that leaves the record in memory and goes on.                       *)
LEMMA GoesOnTyped ==
    ASSUME TypeInv, NEW q \in Runs, NEW l \in Points, Goto(q, l), WorldTyped',
           DocMoves(q), ListMoves(q), UNCHANGED <<step, committed, rec>>,
           UNCHANGED seen \/ \E x \in Read : seen' = [seen EXCEPT ![q] = x],
           UNCHANGED valid \/ \E v \in BOOLEAN : valid' = [valid EXCEPT ![q] = v],
           UNCHANGED tries \/ \E n \in 0..Attempts : tries' = [tries EXCEPT ![q] = n],
           UNCHANGED prior \/ \E b \in BOOLEAN : prior' = [prior EXCEPT ![q] = b],
           UNCHANGED report \/ report' = [report EXCEPT ![q] = TRUE],
           l \in Untried => tries'[q] = 0,
           l \in Settling => tries'[q] < Attempts,
           l \in Keeps => pc[q] \in Keeps \/ doc'[q] \in JobRecords
    PROVE  TypeInv'
  <1>1. /\ pc' \in [Runs -> Points] /\ pc'[q] = l
        /\ \A s \in Runs \ {q} : pc'[s] = pc[s]
    BY GotoTyped
  <1>2. /\ doc' \in [Runs -> JobRecords \cup {None}]
        /\ doc[q] \in JobRecords => doc'[q] \in JobRecords
    BY DEF DocMoves, TypeInv, ScriptTyped
  <1>3. seen' \in [Runs -> Read] /\ valid' \in [Runs -> BOOLEAN \cup {None}]
    BY DEF TypeInv, ScriptTyped
  <1>4. tries' \in [Runs -> 0..Attempts] /\ \A s \in Runs \ {q} : tries'[s] = tries[s]
    BY DEF TypeInv, ScriptTyped
  <1>5. prior' \in [Runs -> BOOLEAN] /\ report' \in [Runs -> BOOLEAN]
    BY DEF TypeInv, ScriptTyped
  <1>6. ScriptTyped'
    BY <1>1, <1>2, <1>3, <1>4, <1>5 DEF TypeInv, ScriptTyped
  <1>7. Ready(q)' /\ OthersRest(q)
    BY <1>1, <1>2, <1>4 DEF TypeInv, Ready, OthersRest
  <1> QED
    BY <1>6, <1>7, TypeStep

LEMMA PointSets ==
    /\ Late \cup ControlPoints \cup Ended \cup {"check"} \cup {"commit", "send", "note", "fail"} \subseteq Points
  BY DEF Late, Rereading, ControlPoints, Ended, Points

LEMMA PreflightTyped ==
    ASSUME TypeInv, NEW q \in Runs, Preflight(q), UNCHANGED controlVars
    PROVE  TypeInv'
  <1>1. PICK l \in {"commit", "stopped"} : Goto(q, l)
    BY DEF Preflight
  <1>2. l \in Points /\ l \notin Settling \cup Keeps
    BY DEF Points, Ended, Settling, Keeps, Late, Rereading, ControlPoints
  <1>5. tries[q] = 0
    BY DEF Preflight, TypeInv, Ready, Untried
  <1>3. /\ UNCHANGED env
        /\ UNCHANGED <<step, committed, rec, doc, seen, valid, tries, prior, snap, report, book>>
    BY DEF Preflight, lookVars, bookVars
  <1>4. DocMoves(q) /\ ListMoves(q) /\ WorldTyped'
    BY <1>3, WorldSame DEF DocMoves, ListMoves, TypeInv
  <1> QED
    BY <1>1, <1>2, <1>3, <1>4, <1>5, GoesOnTyped

LEMMA CommitTyped ==
    ASSUME TypeInv, NEW q \in Runs, Commit(q), kind[q] \in Agents, UNCHANGED controlVars
    PROVE  TypeInv'
  <1>1. PICK l \in {"send", "stopped"} : Goto(q, l)
    BY DEF Commit
  <1>2. l \in Points /\ l \notin Settling \cup Keeps
    BY DEF Points, Ended, Settling, Keeps, Late, Rereading, ControlPoints
  <1>3. /\ UNCHANGED env
        /\ UNCHANGED <<step, rec, doc, seen, valid, tries, prior, snap, report, book>>
    BY DEF Commit, lookVars, bookVars
  <1>4. DocMoves(q) /\ ListMoves(q) /\ WorldTyped' /\ OthersRest(q)
    BY <1>1, <1>2, <1>3, WorldSame, GotoTyped DEF DocMoves, ListMoves, TypeInv, OthersRest
  <1>5. tries[q] = 0 /\ pc'[q] = l
    BY <1>1, <1>2, GotoTyped DEF Commit, TypeInv, Ready, Untried
  <1>6. committed' \in [Runs -> SUBSET AllTerms]
    <2>1. Terms(kind[q]) \subseteq AllTerms
      BY DEF AllTerms
    <2> QED
      BY <2>1 DEF Commit, TypeInv, ScriptTyped
  <1>7. ScriptTyped'
    BY <1>1, <1>2, <1>3, <1>6, GotoTyped DEF TypeInv, ScriptTyped
  <1>8. Ready(q)'
    BY <1>2, <1>3, <1>5 DEF Ready
  <1> QED
    BY <1>4, <1>7, <1>8, TypeStep

LEMMA StepsTyped == ASSUME TypeInv, NEW q \in Runs PROVE step[q] \in 1..4 /\ rec[q] \in JobRecords
  BY DEF TypeInv, ScriptTyped

LEMMA SendTyped ==
    ASSUME TypeInv, NEW q \in Runs, Send(q), UNCHANGED controlVars
    PROVE  TypeInv'
  <1>1. PICK l \in {"note", "fail"} : Goto(q, l)
    BY DEF Send
  <1>2. l \in Points /\ l \notin Settling \cup Keeps
    BY DEF Points, Ended, Settling, Keeps, Late, Rereading, ControlPoints
  <1>3. /\ UNCHANGED <<kind, content, window, ripe>> /\ UNCHANGED sellerVars
        /\ UNCHANGED <<step, committed, doc, seen, valid, tries, prior, snap, report, book>>
    BY DEF Send, lookVars, bookVars
  <1>4. chain' \in [Runs -> Statuses \cup {None}]
    <2>1. Mine(q, Steps[step[q]]) \/ UNCHANGED chain
      BY DEF Send
    <2> QED
      BY <2>1, MineTyped DEF TypeInv, WorldTyped, ChainTypeOK
  <1>5. WorldTyped'
    BY <1>3, <1>4, WorldKept DEF TypeInv, WorldTyped, ControlTypeOK, controlVars
  <1>6. DocMoves(q) /\ ListMoves(q) /\ OthersRest(q)
    BY <1>1, <1>2, <1>3, GotoTyped DEF DocMoves, ListMoves, OthersRest
  <1>7. tries[q] = 0 /\ pc'[q] = l
    BY <1>1, <1>2, GotoTyped DEF Send, TypeInv, Ready, Untried
  <1>8. rec' \in [Runs -> JobRecords]
    <2>1. rec[q] \in JobRecords /\ rec \in [Runs -> JobRecords]
      BY DEF TypeInv, ScriptTyped
    <2>2. \/ rec' = rec
          \/ rec' = [rec EXCEPT ![q] = [rec[q] EXCEPT !.job = TRUE, !.state = "created"]]
          \/ rec' = [rec EXCEPT ![q] = [rec[q] EXCEPT !.funded = TRUE, !.state = "funded"]]
      BY <2>1 DEF Send
    <2> QED
      BY <2>1, <2>2, RecordMade
  <1>9. ScriptTyped'
    BY <1>1, <1>2, <1>3, <1>8, GotoTyped DEF TypeInv, ScriptTyped
  <1>10. Ready(q)'
    BY <1>2, <1>3, <1>7 DEF Ready
  <1> QED
    BY <1>5, <1>6, <1>9, <1>10, TypeStep

LEMMA NoteTyped ==
    ASSUME TypeInv, OperatorInv, NEW q \in Runs, Note(q), UNCHANGED controlVars
    PROVE  TypeInv'
  <1>1. PICK l \in {"send", "observe", "fail"} : Goto(q, l)
    BY DEF Note
  <1>2. l \in Points /\ l \notin Settling
    BY DEF Points, Settling
  <1>3. /\ UNCHANGED env /\ UNCHANGED <<committed, seen, valid, tries, prior, snap, report, book>>
    BY DEF Note, lookVars, bookVars
  <1>4. [rec[q] EXCEPT !.current = chain[q]] \in JobRecords
    BY StepsTyped, ChainRead, Reads, RecordSet
  <1>5. /\ rec' \in [Runs -> JobRecords] /\ DocMoves(q)
        /\ l # "fail" => doc'[q] \in JobRecords
    <2>1. CASE Goto(q, "fail") /\ UNCHANGED <<step, rec, doc>>
      BY <1>1, <2>1 DEF TypeInv, ScriptTyped, DocMoves, Goto
    <2>2. CASE /\ rec' = [rec EXCEPT ![q].current = chain[q]]
               /\ doc' = [doc EXCEPT ![q] = rec'[q]]
      <3>1. /\ rec' = [rec EXCEPT ![q] = [rec[q] EXCEPT !.current = chain[q]]]
            /\ doc' = [doc EXCEPT ![q] = [rec[q] EXCEPT !.current = chain[q]]]
        BY <2>2 DEF TypeInv, ScriptTyped
      <3> QED
        BY <1>4, <3>1 DEF TypeInv, ScriptTyped, DocMoves
    <2> QED
      BY <2>1, <2>2 DEF Note
  <1>6. step' \in [Runs -> 1..4]
    <2>1. Len(Steps) = 4
      BY DEF Steps
    <2> QED
      BY <2>1, StepsTyped DEF Note, TypeInv, ScriptTyped
  <1>7. tries[q] = 0 /\ pc'[q] = l
    BY <1>1, <1>2, GotoTyped DEF Note, TypeInv, Ready, Untried
  <1>8. WorldTyped' /\ ListMoves(q) /\ OthersRest(q)
    BY <1>1, <1>2, <1>3, WorldSame, GotoTyped DEF TypeInv, ListMoves, OthersRest
  <1>9. ScriptTyped'
    <2>1. doc' \in [Runs -> JobRecords \cup {None}]
      BY <1>5 DEF DocMoves, TypeInv, ScriptTyped
    <2> QED
      BY <1>1, <1>2, <1>3, <1>5, <1>6, <2>1, GotoTyped DEF TypeInv, ScriptTyped
  <1>10. Ready(q)'
    <2>1. "fail" \notin Keeps
      BY DEF Keeps, Late, Rereading, ControlPoints
    <2> QED
      BY <1>2, <1>3, <1>5, <1>7, <2>1 DEF Ready
  <1> QED
    BY <1>5, <1>8, <1>9, <1>10, TypeStep

LEMMA FailTyped ==
    ASSUME TypeInv, NEW q \in Runs, Fail(q), UNCHANGED controlVars
    PROVE  TypeInv'
  <1>1. Goto(q, "stopped") /\ "stopped" \in Points /\ "stopped" \notin Untried \cup Settling \cup Keeps
    BY DEF Fail, Points, Ended, Untried, Settling, Keeps, Late, Rereading, ControlPoints
  <1>2. /\ UNCHANGED env /\ UNCHANGED <<step, committed, seen, valid, tries, prior, snap, report, book>>
    BY DEF Fail, lookVars, bookVars
  <1>3. [rec[q] EXCEPT !.state = "error"] \in JobRecords
    BY StepsTyped, RecordMade
  <1>4. /\ rec' = [rec EXCEPT ![q] = [rec[q] EXCEPT !.state = "error"]]
        /\ doc' = [doc EXCEPT ![q] = [rec[q] EXCEPT !.state = "error"]]
    BY DEF Fail, TypeInv, ScriptTyped
  <1>5. WorldTyped' /\ ListMoves(q) /\ OthersRest(q) /\ pc'[q] = "stopped" /\ DocMoves(q)
    BY <1>1, <1>2, <1>3, <1>4, WorldSame, GotoTyped DEF TypeInv, ListMoves, OthersRest, DocMoves
  <1>6. ScriptTyped'
    BY <1>1, <1>2, <1>3, <1>4, GotoTyped DEF TypeInv, ScriptTyped
  <1>7. Ready(q)'
    BY <1>1, <1>5 DEF Ready
  <1> QED
    BY <1>5, <1>6, <1>7, TypeStep

(* A status is persisted in a document that is there.                         *)
LEMMA PersistMoves ==
    ASSUME TypeInv, NEW q \in Runs, doc[q] \in JobRecords, NEW x \in Read, Persist(q, x)
    PROVE  DocMoves(q)
  <1>1. doc' = [doc EXCEPT ![q] = [doc[q] EXCEPT !.current = x]]
    BY DEF Persist, TypeInv, ScriptTyped
  <1> QED
    BY <1>1, Reads, RecordSet DEF DocMoves

LEMMA KeepsDoc == ASSUME TypeInv, NEW q \in Runs, pc[q] \in Keeps PROVE doc[q] \in JobRecords
  BY DEF TypeInv, Ready

LEMMA ObserveTyped ==
    ASSUME TypeInv, OperatorInv, NEW q \in Runs, UNCHANGED controlVars,
           Observe(q) \/ StopObserving(q) \/ Fetch(q)
    PROVE  TypeInv'
  <1>1. PICK l \in {"fetch", "observe", "refund", "settle", "count"} : Goto(q, l)
    BY DEF Observe, StopObserving, Fetch
  <1>2. l \in Points /\ l \in Keeps /\ l \in Untried \cup Settling \cup {"refund", "count"}
    BY DEF Points, Keeps, Late, ControlPoints, Untried, Settling
  <1>3. UNCHANGED env /\ UNCHANGED <<step, committed, rec, tries, prior, snap, report, book>>
    BY DEF Observe, StopObserving, Fetch, buyVars, lookVars, bookVars
  <1>4. pc[q] \in Keeps /\ doc[q] \in JobRecords
    BY KeepsDoc DEF Observe, StopObserving, Fetch, Keeps, Late, ControlPoints
  <1>5. tries[q] = 0 /\ 0 < Attempts
    BY AttemptsAssumption DEF Observe, StopObserving, Fetch, TypeInv, Ready, Untried
  <1>6. DocMoves(q) /\ ListMoves(q) /\ WorldTyped'
    <2>1. UNCHANGED doc \/ Persist(q, chain[q])
      BY DEF Observe, StopObserving, Fetch
    <2> QED
      BY <1>3, <1>4, <2>1, PersistMoves, ChainRead, WorldSame DEF DocMoves, ListMoves, TypeInv
  <1>7. /\ UNCHANGED seen \/ \E x \in Read : seen' = [seen EXCEPT ![q] = x]
        /\ UNCHANGED valid \/ \E v \in BOOLEAN : valid' = [valid EXCEPT ![q] = v]
    BY ChainRead, ValidatedBoolean DEF Observe, StopObserving, Fetch, lookVars
  <1> QED
    BY <1>1, <1>2, <1>3, <1>4, <1>5, <1>6, <1>7, GoesOnTyped

LEMMA SettleTyped ==
    ASSUME TypeInv, OperatorInv, NEW q \in Runs, UNCHANGED controlVars,
           Refund(q) \/ Settle(q)
    PROVE  TypeInv'
  <1>1. PICK l \in {"count", "confirm", "r_confirm", "retry", "r_retry"} : Goto(q, l)
    BY DEF Refund, Settle
  <1>2. l \in Points /\ l \in Keeps /\ l \notin Untried \cup Settling
    BY DEF Points, Keeps, Late, Rereading, ControlPoints, Untried, Settling
  <1>3. /\ UNCHANGED <<kind, content, window, ripe>> /\ UNCHANGED sellerVars
        /\ UNCHANGED <<step, committed, rec, valid, prior, snap, report, book>>
    BY DEF Refund, Settle, buyVars, bookVars
  <1>4. pc[q] \in Keeps /\ doc[q] \in JobRecords
    BY KeepsDoc DEF Refund, Settle, Keeps, Late, Rereading, ControlPoints
  <1>5. UNCHANGED tries \/ \E n \in 0..Attempts : tries' = [tries EXCEPT ![q] = n]
    <2>1. CASE Settle(q)
      <3>1. tries[q] \in 0..Attempts /\ tries[q] < Attempts
        BY <2>1 DEF Settle, TypeInv, Ready, Settling, ScriptTyped
      <3>2. tries' = [tries EXCEPT ![q] = tries[q] + 1]
        BY <2>1 DEF Settle, TypeInv, ScriptTyped
      <3>3. tries[q] + 1 \in 0..Attempts
        BY <3>1, AttemptsAssumption
      <3> QED
        BY <3>2, <3>3
    <2>2. CASE Refund(q)
      BY <2>2 DEF Refund
    <2> QED
      BY <2>1, <2>2
  <1>6. chain' \in [Runs -> Statuses \cup {None}]
    <2>1. MineSettle(q) \/ MineRefund(q) \/ UNCHANGED chain
      BY DEF Refund, Settle
    <2> QED
      BY <2>1, MoveTyped DEF TypeInv, WorldTyped, ChainTypeOK
  <1>7. WorldTyped'
    BY <1>3, <1>6, WorldKept DEF TypeInv, WorldTyped, ControlTypeOK, controlVars
  <1>8. DocMoves(q) /\ ListMoves(q)
    <2>1. UNCHANGED doc \/ Persist(q, "EXPIRED")
      BY DEF Refund, Settle
    <2>2. "EXPIRED" \in Read
      BY DEF Read, Statuses
    <2> QED
      BY <1>3, <1>4, <2>1, <2>2, PersistMoves DEF DocMoves, ListMoves
  <1>9. UNCHANGED seen \/ \E x \in Read : seen' = [seen EXCEPT ![q] = x]
    BY DEF Refund, Settle, Read, Statuses
  <1> QED
    BY <1>1, <1>2, <1>3, <1>4, <1>5, <1>7, <1>8, <1>9, GoesOnTyped

(* Where a settlement loop goes on it has an attempt left.                    *)
LEMMA ConfirmTyped ==
    ASSUME TypeInv, OperatorInv, NEW q \in Runs, UNCHANGED controlVars,
           Confirm(q) \/ Retry(q)
    PROVE  TypeInv'
  <1>0. tries[q] \in Nat /\ MaxTries(q) \in Nat /\ MaxTries(q) <= Attempts
    BY AttemptsAssumption DEF MaxTries, TypeInv, ScriptTyped
  <1>1. PICK l \in {"retry", "r_retry", "settle", "count", "r_settle", "r_load", "dead"} :
            Goto(q, l) /\ (l \in Settling => tries[q] < MaxTries(q))
    BY DEF Confirm, Retry, Again, Settling
  <1>2. l \in Points /\ l \notin Untried
    BY DEF Points, Ended, Untried
  <1>7. l \in Settling => tries[q] < Attempts
    BY <1>0, <1>1, AttemptsAssumption
  <1>3. UNCHANGED env /\ UNCHANGED <<step, committed, rec, valid, tries, prior, snap, report, book>>
    BY DEF Confirm, Retry, buyVars, bookVars
  <1>4. pc[q] \in Keeps /\ doc[q] \in JobRecords
    BY KeepsDoc DEF Confirm, Retry, Keeps, Late, Rereading, ControlPoints
  <1>5. DocMoves(q) /\ ListMoves(q) /\ WorldTyped'
    <2>1. UNCHANGED doc \/ Persist(q, chain[q])
      BY DEF Confirm, Retry
    <2> QED
      BY <1>3, <1>4, <2>1, PersistMoves, ChainRead, WorldSame DEF DocMoves, ListMoves, TypeInv
  <1>6. UNCHANGED seen \/ \E x \in Read : seen' = [seen EXCEPT ![q] = x]
    BY ChainRead DEF Confirm, Retry
  <1> QED
    BY <1>1, <1>2, <1>3, <1>4, <1>5, <1>6, <1>7, GoesOnTyped

LEMMA VerifiedBoolean == \A b : Verified(b) \in BOOLEAN
  BY DEF Verified

LEMMA BooksTyped ==
    ASSUME TypeInv, NEW q \in Runs, UNCHANGED controlVars,
           CountRuns(q) \/ LoadRuns(q) \/ SaveRun(q) \/ Report(q) \/ ReconcileSave(q)
    PROVE  TypeInv'
  <1>1. PICK l \in {"load", "save", "report", "done"} : Goto(q, l) /\ (l = "done" <=> Report(q))
    BY DEF CountRuns, LoadRuns, SaveRun, Report, ReconcileSave
  <1>2. l \in Points /\ l \notin Untried \cup Settling
    BY DEF Points, Ended, Untried, Settling
  <1>3. UNCHANGED env /\ UNCHANGED <<step, committed, rec, doc, seen, valid, tries>>
    BY DEF CountRuns, LoadRuns, SaveRun, Report, ReconcileSave, buyVars, lookVars
  <1>4. pc[q] \in Keeps
    BY DEF CountRuns, LoadRuns, SaveRun, Report, ReconcileSave, Keeps, Late, Rereading, ControlPoints
  <1>5. /\ DocMoves(q) /\ WorldTyped'
        /\ UNCHANGED prior \/ \E b \in BOOLEAN : prior' = [prior EXCEPT ![q] = b]
        /\ UNCHANGED report \/ report' = [report EXCEPT ![q] = TRUE]
    BY <1>3, WorldSame, VerifiedBoolean
    DEF CountRuns, LoadRuns, SaveRun, Report, ReconcileSave, DocMoves, TypeInv
  <1>6. ListMoves(q)
    BY <1>4 DEF CountRuns, LoadRuns, SaveRun, Report, ReconcileSave, ListMoves
  <1> QED
    BY <1>1, <1>2, <1>3, <1>4, <1>5, <1>6, GoesOnTyped

(* A run in the list has its document, so that a reconciliation finds it.      *)
LEMMA ReconcileTyped ==
    ASSUME TypeInv, NEW q \in Runs, UNCHANGED controlVars, Reconcile(q)
    PROVE  TypeInv'
  <1>1. /\ Goto(q, "r_read") /\ "r_read" \in Points /\ "r_read" \notin Settling
    BY DEF Reconcile, Points, Settling
  <1>2. UNCHANGED env /\ UNCHANGED <<step, committed, rec, doc, seen, valid, prior, report, book>>
    BY DEF Reconcile, buyVars
  <1>3. doc'[q] \in JobRecords
    BY <1>2 DEF Reconcile, TypeInv, Listed
  <1>4. tries' = [tries EXCEPT ![q] = 0] /\ tries'[q] = 0 /\ 0 \in 0..Attempts
    BY AttemptsAssumption DEF Reconcile, TypeInv, ScriptTyped
  <1>5. DocMoves(q) /\ ListMoves(q) /\ WorldTyped'
    BY <1>2, WorldSame DEF Reconcile, DocMoves, ListMoves, TypeInv
  <1> QED
    BY <1>1, <1>2, <1>3, <1>4, <1>5, GoesOnTyped

LEMMA RereadTyped ==
    ASSUME TypeInv, OperatorInv, NEW q \in Runs, UNCHANGED controlVars,
           ReconcileRead(q) \/ ReconcileFetch(q) \/ ReconcileDoc(q)
    PROVE  TypeInv'
  <1>1. PICK l \in {"r_fetch", "r_settle", "r_load", "r_save", "dead"} :
            Goto(q, l) /\ (l \in {"r_fetch", "r_settle"} => pc[q] \in {"r_read", "r_fetch"})
    BY DEF ReconcileRead, ReconcileFetch, ReconcileDoc
  <1>2. l \in Points
    BY DEF Points, Ended
  <1>3. UNCHANGED env /\ UNCHANGED <<step, committed, rec, tries, prior, snap, report, book>>
    BY DEF ReconcileRead, ReconcileFetch, ReconcileDoc, buyVars, lookVars, bookVars
  <1>4. pc[q] \in Keeps /\ doc[q] \in JobRecords
    BY KeepsDoc DEF ReconcileRead, ReconcileFetch, ReconcileDoc, Keeps, Late, Rereading, ControlPoints
  <1>5. l \in Untried \cup Settling => tries[q] = 0 /\ 0 < Attempts
    BY <1>1, AttemptsAssumption DEF TypeInv, Ready, Untried, Settling
  <1>6. DocMoves(q) /\ ListMoves(q) /\ WorldTyped'
    <2>1. UNCHANGED doc \/ \E x \in Read : Persist(q, x)
      BY ChainRead DEF ReconcileRead, ReconcileFetch, ReconcileDoc
    <2> QED
      BY <1>3, <1>4, <2>1, PersistMoves, WorldSame DEF DocMoves, ListMoves, TypeInv
  <1>7. /\ UNCHANGED seen \/ \E x \in Read : seen' = [seen EXCEPT ![q] = x]
        /\ UNCHANGED valid \/ \E v \in BOOLEAN : valid' = [valid EXCEPT ![q] = v]
    BY ChainRead, ValidatedBoolean DEF ReconcileRead, ReconcileFetch, ReconcileDoc, lookVars
  <1> QED
    BY <1>1, <1>2, <1>3, <1>4, <1>5, <1>6, <1>7, GoesOnTyped

LEMMA KillTyped ==
    ASSUME TypeInv, NEW q \in Runs, Kill(q)
    PROVE  TypeInv'
  <1>1. Goto(q, "dead") /\ "dead" \in Points /\ "dead" \notin Untried \cup Settling \cup Keeps
    BY DEF Kill, Die, Points, Ended, Untried, Settling, Keeps, Late, Rereading, ControlPoints
  <1>2. /\ UNCHANGED <<kind, chain, content, window, ripe>> /\ UNCHANGED sellerVars /\ UNCHANGED known
        /\ UNCHANGED <<step, committed, rec, doc, seen, valid, tries, prior, report, book>>
    BY DEF Kill, Die, env, chainVars, buyVars, lookVars
  <1>3. cb' \in [Runs -> {"off", "idle", "detect", "work", "submit", "result", "error", "over"}]
    BY DEF Kill, TypeInv, WorldTyped, ControlTypeOK
  <1>4. WorldTyped'
    BY <1>2, <1>3, WorldKept DEF TypeInv, WorldTyped, ChainTypeOK
  <1>5. DocMoves(q) /\ ListMoves(q)
    BY <1>2 DEF Kill, Die, DocMoves, ListMoves
  <1> QED
    BY <1>1, <1>2, <1>4, <1>5, GoesOnTyped

LEMMA AgentTyped ==
    ASSUME TypeInv, OperatorInv, NEW q \in Runs, Agent(q), pc[q] = "commit" => kind[q] \in Agents
    PROVE  TypeInv'
  <1>1. UNCHANGED controlVars /\ Script(q)
    BY DEF Agent
  <1>2. CASE Commit(q)
    BY <1>1, <1>2, CommitTyped DEF Commit
  <1>3. CASE ~ Commit(q)
    BY <1>1, <1>3, PreflightTyped, SendTyped, NoteTyped, FailTyped, ObserveTyped, SettleTyped,
       ConfirmTyped, BooksTyped, RereadTyped DEF Script
  <1> QED
    BY <1>2, <1>3

(* A step of the control that may write its record.                           *)
LEMMA WritesTyped ==
    ASSUME TypeInv, NEW q \in Runs, NEW l \in Points, Goto(q, l), WorldTyped',
           DocMoves(q), UNCHANGED <<seen, valid, tries, prior, snap, report, book>>,
           rec' \in [Runs -> JobRecords], step' \in [Runs -> 1..4],
           committed' \in [Runs -> SUBSET AllTerms],
           l \notin Untried \cup Settling,
           l \in Keeps => pc[q] \in Keeps \/ doc'[q] \in JobRecords
    PROVE  TypeInv'
  <1>1. /\ pc' \in [Runs -> Points] /\ pc'[q] = l
        /\ \A s \in Runs \ {q} : pc'[s] = pc[s]
    BY GotoTyped
  <1>2. /\ doc' \in [Runs -> JobRecords \cup {None}]
        /\ doc[q] \in JobRecords => doc'[q] \in JobRecords
    BY DEF DocMoves, TypeInv, ScriptTyped
  <1>3. ScriptTyped'
    BY <1>1, <1>2 DEF TypeInv, ScriptTyped
  <1>4. Ready(q)' /\ OthersRest(q) /\ ListMoves(q)
    BY <1>1, <1>2 DEF TypeInv, Ready, OthersRest, ListMoves
  <1> QED
    BY <1>3, <1>4, TypeStep

LEMMA ControlTermsIn == ControlTerms \in SUBSET AllTerms
  BY DEF AllTerms

LEMMA ControlBegins ==
    ASSUME TypeInv, NEW q \in Runs, ControlStart(q) \/ ControlCommit(q)
    PROVE  TypeInv'
  <1>1. PICK l \in {"stopped", "c_commit", "c_send"} : Goto(q, l) /\ (l = "c_send" => ControlCommit(q))
    BY DEF ControlStart, ControlCommit
  <1>2. l \in Points /\ l \notin Untried \cup Settling /\ (l \in Keeps => l = "c_send")
    BY DEF Points, Ended, Untried, Settling, Keeps, Late, Rereading, ControlPoints
  <1>3. /\ UNCHANGED env /\ UNCHANGED controlVars
        /\ UNCHANGED <<step, rec, seen, valid, tries, prior, snap, report, book>>
    BY DEF ControlStart, ControlCommit, buyVars, lookVars, bookVars
  <1>4. DocMoves(q) /\ WorldTyped' /\ (l = "c_send" => doc'[q] \in JobRecords)
    BY <1>1, <1>3, WorldSame, FreshOK DEF ControlStart, ControlCommit, DocMoves, TypeInv, ScriptTyped
  <1>5. committed' \in [Runs -> SUBSET AllTerms]
    BY ControlTermsIn DEF ControlStart, ControlCommit, buyVars, TypeInv, ScriptTyped
  <1>6. rec' \in [Runs -> JobRecords] /\ step' \in [Runs -> 1..4]
    BY <1>3 DEF TypeInv, ScriptTyped
  <1> QED
    BY <1>1, <1>2, <1>3, <1>4, <1>5, <1>6, WritesTyped

LEMMA Kept ==
    ASSUME TypeInv, UNCHANGED <<step, committed, rec>>
    PROVE  /\ rec' \in [Runs -> JobRecords] /\ step' \in [Runs -> 1..4]
           /\ committed' \in [Runs -> SUBSET AllTerms]
  BY DEF TypeInv, ScriptTyped

LEMMA ControlSendTyped ==
    ASSUME TypeInv, NEW q \in Runs, ControlSend(q)
    PROVE  TypeInv'
  <1>1. PICK l \in {"c_note", "c_error"} : Goto(q, l)
    BY DEF ControlSend
  <1>2. l \in Points /\ l \notin Untried \cup Settling /\ pc[q] \in Keeps
    BY DEF ControlSend, Points, Untried, Settling, Keeps, ControlPoints
  <1>3. /\ UNCHANGED <<kind, content, window, ripe>> /\ UNCHANGED sellerVars /\ UNCHANGED controlVars
        /\ UNCHANGED <<step, committed, seen, valid, tries, prior, snap, report, book>>
    BY DEF ControlSend, lookVars, bookVars
  <1>4. WorldTyped'
    <2>1. Mine(q, Steps[step[q]]) \/ UNCHANGED chain
      BY DEF ControlSend
    <2>2. chain' \in [Runs -> Statuses \cup {None}]
      BY <2>1, MineTyped DEF TypeInv, WorldTyped, ChainTypeOK
    <2> QED
      BY <1>3, <2>2, WorldKept DEF TypeInv, WorldTyped, ControlTypeOK, controlVars
  <1>5. /\ rec' \in [Runs -> JobRecords]
        /\ doc' = [doc EXCEPT ![q] = rec'[q]] \/ UNCHANGED doc
    <2>1. rec[q] \in JobRecords /\ rec \in [Runs -> JobRecords]
      BY DEF TypeInv, ScriptTyped
    <2>2. \/ rec' = rec
          \/ rec' = [rec EXCEPT ![q] = [rec[q] EXCEPT !.job = TRUE]]
          \/ rec' = [rec EXCEPT ![q] = [rec[q] EXCEPT !.funded = TRUE, !.state = "funded"]]
      BY <2>1 DEF ControlSend
    <2>3. doc' = [doc EXCEPT ![q] = rec'[q]] \/ UNCHANGED doc
      BY DEF ControlSend
    <2> QED
      BY <2>1, <2>2, <2>3, RecordMade
  <1>6. DocMoves(q)
    BY <1>5 DEF DocMoves
  <1>7. /\ step' \in [Runs -> 1..4]
        /\ committed' \in [Runs -> SUBSET AllTerms]
    BY <1>3 DEF TypeInv, ScriptTyped
  <1> QED
    BY <1>1, <1>2, <1>3, <1>4, <1>5, <1>6, <1>7, WritesTyped

LEMMA SaveWriteTyped ==
    ASSUME TypeInv, OperatorInv, NEW q \in Runs, SaveWrite(q)
    PROVE  TypeInv'
  <1> DEFINE e == saving[q].event
             d == [hold[q] EXCEPT !.events = @ \cup {e}, !.current = saving[q].status]
  <1>1. /\ pc[q] = "c_save" /\ Named(hold[q]) /\ saving[q].status \in Read
        /\ e \in {"create", "register", "budget", "fund", "look", "last", "deliverable"}
        /\ e \in {"create", "register", "budget"} => step[q] < 4
        /\ step[q] \in 1..4
    BY DEF SaveWrite, OperatorInv, RunOK, ControlOK, PaidOK
  <1>2. d \in JobRecords
    <2>1. e \in Events /\ saving[q].status \in Currents
      BY <1>1, Reads DEF Events
    <2>2. Named(d)
      BY <1>1, <2>1, EventSet
    <2> QED
      BY <2>2 DEF Named
  <1>3. PICK l \in {"c_send", "c_look", "c_stop", "c_fetch", "c_doc"} : Goto(q, l)
    BY <1>1 DEF SaveWrite, AfterSave
  <1>4. l \in Points /\ l \notin Untried \cup Settling /\ pc[q] \in Keeps
    BY <1>1 DEF Points, Untried, Settling, Keeps, ControlPoints
  <1>5. doc' = [doc EXCEPT ![q] = d] /\ rec' = [rec EXCEPT ![q] = d]
    BY DEF SaveWrite, TypeInv, ScriptTyped
  <1>6. /\ UNCHANGED env /\ UNCHANGED known
        /\ UNCHANGED <<committed, seen, valid, tries, prior, snap, report, book>>
    BY DEF SaveWrite, lookVars, bookVars
  <1>7. WorldTyped'
    <2>1. cb' \in [Runs -> {"off", "idle", "detect", "work", "submit", "result", "error", "over"}]
      BY DEF SaveWrite, TypeInv, WorldTyped, ControlTypeOK
    <2> QED
      BY <1>6, <2>1, WorldKept DEF TypeInv, WorldTyped, ChainTypeOK, env, chainVars
  <1>8. step' \in [Runs -> 1..4]
    <2>1. step' = step \/ (step[q] < 4 /\ step' = [step EXCEPT ![q] = @ + 1])
      BY <1>1 DEF SaveWrite
    <2>2. step \in [Runs -> 1..4]
      BY DEF TypeInv, ScriptTyped
    <2> QED
      BY <1>1, <2>1, <2>2
  <1>9. /\ rec' \in [Runs -> JobRecords] /\ DocMoves(q)
        /\ committed' \in [Runs -> SUBSET AllTerms]
    <2> HIDE DEF d
    <2> QED
      BY <1>2, <1>5, <1>6 DEF DocMoves, TypeInv, ScriptTyped
  <1> QED
    BY <1>3, <1>4, <1>6, <1>7, <1>8, <1>9, WritesTyped

LEMMA ControlLooksTyped ==
    ASSUME TypeInv, OperatorInv, NEW q \in Runs,
           ControlNote(q) \/ SaveLoad(q) \/ ControlLook(q) \/ ControlLookEnds(q) \/ ControlLast(q)
           \/ ControlFetch(q)
    PROVE  TypeInv'
  <1>1. PICK l \in {"c_load", "c_error", "c_save", "c_stop", "c_fetch", "c_doc"} : Goto(q, l)
    BY DEF ControlNote, SaveLoad, ControlLook, ControlLookEnds, ControlLast, ControlFetch
  <1>2. l \in Points /\ l \notin Untried \cup Settling
    BY DEF Points, Untried, Settling
  <1>3. pc[q] \in Keeps
    BY DEF ControlNote, SaveLoad, ControlLook, ControlLookEnds, ControlLast, ControlFetch, Keeps, ControlPoints
  <1>4. UNCHANGED env /\ UNCHANGED <<step, committed, rec, doc, tries, prior, snap, report, book>>
    BY DEF ControlNote, SaveLoad, ControlLook, ControlLookEnds, ControlLast, ControlFetch, buyVars,
           lookVars, bookVars
  <1>5. UNCHANGED cb /\ known' \in [Runs -> BOOLEAN]
    <2>1. UNCHANGED cb
      BY DEF ControlNote, SaveLoad, ControlLook, ControlLookEnds, ControlLast, ControlFetch, controlVars
    <2>2. UNCHANGED known \/ \E b \in BOOLEAN : known' = [known EXCEPT ![q] = b]
      <3>1. ("result" \in rec[q].events) \in BOOLEAN
        OBVIOUS
      <3> QED
        BY <3>1 DEF ControlNote, SaveLoad, ControlLook, ControlLookEnds, ControlLast, ControlFetch, controlVars
    <2> QED
      BY <2>1, <2>2 DEF TypeInv, WorldTyped, ControlTypeOK
  <1>6. WorldTyped'
    BY <1>4, <1>5 DEF TypeInv, WorldTyped, ChainTypeOK, SellerTypeOK, ControlTypeOK, env, chainVars, sellerVars
  <1>7. UNCHANGED seen \/ \E x \in Read : seen' = [seen EXCEPT ![q] = x]
    BY ChainRead DEF ControlNote, SaveLoad, ControlLook, ControlLookEnds, ControlLast, ControlFetch, lookVars
  <1>8. UNCHANGED valid \/ \E v \in BOOLEAN : valid' = [valid EXCEPT ![q] = v]
    <2>1. \A k, g : g \in BOOLEAN => (k /\ Validated(q, g)) \in BOOLEAN
      OBVIOUS
    <2> QED
      BY <2>1 DEF ControlNote, SaveLoad, ControlLook, ControlLookEnds, ControlLast, ControlFetch, lookVars
  <1>9. DocMoves(q) /\ ListMoves(q)
    BY <1>4 DEF DocMoves, ListMoves
  <1> QED
    BY <1>1, <1>2, <1>3, <1>4, <1>6, <1>7, <1>8, <1>9, GoesOnTyped

LEMMA ControlDocTyped ==
    ASSUME TypeInv, OperatorInv, NEW q \in Runs, ControlStop(q) \/ ControlDoc(q) \/ ControlKeep(q)
    PROVE  TypeInv'
  <1>1. PICK l \in {"c_last", "c_keep", "c_runs"} : Goto(q, l)
    BY DEF ControlStop, ControlDoc, ControlKeep
  <1>2. l \in Points /\ l \notin Untried \cup Settling
    BY DEF Points, Untried, Settling
  <1>3. pc[q] \in Keeps /\ doc[q] \in JobRecords
    BY KeepsDoc DEF ControlStop, ControlDoc, ControlKeep, Keeps, ControlPoints
  <1>4. /\ UNCHANGED env /\ UNCHANGED known
        /\ UNCHANGED <<step, committed, seen, valid, tries, prior, snap, report, book>>
    BY DEF ControlStop, ControlDoc, ControlKeep, buyVars, lookVars, bookVars, controlVars
  <1>5. WorldTyped'
    <2>1. cb' \in [Runs -> {"off", "idle", "detect", "work", "submit", "result", "error", "over"}]
      BY DEF ControlStop, ControlDoc, ControlKeep, controlVars, TypeInv, WorldTyped, ControlTypeOK
    <2> QED
      BY <1>4, <2>1, WorldKept DEF TypeInv, WorldTyped, ChainTypeOK, env, chainVars
  <1>6. DocMoves(q)
    BY StepsTyped DEF ControlStop, ControlDoc, ControlKeep, DocMoves
  <1>7. rec' \in [Runs -> JobRecords]
    <2>1. [doc[q] EXCEPT !.current = seen[q], !.funded = TRUE] \in JobRecords
      BY <1>3, ChainRead, Reads DEF JobRecords
    <2>2. \/ rec' = rec \/ rec' = [rec EXCEPT ![q] = doc[q]]
          \/ rec' = [rec EXCEPT ![q] = [doc[q] EXCEPT !.current = seen[q], !.funded = TRUE]]
      BY DEF ControlStop, ControlDoc, ControlKeep, buyVars
    <2> QED
      BY <1>3, <2>1, <2>2 DEF TypeInv, ScriptTyped
  <1>8. /\ step' \in [Runs -> 1..4]
        /\ committed' \in [Runs -> SUBSET AllTerms]
    BY <1>4 DEF TypeInv, ScriptTyped
  <1> QED
    BY <1>1, <1>2, <1>3, <1>4, <1>5, <1>6, <1>7, <1>8, WritesTyped

LEMMA ControlErrorTyped ==
    ASSUME TypeInv, NEW q \in Runs, ControlError(q)
    PROVE  TypeInv'
  <1> DEFINE x == IF doc[q].current = None THEN "ERROR" ELSE doc[q].current
             d == [doc[q] EXCEPT !.events = @ \cup {"control_error"}, !.current = x]
  <1>1. /\ Goto(q, "stopped") /\ "stopped" \in Points
        /\ "stopped" \notin Untried \cup Settling \cup Keeps
    BY DEF ControlError, Points, Ended, Untried, Settling, Keeps, Late, Rereading, ControlPoints
  <1>2. doc[q] \in JobRecords
    BY KeepsDoc DEF ControlError, Keeps, ControlPoints
  <1>3. d \in JobRecords
    <2>1. "control_error" \in Events
      BY DEF Events
    <2>2. x \in Currents
      BY <1>2 DEF JobRecords, Currents
    <2> HIDE DEF x
    <2> QED
      BY <1>2, <2>1, <2>2 DEF JobRecords
  <1>4. doc' = [doc EXCEPT ![q] = d] /\ rec' = [rec EXCEPT ![q] = d]
    BY DEF ControlError, TypeInv, ScriptTyped
  <1>5. /\ UNCHANGED env /\ UNCHANGED known
        /\ UNCHANGED <<step, committed, seen, valid, tries, prior, snap, report, book>>
    BY DEF ControlError, lookVars, bookVars
  <1>6. WorldTyped'
    <2>1. cb' \in [Runs -> {"off", "idle", "detect", "work", "submit", "result", "error", "over"}]
      BY DEF ControlError, TypeInv, WorldTyped, ControlTypeOK
    <2> QED
      BY <1>5, <2>1, WorldKept DEF TypeInv, WorldTyped, ChainTypeOK, env, chainVars
  <1> HIDE DEF d
  <1>7. /\ rec' \in [Runs -> JobRecords] /\ DocMoves(q) /\ step' \in [Runs -> 1..4]
        /\ committed' \in [Runs -> SUBSET AllTerms]
    BY <1>3, <1>4, <1>5 DEF DocMoves, TypeInv, ScriptTyped
  <1> QED
    BY <1>1, <1>5, <1>6, <1>7, WritesTyped

LEMMA ControlBooksTyped ==
    ASSUME TypeInv, OperatorInv, NEW q \in Runs,
           ControlRuns(q) \/ ControlSave(q) \/ ControlReread(q) \/ ControlRewrite(q)
           \/ ControlReconcile(q)
    PROVE  TypeInv'
  <1>1. PICK l \in {"c_book", "done", "rc_read", "rc_save", "dead"} : Goto(q, l)
    BY DEF ControlRuns, ControlSave, ControlReread, ControlRewrite, ControlReconcile
  <1>2. l \in Points /\ l \notin Untried \cup Settling
    BY DEF Points, Ended, Untried, Settling
  <1>3. /\ UNCHANGED env /\ UNCHANGED controlVars
        /\ UNCHANGED <<step, committed, rec, doc, tries, prior, report>>
    BY DEF ControlRuns, ControlSave, ControlReread, ControlRewrite, ControlReconcile, buyVars,
           lookVars, bookVars
  <1>4. \/ pc[q] \in Keeps
        \/ ControlReconcile(q) /\ doc[q] \in JobRecords
    BY DEF ControlRuns, ControlSave, ControlReread, ControlRewrite, ControlReconcile, Keeps,
           ControlPoints, TypeInv, Listed
  <1>5. DocMoves(q) /\ WorldTyped'
    BY <1>3, WorldSame DEF DocMoves, TypeInv
  <1>6. ListMoves(q)
    BY <1>4 DEF ControlRuns, ControlSave, ControlReread, ControlRewrite, ControlReconcile, ListMoves,
                bookVars
  <1>7. UNCHANGED seen \/ \E x \in Read : seen' = [seen EXCEPT ![q] = x]
    BY ChainRead DEF ControlRuns, ControlSave, ControlReread, ControlRewrite, ControlReconcile, lookVars
  <1>8. UNCHANGED valid \/ \E v \in BOOLEAN : valid' = [valid EXCEPT ![q] = v]
    <2>1. \A k, g : g \in BOOLEAN => (k \in Delivered /\ Validated(q, g)) \in BOOLEAN
      OBVIOUS
    <2> QED
      BY <2>1 DEF ControlRuns, ControlSave, ControlReread, ControlRewrite, ControlReconcile, lookVars
  <1> QED
    BY <1>1, <1>2, <1>3, <1>4, <1>5, <1>6, <1>7, <1>8, GoesOnTyped

LEMMA ControlTyped ==
    ASSUME TypeInv, OperatorInv, NEW q \in Runs, Control(q)
    PROVE  TypeInv'
  BY ControlBegins, ControlSendTyped, SaveWriteTyped, ControlLooksTyped, ControlDocTyped,
     ControlErrorTyped, ControlBooksTyped DEF Control

(* -------------------- the callback, the agents, the chain ----------------- *)

(* What the world does leaves the script where it is.                         *)
LEMMA WorldTypedStep ==
    ASSUME TypeInv, NEW q \in Runs, WorldTyped', DocMoves(q), rec' \in [Runs -> JobRecords],
           UNCHANGED <<pc, step, committed, seen, valid, tries, prior, snap, report, book>>
    PROVE  TypeInv'
  <1>1. /\ doc' \in [Runs -> JobRecords \cup {None}]
        /\ doc[q] \in JobRecords => doc'[q] \in JobRecords
    BY DEF DocMoves, TypeInv, ScriptTyped
  <1>2. ScriptTyped'
    BY <1>1 DEF TypeInv, ScriptTyped
  <1>3. Ready(q)' /\ OthersRest(q) /\ ListMoves(q)
    BY <1>1 DEF TypeInv, Ready, OthersRest, ListMoves
  <1> QED
    BY <1>2, <1>3, TypeStep

LEMMA CallbackSaveTyped ==
    ASSUME TypeInv, OperatorInv, NEW q \in Runs, CallbackSave(q)
    PROVE  TypeInv'
  <1> DEFINE x == IF cb[q] = "detect" THEN "FUNDED" ELSE held[q].current
             d == [held[q] EXCEPT !.events = @ \cup {cb[q]}, !.current = x]
  <1>1. Named(held[q]) /\ cb[q] \in {"detect", "work", "result", "error"}
    BY DEF CallbackSave, OperatorInv, RunOK, ControlOK
  <1>2. d \in JobRecords
    <2>1. x \in Currents /\ cb[q] \in Events
      BY <1>1 DEF Named, JobRecords, Currents, Statuses, Events
    <2>2. Named(d)
      BY <1>1, <2>1, EventSet
    <2> QED
      BY <2>2 DEF Named
  <1>3. doc' = [doc EXCEPT ![q] = d] /\ rec' = [rec EXCEPT ![q] = d]
    BY DEF CallbackSave, TypeInv, ScriptTyped
  <1>4. /\ UNCHANGED env /\ UNCHANGED known
        /\ UNCHANGED <<pc, step, committed, seen, valid, tries, prior, snap, report, book>>
    BY DEF CallbackSave, lookVars, bookVars
  <1>5. WorldTyped'
    <2>1. cb' \in [Runs -> {"off", "idle", "detect", "work", "submit", "result", "error", "over"}]
      BY DEF CallbackSave, TypeInv, WorldTyped, ControlTypeOK
    <2> QED
      BY <1>4, <2>1, WorldKept DEF TypeInv, WorldTyped, ChainTypeOK, env, chainVars
  <1> HIDE DEF d
  <1>6. rec' \in [Runs -> JobRecords] /\ DocMoves(q)
    BY <1>2, <1>3 DEF DocMoves, TypeInv, ScriptTyped
  <1> QED
    BY <1>4, <1>5, <1>6, WorldTypedStep

LEMMA DeliverTyped ==
    ASSUME ChainTypeOK, NEW q \in Runs, NEW c \in Contents, Deliver(q, c)
    PROVE  /\ chain' \in [Runs -> Statuses \cup {None}]
           /\ content' \in [Runs -> Contents \cup {None}]
  BY DEF ChainTypeOK, Deliver, Statuses

LEMMA RunsUntouched ==
    ASSUME TypeInv, NEW q \in Runs, UNCHANGED runVars, WorldTyped'
    PROVE  TypeInv'
  <1>1. /\ UNCHANGED <<pc, step, committed, seen, valid, tries, prior, snap, report, book>>
        /\ UNCHANGED <<doc, rec>>
    BY DEF runVars, buyVars, lookVars, bookVars
  <1>2. DocMoves(q) /\ rec' \in [Runs -> JobRecords]
    BY <1>1 DEF DocMoves, TypeInv, ScriptTyped
  <1> QED
    BY <1>1, <1>2, WorldTypedStep

LEMMA WatcherTyped ==
    ASSUME TypeInv, NEW q \in Runs, Detect(q) \/ CallbackLoad(q) \/ CallbackSubmit(q)
    PROVE  TypeInv'
  <1>1. UNCHANGED runVars /\ UNCHANGED <<kind, window, ripe>> /\ UNCHANGED sellerVars /\ UNCHANGED known
    BY DEF Detect, CallbackLoad, CallbackSubmit, env, chainVars
  <1>2. cb' \in [Runs -> {"off", "idle", "detect", "work", "submit", "result", "error", "over"}]
    BY DEF Detect, CallbackLoad, CallbackSubmit, TypeInv, WorldTyped, ControlTypeOK
  <1>3. /\ chain' \in [Runs -> Statuses \cup {None}]
        /\ content' \in [Runs -> Contents \cup {None}]
    <2>1. Deliver(q, "good") \/ UNCHANGED <<chain, content>>
      BY DEF Detect, CallbackLoad, CallbackSubmit, env, chainVars
    <2>2. "good" \in Contents
      BY DEF Contents
    <2> QED
      BY <2>1, <2>2, DeliverTyped DEF TypeInv, WorldTyped, ChainTypeOK
  <1>4. WorldTyped'
    BY <1>1, <1>2, <1>3 DEF TypeInv, WorldTyped, ChainTypeOK, SellerTypeOK, ControlTypeOK, sellerVars
  <1> QED
    BY <1>1, <1>4, RunsUntouched

LEMMA ChainTyped ==
    ASSUME TypeInv, NEW q \in Runs, Chain(q)
    PROVE  TypeInv'
  <1>1. UNCHANGED runVars /\ UNCHANGED controlVars /\ UNCHANGED sellerVars /\ UNCHANGED <<kind, content>>
    BY DEF Chain, Lapse, Ripen
  <1>2. chain' \in [Runs -> Statuses \cup {None}]
    <2>1. MineSettle(q) \/ MineRefund(q) \/ MineReject(q) \/ UNCHANGED chain
      BY DEF Chain, Lapse, Ripen
    <2> QED
      BY <2>1, MoveTyped DEF TypeInv, WorldTyped, ChainTypeOK
  <1>3. window' \in [Runs -> 0..3] /\ ripe' \in [Runs -> BOOLEAN]
    <2>1. window \in [Runs -> 0..3] /\ ripe \in [Runs -> BOOLEAN]
      BY DEF TypeInv, WorldTyped, ChainTypeOK
    <2>2. \/ UNCHANGED window
          \/ window[q] < 3 /\ window' = [window EXCEPT ![q] = window[q] + 1]
      BY DEF Chain, Lapse, Ripen
    <2>3. window' \in [Runs -> 0..3]
      BY <2>1, <2>2
    <2>4. ripe' \in [Runs -> BOOLEAN]
      BY <2>1 DEF Chain, Lapse, Ripen
    <2> QED
      BY <2>3, <2>4
  <1>4. WorldTyped'
    BY <1>1, <1>2, <1>3 DEF TypeInv, WorldTyped, ChainTypeOK, SellerTypeOK, ControlTypeOK, sellerVars, controlVars
  <1> QED
    BY <1>1, <1>4, RunsUntouched

LEMMA SellerTyped ==
    ASSUME TypeInv, NEW q \in Runs, Seller(q) \/ Restart(q)
    PROVE  TypeInv'
  <1>1. UNCHANGED runVars /\ UNCHANGED controlVars /\ UNCHANGED <<kind, window, ripe>>
    BY DEF Seller, Restart, Verify, StartWork, EndWork, SubmitResult, RestartAgent, chainVars
  <1>2. /\ chain' \in [Runs -> Statuses \cup {None}]
        /\ content' \in [Runs -> Contents \cup {None}]
    <2>1. (\E c \in {"good"} \cup Refused(kind[q]) : Deliver(q, c)) \/ UNCHANGED <<chain, content>>
      BY DEF Seller, Restart, Verify, StartWork, EndWork, SubmitResult, RestartAgent, chainVars
    <2>2. {"good"} \cup Refused(kind[q]) \subseteq Contents
      BY DEF TypeInv, WorldTyped, ChainTypeOK, Contents
    <2> QED
      BY <2>1, <2>2, DeliverTyped DEF TypeInv, WorldTyped, ChainTypeOK
  <1>3. SellerTypeOK'
    <2>1. SellerTypeOK
      BY DEF TypeInv, WorldTyped
    <2>2. CASE Restart(q)
      BY <2>1, <2>2 DEF Restart, RestartAgent, SellerTypeOK, WorkerStates
    <2>3. CASE Verify(q)
      BY <2>1, <2>3 DEF Verify, SellerTypeOK
    <2>4. CASE StartWork(q)
      BY <2>1, <2>4 DEF StartWork, SellerTypeOK, WorkerStates
    <2>5. CASE EndWork(q)
      BY <2>1, <2>5 DEF EndWork, SellerTypeOK, WorkerStates
    <2>6. CASE SubmitResult(q)
      BY <2>1, <2>6 DEF SubmitResult, SellerTypeOK
    <2> QED
      BY <2>2, <2>3, <2>4, <2>5, <2>6 DEF Seller
  <1>4. WorldTyped'
    BY <1>1, <1>2, <1>3 DEF TypeInv, WorldTyped, ChainTypeOK, ControlTypeOK, controlVars
  <1> QED
    BY <1>1, <1>4, RunsUntouched

LEMMA TypeNextOK == OperatorInv /\ EarnedInv /\ TypeInv /\ [Next]_vars => TypeInv'
  <1> SUFFICES ASSUME OperatorInv, EarnedInv, TypeInv, [Next]_vars PROVE TypeInv'
    OBVIOUS
  <1>1. CASE UNCHANGED vars
    <2> USE <1>1 DEF vars, runVars, buyVars, lookVars, bookVars, controlVars, env, chainVars, sellerVars
    <2>1. WorldTyped'
      BY DEF TypeInv, WorldTyped, ChainTypeOK, SellerTypeOK, ControlTypeOK
    <2>2. ScriptTyped' /\ Tabled'
      BY DEF TypeInv, ScriptTyped, Tabled
    <2>3. \A r \in Runs : Ready(r)' /\ Listed(r)'
      BY DEF TypeInv, Ready, Listed
    <2> QED
      BY <2>1, <2>2, <2>3 DEF TypeInv
  <1>2. ASSUME NEW r \in Runs, Agent(r) PROVE TypeInv'
    <2>1. pc[r] = "commit" => kind[r] \in Agents
      BY DEF EarnedInv, KindOK, ControlPoints, Ended, Agents
    <2> QED
      BY <1>2, <2>1, AgentTyped
  <1>3. ASSUME NEW r \in Runs, Control(r) \/ Detect(r) \/ Callback(r) PROVE TypeInv'
    BY <1>3, ControlTyped, WatcherTyped, CallbackSaveTyped DEF Callback
  <1>4. ASSUME NEW r \in Runs, Reconciling(r) \/ Kill(r) PROVE TypeInv'
    BY <1>4, ReconcileTyped, ControlBooksTyped, KillTyped DEF Reconciling
  <1>5. ASSUME NEW r \in Runs, Seller(r) \/ Chain(r) \/ Restart(r) PROVE TypeInv'
    BY <1>5, SellerTyped, ChainTyped
  <1> QED
    BY <1>1, <1>2, <1>3, <1>4, <1>5 DEF Next

LEMMA TypesFollow == EarnedInv /\ TypeInv => TypeOK
  <1> SUFFICES ASSUME EarnedInv, TypeInv PROVE TypeOK
    OBVIOUS
  <1>1. ChainTypeOK /\ SellerTypeOK /\ ControlTypeOK /\ pc \in [Runs -> Points]
    BY DEF TypeInv, WorldTyped, ScriptTyped
  <1>2. book \in [Runs -> Entries \cup {None}]
    BY DEF EarnedInv, TypeInv, Tabled, ListOK, EntryOK
  <1>3. Len(Steps) = 4
    BY DEF Steps
  <1>4. RunTypeOK
    BY <1>2, <1>3 DEF TypeInv, ScriptTyped, AllTerms, RunTypeOK
  <1> QED
    BY <1>1, <1>4 DEF TypeOK

(* Every variable of the operator's runs has its type, whatever is killed,      *)
(* restarted, reconciled or written over; above all, no script tries to settle  *)
(* more often than it says it does, and none appends to a document that is not  *)
(* there (createFundedJob, the loops of the hire scripts and of their           *)
(* reconciliation).                                                          *)
THEOREM TypeCorrect == Spec => []TypeOK
  <1>1. Spec => []TypeInv
    BY EarnedAlways, TypeInitOK, TypeNextOK, PTL DEF Spec
  <1> QED
    BY <1>1, EarnedAlways, TypesFollow, PTL

=============================================================================
