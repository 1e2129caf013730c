---------------------------- MODULE BaselineProofs ----------------------------
(***************************************************************************)
(* Theorems about Baseline, for every number of workers, answers and runs.   *)
(* The invariant says what each handler may still hold in memory: an answer   *)
(* read from the document long ago must not reach a run or a grade unless it  *)
(* is the sealed one.                                                        *)
(***************************************************************************)
EXTENDS Baseline, TLAPS

(* The labels at which a worker holds a submitted attempt.                   *)
Holding == {"submitting", "sealing", "hireCheck", "hireCommit", "gradeCheck", "grade"}

ForRun == {"hireCheck", "hireCommit", "hireWait", "gradeCheck", "grade"}

JobOK(w) ==
    /\ job[w].pc \in {"starting", "body"} => job[w].copy = Started
    /\ job[w].pc \in Holding => job[w].copy \in Submitted
    /\ job[w].pc \in ForRun => job[w].run \in Runs

(* With a manifest: what a run committed to and was graded against is what   *)
(* is sealed, and a worker past the hash check holds it.                     *)
HeldOK(w) ==
    /\ job[w].pc \in {"hireCommit", "grade"} => manifest = job[w].copy.answer
    /\ job[w].pc = "hireWait" => committed[job[w].run] # None

TrialOK ==
    /\ \A w \in Workers : HeldOK(w)
    /\ \A r \in Runs : committed[r] # None => committed[r] = manifest
    /\ \A r \in recorded : committed[r] # None
    /\ \A r \in Runs : graded[r] # None => graded[r] = committed[r]

IInv ==
    /\ TypeOK
    /\ \A w \in Workers : JobOK(w)
    /\ SealedApart => TrialOK

LEMMA InitOK == Init => IInv
  <1> SUFFICES ASSUME Init PROVE IInv
    OBVIOUS
  <1>1. TypeOK
    BY DEF Init, TypeOK, Job, IdleJob, Labels
  <1>2. \A w \in Workers : JobOK(w) /\ HeldOK(w)
    BY DEF Init, JobOK, HeldOK, IdleJob, Holding, ForRun
  <1>3. TrialOK
    BY <1>2 DEF Init, TrialOK
  <1> QED
    BY <1>1, <1>2, <1>3 DEF IInv

(* What a step of worker w shows about the jobs of all workers: the others    *)
(* keep theirs, so their part of the invariant holds.                        *)
LEMMA OtherJobs ==
    ASSUME NEW w \in Workers, IInv, NEW j \in Job,
           job' = [job EXCEPT ![w] = j],
           JobOK(w)'
    PROVE  \A v \in Workers : JobOK(v)'
  <1> SUFFICES ASSUME NEW v \in Workers, v # w PROVE JobOK(v)'
    OBVIOUS
  <1>1. job'[v] = job[v]
    BY DEF IInv, TypeOK
  <1>2. JobOK(v)
    BY DEF IInv
  <1> QED
    BY <1>1, <1>2 DEF JobOK

(* An early end, or the reply, leaves a worker idle.                         *)
LEMMA Idle ==
    ASSUME NEW w \in Workers, IInv, Finish(w)
    PROVE  /\ job' \in [Workers -> Job]
           /\ job'[w] = IdleJob
           /\ \A v \in Workers : JobOK(v)'
  <1>1. IdleJob \in Job /\ job'[w] = IdleJob /\ job' = [job EXCEPT ![w] = IdleJob]
    BY DEF IInv, TypeOK, Finish, IdleJob, Job, Labels
  <1>2. JobOK(w)'
    BY <1>1 DEF JobOK, IdleJob, Holding, ForRun
  <1>3. job' \in [Workers -> Job]
    BY <1>1 DEF IInv, TypeOK
  <1> QED
    BY <1>1, <1>2, <1>3, OtherJobs

(* A handler that has read the document.                                     *)
LEMMA Entered ==
    ASSUME NEW w \in Workers, IInv, NEW l \in Labels, NEW copy \in Attempt \cup {None},
           NEW r \in Runs \cup {None}, Enter(w, l, copy, r),
           l \in {"starting", "body"} => copy = Started,
           l \in Holding => copy \in Submitted,
           l \in ForRun => r \in Runs,
           l \notin {"hireCommit", "grade", "hireWait"}
    PROVE  IInv'
  <1> DEFINE j == [pc |-> l, copy |-> copy, run |-> r]
  <1>1. j \in Job /\ job' = [job EXCEPT ![w] = j] /\ job'[w] = j
    BY DEF Enter, IInv, TypeOK, Job
  <1>2. UNCHANGED <<documents, history>>
    BY DEF Enter
  <1>3. JobOK(w)'
    BY <1>1, <1>2 DEF JobOK, history
  <1>4. \A v \in Workers : JobOK(v)'
    BY <1>1, <1>2, <1>3, OtherJobs DEF history
  <1>5. TypeOK'
    BY <1>1, <1>2 DEF IInv, TypeOK, documents, history
  <1>6. SealedApart => TrialOK'
    <2> SUFFICES ASSUME SealedApart PROVE TrialOK'
      OBVIOUS
    <2>1. \A v \in Workers : HeldOK(v)'
      <3> SUFFICES ASSUME NEW v \in Workers PROVE HeldOK(v)'
        OBVIOUS
      <3>1. HeldOK(v)
        BY DEF IInv, TrialOK
      <3>2. v # w => job'[v] = job[v]
        BY <1>1 DEF IInv, TypeOK
      <3> QED
        BY <1>1, <1>2, <3>1, <3>2 DEF HeldOK, documents
    <2> QED
      BY <1>2, <2>1 DEF IInv, TrialOK, documents
  <1> QED
    BY <1>4, <1>5, <1>6 DEF IInv

(* A worker that moves on in memory, or ends, without a write.               *)
LEMMA Moved ==
    ASSUME NEW w \in Workers, IInv, NEW j \in Job,
           job' = [job EXCEPT ![w] = j],
           UNCHANGED <<documents, history>>,
           JobOK(w)', SealedApart => HeldOK(w)'
    PROVE  IInv'
  <1>1. \A v \in Workers : JobOK(v)'
    BY OtherJobs DEF history
  <1>2. TypeOK'
    BY DEF IInv, TypeOK, documents, history
  <1>3. SealedApart => TrialOK'
    <2> SUFFICES ASSUME SealedApart PROVE TrialOK'
      OBVIOUS
    <2>1. ASSUME NEW v \in Workers, v # w PROVE HeldOK(v)'
      <3>1. HeldOK(v) /\ job'[v] = job[v]
        BY <2>1 DEF IInv, TrialOK, TypeOK
      <3> QED
        BY <3>1 DEF HeldOK, documents
    <2> QED
      BY <2>1 DEF IInv, TrialOK, documents
  <1> QED
    BY <1>1, <1>2, <1>3 DEF IInv

(* ------------------------- one lemma per action -------------------------- *)

LEMMA StartSaveOK ==
    ASSUME NEW w \in Workers, IInv, StartSave(w) PROVE IInv'
  <1>1. doc' = Started
    BY DEF StartSave, At, IInv, JobOK
  <1>2. UNCHANGED <<manifest, committed, recorded, graded, exposed, blind>>
    BY DEF StartSave
  <1>3. /\ job' \in [Workers -> Job] /\ job'[w] = IdleJob
        /\ \A v \in Workers : JobOK(v)'
    BY <1>2, Idle DEF StartSave
  <1>4. TypeOK'
    <2>1. replaced' \in BOOLEAN
      BY DEF StartSave, HasSubmitted, IInv, TypeOK
    <2> QED
      BY <1>1, <1>2, <1>3, <2>1 DEF IInv, TypeOK, Attempt
  <1>5. SealedApart => TrialOK'
    <2>1. ASSUME NEW v \in Workers, SealedApart PROVE HeldOK(v)'
      BY <1>2, <1>3, <2>1 DEF StartSave, Finish, IInv, TypeOK, TrialOK, HeldOK, IdleJob
    <2> QED
      BY <1>2, <2>1 DEF IInv, TrialOK
  <1> QED
    BY <1>3, <1>4, <1>5 DEF IInv

(* A submission completes a started attempt.                                 *)
LEMMA CompletedOK ==
    ASSUME NEW a \in Answers PROVE Completed(Started, a) \in Submitted
  <1>1. Started \in [status : {"started"}, answer : {None}]
    BY DEF Started
  <1> QED
    BY <1>1 DEF Completed, Submitted

LEMMA SubmitBodyOK ==
    ASSUME NEW w \in Workers, IInv, SubmitBody(w) PROVE IInv'
  <1> PICK a \in Answers :
        job' = [job EXCEPT ![w].pc = "submitting", ![w].copy = Completed(@, a)]
    BY DEF SubmitBody
  <1> DEFINE j == [job[w] EXCEPT !.pc = "submitting", !.copy = Completed(job[w].copy, a)]
  <1>1. Completed(job[w].copy, a) \in Submitted
    BY CompletedOK DEF SubmitBody, At, IInv, JobOK
  <1>2. j \in Job /\ job' = [job EXCEPT ![w] = j] /\ job'[w] = j
    BY <1>1 DEF IInv, TypeOK, Job, Labels, Attempt
  <1>3. j.pc = "submitting" /\ j.copy \in Submitted
    BY <1>1, <1>2 DEF IInv, TypeOK, Job
  <1>4. JobOK(w)' /\ HeldOK(w)'
    BY <1>2, <1>3 DEF JobOK, HeldOK, Holding, ForRun
  <1> QED
    BY <1>2, <1>4, Moved DEF SubmitBody

LEMMA SubmitSaveOK ==
    ASSUME NEW w \in Workers, IInv, SubmitSave(w) PROVE IInv'
  <1>1. job[w].copy \in Submitted /\ doc' = job[w].copy
    BY DEF SubmitSave, At, IInv, JobOK, Holding
  <1>2. blind' \subseteq Answers
    BY <1>1 DEF SubmitSave, Submitted, IInv, TypeOK
  <1>3. UNCHANGED <<manifest, committed, recorded, graded, exposed>>
    BY DEF SubmitSave
  <1>4. /\ job' \in [Workers -> Job] /\ job'[w] = IdleJob
        /\ \A v \in Workers : JobOK(v)'
    BY <1>2, Idle DEF SubmitSave
  <1>5. TypeOK'
    <2>1. replaced' \in BOOLEAN
      BY DEF SubmitSave, HasSubmitted, IInv, TypeOK
    <2> QED
      BY <1>1, <1>2, <1>3, <1>4, <2>1 DEF IInv, TypeOK, Attempt
  <1>6. SealedApart => TrialOK'
    <2>1. ASSUME NEW v \in Workers, SealedApart PROVE HeldOK(v)'
      BY <1>3, <1>4, <2>1 DEF SubmitSave, Finish, IInv, TypeOK, TrialOK, HeldOK, IdleJob
    <2> QED
      BY <1>3, <2>1 DEF IInv, TrialOK
  <1> QED
    BY <1>4, <1>5, <1>6 DEF IInv

LEMMA TaskReplyOK ==
    ASSUME NEW w \in Workers, IInv, TaskReply(w) PROVE IInv'
  <1>1. exposed' = TRUE /\ blind' = blind /\ replaced' = replaced
    BY DEF TaskReply
  <1>2. UNCHANGED <<doc, manifest, committed, recorded, graded>>
    BY DEF TaskReply, documents
  <1>3. /\ job' \in [Workers -> Job] /\ job'[w] = IdleJob
        /\ \A v \in Workers : JobOK(v)'
    BY <1>1, Idle DEF TaskReply
  <1>4. TypeOK'
    BY <1>1, <1>2, <1>3 DEF IInv, TypeOK
  <1>5. SealedApart => TrialOK'
    <2>1. ASSUME NEW v \in Workers, SealedApart PROVE HeldOK(v)'
      BY <1>2, <1>3, <2>1 DEF TaskReply, Finish, IInv, TypeOK, TrialOK, HeldOK, IdleJob
    <2> QED
      BY <1>2, <2>1 DEF IInv, TrialOK
  <1> QED
    BY <1>3, <1>4, <1>5 DEF IInv

(* The manifest is written once, so what workers compared with it still is.  *)
LEMMA SealWriteOK ==
    ASSUME NEW w \in Workers, IInv, SealWrite(w) PROVE IInv'
  <1>1. job[w].copy \in Submitted
    BY DEF SealWrite, At, IInv, JobOK, Holding
  <1>2. manifest' \in Answers /\ (manifest # None => manifest' = manifest)
    BY <1>1 DEF SealWrite, Submitted, IInv, TypeOK
  <1>3. UNCHANGED <<doc, committed, recorded, graded, exposed, blind, replaced>>
    BY DEF SealWrite, history
  <1>4. /\ job' \in [Workers -> Job] /\ job'[w] = IdleJob
        /\ \A v \in Workers : JobOK(v)'
    BY <1>3, Idle DEF SealWrite
  <1>5. TypeOK'
    BY <1>2, <1>3, <1>4 DEF IInv, TypeOK
  <1>6. SealedApart => TrialOK'
    <2> SUFFICES ASSUME SealedApart PROVE TrialOK'
      OBVIOUS
    <2>1. ASSUME NEW v \in Workers, v # w PROVE HeldOK(v)'
      <3>1. HeldOK(v) /\ JobOK(v) /\ job'[v] = job[v]
        BY <2>1 DEF SealWrite, Finish, IInv, TrialOK, TypeOK
      <3>2. job[v].pc \in {"hireCommit", "grade"} => manifest # None
        BY <3>1, BaselineAssumption DEF HeldOK, JobOK, Holding, Submitted
      <3> QED
        BY <1>2, <1>3, <3>1, <3>2 DEF HeldOK
    <2>2. HeldOK(w)'
      BY <1>4 DEF HeldOK, IdleJob
    <2>3. \A r \in Runs : committed'[r] # None => committed'[r] = manifest'
      BY <1>2, <1>3 DEF IInv, TrialOK
    <2> QED
      BY <1>3, <2>1, <2>2, <2>3 DEF IInv, TrialOK
  <1> QED
    BY <1>4, <1>5, <1>6 DEF IInv

LEMMA CheckOK ==
    ASSUME NEW w \in Workers, IInv, HireCheck(w) \/ GradeCheck(w) PROVE IInv'
  <1> PICK l \in {"hireCommit", "grade"} : Goto(w, l)
    BY DEF HireCheck, GradeCheck
  <1> DEFINE j == [job[w] EXCEPT !.pc = l]
  <1>1. /\ job[w].pc \in {"hireCheck", "gradeCheck"} /\ HashIntact(job[w].copy)
        /\ UNCHANGED <<documents, history>>
    BY DEF HireCheck, GradeCheck, At
  <1>2. job[w] \in Job /\ JobOK(w)
    BY DEF IInv, TypeOK
  <1>3. j \in Job /\ job' = [job EXCEPT ![w] = j] /\ job'[w] = j
    BY <1>2 DEF Goto, IInv, TypeOK, Job, Labels
  <1>4. j.pc = l /\ j.copy = job[w].copy /\ j.run = job[w].run
    BY <1>2 DEF Job
  <1>5. JobOK(w)'
    BY <1>1, <1>2, <1>3, <1>4 DEF JobOK, Holding, ForRun, history
  <1>6. SealedApart => HeldOK(w)'
    BY <1>1, <1>3, <1>4 DEF HeldOK, HashIntact, documents
  <1> QED
    BY <1>1, <1>3, <1>5, <1>6, Moved

LEMMA HireCommitOK ==
    ASSUME NEW w \in Workers, IInv, HireCommit(w) PROVE IInv'
  <1> DEFINE j == [job[w] EXCEPT !.pc = "hireWait"]
  <1>1. /\ job[w] \in Job /\ JobOK(w) /\ At(w, "hireCommit")
        /\ job[w].copy.answer \in Answers /\ job[w].run \in Runs
    BY DEF HireCommit, At, IInv, TypeOK, JobOK, Holding, ForRun, Submitted
  <1>2. UNCHANGED <<doc, manifest, recorded, graded, exposed, blind, replaced>>
    BY DEF HireCommit, history
  <1>3. j \in Job /\ job' = [job EXCEPT ![w] = j] /\ job'[w] = j
    BY <1>1 DEF HireCommit, Goto, IInv, TypeOK, Job, Labels
  <1>4. j.pc = "hireWait" /\ j.run = job[w].run
    BY <1>1 DEF Job
  <1>5. JobOK(w)'
    BY <1>1, <1>2, <1>3, <1>4 DEF JobOK, At, Holding, ForRun
  <1>6. \A v \in Workers : JobOK(v)'
    BY <1>2, <1>3, <1>5, OtherJobs
  <1>7. /\ committed' = [committed EXCEPT ![job[w].run] = job[w].copy.answer]
        /\ committed \in [Runs -> Answers \cup {None}]
    BY DEF HireCommit, IInv, TypeOK
  <1>8. TypeOK'
    BY <1>1, <1>2, <1>3, <1>7 DEF IInv, TypeOK
  <1>9. SealedApart => TrialOK'
    <2> SUFFICES ASSUME SealedApart PROVE TrialOK'
      OBVIOUS
    <2>1. manifest = job[w].copy.answer /\ manifest # None
      BY <1>1, BaselineAssumption DEF At, IInv, TrialOK, HeldOK
    <2>2. /\ \A r \in Runs : committed'[r] # None => committed'[r] = manifest
          /\ \A r \in Runs : committed[r] # None => committed'[r] = committed[r]
      BY <1>1, <1>7, <2>1 DEF IInv, TrialOK
    <2>3. ASSUME NEW v \in Workers, v # w PROVE HeldOK(v)'
      <3>1. HeldOK(v) /\ JobOK(v) /\ job'[v] = job[v]
        BY <1>3, <2>3 DEF IInv, TrialOK, TypeOK
      <3> QED
        BY <1>2, <2>2, <3>1 DEF HeldOK, JobOK, ForRun
    <2>4. HeldOK(w)'
      BY <1>1, <1>3, <1>4, <1>7, BaselineAssumption DEF HeldOK
    <2>5. \A r \in recorded : committed'[r] # None
      BY <1>8, <2>2 DEF IInv, TrialOK, TypeOK
    <2>6. \A r \in Runs : graded[r] # None => graded[r] = committed'[r]
      BY <1>1, <1>7, <2>2 DEF IInv, TrialOK
    <2> QED
      BY <1>2, <2>2, <2>3, <2>4, <2>5, <2>6 DEF TrialOK
  <1> QED
    BY <1>6, <1>8, <1>9 DEF IInv

LEMMA HireRecordOK ==
    ASSUME NEW w \in Workers, IInv, HireRecord(w) PROVE IInv'
  <1>1. job[w].run \in Runs /\ At(w, "hireWait")
    BY DEF HireRecord, At, IInv, JobOK, ForRun
  <1>2. /\ recorded' = recorded \cup {job[w].run} /\ exposed' = TRUE
        /\ UNCHANGED <<doc, manifest, committed, graded, blind, replaced>>
    BY DEF HireRecord
  <1>3. /\ job' \in [Workers -> Job] /\ job'[w] = IdleJob
        /\ \A v \in Workers : JobOK(v)'
    BY <1>2, Idle DEF HireRecord
  <1>4. TypeOK'
    BY <1>1, <1>2, <1>3 DEF IInv, TypeOK
  <1>5. SealedApart => TrialOK'
    <2>1. ASSUME NEW v \in Workers, SealedApart PROVE HeldOK(v)'
      BY <1>2, <1>3, <2>1 DEF HireRecord, Finish, IInv, TypeOK, TrialOK, HeldOK, IdleJob
    <2>2. SealedApart => committed[job[w].run] # None
      BY <1>1 DEF At, IInv, TrialOK, HeldOK
    <2> QED
      BY <1>2, <2>1, <2>2 DEF IInv, TrialOK
  <1> QED
    BY <1>3, <1>4, <1>5 DEF IInv

LEMMA GradeSaveOK ==
    ASSUME NEW w \in Workers, IInv, GradeSave(w) PROVE IInv'
  <1>1. /\ At(w, "grade") /\ job[w].run \in recorded /\ job[w].run \in Runs
        /\ job[w].copy.answer \in Answers
    BY DEF GradeSave, At, IInv, JobOK, Holding, ForRun, Submitted
  <1>2. /\ graded' = [graded EXCEPT ![job[w].run] = job[w].copy.answer]
        /\ graded \in [Runs -> Answers \cup {None}]
        /\ UNCHANGED <<doc, manifest, committed, recorded, exposed, blind, replaced>>
    BY DEF GradeSave, history, IInv, TypeOK
  <1>3. /\ job' \in [Workers -> Job] /\ job'[w] = IdleJob
        /\ \A v \in Workers : JobOK(v)'
    BY <1>2, Idle DEF GradeSave
  <1>4. TypeOK'
    BY <1>1, <1>2, <1>3 DEF IInv, TypeOK
  <1>5. SealedApart => TrialOK'
    <2>1. ASSUME NEW v \in Workers, SealedApart PROVE HeldOK(v)'
      BY <1>2, <1>3, <2>1 DEF GradeSave, Finish, IInv, TypeOK, TrialOK, HeldOK, IdleJob
    <2>2. SealedApart => committed[job[w].run] = job[w].copy.answer
      BY <1>1 DEF At, IInv, TrialOK, HeldOK
    <2>3. SealedApart => \A r \in Runs : graded'[r] # None => graded'[r] = committed[r]
      BY <1>1, <1>2, <2>2 DEF IInv, TrialOK
    <2> QED
      BY <1>2, <2>1, <2>3 DEF IInv, TrialOK
  <1> QED
    BY <1>3, <1>4, <1>5 DEF IInv

LEMMA AbandonOK ==
    ASSUME NEW w \in Workers, IInv, Abandon(w) PROVE IInv'
  <1>1. IdleJob \in Job /\ job' = [job EXCEPT ![w] = IdleJob] /\ job'[w] = IdleJob
    BY DEF Abandon, Finish, IInv, TypeOK, IdleJob, Job, Labels
  <1>2. JobOK(w)' /\ HeldOK(w)'
    BY <1>1 DEF JobOK, HeldOK, IdleJob, Holding, ForRun
  <1> QED
    BY <1>1, <1>2, Moved DEF Abandon

(* Every handler or script that starts with a read of the document.          *)
LEMMA ReadOK ==
    ASSUME NEW w \in Workers, IInv,
           \/ StartRead(w) \/ SubmitRead(w) \/ TaskRead(w) \/ SealRead(w)
           \/ \E r \in Runs : HireRead(w, r) \/ GradeRead(w, r)
    PROVE  IInv'
  <1>1. HasStarted => doc = Started
    BY DEF HasStarted, IInv, TypeOK, Attempt, Submitted
  <1>2. HasSubmitted => doc \in Submitted
    BY DEF HasSubmitted, IInv, TypeOK, Attempt, Started
  <1>3. CASE StartRead(w)
    BY <1>3, Entered DEF StartRead, Labels, Attempt, Holding, ForRun
  <1>4. CASE SubmitRead(w)
    BY <1>1, <1>4, Entered DEF SubmitRead, Labels, Attempt, Holding, ForRun
  <1>5. CASE TaskRead(w)
    BY <1>2, <1>5, Entered DEF TaskRead, Labels, Attempt, Holding, ForRun
  <1>6. CASE SealRead(w)
    BY <1>2, <1>6, Entered DEF SealRead, Labels, Attempt, Holding, ForRun
  <1>7. CASE \E r \in Runs : HireRead(w, r)
    BY <1>2, <1>7, Entered DEF HireRead, Labels, Attempt, Holding, ForRun
  <1>8. CASE \E r \in Runs : GradeRead(w, r)
    BY <1>2, <1>8, Entered DEF GradeRead, Labels, Attempt, Holding, ForRun
  <1> QED
    BY <1>3, <1>4, <1>5, <1>6, <1>7, <1>8

LEMMA NextOK == IInv /\ [Next]_vars => IInv'
  <1> SUFFICES ASSUME IInv, [Next]_vars PROVE IInv'
    OBVIOUS
  <1>1. CASE UNCHANGED vars
    BY <1>1 DEF vars, documents, history, IInv, TypeOK, JobOK,
                TrialOK, HeldOK
  <1>2. CASE Next
    <2> PICK w \in Workers : Step(w)
      BY <1>2 DEF Next
    <2> QED
      BY ReadOK, StartSaveOK, SubmitBodyOK, SubmitSaveOK, TaskReplyOK, SealWriteOK,
         CheckOK, HireCommitOK, HireRecordOK, GradeSaveOK, AbandonOK DEF Step
  <1> QED
    BY <1>1, <1>2

(* ------------------------------ the theorems ------------------------------ *)

(* What every handler and script may hold, with and without a manifest.      *)
THEOREM Invariant == Spec => []IInv
  BY InitOK, NextOK, PTL DEF Spec

(* The documents and the copies workers keep have their types.               *)
THEOREM TypeCorrect == Spec => []TypeOK
  <1>1. IInv => TypeOK
    BY DEF IInv
  <1> QED
    BY <1>1, Invariant, PTL

(* With a manifest, a run is graded against the answer its precommit named.  *)
THEOREM GradedAsCommitted == ASSUME SealedApart PROVE Spec => []GradedIsCommitted
  <1>1. IInv => GradedIsCommitted
    BY SealedApart DEF IInv, TrialOK, GradedIsCommitted
  <1> QED
    BY <1>1, Invariant, PTL

(* ------------------- the sealed answer came before any agent ------------- *)

(* As long as no stored answer was written over, an answer stays stored once  *)
(* a handler or script passed the check for one, and a copy on its way into   *)
(* the manifest is an answer that was stored blind.                          *)
BlindOK(w) ==
    /\ job[w].pc \in {"work", "hireCheck", "hireCommit", "hireWait"} => HasSubmitted
    /\ job[w].pc = "sealing" => job[w].copy.answer \in blind

BlindInv ==
    ~ replaced =>
        /\ \A w \in Workers : BlindOK(w)
        /\ exposed => HasSubmitted
        /\ HasSubmitted => doc.answer \in blind
        /\ manifest # None => manifest \in blind

LEMMA BlindInit == Init => BlindInv
  BY DEF Init, BlindInv, BlindOK, HasSubmitted, IdleJob

(* Steps that write neither the document nor the history: what a worker goes  *)
(* on with has to be right, and what is sealed has to be the copy it held.    *)
LEMMA BlindQuiet ==
    ASSUME NEW w \in Workers, IInv, BlindInv, NEW j \in Job,
           job' = [job EXCEPT ![w] = j],
           UNCHANGED <<doc, exposed, blind, replaced>>,
           ~ replaced => BlindOK(w)',
           ~ replaced /\ manifest' # None => manifest' \in blind
    PROVE  BlindInv'
  <1>1. ASSUME NEW v \in Workers, v # w, ~ replaced PROVE BlindOK(v)'
    <2>1. BlindOK(v) /\ job'[v] = job[v]
      BY <1>1 DEF BlindInv, IInv, TypeOK
    <2> QED
      BY <2>1 DEF BlindOK, HasSubmitted
  <1> QED
    BY <1>1 DEF BlindInv, HasSubmitted

(* A reader enters: past the check for an answer, with what it read.         *)
LEMMA BlindRead ==
    ASSUME NEW w \in Workers, IInv, BlindInv,
           \/ StartRead(w) \/ SubmitRead(w) \/ TaskRead(w) \/ SealRead(w)
           \/ \E r \in Runs : HireRead(w, r) \/ GradeRead(w, r)
    PROVE  BlindInv'
  <1>1. PICK l \in Labels, copy \in Attempt \cup {None}, r \in Runs \cup {None} :
          /\ Enter(w, l, copy, r)
          /\ l \in {"work", "hireCheck"} => HasSubmitted
          /\ l \notin {"hireCommit", "hireWait"}
          /\ l = "sealing" => HasSubmitted /\ copy = doc
    <2>1. doc \in Attempt \cup {None} /\ Started \in Attempt
      BY DEF IInv, TypeOK, Attempt
    <2>2. CASE StartRead(w)
      BY <2>1, <2>2 DEF StartRead, Labels
    <2>3. CASE SubmitRead(w)
      BY <2>1, <2>3 DEF SubmitRead, Labels
    <2>4. CASE TaskRead(w)
      BY <2>1, <2>4 DEF TaskRead, Labels
    <2>5. CASE SealRead(w)
      BY <2>1, <2>5 DEF SealRead, Labels
    <2>6. CASE \E r \in Runs : HireRead(w, r)
      BY <2>1, <2>6 DEF HireRead, Labels
    <2>7. CASE \E r \in Runs : GradeRead(w, r)
      BY <2>1, <2>7 DEF GradeRead, Labels
    <2> QED
      BY <2>2, <2>3, <2>4, <2>5, <2>6, <2>7
  <1> DEFINE j == [pc |-> l, copy |-> copy, run |-> r]
  <1>2. j \in Job /\ job' = [job EXCEPT ![w] = j] /\ job'[w] = j
    BY <1>1 DEF Enter, IInv, TypeOK, Job
  <1>3. UNCHANGED <<doc, manifest, exposed, blind, replaced>>
    BY <1>1 DEF Enter, documents, history
  <1>4. ~ replaced => BlindOK(w)'
    BY <1>1, <1>2, <1>3 DEF BlindOK, BlindInv, HasSubmitted
  <1> QED
    BY <1>2, <1>3, <1>4, BlindQuiet DEF BlindInv

(* A step in memory, a write of the manifest, a commit or a grade.           *)
LEMMA BlindMoved ==
    ASSUME NEW w \in Workers, IInv, BlindInv,
           \/ SubmitBody(w) \/ SealWrite(w) \/ HireCheck(w) \/ HireCommit(w)
           \/ GradeCheck(w) \/ GradeSave(w) \/ Abandon(w)
    PROVE  BlindInv'
  <1>1. job[w] \in Job /\ IdleJob \in Job
    BY DEF IInv, TypeOK, IdleJob, Job, Labels
  <1>2. CASE SubmitBody(w)
    <2>1. PICK a \in Answers :
            job' = [job EXCEPT ![w].pc = "submitting", ![w].copy = Completed(@, a)]
      BY <1>2 DEF SubmitBody
    <2> DEFINE j == [job[w] EXCEPT !.pc = "submitting", !.copy = Completed(job[w].copy, a)]
    <2>2. Completed(job[w].copy, a) \in Submitted
      BY <1>2, CompletedOK DEF SubmitBody, At, IInv, JobOK
    <2>3. j \in Job /\ job' = [job EXCEPT ![w] = j] /\ job'[w] = j
      BY <2>1, <2>2 DEF IInv, TypeOK, Job, Labels, Attempt
    <2>4. j.pc = "submitting"
      BY <1>1 DEF Job
    <2> QED
      BY <1>2, <2>3, <2>4, BlindQuiet DEF SubmitBody, BlindOK, BlindInv, documents, history
  <1>3. CASE SealWrite(w)
    <2>1. job' = [job EXCEPT ![w] = IdleJob] /\ job'[w] = IdleJob
      BY <1>3 DEF SealWrite, Finish, IInv, TypeOK
    <2>2. BlindOK(w)'
      BY <2>1 DEF BlindOK, IdleJob
    <2>3. ~ replaced /\ manifest' # None => manifest' \in blind
      BY <1>3 DEF SealWrite, At, BlindInv, BlindOK
    <2> QED
      BY <1>1, <1>3, <2>1, <2>2, <2>3, BlindQuiet DEF SealWrite, history
  <1>4. CASE HireCheck(w) \/ HireCommit(w) \/ GradeCheck(w)
    <2>1. PICK l \in {"hireCommit", "hireWait", "grade"} :
            /\ job' = [job EXCEPT ![w].pc = l]
            /\ l # "grade" => job[w].pc \in {"hireCheck", "hireCommit"}
      BY <1>4 DEF HireCheck, HireCommit, GradeCheck, Goto, At
    <2> DEFINE j == [job[w] EXCEPT !.pc = l]
    <2>2. j \in Job /\ job' = [job EXCEPT ![w] = j] /\ job'[w] = j /\ j.pc = l
      BY <1>1, <2>1 DEF IInv, TypeOK, Job, Labels
    <2>3. UNCHANGED <<doc, manifest, exposed, blind, replaced>>
      BY <1>4 DEF HireCheck, HireCommit, GradeCheck, documents, history
    <2>4. ~ replaced => BlindOK(w)'
      BY <2>1, <2>2, <2>3 DEF BlindOK, BlindInv, HasSubmitted
    <2> QED
      BY <2>2, <2>3, <2>4, BlindQuiet DEF BlindInv
  <1>5. CASE GradeSave(w) \/ Abandon(w)
    <2>1. job' = [job EXCEPT ![w] = IdleJob] /\ job'[w] = IdleJob
      BY <1>5 DEF GradeSave, Abandon, Finish, IInv, TypeOK
    <2>2. BlindOK(w)'
      BY <2>1 DEF BlindOK, IdleJob
    <2>3. UNCHANGED <<doc, manifest, exposed, blind, replaced>>
      BY <1>5 DEF GradeSave, Abandon, documents, history
    <2> QED
      BY <1>1, <2>1, <2>2, <2>3, BlindQuiet DEF BlindInv
  <1> QED
    BY <1>2, <1>3, <1>4, <1>5

(* The agent's output, from the task route or from a paid run.               *)
LEMMA BlindExposed ==
    ASSUME NEW w \in Workers, IInv, BlindInv, TaskReply(w) \/ HireRecord(w)
    PROVE  BlindInv'
  <1>1. /\ job' = [job EXCEPT ![w] = IdleJob] /\ job'[w] = IdleJob
        /\ job[w].pc \in {"work", "hireWait"}
        /\ UNCHANGED <<doc, manifest, blind, replaced>>
    BY DEF TaskReply, HireRecord, At, Finish, documents, IInv, TypeOK
  <1>2. ASSUME NEW v \in Workers, ~ replaced PROVE BlindOK(v)'
    <2>1. CASE v = w
      BY <1>1, <2>1 DEF BlindOK, IdleJob
    <2>2. CASE v # w
      <3>1. BlindOK(v) /\ job'[v] = job[v]
        BY <1>1, <1>2, <2>2 DEF BlindInv, IInv, TypeOK
      <3> QED
        BY <1>1, <3>1 DEF BlindOK, HasSubmitted
    <2> QED
      BY <2>1, <2>2
  <1>3. ~ replaced => HasSubmitted'
    BY <1>1 DEF BlindInv, BlindOK, HasSubmitted
  <1> QED
    BY <1>1, <1>2, <1>3 DEF BlindInv, HasSubmitted

(* A start or a submit writes the document.  If it writes over an answer      *)
(* there is nothing to show; if not, no answer was stored, so no agent was    *)
(* asked, and no handler is past a check for one.                            *)
LEMMA BlindWritten ==
    ASSUME NEW w \in Workers, IInv, BlindInv, StartSave(w) \/ SubmitSave(w)
    PROVE  BlindInv'
  <1> SUFFICES ASSUME ~ replaced' PROVE BlindInv'
    BY DEF BlindInv
  <1>1. ~ replaced /\ ~ HasSubmitted
    BY DEF StartSave, SubmitSave
  <1>2. ~ exposed
    BY <1>1 DEF BlindInv
  <1>3. /\ job' = [job EXCEPT ![w] = IdleJob] /\ job'[w] = IdleJob
        /\ UNCHANGED <<manifest, exposed>> /\ blind \subseteq blind'
    BY DEF StartSave, SubmitSave, Finish, IInv, TypeOK
  <1>4. ASSUME NEW v \in Workers PROVE BlindOK(v)'
    <2>1. CASE v = w
      BY <1>3, <2>1 DEF BlindOK, IdleJob
    <2>2. CASE v # w
      <3>1. BlindOK(v) /\ job'[v] = job[v]
        BY <1>1, <1>3, <2>2 DEF BlindInv, IInv, TypeOK
      <3> QED
        BY <1>1, <1>3, <3>1 DEF BlindOK
    <2> QED
      BY <2>1, <2>2
  <1>5. HasSubmitted' => doc'.answer \in blind'
    <2>1. CASE StartSave(w)
      BY <2>1 DEF StartSave, At, IInv, JobOK, HasSubmitted, Started
    <2>2. CASE SubmitSave(w)
      BY <1>2, <2>2 DEF SubmitSave
    <2> QED
      BY <2>1, <2>2
  <1> QED
    BY <1>1, <1>2, <1>3, <1>4, <1>5 DEF BlindInv

LEMMA BlindStep == IInv /\ BlindInv /\ [Next]_vars => BlindInv'
  <1> SUFFICES ASSUME IInv, BlindInv, [Next]_vars PROVE BlindInv'
    OBVIOUS
  <1>1. CASE UNCHANGED vars
    BY <1>1 DEF vars, documents, history, BlindInv, BlindOK, HasSubmitted
  <1>2. CASE Next
    <2> PICK w \in Workers : Step(w)
      BY <1>2 DEF Next
    <2> QED
      BY BlindRead, BlindMoved, BlindExposed, BlindWritten DEF Step
  <1> QED
    BY <1>1, <1>2

(* The human goes first: unless a stored answer was written over, the answer  *)
(* in the manifest was stored before any agent output existed, whatever the   *)
(* handlers and scripts read and write in between.                           *)
THEOREM SealsBlind == Spec => []SealedBlind
  <1>1. BlindInv => SealedBlind
    BY DEF BlindInv, SealedBlind
  <1> QED
    BY <1>1, BlindInit, BlindStep, Invariant, PTL DEF Spec

(* ---------------------- the blind trial is implemented ------------------- *)

(* With a manifest, every step of the handlers and scripts is a step of the   *)
(* blind trial or leaves it alone.                                           *)
LEMMA TrialStep ==
    ASSUME SealedApart, IInv, [Next]_vars
    PROVE  [Trial!TrialNext]_(Trial!trialVars)
  <1> USE DEF Trial!TrialNext, Trial!trialVars
  <1>1. CASE UNCHANGED <<manifest, committed, graded>>
    BY <1>1
  <1>2. CASE Next /\ ~ UNCHANGED <<manifest, committed, graded>>
    <2> PICK w \in Workers : Step(w)
      BY <1>2 DEF Next
    <2>1. JobOK(w) /\ HeldOK(w) /\ TypeOK /\ TrialOK
      BY DEF IInv, TrialOK
    <2>2. SealWrite(w) \/ HireCommit(w) \/ GradeSave(w)
      BY <1>2 DEF Step, StartRead, StartSave, SubmitRead, SubmitBody, SubmitSave,
                  TaskRead, TaskReply, SealRead, HireRead, HireCheck, HireRecord,
                  GradeRead, GradeCheck, Abandon, Enter, documents
    <2>3. CASE SealWrite(w)
      <3>1. job[w].copy.answer \in Answers
        BY <2>1, <2>3 DEF SealWrite, At, JobOK, Holding, Submitted
      <3>2. Trial!Seal(job[w].copy.answer)
        BY <1>2, <2>3 DEF SealWrite, Trial!Seal
      <3> QED
        BY <3>1, <3>2
    <2>4. CASE HireCommit(w)
      <3>1. /\ job[w].run \in Runs /\ job[w].copy.answer = manifest
            /\ manifest \in Answers
        BY <2>1, <2>4 DEF HireCommit, At, JobOK, HeldOK, Holding, ForRun, Submitted
      <3>2. committed' = [committed EXCEPT ![job[w].run] = manifest]
        BY <2>4, <3>1 DEF HireCommit
      <3>3. committed[job[w].run] = None
        BY <1>2, <2>1, <2>4, <3>1, <3>2 DEF HireCommit, TrialOK, TypeOK
      <3>4. Trial!Commit(job[w].run)
        BY <2>4, <3>1, <3>2, <3>3, BaselineAssumption DEF HireCommit, Trial!Commit
      <3> QED
        BY <3>1, <3>4
    <2>5. CASE GradeSave(w)
      <3>1. /\ job[w].run \in Runs /\ job[w].copy.answer = manifest
            /\ committed[job[w].run] # None
        BY <2>1, <2>5 DEF GradeSave, At, JobOK, HeldOK, ForRun, TrialOK
      <3>2. committed[job[w].run] = manifest
        BY <2>1, <3>1 DEF TrialOK
      <3>3. graded' = [graded EXCEPT ![job[w].run] = committed[job[w].run]]
        BY <2>5, <3>1, <3>2 DEF GradeSave
      <3>4. graded[job[w].run] = None
        BY <1>2, <2>1, <2>5, <3>1, <3>3 DEF GradeSave, TrialOK, TypeOK
      <3>5. Trial!Compare(job[w].run)
        BY <2>5, <3>1, <3>3, <3>4 DEF GradeSave, Trial!Compare
      <3> QED
        BY <3>1, <3>5
    <2> QED
      BY <2>2, <2>3, <2>4, <2>5
  <1> QED
    BY <1>1, <1>2 DEF vars, documents

(* HealthBench implements BlindTrial: one seal, and every paid run committed  *)
(* to it and graded against it, whatever overwrites the baseline document.   *)
THEOREM TrialImplemented == ASSUME SealedApart PROVE Spec => ImplementsBlindTrial
  <1>1. Init => Trial!TrialInit
    BY DEF Init, Trial!TrialInit
  <1>2. IInv /\ [Next]_vars => [Trial!TrialNext]_(Trial!trialVars)
    BY SealedApart, TrialStep
  <1> QED
    BY <1>1, <1>2, Invariant, PTL DEF Spec, ImplementsBlindTrial, Trial!TrialSpec

=============================================================================
