------------------------------- MODULE Baseline -------------------------------
(***************************************************************************)
(* A blind human baseline and the agent runs graded against it: the baseline *)
(* routes of the server, the task route of Health Guard, and the operator's   *)
(* seal, hire and grade scripts.  They share one document, read whole and     *)
(* written whole, and no lock.                                               *)
(*                                                                          *)
(* HealthBench seals its answer into a manifest of its own (SealedApart);    *)
(* YieldBench and RebalanceBench keep the hash inside the document itself.   *)
(*                                                                          *)
(* A definition whose comment starts with "Slip:" is not part of the system. *)
(***************************************************************************)
CONSTANTS
    Workers,      \* handlers and scripts that can be under way at once
    Answers,      \* the answers a human may submit
    Runs,         \* the run ids hires may take, a bound on paid runs
    SealedApart,  \* the benchmark has a manifest (and a task route)
    None

ASSUME BaselineAssumption ==
    /\ SealedApart \in BOOLEAN
    /\ None \notin Answers

VARIABLES
    doc,        \* state/<bench>-baseline.json, None when absent
    manifest,   \* the answer of the immutable evidence manifest, or None
    committed,  \* committed[r]: the answer the precommit of run r refers to
    recorded,   \* the runs whose record and deliverable are stored
    graded,     \* graded[r]: the human answer run r was graded against
    job,        \* what each worker is doing, with its local copies
    exposed,    \* some agent output was produced
    blind,      \* the answers that were stored before any agent output
    replaced    \* some stored answer was written over

documents == <<doc, manifest, committed, recorded, graded>>
history == <<exposed, blind, replaced>>
vars == <<documents, history, job>>

Started == [status |-> "started", answer |-> None]

Submitted == [status : {"submitted"}, answer : Answers]

Attempt == {Started} \cup Submitted

(* Slip: the attempt is not marked as submitted.                             *)
CompletedNot(attempt, a) == [attempt EXCEPT !.answer = a]

(* completeYieldBaseline and its siblings, for an attempt that was started.   *)
Completed(attempt, a) == [attempt EXCEPT !.status = "submitted", !.answer = a]

HasStarted == doc # None /\ doc.status = "started"
HasSubmitted == doc # None /\ doc.status = "submitted"

(* Where a handler or a script stands between two awaits.                    *)
Labels == {"idle", "starting", "body", "submitting", "work", "sealing",
           "hireCheck", "hireCommit", "hireWait", "gradeCheck", "grade"}

Job == [pc : Labels, copy : Attempt \cup {None}, run : Runs \cup {None}]

IdleJob == [pc |-> "idle", copy |-> None, run |-> None]

Init ==
    /\ doc = None
    /\ manifest = None
    /\ committed = [r \in Runs |-> None]
    /\ recorded = {}
    /\ graded = [r \in Runs |-> None]
    /\ job = [w \in Workers |-> IdleJob]
    /\ exposed = FALSE
    /\ blind = {}
    /\ replaced = FALSE

At(w, l) == job[w].pc = l
Goto(w, l) == job' = [job EXCEPT ![w].pc = l]
Finish(w) == job' = [job EXCEPT ![w] = IdleJob]

(* It goes on from what it has just read of the document.                    *)
Enter(w, l, copy, r) ==
    /\ At(w, "idle")
    /\ job' = [job EXCEPT ![w] = [pc |-> l, copy |-> copy, run |-> r]]
    /\ UNCHANGED <<documents, history>>

(* ------------------------ POST /api/baseline/*/start --------------------- *)

(* With an attempt under way or submitted, the reply changes nothing.        *)
StartRead(w) == doc = None /\ Enter(w, "starting", Started, None)

StartSave(w) ==
    /\ At(w, "starting")
    /\ doc' = job[w].copy
    /\ replaced' = (replaced \/ HasSubmitted)
    /\ Finish(w)
    /\ UNCHANGED <<manifest, committed, recorded, graded, exposed, blind>>

(* ------------------------ POST /api/baseline/*/submit -------------------- *)

SubmitRead(w) == HasStarted /\ Enter(w, "body", doc, None)

(* The body arrives, after the document was read.                            *)
SubmitBody(w) ==
    /\ At(w, "body")
    /\ \E a \in Answers :
        job' = [job EXCEPT ![w].pc = "submitting", ![w].copy = Completed(@, a)]
    /\ UNCHANGED <<documents, history>>

SubmitSave(w) ==
    /\ At(w, "submitting")
    /\ doc' = job[w].copy
    /\ blind' = IF exposed THEN blind ELSE blind \cup {job[w].copy.answer}
    /\ replaced' = (replaced \/ HasSubmitted)
    /\ Finish(w)
    /\ UNCHANGED <<manifest, committed, recorded, graded, exposed>>

(* ------------------ POST /api/reference/health-factor/task --------------- *)

(* Slip: any baseline opens the route.                                       *)
TaskReadStarted(w) == SealedApart /\ doc # None /\ Enter(w, "work", None, None)

TaskRead(w) == SealedApart /\ HasSubmitted /\ Enter(w, "work", None, None)

TaskReply(w) ==
    /\ At(w, "work")
    /\ exposed' = TRUE
    /\ Finish(w)
    /\ UNCHANGED <<documents, blind, replaced>>

(* ------------------------- seal-health-baseline.mjs ---------------------- *)

SealRead(w) == SealedApart /\ HasSubmitted /\ Enter(w, "sealing", doc, None)

(* Slip: the manifest is replaced.                                           *)
SealReplaced(w) ==
    /\ At(w, "sealing")
    /\ manifest' = job[w].copy.answer
    /\ Finish(w)
    /\ UNCHANGED <<doc, committed, recorded, graded, history>>

(* writeImmutable: an existing manifest stays, whatever the script read.     *)
SealWrite(w) ==
    /\ At(w, "sealing")
    /\ manifest' = IF manifest = None THEN job[w].copy.answer ELSE manifest
    /\ Finish(w)
    /\ UNCHANGED <<doc, committed, recorded, graded, history>>

(* --------------------------- run-*-hire.mjs ------------------------------ *)

(* "The sealed human baseline no longer matches its evidence hash": the hash *)
(* is in the manifest, or in the very document that was read.                *)
HashIntact(copy) == SealedApart => manifest = copy.answer

HireRead(w, r) ==
    /\ HasSubmitted
    /\ committed[r] = None
    /\ \A v \in Workers : job[v].run # r \/ job[v].pc \notin {"hireCheck", "hireCommit"}
    /\ Enter(w, "hireCheck", doc, r)

HireCheck(w) ==
    /\ At(w, "hireCheck")
    /\ HashIntact(job[w].copy)
    /\ Goto(w, "hireCommit")
    /\ UNCHANGED <<documents, history>>

(* The precommit names the sealed answer, and is stored before any funding.  *)
HireCommit(w) ==
    /\ At(w, "hireCommit")
    /\ committed' = [committed EXCEPT ![job[w].run] = job[w].copy.answer]
    /\ Goto(w, "hireWait")
    /\ UNCHANGED <<doc, manifest, recorded, graded, history>>

(* The job was funded and delivered, and the run record is stored.           *)
HireRecord(w) ==
    /\ At(w, "hireWait")
    /\ recorded' = recorded \cup {job[w].run}
    /\ exposed' = TRUE
    /\ Finish(w)
    /\ UNCHANGED <<doc, manifest, committed, graded, blind, replaced>>

(* --------------------------- grade-*bench.mjs ---------------------------- *)

GradeRead(w, r) == HasSubmitted /\ Enter(w, "gradeCheck", doc, r)

(* Slip: the hash is not compared again.                                     *)
GradeCheckNot(w) ==
    /\ At(w, "gradeCheck")
    /\ Goto(w, "grade")
    /\ UNCHANGED <<documents, history>>

GradeCheck(w) ==
    /\ At(w, "gradeCheck")
    /\ HashIntact(job[w].copy)
    /\ Goto(w, "grade")
    /\ UNCHANGED <<documents, history>>

(* Grading the same run again writes its record again.                       *)
GradeSave(w) ==
    /\ At(w, "grade")
    /\ job[w].run \in recorded
    /\ graded' = [graded EXCEPT ![job[w].run] = job[w].copy.answer]
    /\ Finish(w)
    /\ UNCHANGED <<doc, manifest, committed, recorded, history>>

(* ------------------------------------------------------------------------ *)

(* Anything under way may end early: a refused body, a failed check, a disk  *)
(* or network error, a process that dies.                                    *)
Abandon(w) ==
    /\ ~ At(w, "idle")
    /\ Finish(w)
    /\ UNCHANGED <<documents, history>>

Step(w) ==
    \/ StartRead(w) \/ StartSave(w)
    \/ SubmitRead(w) \/ SubmitBody(w) \/ SubmitSave(w)
    \/ TaskRead(w) \/ TaskReply(w)
    \/ SealRead(w) \/ SealWrite(w)
    \/ \E r \in Runs : HireRead(w, r) \/ GradeRead(w, r)
    \/ HireCheck(w) \/ HireCommit(w) \/ HireRecord(w)
    \/ GradeCheck(w) \/ GradeSave(w)
    \/ Abandon(w)

Next == \E w \in Workers : Step(w)

Spec == Init /\ [][Next]_vars

----------------------------------------------------------------------------
TypeOK ==
    /\ doc \in Attempt \cup {None}
    /\ manifest \in Answers \cup {None}
    /\ committed \in [Runs -> Answers \cup {None}]
    /\ recorded \subseteq Runs
    /\ graded \in [Runs -> Answers \cup {None}]
    /\ job \in [Workers -> Job]
    /\ exposed \in BOOLEAN
    /\ blind \subseteq Answers
    /\ replaced \in BOOLEAN

(* "A sealed human baseline so the agent can never answer first": the answer  *)
(* that is sealed was stored before there was any agent output to see, unless *)
(* a stored answer was written over.  Then it need not be: the task route     *)
(* opens with the first answer, and a submit that read the document before    *)
(* may still replace that answer, to be sealed (server.mjs:470, 1013-1024).   *)
SealedBlind == manifest # None => replaced \/ manifest \in blind

(* The answer a run is graded against is the one its precommit named.        *)
GradedIsCommitted ==
    \A r \in Runs : graded[r] # None => graded[r] = committed[r]

(* HealthBench keeps the promise of BlindTrial: the seal is written once, a  *)
(* run commits to the sealed answer and is graded against it, although slow  *)
(* starts and submits may overwrite the baseline document at any time.       *)
Trial == INSTANCE BlindTrial WITH
    TrialRuns <- Runs, TrialAnswers <- Answers, NoAnswer <- None,
    sealed <- manifest, bound <- committed, compared <- graded

ImplementsBlindTrial == Trial!TrialSpec

=============================================================================
