------------------------------- MODULE Grading --------------------------------
(***************************************************************************)
(* The scripts that hire and that grade benchmark runs, as processes over two   *)
(* documents: the runs (benchmark-runs.json), where a Verified Run has a number, *)
(* and the pairs (agent-advantage-pairs.json).  A hire reads the runs for the   *)
(* number, and once more to append; a grader reads the runs, later the pairs,   *)
(* and at its end the runs again.  Each document is written whole.             *)
(* The track record a grader seeds is in RangeKeeper and YieldScout.           *)
(*                                                                          *)
(* A definition whose comment starts with "Slip:" is not part of the system. *)
(***************************************************************************)
EXTENDS Absent, Integers, Sequences, FiniteSets

CONSTANTS
    Families,       \* of benchmarks: among health, rebalance, yield and grid
    Graders,        \* the graders a careful operator may have running, and a careless one
    Hirers,         \* and the hires at their end
    MaxRuns         \* a bound on the runs

ASSUME ProcessesAssumption == \A c \in BOOLEAN : Graders[c] \cap Hirers[c] = {}

VARIABLES
    runs,       \* the document of runs, oldest first
    pairs,      \* the document of pairs: run -> number as a candidate pair
    hirer,      \* the run each hire is about to append, and the runs it has read
    grader,     \* what each grader is doing and what it has read
    behind,     \* the processes that have not read the runs since they were last written
    careful     \* the operator touches the newest run alone, and hires while nothing else runs

gradeVars == <<runs, pairs, hirer, grader, behind, careful>>

Completed(run) == run.delivered /\ run.settled

VerifiedRuns(list) == {k \in DOMAIN list : list[k].number # None}

(* Slip: the run that is graded is among those before it.                     *)
NumberWithItself(list, k, passed) ==
    IF Completed(list[k]) /\ passed THEN Cardinality(VerifiedRuns(list)) + 1 ELSE None

VerifiedRunNumber(list, k, passed) ==
    IF Completed(list[k]) /\ passed THEN Cardinality(VerifiedRuns(list) \ {k}) + 1 ELSE None

(* The first completed run is verified with the hire, or when it is reconciled. *)
FirstNumber(list, k, run) ==
    IF Completed(run) /\ VerifiedRuns(list) \subseteq {k} THEN 1 ELSE None

(* deriveVerifiedRunGates, on the run as it was when the grader started.       *)
GatesPassed(run) == Completed(run)

(* The candidates hired before the run.                                      *)
CandidateNumber(stored, k) == Cardinality({j \in DOMAIN stored : j < k}) + 1

GradingInit ==
    /\ runs = <<>>
    /\ pairs = <<>>
    /\ careful \in BOOLEAN
    /\ hirer = [h \in Hirers[careful] |-> None]
    /\ grader = [g \in Graders[careful] |-> None]
    /\ behind = Hirers[careful] \cup Graders[careful]

Resting(g) == grader[g] = None

Hiring == {h \in DOMAIN hirer : hirer[h] # None}

Processes == DOMAIN hirer \cup DOMAIN grader

(* runBenchmark at the end of a paid run: the runs before decide the number.    *)
StartHire(h) ==
    /\ hirer[h] = None
    /\ Len(runs) + Cardinality(Hiring) < MaxRuns
    /\ careful => Hiring = {} /\ \A g \in DOMAIN grader : Resting(g)
    /\ \E family \in Families, delivered, settled \in BOOLEAN :
        LET run == [family |-> family, delivered |-> delivered, settled |-> settled,
                    graded |-> FALSE, number |-> None]
            number == FirstNumber(runs, Len(runs) + 1, run)
        IN  hirer' = [hirer EXCEPT ![h] =
                [step |-> "load runs", run |-> [run EXCEPT !.number = number], runs |-> runs]]
    /\ UNCHANGED <<runs, pairs, grader, behind, careful>>

(* Slip: the runs that were read for the number are appended to.               *)
LoadOnce(h) ==
    /\ hirer[h] # None /\ hirer[h].step = "load runs"
    /\ hirer' = [hirer EXCEPT ![h].step = "save runs"]
    /\ behind' = behind \ {h}
    /\ UNCHANGED <<runs, pairs, grader, careful>>

(* appendJsonArray: the document is read once more, and written whole.         *)
LoadForAppend(h) ==
    /\ hirer[h] # None /\ hirer[h].step = "load runs"
    /\ hirer' = [hirer EXCEPT ![h] = [@ EXCEPT !.step = "save runs", !.runs = runs]]
    /\ behind' = behind \ {h}
    /\ UNCHANGED <<runs, pairs, grader, careful>>

SaveRun(h) ==
    /\ hirer[h] # None /\ hirer[h].step = "save runs"
    /\ runs' = Append(hirer[h].runs, hirer[h].run)
    /\ hirer' = [hirer EXCEPT ![h] = None]
    /\ behind' = Processes
    /\ UNCHANGED <<pairs, grader, careful>>

KillHire(h) ==
    /\ hirer[h] # None
    /\ hirer' = [hirer EXCEPT ![h] = None]
    /\ UNCHANGED <<runs, pairs, grader, behind, careful>>

Open(g, kind, k, step, copy) ==
    /\ Resting(g)
    /\ careful => k = Len(runs) /\ Hiring = {}
    /\ grader' = [grader EXCEPT ![g] =
            [kind |-> kind, run |-> k, step |-> step, gates |-> GatesPassed(runs[k]),
             runs |-> copy, pairs |-> <<>>]]
    /\ UNCHANGED <<runs, pairs, hirer, careful>>

(* Only what was delivered is graded; by default the newest run of a family.   *)
StartGrading(g, k) ==
    /\ runs[k].delivered
    /\ Open(g, runs[k].family, k,
            IF runs[k].family = "grid" THEN "load runs" ELSE "load pairs", <<>>)
    /\ UNCHANGED behind

(* A run of the health benchmark that was delivered or settled late; it holds  *)
(* the runs while it waits for the chain.                                    *)
StartReconcile(g, k) ==
    /\ runs[k].family = "health"
    /\ Open(g, "reconcile", k, "save runs", runs)
    /\ behind' = behind \ {g}

At(g, step) == ~ Resting(g) /\ grader[g].step = step

LoadPairs(g) ==
    /\ At(g, "load pairs")
    /\ grader' = [grader EXCEPT ![g] = [@ EXCEPT !.step = "load runs", !.pairs = pairs]]
    /\ UNCHANGED <<runs, pairs, hirer, behind, careful>>

LoadRuns(g) ==
    /\ At(g, "load runs")
    /\ grader' = [grader EXCEPT ![g] = [@ EXCEPT !.step = "save runs", !.runs = runs]]
    /\ behind' = behind \ {g}
    /\ UNCHANGED <<runs, pairs, hirer, careful>>

(* Health and grid record the score alone; the others also recompute the       *)
(* number.                                                                  *)
Graded(list, k, kind, gates) ==
    [list EXCEPT ![k].graded = TRUE,
                 ![k].number = IF kind \in {"health", "grid"} THEN @
                               ELSE VerifiedRunNumber(list, k, gates)]

SaveGraded(g) ==
    /\ At(g, "save runs")
    /\ grader[g].kind # "reconcile"
    /\ runs' = Graded(grader[g].runs, grader[g].run, grader[g].kind, grader[g].gates)
    /\ grader' = [grader EXCEPT ![g] =
            IF grader[g].kind = "grid" THEN None
            ELSE [@ EXCEPT !.step = "save pairs", !.runs = <<>>]]
    /\ behind' = Processes
    /\ UNCHANGED <<pairs, hirer, careful>>

(* The chain may have moved on; what was delivered or settled stays so.        *)
SaveReconciled(g) ==
    /\ At(g, "save runs")
    /\ grader[g].kind = "reconcile"
    /\ \E delivered, settled \in BOOLEAN :
        LET list == grader[g].runs
            k == grader[g].run
            run == [list[k] EXCEPT !.delivered = @ \/ delivered, !.settled = @ \/ settled]
        IN  runs' = [list EXCEPT ![k] = [run EXCEPT !.number = FirstNumber(list, k, run)]]
    /\ grader' = [grader EXCEPT ![g] = None]
    /\ behind' = Processes
    /\ UNCHANGED <<pairs, hirer, careful>>

SavePairs(g) ==
    /\ At(g, "save pairs")
    /\ LET stored == grader[g].pairs
           k == grader[g].run
       IN  pairs' = [j \in DOMAIN stored \cup {k} |->
                        IF j = k THEN CandidateNumber(stored, k) ELSE stored[j]]
    /\ grader' = [grader EXCEPT ![g] = None]
    /\ UNCHANGED <<runs, hirer, behind, careful>>

(* The process dies; what it has not written is lost.                         *)
KillGrader(g) ==
    /\ ~ Resting(g)
    /\ grader' = [grader EXCEPT ![g] = None]
    /\ UNCHANGED <<runs, pairs, hirer, behind, careful>>

GradingNext ==
    \/ \E h \in DOMAIN hirer : StartHire(h) \/ LoadForAppend(h) \/ SaveRun(h) \/ KillHire(h)
    \/ \E g \in DOMAIN grader :
        \/ \E k \in DOMAIN runs : StartGrading(g, k) \/ StartReconcile(g, k)
        \/ LoadPairs(g) \/ LoadRuns(g) \/ SaveGraded(g) \/ SaveReconciled(g)
        \/ SavePairs(g) \/ KillGrader(g)

----------------------------------------------------------------------------
(* While only the newest run is graded or reconciled, by any number of           *)
(* processes that may die and be started again, and a run is hired while nothing  *)
(* else runs, Verified Runs are numbered 1, 2, 3 in the order of their hires and  *)
(* candidate pairs too; and whatever the operator does, a Verified Run was         *)
(* delivered and completed on chain (verifiedRunNumber,                         *)
(* termixCandidateQualification).                                              *)
VerifiedInOrder ==
    /\ \A k \in VerifiedRuns(runs) : Completed(runs[k])
    /\ careful =>
        /\ \A k \in VerifiedRuns(runs) :
            runs[k].number = Cardinality({j \in VerifiedRuns(runs) : j <= k})
        /\ \A k \in DOMAIN pairs :
            pairs[k] = Cardinality({j \in DOMAIN pairs : j <= k})

(* The step is of processes that have read the runs since they were written.    *)
Informed ==
    /\ \A h \in DOMAIN hirer : hirer'[h] # hirer[h] => h \notin behind
    /\ \A g \in DOMAIN grader : grader'[g] # grader[g] => g \notin behind

(* A run that is stored stays, with what was seen of it, through every step of a  *)
(* hire, a grader or a reconciliation that has read the runs since they were      *)
(* last written: only scripts whose read and write overlap lose one, for any      *)
(* operator (appendJsonArray).                                                  *)
RunsKept ==
    [][ Informed =>
        \A k \in DOMAIN runs :
            /\ k \in DOMAIN runs'
            /\ runs'[k].family = runs[k].family
            /\ runs[k].delivered => runs'[k].delivered
            /\ runs[k].settled => runs'[k].settled
            /\ runs[k].graded => runs'[k].graded ]_gradeVars

=============================================================================
