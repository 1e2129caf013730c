------------------------------ MODULE BlindTrial ------------------------------
(***************************************************************************)
(* What a blind trial promises: the human's answer is sealed once, an agent  *)
(* run commits to the sealed answer before it is paid for, and what is graded *)
(* against the run is that same answer.                                      *)
(***************************************************************************)
CONSTANTS TrialRuns, TrialAnswers, NoAnswer

VARIABLES
    sealed,     \* the sealed answer, or NoAnswer
    bound,      \* bound[r]: the answer run r committed to, or NoAnswer
    compared    \* compared[r]: the answer run r was graded against, or NoAnswer

trialVars == <<sealed, bound, compared>>

TrialInit ==
    /\ sealed = NoAnswer
    /\ bound = [r \in TrialRuns |-> NoAnswer]
    /\ compared = [r \in TrialRuns |-> NoAnswer]

Seal(a) ==
    /\ sealed = NoAnswer
    /\ sealed' = a
    /\ UNCHANGED <<bound, compared>>

Commit(r) ==
    /\ sealed # NoAnswer
    /\ bound[r] = NoAnswer
    /\ bound' = [bound EXCEPT ![r] = sealed]
    /\ UNCHANGED <<sealed, compared>>

Compare(r) ==
    /\ bound[r] # NoAnswer
    /\ compared[r] = NoAnswer
    /\ compared' = [compared EXCEPT ![r] = bound[r]]
    /\ UNCHANGED <<sealed, bound>>

TrialNext ==
    \/ \E a \in TrialAnswers : Seal(a)
    \/ \E r \in TrialRuns : Commit(r) \/ Compare(r)

TrialSpec == TrialInit /\ [][TrialNext]_trialVars

=============================================================================
