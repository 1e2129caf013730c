--------------------------------- MODULE Desk ---------------------------------
(***************************************************************************)
(* The parts around a hire that share no state with each other: the grid        *)
(* keeper, the leash, the session proof, the wallets of the fleet, the rate      *)
(* limits, the registry of listings, the range keeper, the yield scout and the   *)
(* graders.  A behaviour is one of a single part, all others resting.          *)
(***************************************************************************)
EXTENDS GridKeeper, Leash, SessionProof, Fleet, RateLimit, Registry, Rubrics,
        Grading

CONSTANT Parts      \* the parts looked at

VARIABLE part       \* the one whose behaviour this is

deskVars == <<part, gridVars, leashVars, proofVars, fleetVars, limitVars, registryVars, rangeVars,
              scoutVars, gradeVars>>

DeskInit ==
    /\ part \in Parts
    /\ GridInit /\ LeashInit /\ SessionProofInit /\ FleetInit /\ LimitInit /\ RegistryInit
    /\ RangeInit /\ ScoutInit /\ GradingInit
    /\ part # "grading" => ~ careful

GridPart ==
    /\ part = "grid" /\ GridNext
    /\ UNCHANGED <<part, leashVars, proofVars, fleetVars, limitVars, registryVars, rangeVars,
                   scoutVars, gradeVars>>

LeashPart ==
    /\ part = "leash" /\ LeashNext
    /\ UNCHANGED <<part, gridVars, proofVars, fleetVars, limitVars, registryVars, rangeVars,
                   scoutVars, gradeVars>>

ProofPart ==
    /\ part = "proof" /\ SessionProofNext
    /\ UNCHANGED <<part, gridVars, leashVars, fleetVars, limitVars, registryVars, rangeVars,
                   scoutVars, gradeVars>>

FleetPart ==
    /\ part = "fleet" /\ FleetNext
    /\ UNCHANGED <<part, gridVars, leashVars, proofVars, limitVars, registryVars, rangeVars,
                   scoutVars, gradeVars>>

LimitPart ==
    /\ part = "limit" /\ LimitNext
    /\ UNCHANGED <<part, gridVars, leashVars, proofVars, fleetVars, registryVars, rangeVars,
                   scoutVars, gradeVars>>

RegistryPart ==
    /\ part = "registry" /\ RegistryNext
    /\ UNCHANGED <<part, gridVars, leashVars, proofVars, fleetVars, limitVars, rangeVars,
                   scoutVars, gradeVars>>

RangePart ==
    /\ part = "range" /\ RangeNext
    /\ UNCHANGED <<part, gridVars, leashVars, proofVars, fleetVars, limitVars, registryVars,
                   scoutVars, gradeVars>>

ScoutPart ==
    /\ part = "scout" /\ ScoutNext
    /\ UNCHANGED <<part, gridVars, leashVars, proofVars, fleetVars, limitVars, registryVars,
                   rangeVars, gradeVars>>

GradingPart ==
    /\ part = "grading" /\ GradingNext
    /\ UNCHANGED <<part, gridVars, leashVars, proofVars, fleetVars, limitVars, registryVars,
                   rangeVars, scoutVars>>

DeskNext ==
    \/ GridPart \/ LeashPart \/ ProofPart \/ FleetPart \/ LimitPart \/ RegistryPart
    \/ RangePart \/ ScoutPart \/ GradingPart

DeskSpec == DeskInit /\ [][DeskNext]_deskVars

=============================================================================
