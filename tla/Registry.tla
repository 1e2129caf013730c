------------------------------- MODULE Registry -------------------------------
(***************************************************************************)
(* Claiming an agent: a challenge, the owner's signature, a session, and the   *)
(* listing the owner submits.  Challenges and sessions are in memory, listings  *)
(* in one document that every submit reads, awaits and writes whole.          *)
(*                                                                          *)
(* A definition whose comment starts with "Slip:" is not part of the system. *)
(***************************************************************************)
EXTENDS Absent, Integers, Sequences, FiniteSets, Functions

CONSTANTS
    Agents,             \* the identities
    Owners,             \* the wallets
    FirstOwner,         \* the wallet that owns each identity at first
    Sold,               \* the identities that are sold, once each
    MaxNonces,          \* a bound on the challenges
    Handlers,           \* the requests in flight
    ChallengeTtl,       \* CHALLENGE_TTL_MS
    SessionTtl,         \* SESSION_TTL_MS
    RegistryEnd,        \* a bound on time
    MaxSaves            \* a bound on the writes of the document

ASSUME RegistryAssumption ==
    /\ FirstOwner \in [Agents -> Owners]
    /\ MaxNonces \in Nat
    /\ ChallengeTtl \in Nat /\ SessionTtl \in Nat \ {0}
    /\ None \notin [by : Owners, checked : Nat]

VARIABLES
    owner,          \* the owner of each identity on chain
    reported,       \* the owners the stored discovery report has named, per identity
    challenges,     \* ownershipChallenges, by nonce: the order they were issued in
    claims,         \* verifiedSessions, by nonce
    listings,       \* agent-listings.json
    saves,          \* how often it was written
    task,           \* the requests
    moment          \* the time

registryVars == <<owner, reported, challenges, claims, listings, saves, task, moment>>

Nonces == 1 .. MaxNonces

FreeHandler == [at |-> "free", nonce |-> None, seen |-> None, by |-> None, copy |-> None, saves |-> 0,
         checked |-> 0]

(* The owners at first are reported.                                         *)
RegistryInit ==
    /\ owner = FirstOwner
    /\ reported = [a \in Agents |-> <<[who |-> owner[a], when |-> 0]>>]
    /\ challenges = <<>>
    /\ claims = [n \in Nonces |-> None]
    /\ listings = [a \in Agents |-> None]
    /\ saves = 0
    /\ task = [h \in Handlers |-> FreeHandler]
    /\ moment = 0

Reported(a) == reported[a][Len(reported[a])].who

(* -------------------------------- outside -------------------------------- *)

Later ==
    /\ moment < RegistryEnd
    /\ moment' = moment + 1
    /\ UNCHANGED <<owner, reported, challenges, claims, listings, saves, task>>

Transfer(a, to) ==
    /\ a \in Sold
    /\ owner[a] = FirstOwner[a]
    /\ to # owner[a]
    /\ owner' = [owner EXCEPT ![a] = to]
    /\ UNCHANGED <<reported, challenges, claims, listings, saves, task, moment>>

Discover(a) ==
    /\ Reported(a) # owner[a]
    /\ reported' = [reported EXCEPT ![a] = Append(@, [who |-> owner[a], when |-> moment])]
    /\ UNCHANGED <<owner, challenges, claims, listings, saves, task, moment>>

(* The server starts again: what was in memory is gone.                       *)
ServerRestart ==
    /\ claims' = [n \in Nonces |-> None]
    /\ challenges' = [n \in DOMAIN challenges |-> [challenges[n] EXCEPT !.consumed = TRUE]]
    /\ task' = [h \in Handlers |-> FreeHandler]
    /\ \E h \in Handlers : task[h] # FreeHandler
    /\ UNCHANGED <<owner, reported, listings, saves, moment>>

(* ------------------------------- challenge ------------------------------- *)

(* Anybody may ask to be challenged for any agent that was discovered.         *)
IssueChallenge(a, address) ==
    /\ Len(challenges) < MaxNonces
    /\ challenges' = Append(challenges, [identity |-> a, address |-> address,
                                         expires |-> moment + ChallengeTtl, consumed |-> FALSE])
    /\ UNCHANGED <<owner, reported, claims, listings, saves, task, moment>>

(* --------------------------------- verify -------------------------------- *)

Valid(challenge) == ~ challenge.consumed /\ challenge.expires > moment

(* The handler holds the challenge it looked up through its awaits.            *)
VerifyStart(h, n) ==
    /\ task[h].at = "free"
    /\ Valid(challenges[n])
    /\ task' = [task EXCEPT ![h] = [FreeHandler EXCEPT !.at = "report", !.nonce = n]]
    /\ UNCHANGED <<owner, reported, challenges, claims, listings, saves, moment>>

(* The owner comes from the report, the challenge's age is looked at again; the  *)
(* object the handler holds still says that it is unused.                     *)
VerifyReport(h) ==
    LET challenge == challenges[task[h].nonce]
    IN  /\ task[h].at = "report"
        /\ task' = [task EXCEPT ![h].at = "recover", ![h].checked = moment,
                ![h].by = IF challenge.expires > moment THEN Reported(challenge.identity) ELSE None]
        /\ UNCHANGED <<owner, reported, challenges, claims, listings, saves, moment>>

OwnerVerified(h, signer) ==
    /\ task[h].by # None
    /\ signer = challenges[task[h].nonce].address
    /\ signer = task[h].by

(* The signer is recovered: the wallet the message names, or somebody else.     *)
VerifyEnd(h) ==
    /\ task[h].at = "recover"
    /\ \E signer \in {challenges[task[h].nonce].address, None} :
        claims' = IF OwnerVerified(h, signer)
                   THEN [claims EXCEPT ![task[h].nonce] =
                            [identity |-> challenges[task[h].nonce].identity, owner |-> signer,
                             expires |-> task[h].checked + SessionTtl]]
                   ELSE claims
    /\ challenges' = [challenges EXCEPT ![task[h].nonce].consumed = TRUE]
    /\ task' = [task EXCEPT ![h] = FreeHandler]
    /\ UNCHANGED <<owner, reported, listings, saves, moment>>

(* --------------------------------- submit -------------------------------- *)

(* Slip: a session does not end.                                             *)
ActiveEver(s) == s # None

LiveProof(s) == s # None /\ s.expires > moment

(* The session is tested before the document is read.                         *)
SubmitStart(h, n) ==
    /\ task[h].at = "free"
    /\ LiveProof(claims[n])
    /\ task' = [task EXCEPT ![h] = [FreeHandler EXCEPT !.at = "load", !.seen = claims[n],
                                                !.checked = moment]]
    /\ UNCHANGED <<owner, reported, challenges, claims, listings, saves, moment>>

SubmitLoad(h) ==
    /\ task[h].at = "load"
    /\ task' = [task EXCEPT ![h].at = "save", ![h].copy = listings, ![h].saves = saves]
    /\ UNCHANGED <<owner, reported, challenges, claims, listings, saves, moment>>

(* Slip: whoever has a session may update.                                    *)
MayUpdateAny(existing, claim) == TRUE

(* "Only the verified owner may update this listing": the one who claimed it.    *)
MayUpdate(existing, claim) == existing # None => existing.by = claim.owner

SubmitSave(h) ==
    LET claim == task[h].seen
    IN  /\ task[h].at = "save"
        /\ saves < MaxSaves
        /\ IF MayUpdate(task[h].copy[claim.identity], claim)
           THEN /\ listings' = [task[h].copy EXCEPT ![claim.identity] =
                        [by |-> claim.owner, checked |-> task[h].checked]]
                /\ saves' = saves + 1
           ELSE UNCHANGED <<listings, saves>>
        /\ task' = [task EXCEPT ![h] = FreeHandler]
        /\ UNCHANGED <<owner, reported, challenges, claims, moment>>

RegistryNext ==
    \/ Later \/ ServerRestart
    \/ \E a \in Agents : Discover(a) \/ \E u \in Owners : Transfer(a, u) \/ IssueChallenge(a, u)
    \/ \E h \in Handlers :
        \/ VerifyReport(h) \/ VerifyEnd(h) \/ SubmitLoad(h) \/ SubmitSave(h)
        \/ \E n \in DOMAIN challenges : VerifyStart(h, n) \/ SubmitStart(h, n)

----------------------------------------------------------------------------
(* Whatever was slow, answered twice or overwritten: who a listing says claimed  *)
(* it asked to be challenged for that agent and was reported as its owner less    *)
(* than the life of a session before the submit was let in (verifyOwnership,     *)
(* POST /api/list/submit).                                                    *)
ClaimProven ==
    \A a \in Agents : listings[a] # None =>
        /\ \E n \in DOMAIN challenges :
            challenges[n].identity = a /\ challenges[n].address = listings[a].by
        /\ \E k \in DOMAIN reported[a] :
            /\ reported[a][k].who = listings[a].by
            /\ k < Len(reported[a]) =>
                listings[a].checked < reported[a][k + 1].when + SessionTtl

(* A listing passes to another owner, or is lost, only by a submit that had read *)
(* the document before it was last written; two submits one after the other      *)
(* keep each other's entries.                                                *)
KeptByOrder ==
    [][\A a \in Agents :
        listings[a] # None /\ (listings'[a] = None \/ listings'[a].by # listings[a].by) =>
            \E h \in Handlers : task[h].at = "save" /\ task'[h] = FreeHandler /\ task[h].saves < saves
      ]_registryVars

=============================================================================
