----------------------------- MODULE RegistryProofs -----------------------------
(***************************************************************************)
(* Theorems about Registry, for any agents, owners and requests in flight.      *)
(***************************************************************************)
EXTENDS Desk, TLAPS

Challenge == [identity : Agents, address : Owners, expires : Nat, consumed : BOOLEAN]

Document == [Agents -> {None} \cup [by : Owners, checked : Nat]]

RegistryTypes ==
    /\ moment \in Nat /\ saves \in Nat
    /\ owner \in [Agents -> Owners]
    /\ reported \in [Agents -> Seq([who : Owners, when : Nat])]
    /\ \A a \in Agents : reported[a] # <<>>
    /\ challenges \in Seq(Challenge) /\ Len(challenges) <= MaxNonces
    /\ DOMAIN claims = Nonces
    /\ DOMAIN task = Handlers
    /\ \A h \in Handlers :
        DOMAIN task[h] = {"at", "nonce", "seen", "by", "copy", "saves", "checked"}

Asked(a, w) == \E n \in DOMAIN challenges : challenges[n].identity = a /\ challenges[n].address = w

(* w was reported as the owner of a until t, and the life of a session longer.    *)
OwnedUntil(a, w, t) ==
    \E k \in DOMAIN reported[a] :
        /\ reported[a][k].who = w
        /\ k < Len(reported[a]) => t < reported[a][k + 1].when + SessionTtl

(* What lets w submit a listing of a that was let in at t.                       *)
Backed(a, w, t) == w \in Owners /\ Asked(a, w) /\ OwnedUntil(a, w, t) /\ t < moment + SessionTtl

DocumentOK(d) ==
    /\ d \in Document
    /\ \A a \in Agents : d[a] # None => Backed(a, d[a].by, d[a].checked)

ClaimOK(c) ==
    c # None => c.identity \in Agents /\ c.expires \in Nat /\ Backed(c.identity, c.owner, c.expires - 1)

VerifierOK(t) ==
    /\ t.at \in {"report", "recover"} => t.nonce \in DOMAIN challenges
    /\ t.at = "recover" =>
        /\ t.checked \in Nat
        /\ t.by # None /\ t.by = challenges[t.nonce].address =>
            Backed(challenges[t.nonce].identity, t.by, t.checked + SessionTtl - 1)

SubmitterOK(t) ==
    /\ t.at \in {"load", "save"} =>
        t.seen.identity \in Agents /\ t.checked \in Nat /\ Backed(t.seen.identity, t.seen.owner, t.checked)
    /\ t.at = "save" =>
        DocumentOK(t.copy) /\ t.saves \in Nat /\ t.saves <= saves /\ (t.saves = saves => t.copy = listings)

RegistryInv ==
    /\ RegistryTypes
    /\ DocumentOK(listings)
    /\ \A n \in Nonces : ClaimOK(claims[n])
    /\ \A h \in Handlers : VerifierOK(task[h]) /\ SubmitterOK(task[h])

LEMMA Lives == SessionTtl \in Nat /\ SessionTtl > 0
  BY RegistryAssumption

LEMMA SoonerHolds ==
    ASSUME NEW t \in Int, NEW m \in Nat, NEW n \in Nat, m <= n, t < m + SessionTtl
    PROVE  t < n + SessionTtl
  BY Lives

LEMMA NextEntry ==
    ASSUME NEW S, NEW q \in Seq(S), NEW k \in DOMAIN q, k < Len(q)
    PROVE  k + 1 \in DOMAIN q /\ q[k + 1] \in S
  OBVIOUS

LEMMA NewEntry ==
    ASSUME NEW S, NEW q \in Seq(S), NEW e \in S
    PROVE  Append(q, e) \in Seq(S) /\ Append(q, e) # <<>>
  <1>1. Append(q, e) \in Seq(S) /\ Len(Append(q, e)) = Len(q) + 1 /\ Len(q) \in Nat
    OBVIOUS
  <1>2. Len(Append(q, e)) # 0
    BY <1>1
  <1> QED
    BY <1>1, <1>2

LEMMA FreeShape == DOMAIN FreeHandler = {"at", "nonce", "seen", "by", "copy", "saves", "checked"}
  BY DEF FreeHandler

LEMMA RegistryInitOK == RegistryInit => RegistryInv
  <1> SUFFICES ASSUME RegistryInit PROVE RegistryInv
    OBVIOUS
  <1> USE RegistryAssumption DEF RegistryInit
  <1>1. \A a \in Agents : reported[a] = <<[who |-> FirstOwner[a], when |-> 0]>>
    OBVIOUS
  <1>2. \A a \in Agents : reported[a] \in Seq([who : Owners, when : Nat]) /\ reported[a] # <<>>
    BY <1>1
  <1>3. RegistryTypes
    BY <1>2, FreeShape DEF RegistryTypes
  <1>4. DocumentOK(listings)
    BY DEF DocumentOK, Document
  <1>5. /\ \A n \in Nonces : claims[n] = None
        /\ \A h \in Handlers : task[h] = FreeHandler
    OBVIOUS
  <1>6. FreeHandler.at = "free"
    BY DEF FreeHandler
  <1> QED
    BY <1>3, <1>4, <1>5, <1>6 DEF RegistryInv, ClaimOK, VerifierOK, SubmitterOK

(* No step takes back what backs a claim.                                     *)
Keeps ==
    /\ \A a \in Agents : \A w : \A t \in Int : Backed(a, w, t) => Backed(a, w, t)'
    /\ \A n \in DOMAIN challenges :
        /\ n \in DOMAIN challenges'
        /\ challenges'[n].identity = challenges[n].identity
        /\ challenges'[n].address = challenges[n].address

ChallengesKept ==
    /\ challenges' \in Seq(Challenge) /\ Len(challenges') <= MaxNonces
    /\ \A n \in DOMAIN challenges :
        /\ n \in DOMAIN challenges'
        /\ challenges'[n].identity = challenges[n].identity
        /\ challenges'[n].address = challenges[n].address

(* What one more member makes of a list.                                      *)
LEMMA OneMore ==
    ASSUME NEW T, NEW s \in Seq(T), NEW e
    PROVE  /\ Len(Append(s, e)) = Len(s) + 1 /\ DOMAIN s \subseteq DOMAIN Append(s, e)
           /\ \A j \in DOMAIN s : Append(s, e)[j] = s[j]
           /\ Append(s, e)[Len(s) + 1] = e
  OBVIOUS

LEMMA BackedKept ==
    ASSUME RegistryTypes, ChallengesKept, moment' \in Nat, moment' >= moment,
           \/ reported' = reported
           \/ \E b \in Agents, w \in Owners :
                reported' = [reported EXCEPT ![b] = Append(@, [who |-> w, when |-> moment])]
    PROVE  Keeps
  <1> SUFFICES ASSUME NEW a \in Agents, NEW w, NEW t \in Int, Backed(a, w, t)
               PROVE  Backed(a, w, t)'
    BY DEF Keeps, ChallengesKept
  <1> USE Lives
  <1>1. Asked(a, w)'
    BY DEF Asked, ChallengesKept, Backed
  <1>2. t < moment' + SessionTtl
    <2>1. t < moment + SessionTtl /\ moment \in Nat
      BY DEF Backed, RegistryTypes
    <2>2. moment' \in Nat /\ moment <= moment'
      BY DEF RegistryTypes
    <2> QED
      BY <2>1, <2>2, SoonerHolds
  <1>3. PICK k \in DOMAIN reported[a] :
            /\ reported[a][k].who = w
            /\ k < Len(reported[a]) => t < reported[a][k + 1].when + SessionTtl
    BY DEF Backed, OwnedUntil
  <1>4. OwnedUntil(a, w, t)'
    <2>1. CASE reported'[a] = reported[a]
      BY <1>3, <2>1 DEF OwnedUntil
    <2>2. ASSUME NEW e, e.when = moment, reported'[a] = Append(reported[a], e)
          PROVE  OwnedUntil(a, w, t)'
      <3>1. reported[a] \in Seq([who : Owners, when : Nat])
        BY DEF RegistryTypes
      <3>2. /\ Len(reported'[a]) = Len(reported[a]) + 1
            /\ k \in DOMAIN reported'[a] /\ reported'[a][k] = reported[a][k]
            /\ \A j \in DOMAIN reported[a] : reported'[a][j] = reported[a][j]
            /\ reported'[a][Len(reported[a]) + 1] = e
        <4>1. PICK s, r : s = reported[a] /\ r = reported'[a]
          OBVIOUS
        <4>2. s \in Seq([who : Owners, when : Nat]) /\ r = Append(s, e)
          BY <2>2, <3>1, <4>1
        <4>3. /\ Len(r) = Len(s) + 1 /\ DOMAIN s \subseteq DOMAIN r
              /\ \A j \in DOMAIN s : r[j] = s[j]
              /\ r[Len(s) + 1] = e
          BY <4>2, OneMore
        <4>4. k \in DOMAIN s
          BY <4>1
        <4> QED
          BY <4>1, <4>3, <4>4
      <3>3. CASE k < Len(reported[a])
        <4>1. k + 1 \in DOMAIN reported[a]
          BY <3>1, <3>3
        <4> QED
          BY <1>3, <3>2, <3>3, <4>1 DEF OwnedUntil
      <3>4. CASE k = Len(reported[a])
        BY <1>3, <2>2, <3>2, <3>4 DEF OwnedUntil, Backed
      <3> QED
        BY <3>1, <3>3, <3>4
    <2>3. \/ reported'[a] = reported[a]
          \/ \E u \in Owners : reported'[a] = Append(reported[a], [who |-> u, when |-> moment])
      BY DEF RegistryTypes
    <2>4. ASSUME NEW u \in Owners, reported'[a] = Append(reported[a], [who |-> u, when |-> moment])
          PROVE  OwnedUntil(a, w, t)'
      <3>1. PICK e : e = [who |-> u, when |-> moment]
        OBVIOUS
      <3> QED
        BY <2>2, <2>4, <3>1
    <2> QED
      BY <2>1, <2>3, <2>4
  <1> QED
    BY <1>1, <1>2, <1>4 DEF Backed

LEMMA Weakened ==
    ASSUME RegistryTypes, NEW a \in Agents, NEW w, NEW t \in Int, NEW s \in Int, s <= t,
           Backed(a, w, t)
    PROVE  Backed(a, w, s)
  <1> USE Lives
  <1>1. PICK k \in DOMAIN reported[a] :
            /\ reported[a][k].who = w
            /\ k < Len(reported[a]) => t < reported[a][k + 1].when + SessionTtl
    BY DEF Backed, OwnedUntil
  <1>2. k < Len(reported[a]) => reported[a][k + 1].when \in Nat
    <2>1. reported[a] \in Seq([who : Owners, when : Nat])
      BY DEF RegistryTypes
    <2>2. k < Len(reported[a]) => reported[a][k + 1] \in [who : Owners, when : Nat]
      BY <2>1, NextEntry
    <2> QED
      BY <2>2
  <1>3. k < Len(reported[a]) => s < reported[a][k + 1].when + SessionTtl
    BY <1>1, <1>2
  <1>4. s < moment + SessionTtl
    BY DEF Backed, RegistryTypes
  <1> QED
    BY <1>1, <1>3, <1>4 DEF Backed, OwnedUntil

LEMMA ChallengeOf ==
    ASSUME RegistryTypes, NEW n \in DOMAIN challenges
    PROVE  challenges[n] \in Challenge /\ n \in Nonces
  BY RegistryAssumption DEF RegistryTypes, Nonces

LEMMA DocumentKept ==
    ASSUME Keeps, NEW d, DocumentOK(d)
    PROVE  DocumentOK(d)'
  <1>1. \A a \in Agents : d[a] # None => d[a].checked \in Int
    BY DEF DocumentOK, Document
  <1> QED
    BY <1>1 DEF DocumentOK, Keeps

LEMMA ClaimKept ==
    ASSUME Keeps, NEW c, ClaimOK(c)
    PROVE  ClaimOK(c)'
  BY DEF ClaimOK, Keeps

LEMMA VerifierKept ==
    ASSUME RegistryTypes, Keeps, NEW t, VerifierOK(t)
    PROVE  VerifierOK(t)'
  <1>1. \A n \in DOMAIN challenges : challenges[n].identity \in Agents
    BY ChallengeOf DEF Challenge
  <1>2. t.checked \in Nat => t.checked + SessionTtl - 1 \in Int
    BY Lives
  <1> QED
    BY <1>1, <1>2 DEF VerifierOK, Keeps

LEMMA SubmitterKept ==
    ASSUME RegistryTypes, Keeps, NEW t, SubmitterOK(t),
           \/ saves' = saves /\ listings' = listings
           \/ saves' = saves + 1
    PROVE  SubmitterOK(t)'
  <1>1. DocumentOK(t.copy) => DocumentOK(t.copy)'
    <2>1. PICK d : d = t.copy
      OBVIOUS
    <2> QED
      BY <2>1, DocumentKept
  <1>2. t.at = "save" => t.saves <= saves' /\ (t.saves = saves' => t.copy = listings')
    BY DEF SubmitterOK, RegistryTypes
  <1> QED
    BY <1>1, <1>2 DEF SubmitterOK, Keeps

(* A step of one handler that writes no document: what it knows after is all      *)
(* there is to show.                                                         *)
LEMMA HandlerStep ==
    ASSUME RegistryInv, RegistryTypes', Keeps, NEW h \in Handlers, NEW new,
           task' = [task EXCEPT ![h] = new], UNCHANGED <<saves, listings>>,
           VerifierOK(new)', SubmitterOK(new)', \A n \in Nonces : ClaimOK(claims[n])'
    PROVE  RegistryInv'
  <1> SUFFICES \A g \in Handlers : VerifierOK(task[g])' /\ SubmitterOK(task[g])'
    <2>1. DocumentOK(listings)'
      <3>1. PICK d : d = listings
        OBVIOUS
      <3>2. DocumentOK(d)'
        BY <3>1, DocumentKept DEF RegistryInv
      <3> QED
        BY <3>1, <3>2
    <2>2. DOMAIN claims' = Nonces
      BY DEF RegistryTypes
    <2> QED
      BY <2>1 DEF RegistryInv
  <1> TAKE g \in Handlers
  <1>1. CASE g = h
    BY <1>1 DEF RegistryInv, RegistryTypes
  <1>2. CASE g # h
    <2>1. PICK t : t = task[g]
      OBVIOUS
    <2>2. VerifierOK(t)' /\ SubmitterOK(t)'
      BY <2>1, VerifierKept, SubmitterKept DEF RegistryInv
    <2> QED
      BY <1>2, <2>1, <2>2 DEF RegistryInv, RegistryTypes
  <1> QED
    BY <1>1, <1>2

LEMMA SameKeeps ==
    ASSUME RegistryTypes, UNCHANGED <<reported, challenges, moment>>
    PROVE  Keeps
  <1>1. ChallengesKept
    BY DEF ChallengesKept, RegistryTypes
  <1>2. moment' \in Nat /\ moment' >= moment
    BY DEF RegistryTypes
  <1> QED
    BY <1>1, <1>2, BackedKept

(* A step that changes what one handler knows and nothing else.                 *)
LEMMA QuietStep ==
    ASSUME RegistryInv, NEW h \in Handlers, NEW new, DOMAIN new = DOMAIN FreeHandler,
           task' = [task EXCEPT ![h] = new],
           UNCHANGED <<owner, reported, challenges, claims, listings, saves, moment>>,
           VerifierOK(new)', SubmitterOK(new)'
    PROVE  RegistryInv'
  <1>1. RegistryTypes
    BY DEF RegistryInv
  <1>2. Keeps
    BY <1>1, SameKeeps
  <1>3. RegistryTypes'
    BY <1>1, FreeShape DEF RegistryTypes
  <1>4. ASSUME NEW n \in Nonces PROVE ClaimOK(claims[n])'
    <2>1. PICK c : c = claims[n]
      OBVIOUS
    <2>2. ClaimOK(c)'
      BY <1>2, <2>1, ClaimKept DEF RegistryInv
    <2> QED
      BY <2>1, <2>2
  <1> QED
    BY <1>2, <1>3, <1>4, HandlerStep

(* Nothing but the world outside, or the challenges, changes.                   *)
LEMMA OutsideKeeps ==
    ASSUME RegistryInv, RegistryTypes', Keeps, UNCHANGED <<claims, listings, saves, task>>
    PROVE  RegistryInv'
  <1>1. DocumentOK(listings)'
    <2>1. PICK d : d = listings
      OBVIOUS
    <2>2. DocumentOK(d)'
      BY <2>1, DocumentKept DEF RegistryInv
    <2> QED
      BY <2>1, <2>2
  <1>2. ASSUME NEW n \in Nonces PROVE ClaimOK(claims[n])'
    <2>1. PICK c : c = claims[n]
      OBVIOUS
    <2>2. ClaimOK(c)'
      BY <2>1, ClaimKept DEF RegistryInv
    <2> QED
      BY <2>1, <2>2
  <1>3. ASSUME NEW g \in Handlers PROVE VerifierOK(task[g])' /\ SubmitterOK(task[g])'
    <2>1. PICK t : t = task[g]
      OBVIOUS
    <2>2. VerifierOK(t)' /\ SubmitterOK(t)'
      BY <2>1, VerifierKept, SubmitterKept DEF RegistryInv
    <2> QED
      BY <2>1, <2>2
  <1> QED
    BY <1>1, <1>2, <1>3 DEF RegistryInv

LEMMA OutsideStep ==
    ASSUME RegistryInv,
           \/ Later
           \/ \E a \in Agents : Discover(a) \/ \E u \in Owners : Transfer(a, u) \/ IssueChallenge(a, u)
    PROVE  RegistryInv'
  <1>1. RegistryTypes
    BY DEF RegistryInv
  <1>2. UNCHANGED <<claims, listings, saves, task>>
    BY DEF Later, Discover, Transfer, IssueChallenge
  <1>3. moment' \in Nat /\ moment' >= moment
    <2>1. CASE Later
      BY <1>1, <2>1 DEF Later, RegistryTypes
    <2>2. CASE ~ Later
      <3>1. moment' = moment
        BY <2>2 DEF Discover, Transfer, IssueChallenge
      <3> QED
        BY <1>1, <3>1 DEF RegistryTypes
    <2> QED
      BY <2>1, <2>2
  <1>4. ChallengesKept
    <2>1. ASSUME NEW a \in Agents, NEW u \in Owners, IssueChallenge(a, u) PROVE ChallengesKept
      <3> DEFINE c == [identity |-> a, address |-> u, expires |-> moment + ChallengeTtl,
                       consumed |-> FALSE]
      <3>1. c \in Challenge
        BY <1>1, RegistryAssumption DEF RegistryTypes, Challenge
      <3>2. challenges' = Append(challenges, c) /\ Len(challenges) < MaxNonces
        BY <2>1 DEF IssueChallenge
      <3> HIDE DEF c
      <3>3. challenges \in Seq(Challenge)
        BY <1>1 DEF RegistryTypes
      <3> QED
        BY <3>1, <3>2, <3>3, RegistryAssumption DEF ChallengesKept
    <2>2. CASE challenges' = challenges
      BY <1>1, <2>2 DEF ChallengesKept, RegistryTypes
    <2> QED
      BY <2>1, <2>2 DEF Later, Discover, Transfer
  <1>5. \/ reported' = reported
        \/ \E b \in Agents, w \in Owners :
                reported' = [reported EXCEPT ![b] = Append(@, [who |-> w, when |-> moment])]
    BY <1>1 DEF Later, Discover, Transfer, IssueChallenge, RegistryTypes
  <1>6. /\ reported' \in [Agents -> Seq([who : Owners, when : Nat])]
        /\ \A a \in Agents : reported'[a] # <<>>
    <2>1. ASSUME NEW b \in Agents, NEW w \in Owners,
                 reported' = [reported EXCEPT ![b] = Append(@, [who |-> w, when |-> moment])]
          PROVE  /\ reported' \in [Agents -> Seq([who : Owners, when : Nat])]
                 /\ \A a \in Agents : reported'[a] # <<>>
      <3>1. PICK e : e = [who |-> w, when |-> moment]
        OBVIOUS
      <3>2. e \in [who : Owners, when : Nat]
        BY <1>1, <3>1 DEF RegistryTypes
      <3>3. Append(reported[b], e) \in Seq([who : Owners, when : Nat])
            /\ Append(reported[b], e) # <<>>
        <4>1. reported[b] \in Seq([who : Owners, when : Nat])
          BY <1>1 DEF RegistryTypes
        <4> QED
          BY <3>2, <4>1, NewEntry
      <3> QED
        BY <1>1, <2>1, <3>1, <3>3 DEF RegistryTypes
    <2>2. CASE reported' = reported
      BY <1>1, <2>2 DEF RegistryTypes
    <2> QED
      BY <1>5, <2>1, <2>2
  <1>7. owner' \in [Agents -> Owners]
    BY <1>1 DEF Later, Discover, Transfer, IssueChallenge, RegistryTypes
  <1>8. RegistryTypes'
    BY <1>1, <1>2, <1>3, <1>4, <1>6, <1>7 DEF RegistryTypes, ChallengesKept
  <1> QED
    BY <1>1, <1>2, <1>3, <1>4, <1>5, <1>8, BackedKept, OutsideKeeps

(* After a restart nothing in memory is left to be wrong.                       *)
LEMMA RestartStep == RegistryInv /\ ServerRestart => RegistryInv'
  <1> SUFFICES ASSUME RegistryInv, ServerRestart PROVE RegistryInv'
    OBVIOUS
  <1>1. RegistryTypes
    BY DEF RegistryInv
  <1>2. ChallengesKept
    <2>1. \A n \in DOMAIN challenges : [challenges[n] EXCEPT !.consumed = TRUE] \in Challenge
      BY <1>1, ChallengeOf DEF Challenge
    <2>2. challenges' \in [1 .. Len(challenges) -> Challenge] /\ Len(challenges) \in Nat
      BY <1>1, <2>1 DEF ServerRestart, RegistryTypes
    <2>3. challenges' \in Seq(Challenge) /\ Len(challenges') = Len(challenges)
      BY <2>2
    <2> QED
      BY <1>1, <2>3, ChallengeOf DEF ServerRestart, ChallengesKept, RegistryTypes, Challenge
  <1>3. Keeps
    <2>1. moment' \in Nat /\ moment' >= moment /\ reported' = reported
      BY <1>1 DEF ServerRestart, RegistryTypes
    <2> QED
      BY <1>1, <1>2, <2>1, BackedKept
  <1>4. RegistryTypes'
    BY <1>1, <1>2, FreeShape DEF ServerRestart, RegistryTypes, ChallengesKept
  <1>5. DocumentOK(listings)'
    <2>1. PICK d : d = listings
      OBVIOUS
    <2>2. DocumentOK(d)'
      BY <1>3, <2>1, DocumentKept DEF RegistryInv
    <2> QED
      BY <2>1, <2>2 DEF ServerRestart
  <1>6. /\ \A n \in Nonces : claims'[n] = None
        /\ \A h \in Handlers : task'[h] = FreeHandler /\ FreeHandler.at = "free"
    BY DEF ServerRestart, FreeHandler
  <1> QED
    BY <1>4, <1>5, <1>6 DEF RegistryInv, ClaimOK, VerifierOK, SubmitterOK

LEMMA VerifyStartStep ==
    ASSUME RegistryInv, NEW h \in Handlers, NEW n \in DOMAIN challenges, VerifyStart(h, n)
    PROVE  RegistryInv'
  <1>1. PICK new : new = [FreeHandler EXCEPT !.at = "report", !.nonce = n]
    OBVIOUS
  <1>2. new.at = "report" /\ new.nonce = n /\ DOMAIN new = DOMAIN FreeHandler
    BY <1>1, FreeShape
  <1>3. task' = [task EXCEPT ![h] = new]
    BY <1>1 DEF VerifyStart
  <1>4. UNCHANGED <<owner, reported, challenges, claims, listings, saves, moment>>
    BY DEF VerifyStart
  <1>5. VerifierOK(new)' /\ SubmitterOK(new)'
    BY <1>2, <1>4 DEF VerifierOK, SubmitterOK
  <1> QED
    BY <1>2, <1>3, <1>4, <1>5, QuietStep

(* The owner is read now: whoever is reported later, is so from now on.           *)
LEMMA VerifyReportStep ==
    ASSUME RegistryInv, NEW h \in Handlers, VerifyReport(h)
    PROVE  RegistryInv'
  <1>0. RegistryTypes /\ DOMAIN task[h] = DOMAIN FreeHandler
    BY FreeShape DEF RegistryInv, RegistryTypes
  <1>1. PICK new : new = [task[h] EXCEPT !.at = "recover", !.checked = moment,
            !.by = IF challenges[task[h].nonce].expires > moment
                   THEN Reported(challenges[task[h].nonce].identity) ELSE None]
    OBVIOUS
  <1>2. task' = [task EXCEPT ![h] = new]
    BY <1>0, <1>1 DEF VerifyReport, RegistryTypes
  <1>3. UNCHANGED <<owner, reported, challenges, claims, listings, saves, moment>>
    BY DEF VerifyReport
  <1>4. /\ new.at = "recover" /\ new.checked = moment /\ new.nonce = task[h].nonce
        /\ DOMAIN new = DOMAIN FreeHandler
        /\ new.by \in {Reported(challenges[task[h].nonce].identity), None}
    BY <1>0, <1>1, FreeShape
  <1>5. task[h].nonce \in DOMAIN challenges
    BY DEF VerifyReport, RegistryInv, VerifierOK
  <1>6. ASSUME new.by # None, new.by = challenges[new.nonce].address
        PROVE  Backed(challenges[new.nonce].identity, new.by, new.checked + SessionTtl - 1)
    <2>1. PICK a, w : a = challenges[new.nonce].identity /\ w = new.by
      OBVIOUS
    <2>2. a \in Agents /\ w \in Owners
      BY <1>0, <1>4, <1>5, <1>6, <2>1, ChallengeOf DEF Challenge
    <2>3. Asked(a, w)
      BY <1>4, <1>5, <1>6, <2>1 DEF Asked
    <2>4. w = reported[a][Len(reported[a])]. who
      BY <1>4, <1>6, <2>1 DEF Reported
    <2>5. Len(reported[a]) \in DOMAIN reported[a] /\ Len(reported[a]) \in Nat
      <3>1. reported[a] \in Seq([who : Owners, when : Nat]) /\ reported[a] # <<>>
        BY <1>0, <2>2 DEF RegistryTypes
      <3> QED
        BY <3>1
    <2>6. \A t : OwnedUntil(a, w, t)
      BY <2>4, <2>5 DEF OwnedUntil
    <2>7. new.checked + SessionTtl - 1 < moment + SessionTtl
      BY <1>0, <1>4, Lives DEF RegistryTypes
    <2> QED
      BY <2>1, <2>2, <2>3, <2>6, <2>7 DEF Backed
  <1>7. VerifierOK(new)' /\ SubmitterOK(new)'
    <2>1. VerifierOK(new) /\ SubmitterOK(new)
      BY <1>0, <1>4, <1>5, <1>6 DEF VerifierOK, SubmitterOK, RegistryTypes
    <2> QED
      BY <1>0, <1>3, <2>1, SameKeeps, VerifierKept, SubmitterKept
  <1> QED
    BY <1>2, <1>3, <1>4, <1>7, QuietStep

(* The claim is as good as the report it rests on.                             *)
LEMMA VerifyEndStep ==
    ASSUME RegistryInv, NEW h \in Handlers, VerifyEnd(h)
    PROVE  RegistryInv'
  <1>0. RegistryTypes
    BY DEF RegistryInv
  <1>1. PICK n : n = task[h].nonce
    OBVIOUS
  <1>2. n \in DOMAIN challenges /\ challenges[n] \in Challenge
    BY <1>0, <1>1, ChallengeOf DEF VerifyEnd, RegistryInv, VerifierOK
  <1>3. ChallengesKept
    <2>1. [challenges[n] EXCEPT !.consumed = TRUE] \in Challenge
      BY <1>2 DEF Challenge
    <2>2. challenges' = [challenges EXCEPT ![n] = [challenges[n] EXCEPT !.consumed = TRUE]]
      BY <1>1 DEF VerifyEnd
    <2>3. challenges' \in Seq(Challenge) /\ Len(challenges') = Len(challenges)
      <3>1. challenges \in Seq(Challenge)
        BY <1>0 DEF RegistryTypes
      <3>2. PICK c : c = [challenges[n] EXCEPT !.consumed = TRUE]
        OBVIOUS
      <3> QED
        BY <1>2, <2>1, <2>2, <3>1, <3>2
    <2>4. [challenges[n] EXCEPT !.consumed = TRUE].identity = challenges[n].identity
          /\ [challenges[n] EXCEPT !.consumed = TRUE].address = challenges[n].address
      BY <1>2 DEF Challenge
    <2> QED
      BY <1>0, <1>2, <2>2, <2>3, <2>4 DEF ChallengesKept, RegistryTypes
  <1>4. UNCHANGED <<owner, reported, listings, saves, moment>>
    BY DEF VerifyEnd
  <1>5. Keeps
    <2>1. moment' \in Nat /\ moment' >= moment
      BY <1>0, <1>4 DEF RegistryTypes
    <2> QED
      BY <1>0, <1>3, <1>4, <2>1, BackedKept
  <1>6. RegistryTypes'
    BY <1>0, <1>3, <1>4, FreeShape DEF VerifyEnd, RegistryTypes, ChallengesKept
  <1>7. ASSUME NEW k \in Nonces PROVE ClaimOK(claims[k])'
    <2>1. PICK c : c = claims'[k]
      OBVIOUS
    <2>2. CASE c = claims[k]
      BY <1>5, <2>1, <2>2, ClaimKept DEF RegistryInv
    <2>3. CASE c # claims[k]
      <3>1. PICK signer \in {challenges[n].address, None} :
              /\ OwnerVerified(h, signer)
              /\ c = [identity |-> challenges[n].identity, owner |-> signer,
                      expires |-> task[h].checked + SessionTtl]
        BY <1>0, <1>1, <2>1, <2>3 DEF VerifyEnd, RegistryTypes
      <3>2. task[h].by # None /\ signer = task[h].by /\ task[h].by = challenges[n].address
        BY <1>1, <3>1 DEF OwnerVerified
      <3>3. /\ task[h].checked \in Nat
            /\ Backed(challenges[n].identity, task[h].by, task[h].checked + SessionTtl - 1)
        BY <1>1, <3>2 DEF VerifyEnd, RegistryInv, VerifierOK
      <3>4. ClaimOK(c)
        BY <1>2, <3>1, <3>2, <3>3, Lives DEF ClaimOK, Challenge
      <3> QED
        BY <1>5, <2>1, <3>4, ClaimKept
    <2> QED
      BY <2>2, <2>3
  <1>8. PICK new : new = FreeHandler
    OBVIOUS
  <1>9. task' = [task EXCEPT ![h] = new]
    BY <1>8 DEF VerifyEnd
  <1>10. VerifierOK(new)' /\ SubmitterOK(new)'
    BY <1>8 DEF FreeHandler, VerifierOK, SubmitterOK
  <1> QED
    BY <1>4, <1>5, <1>6, <1>7, <1>9, <1>10, HandlerStep

(* A session that is alive now was claimed less than its life ago.               *)
LEMMA SubmitStartStep ==
    ASSUME RegistryInv, NEW h \in Handlers, NEW n \in DOMAIN challenges, SubmitStart(h, n)
    PROVE  RegistryInv'
  <1>0. RegistryTypes /\ n \in Nonces
    BY ChallengeOf DEF RegistryInv
  <1>1. PICK c, t : c = claims[n] /\ t = moment
    OBVIOUS
  <1>2. PICK new : new = [FreeHandler EXCEPT !.at = "load", !.seen = c, !.checked = t]
    OBVIOUS
  <1>3. /\ new.at = "load" /\ new.seen = c /\ new.checked = t
        /\ DOMAIN new = DOMAIN FreeHandler
    BY <1>2, FreeShape
  <1>4. task' = [task EXCEPT ![h] = new]
    BY <1>1, <1>2 DEF SubmitStart
  <1>5. UNCHANGED <<owner, reported, challenges, claims, listings, saves, moment>>
    BY DEF SubmitStart
  <1>6. c.identity \in Agents /\ t \in Nat /\ Backed(c.identity, c.owner, t)
    <2>1. c # None /\ c.expires > t /\ ClaimOK(c) /\ t \in Nat
      BY <1>0, <1>1 DEF SubmitStart, LiveProof, RegistryInv, RegistryTypes
    <2>2. /\ c.identity \in Agents /\ c.expires \in Nat
          /\ Backed(c.identity, c.owner, c.expires - 1)
      BY <2>1 DEF ClaimOK
    <2>3. c.expires - 1 \in Int /\ t <= c.expires - 1
      BY <2>1, <2>2
    <2> QED
      BY <1>0, <2>1, <2>2, <2>3, Weakened
  <1>7. VerifierOK(new) /\ SubmitterOK(new)
    BY <1>3, <1>6 DEF VerifierOK, SubmitterOK
  <1>8. VerifierOK(new)' /\ SubmitterOK(new)'
    BY <1>0, <1>5, <1>7, SameKeeps, VerifierKept, SubmitterKept
  <1> QED
    BY <1>3, <1>4, <1>5, <1>8, QuietStep

LEMMA SubmitLoadStep ==
    ASSUME RegistryInv, NEW h \in Handlers, SubmitLoad(h)
    PROVE  RegistryInv'
  <1>0. RegistryTypes /\ DOMAIN task[h] = DOMAIN FreeHandler
    BY FreeShape DEF RegistryInv, RegistryTypes
  <1>1. PICK new : new = [task[h] EXCEPT !.at = "save", !.copy = listings, !.saves = saves]
    OBVIOUS
  <1>2. /\ new.at = "save" /\ new.copy = listings /\ new.saves = saves
        /\ new.seen = task[h].seen /\ new.checked = task[h].checked
        /\ DOMAIN new = DOMAIN FreeHandler
    BY <1>0, <1>1, FreeShape
  <1>3. task' = [task EXCEPT ![h] = new]
    BY <1>0, <1>1 DEF SubmitLoad, RegistryTypes
  <1>4. UNCHANGED <<owner, reported, challenges, claims, listings, saves, moment>>
    BY DEF SubmitLoad
  <1>5. VerifierOK(new) /\ SubmitterOK(new)
    <2>1. SubmitterOK(task[h]) /\ task[h].at = "load" /\ DocumentOK(listings) /\ saves \in Nat
      BY <1>0 DEF SubmitLoad, RegistryInv, RegistryTypes
    <2> QED
      BY <1>2, <2>1 DEF VerifierOK, SubmitterOK
  <1>6. VerifierOK(new)' /\ SubmitterOK(new)'
    BY <1>0, <1>4, <1>5, SameKeeps, VerifierKept, SubmitterKept
  <1> QED
    BY <1>2, <1>3, <1>4, <1>6, QuietStep

(* The copy that is written was right when it was read and still is; the entry    *)
(* that is new is backed by the session that was let in.                       *)
LEMMA SubmitSaveStep ==
    ASSUME RegistryInv, NEW h \in Handlers, SubmitSave(h)
    PROVE  RegistryInv'
  <1>0. RegistryTypes
    BY DEF RegistryInv
  <1>1. UNCHANGED <<owner, reported, challenges, claims, moment>>
    BY DEF SubmitSave
  <1>2. Keeps
    BY <1>0, <1>1, SameKeeps
  <1>3. /\ SubmitterOK(task[h]) /\ task[h].at = "save"
        /\ task' = [task EXCEPT ![h] = FreeHandler]
    BY DEF SubmitSave, RegistryInv
  <1>4. \/ saves' = saves /\ listings' = listings
        \/ /\ saves' = saves + 1
           /\ listings' = [task[h].copy EXCEPT ![task[h].seen.identity] =
                    [by |-> task[h].seen.owner, checked |-> task[h].checked]]
    BY DEF SubmitSave
  <1>5. RegistryTypes'
    <2>1. saves' \in Nat
      BY <1>0, <1>4 DEF RegistryTypes
    <2>2. DOMAIN task' = Handlers
          /\ \A g \in Handlers : DOMAIN task'[g] = DOMAIN FreeHandler
      BY <1>0, <1>3, FreeShape DEF RegistryTypes
    <2> QED
      BY <1>0, <1>1, <2>1, <2>2, FreeShape DEF RegistryTypes
  <1>6. DocumentOK(listings)'
    <2>1. CASE listings' = listings
      <3>1. PICK d : d = listings
        OBVIOUS
      <3>2. DocumentOK(d)'
        BY <1>2, <3>1, DocumentKept DEF RegistryInv
      <3> QED
        BY <2>1, <3>1, <3>2
    <2>2. CASE listings' = [task[h].copy EXCEPT ![task[h].seen.identity] =
                    [by |-> task[h].seen.owner, checked |-> task[h].checked]]
      <3>1. PICK d, a, w, t : /\ d = task[h].copy /\ a = task[h].seen.identity
                              /\ w = task[h].seen.owner /\ t = task[h].checked
        OBVIOUS
      <3>2. DocumentOK(d) /\ a \in Agents /\ t \in Nat /\ Backed(a, w, t)
        BY <1>3, <3>1 DEF SubmitterOK
      <3>3. PICK e : e = [by |-> w, checked |-> t]
        OBVIOUS
      <3>4. e \in [by : Owners, checked : Nat] /\ e.by = w /\ e.checked = t
        BY <3>2, <3>3 DEF Backed
      <3>5. listings' = [d EXCEPT ![a] = e]
        BY <2>2, <3>1, <3>3
      <3>6. PICK new : new = [d EXCEPT ![a] = e]
        OBVIOUS
      <3>7. new \in Document /\ new[a] = e /\ \A b \in Agents \ {a} : new[b] = d[b]
        BY <3>2, <3>4, <3>6 DEF DocumentOK, Document
      <3>8. DocumentOK(new)
        BY <3>2, <3>4, <3>7 DEF DocumentOK
      <3> QED
        BY <1>2, <3>5, <3>6, <3>8, DocumentKept
    <2> QED
      BY <1>4, <2>1, <2>2
  <1>7. ASSUME NEW n \in Nonces PROVE ClaimOK(claims[n])'
    <2>1. PICK c : c = claims[n]
      OBVIOUS
    <2>2. ClaimOK(c)'
      BY <1>2, <2>1, ClaimKept DEF RegistryInv
    <2> QED
      BY <1>1, <2>1, <2>2
  <1>8. ASSUME NEW g \in Handlers PROVE VerifierOK(task[g])' /\ SubmitterOK(task[g])'
    <2>1. CASE g = h
      BY <1>0, <1>3, <2>1 DEF RegistryTypes, FreeHandler, VerifierOK, SubmitterOK
    <2>2. CASE g # h
      <3>1. PICK t : t = task[g]
        OBVIOUS
      <3>2. VerifierOK(t)' /\ SubmitterOK(t)'
        BY <1>0, <1>2, <1>4, <3>1, VerifierKept, SubmitterKept DEF RegistryInv
      <3> QED
        BY <1>0, <1>3, <2>2, <3>1, <3>2 DEF RegistryTypes
    <2> QED
      BY <2>1, <2>2
  <1> QED
    BY <1>5, <1>6, <1>7, <1>8 DEF RegistryInv

LEMMA RegistryNextOK == RegistryInv /\ [RegistryNext]_registryVars => RegistryInv'
  <1> SUFFICES ASSUME RegistryInv, [RegistryNext]_registryVars PROVE RegistryInv'
    OBVIOUS
  <1>1. CASE UNCHANGED registryVars
    <2>1. RegistryTypes
      BY DEF RegistryInv
    <2>2. RegistryTypes' /\ Keeps
      BY <1>1, <2>1, SameKeeps DEF registryVars, RegistryTypes
    <2> QED
      BY <1>1, <2>2, OutsideKeeps DEF registryVars
  <1>2. CASE RegistryNext
    BY <1>2, OutsideStep, RestartStep, VerifyStartStep, VerifyReportStep, VerifyEndStep,
       SubmitStartStep, SubmitLoadStep, SubmitSaveStep DEF RegistryNext
  <1> QED
    BY <1>1, <1>2

LEMMA RegistryOfDesk == [DeskNext]_deskVars => [RegistryNext]_registryVars
  BY DEF DeskNext, deskVars, GridPart, LeashPart, ProofPart, FleetPart, LimitPart, RegistryPart,
         RangePart, ScoutPart, GradingPart

LEMMA RegistryProven == DeskSpec => []RegistryInv
  <1>1. DeskInit => RegistryInv
    BY RegistryInitOK DEF DeskInit
  <1> QED
    BY <1>1, RegistryOfDesk, RegistryNextOK, PTL DEF DeskSpec

(* For any number of requests, restarts, sales and overwritten documents: who a    *)
(* listing says claimed it asked for the challenge and was reported as the owner   *)
(* of that agent less than the life of a session before the submit.              *)
THEOREM ClaimsProven == DeskSpec => []ClaimProven
  <1>1. RegistryInv => ClaimProven
    <2> SUFFICES ASSUME RegistryInv, NEW a \in Agents, listings[a] # None
                 PROVE  /\ Asked(a, listings[a].by)
                        /\ OwnedUntil(a, listings[a].by, listings[a].checked)
      BY DEF ClaimProven, Asked, OwnedUntil
    <2> QED
      BY DEF RegistryInv, DocumentOK, Backed
  <1> QED
    BY <1>1, RegistryProven, PTL

(* A submit that read the document after its last write takes nobody's entry: for  *)
(* any number of submits, only one that read before another's write can.          *)
THEOREM KeptInOrder == DeskSpec => KeptByOrder
  <1> DEFINE Lost(a) == listings[a] # None /\ (listings'[a] = None \/ listings'[a].by # listings[a].by)
             Overtaken(h) == task[h].at = "save" /\ task'[h] = FreeHandler /\ task[h].saves < saves
  <1>1. ASSUME RegistryInv, RegistryNext, NEW a \in Agents, Lost(a)
        PROVE  \E h \in Handlers : Overtaken(h)
    <2>1. PICK h \in Handlers : SubmitSave(h)
      BY <1>1 DEF RegistryNext, Later, ServerRestart, Discover, Transfer, IssueChallenge, VerifyStart,
                  VerifyReport, VerifyEnd, SubmitStart, SubmitLoad
    <2>2. /\ task[h].at = "save" /\ task'[h] = FreeHandler
          /\ SubmitterOK(task[h]) /\ saves \in Nat
      BY <1>1, <2>1 DEF SubmitSave, RegistryInv, RegistryTypes
    <2>3. task[h].saves # saves
      <3> SUFFICES ASSUME task[h].saves = saves PROVE FALSE
        OBVIOUS
      <3> DEFINE b == task[h].seen.identity
                 e == [by |-> task[h].seen.owner, checked |-> task[h].checked]
      <3>1. /\ task[h].copy = listings /\ listings \in Document
            /\ b \in Agents /\ e \in [by : Owners, checked : Nat]
        BY <1>1, <2>2 DEF SubmitterOK, RegistryInv, DocumentOK, Backed
      <3>2. /\ listings' = [listings EXCEPT ![b] = e]
            /\ listings[b] # None => listings[b].by = e.by
        BY <1>1, <2>1, <3>1 DEF SubmitSave, MayUpdate
      <3>3. e # None
        BY <3>1, RegistryAssumption
      <3> HIDE DEF e, b
      <3> QED
        BY <1>1, <3>1, <3>2, <3>3 DEF Document
    <2> QED
      BY <2>2, <2>3 DEF SubmitterOK
  <1>2. RegistryInv /\ [RegistryNext]_registryVars
        => [\A a \in Agents : Lost(a) => \E h \in Handlers : Overtaken(h)]_registryVars
    BY <1>1
  <1> QED
    BY <1>2, RegistryProven, RegistryOfDesk, PTL DEF KeptByOrder, DeskSpec

=============================================================================
