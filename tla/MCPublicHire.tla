---------------------------- MODULE MCPublicHire ----------------------------
(* Instances of PublicHire for TLC: one quote, its buyer and a stranger.     *)
EXTENDS PublicHire, TLC

CONSTANTS q1, b1, b2, k1, k2, h1, h2, j1, j2, w1, w2,
          plain, padded

OneBuyerEach == [q \in Quotes |-> b1]

OneJobClient == (j1 :> b1)
OneJobQuote == (j1 :> q1)

(* j2 carries the same terms, sent by the same wallet: a second createJob.   *)
TwoJobClient == (j1 :> b1) @@ (j2 :> b1)
TwoJobQuote == (j1 :> q1) @@ (j2 :> q1)

NoRequest == [op |-> "quote", quote |-> q1, spelling |-> plain, key |-> None, buyer |-> None,
              txs |-> {}, hire |-> None]

IssueRequest == NoRequest

PrepareRequest(k) ==
    [NoRequest EXCEPT !.op = "prepare", !.key = k, !.buyer = b1]

(* A client may pad the id: submits do so in every run, always in one way.   *)
SubmitRequest(k, txs) ==
    [NoRequest EXCEPT !.op = "submit", !.spelling = padded, !.key = k, !.txs = txs]

ReadRequest(op) ==
    [NoRequest EXCEPT !.op = op, !.hire = h1, !.buyer = b1]

(* Two tabs: prepare under two keys, and two createJob transactions of which *)
(* one is followed by its fund, reported at any time and any number of times. *)
RetryRequests ==
    {IssueRequest, PrepareRequest(k1), PrepareRequest(k2),
     SubmitRequest(k1, {TxOf("create", j1), TxOf("fund", j1)}),
     SubmitRequest(k1, {TxOf("create", j2)})}

RetryTxs ==
    {TxOf("create", j1), TxOf("budget", j1), TxOf("fund", j1), TxOf("create", j2)}

(* Two clients that prepare one quote, one of them with a padded id.         *)
SpellingRequests ==
    {IssueRequest, PrepareRequest(k1), [PrepareRequest(k2) EXCEPT !.spelling = padded]}

RetryMoves == {<<j1, "EXPIRED">>, <<j1, "REJECTED">>}

(* One client that reports its job and reads its state and its result.       *)
ReadingRequests ==
    {IssueRequest, PrepareRequest(k1), SubmitRequest(k1, {TxOf("create", j1)}),
     ReadRequest("job"), ReadRequest("result")}

ReadingTxs == {TxOf("create", j1), TxOf("budget", j1), TxOf("fund", j1)}

ReadingMoves == {<<j1, "SUBMITTED">>, <<j1, "COMPLETED">>}

(* The same client goes on to report a second step while a view is in flight. *)
ViewingRequests ==
    {IssueRequest, PrepareRequest(k1), SubmitRequest(k1, {TxOf("create", j1)}),
     SubmitRequest(k1, {TxOf("budget", j1)}), ReadRequest("job")}

(* One client that reports its five steps in two requests, in any order.     *)
StepRequests ==
    {IssueRequest, PrepareRequest(k1),
     SubmitRequest(k1, {TxOf(k, j1) : k \in {"approve", "create", "register"}}),
     SubmitRequest(k1, {TxOf(k, j1) : k \in {"budget", "fund"}})}

StepTxs == {TxOf(k, j1) : k \in Kinds}

NoMoves == {}

WorkerSymmetry == Permutations(Workers)

=============================================================================
