\* One quote, its prepare and submit requests retried by two clients at once,
\* with crashes: what the two locks of the quote are for.
SPECIFICATION Spec
CONSTANTS
    q1 = q1
    b1 = b1
    b2 = b2
    k1 = k1
    k2 = k2
    h1 = h1
    h2 = h2
    j1 = j1
    j2 = j2
    w1 = w1
    w2 = w2
    plain = plain
    padded = padded
    None = None
    Workers = {w1, w2}
    Quotes = {q1}
    Buyers = {b1, b2}
    Keys = {k1, k2}
    HireIds = {h1, h2}
    Jobs = {j1, j2}
    JobClient <- TwoJobClient
    JobQuote <- TwoJobQuote
    WalletTxs <- RetryTxs
    JobMoves <- RetryMoves
    NotifyOutcomes = {"notified", "failed"}
    QuoteBuyer <- OneBuyerEach
    Spellings = {plain, padded}
    Requests <- RetryRequests
SYMMETRY WorkerSymmetry
INVARIANTS
    TypeOK
    LockExclusive
    RecordsVerified
    OneHirePerQuote
    FundedQuoteClosed
PROPERTIES
    ReceiptsKept
    JobBoundOnce
    ImplementsLedger
