\* One quote and one client that reports its steps and reads the job and its
\* result at the same time; the job moves on while it does.
SPECIFICATION Spec
CONSTANTS
    q1 = q1
    b1 = b1
    b2 = b2
    k1 = k1
    k2 = k2
    h1 = h1
    h2 = h2
    j1 = j1
    j2 = j2
    w1 = w1
    w2 = w2
    plain = plain
    padded = padded
    None = None
    Workers = {w1, w2}
    Quotes = {q1}
    Buyers = {b1, b2}
    Keys = {k1}
    HireIds = {h1}
    Jobs = {j1}
    JobClient <- OneJobClient
    JobQuote <- OneJobQuote
    WalletTxs <- ReadingTxs
    JobMoves <- ReadingMoves
    NotifyOutcomes = {"notified"}
    QuoteBuyer <- OneBuyerEach
    Spellings = {plain, padded}
    Requests <- ReadingRequests
SYMMETRY WorkerSymmetry
INVARIANTS
    ResultDelivered
    StatusNeverAhead
