SPECIFICATION DeskSpec
CONSTANTS
    None = None
    Parts = {"proof"}
    Prices = {1, 5}
    Uppers = {5}
    Counts = {3}
    References = {None, 4}
    Totals = {3}
    LevelCaps = {2}
    FillCaps = {None, 2}
    Cooldowns = {0, 1}
    Quotes = {2}
    Outs = {0, 2}
    Moves = {"ACTIVE", "REVOKED"}
    GridHorizon = 2
    Capitals = {1, 2}
    Periods <- MCPeriods
    LeashEnd = 5
    Proofs = {"final"}
    MaxSessions = 2
    MaxAcquired = 1
    ProofEnd = 2
    Kills = FALSE
    Providers = {"health", "yield"}
    Makers = {m1, m2}
    MaxWallets = 3
    MaxFundings = 1
    MaxIdentities = 2
    Moved = TRUE
    Limit = 2
    Window = 2
    MaxKeys = 2
    Checks <- MCChecks
    Unruled = {"d"}
    LimitEnd = 4
    Agents = {"a", "b"}
    Owners = {"u", "v"}
    FirstOwner <- MCFirstOwner
    Sold = {"a"}
    MaxNonces = 2
    Handlers = {h1, h2}
    ChallengeTtl = 1
    SessionTtl = 1
    RegistryEnd = 2
    MaxSaves = 2
    MinTick <- MCMinTick
    MaxTick = 14
    Spacings = {3, 4}
    FirstWidths = {1, 2}
    Jumps <- MCJumps
    MaxRebalances = 2
    MaxBlocks = 3
    Rates <- MCRates
    Terms <- MCTerms
    GasCost = 1
    MaxMoves = 3
    LastBlock = 3
    Families = {"health", "yield", "grid"}
    Graders <- MCGraders
    Hirers <- MCHirers
    MaxRuns = 2
INVARIANTS
    RevokedInTheEnd
CHECK_DEADLOCK FALSE
