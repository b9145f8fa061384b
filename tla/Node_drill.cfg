SPECIFICATION NodeSpec
CONSTANTS
    p1 = p1
    t1 = t1
    t2 = t2
    p2 = p2
    n = n
    r1 = r1
    r2 = r2
    Nobody = Nobody
    Procs = {p1, p2}
    Keys = {n, r1, r2}
    Owner <- Owners
    Backend = "sqlite"
    MaxWrites = 2
    Entries = {1, 2, 3}
    NoEntry = NoEntry
    LiveTools = TRUE
    Identities = {"a/b", "a_b", "c"}
    PathOf <- FileNames
    Passphrases = {"x", "y"}
    NoPassphrase = "none"
    MaxSeeds = 3
    JobUnits = 2
    Steps = 3
    MinDelta = 2
    Milestones <- FrameSteps
    Tools = {t1, t2}
    Assets = {"design", "derived", "again"}
    Contents = {"c1", "c2"}
    ContentOf <- ContentNames
    Parents <- DerivesFrom
    Seam = "sqlite"
    MaxPrints = 4
CHECK_DEADLOCK FALSE
PROPERTIES ToolsReadOnly
