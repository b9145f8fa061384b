SPECIFICATION Live
CONSTANTS
    failure = failure
    Stale = Stale
    Problems = {failure, Stale}
    Channels = {console, webhook}
    Backoff <- Ladder
    MinSeverity = 1
    MaxSilence = 1
INVARIANTS QuietMeansHeardOf
PROPERTIES NoFalseClear ProblemIsHeard
