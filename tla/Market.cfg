SPECIFICATION MarketSpec
CONSTANTS
    Works = {"one", "two", "other"}
    Identity <- SomeWorks
    KeyOf <- NodeKeys
    NoPubkey = NoPubkey
    MaxEvents = 5
    k1 = k1
    k2 = k2
    k3 = k3
    k4 = k4
    k5 = k5
    Whole = 12
    MaxNodes = 3
    Bps = 300
    Scores = {0, 1, 3, 10}
    Quantities = {1, 2, 3, 4, 7, 50}
    Subtotals = {550, 566, 583, 599, 616, 1000}
    Nothing = Nothing
    node = node
    carrier = carrier
    network = network
    Accounts = {1, 2, 3}
    Declared <- Creators
    Shares = {5, 7}
    MaxAssets = 3
    MaxTerms = 2
    Costs = {1, 5}
    BaseCosts <- OneJob
    Models = {"m1", "m2"}
    Teachers = {1, 2, 3, 4}
    Corpora <- SomeCorpora
    NoBase = "none"
    Uses = {1, 2, 3}
    UseFees = {3, 29}
    TrainingShares = {5, 12}
    Actors <- Traders
    Splits <- Divisions
    Prices = {5}
    MaxLinks = 3
    MaxDeliveries = 2
    Issuer <- co
    Grocer <- grocer
    Bare = {"ann"}
    Supply = 2
    SharePrices = {5}
    Royalties = {5}
    ValueSplit <- Farm
    Units = {1, 2}
    MaxTokenEvents = 4
    Brokers <- Shippers
    Carriers <- Haulers
    Customers <- Shippers
    Fares <- Loads
    Conditions <- Damages
    MaxHaul = 3
    Operators <- SomeOperators
    Operator <- operator
    Backers <- SomeBackers
    TotalShares = 3
    PriceCents = 2
    InvestorShare = 5
    RepaymentCap = 4
    Revenues = {1, 5}
    Refs = {1, 2, 3}
    MaxOffering = 5
    Grades = {"F", "P"}
    Prior = 3
    Probation = 3
    MaxOutcomes = 6
CHECK_DEADLOCK FALSE
INVARIANTS QuotesAreFair RoyaltiesAreFair RoyaltiesReachTeachers EarningsArePaid DocumentsVerify SharesAreAccountedFor SalesArePaid HaulSettles BackersAreRepaid OutcomesCount
