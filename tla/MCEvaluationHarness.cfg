CONSTANTS
    None = None
    Junk = Junk
    Cases <- MCCases
    Suites <- MCSuites
    Vendors <- MCVendors
    Lowered <- MCLowered
    Ratio <- MCRatio
    Upper <- MCUpper
    Cent = 1
    Piece = 1
    Percent = 1
    CurrencyOrder <- MCCurrencyOrder
    MatchAccept = 7500
    ArithmeticTolerance = 1
    QuantizeLimit = 100000000
SPECIFICATION SuiteSpec
INVARIANTS
    BuiltinScoresPerfectly CountsConserve PerfectMeansExact BrokenSuiteFails
