CONSTANTS
    None = None
    Requests = {r1, r2}
    AuditIds = {a1, a2}
    Texts <- MCTexts
    Folded <- MCFolded
    Invoices <- SameTwice
    Contracts <- MCContracts
    CandidateLists <- FewCandidateLists
    Matcher <- MCMatcher
    RuleFindings <- MCFindings
    Vendors <- MCVendors
    Lowered <- MCLowered
    Ratio <- MCRatio
    Upper <- MCUpper
    Cent = 1
    Piece = 1
    Percent = 1
    MatchAccept = 7500
    ReviewThreshold = 7000
    ArithmeticTolerance = 1
    QuantizeLimit = 1000000
SPECIFICATION Spec
INVARIANT CitedOriginalIsRecorded
