CONSTANTS
    None = None
    Requests = {r1}
    AuditIds = {a1}
    Texts <- MCTexts
    Folded <- MCFolded
    Invoices <- MCInvoices
    Contracts <- MCContracts
    CandidateLists <- MCCandidateLists
    Matcher <- MCMatcher
    RuleFindings <- MCFindings
    Vendors <- MCVendors
    Lowered <- MCLowered
    Ratio <- MCRatio
    Upper <- MCUpper
    Cent = 1
    Piece = 1
    Percent = 1
    MatchAccept = 7500
    ReviewThreshold = 7000
    ArithmeticTolerance = 1
    QuantizeLimit = 1000000
SPECIFICATION Spec
INVARIANT UnmatchedGoesToReview
