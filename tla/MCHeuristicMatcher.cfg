CONSTANTS
    None = None
    Vendors <- MCVendors
    Lowered <- MCLowered
    Ratio <- MCRatio
    MatchAccept = 7500
    Invoices <- MCInvoices
    CandidateLists <- MCCandidateLists
SPECIFICATION Spec
INVARIANT ReturnsTheMatch
CHECK_DEADLOCK FALSE
