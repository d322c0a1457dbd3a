CONSTANTS
    None = None
    Junk = Junk
    Requests = {r1, r2}
    AuditIds = {a1, a2}
    Texts <- MCTexts
    Folded <- MCFolded
    Invoices <- MCAllInvoices
    Contracts <- MCAllContracts
    CandidateLists <- MCAllLists
    Matcher <- MCMatcher
    RuleFindings <- MCFindings
    Vendors <- MCVendors
    Lowered <- MCLowered
    Ratio <- MCRatio
    Upper <- MCUpper
    Cent = 1
    Piece = 1
    Percent = 1
    MatchAccept = 7500
    ReviewThreshold = 7000
    ArithmeticTolerance = 1
    QuantizeLimit = 1000000
    CurrencyOrder <- MCCurrencyOrder
    MinTextChars = 20
    Answers <- MCAnswers
    Settings <- MCSettings
    JsonRequests <- MCJsonRequests
    InvoiceDocuments <- MCInvoiceDocuments
    ContractLists <- MCContractLists
SPECIFICATION APIFairSpec
INVARIANTS
    ClearedOnlyWhenClean TotalIsComplete JudgedByTheBestMatch
    FlaggedCitesFirst NeverClearedTwice AuditTrailExact
    RefusalLeavesNoTrace SameDocumentClearedOnce ClearedForWhatIsPrinted DocumentMismatchesAreReal
PROPERTIES UsesDetectorOnce ImplementsAuditLog EveryRequestIsAnswered
