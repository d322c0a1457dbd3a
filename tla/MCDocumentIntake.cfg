CONSTANTS
    None = None
    Junk = Junk
    Upper <- MCUpper
    Cent = 1
    Piece = 1
    Percent = 1
    CurrencyOrder <- MCCurrencyOrder
    MinTextChars = 20
    MaxRetries = 2
    InvoiceDocuments <- MCInvoiceDocuments
    ContractLists <- MCContractLists
    Answers <- MCAnswers
SPECIFICATION FairSpec
INVARIANTS
    LlmIsTheLastResort FiguresArePrinted RetriedWhileTransient RefusedOnlyIfUnreadable
PROPERTIES ImplementsIntake RequestEnds
CHECK_DEADLOCK FALSE
