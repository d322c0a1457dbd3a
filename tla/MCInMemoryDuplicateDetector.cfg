CONSTANTS
    None = None
    Requests = {r1, r2, r3}
    Texts <- MCTexts
    Folded <- MCFolded
    Invoices <- MCInvoices
SPECIFICATION FairSpec
INVARIANTS AtMostOneNew CitesTheOriginal
PROPERTIES CallsReturn ImplementsPort
