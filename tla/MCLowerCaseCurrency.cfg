CONSTANTS
    None = None
    Cent = 10
    Piece = 10
    Percent = 2
    ArithmeticTolerance = 10
    QuantizeLimit = 200000
    Upper <- MCUpper
    Invoices <- MCInvoices
    Contracts <- LowerCaseOnly
SPECIFICATION Spec
INVARIANT MismatchesAreReal
CHECK_DEADLOCK FALSE
