CONSTANTS
    None = None
    Requests = {r1, r2, r3}
    Identities = {i1, i2}
SPECIFICATION Spec
INVARIANTS OneNewAfterStartup LateRecordsTogether
SYMMETRY SymmetricRequests
