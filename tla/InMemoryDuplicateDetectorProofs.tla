-------------------- MODULE InMemoryDuplicateDetectorProofs --------------------
(***************************************************************************)
(* Proofs about the in-memory detector, for any number of threads and any  *)
(* invoices: its type invariant, mutual exclusion, that at most one call   *)
(* is told an invoice is new, what a duplicate cites, and that the locked  *)
(* dictionary implements the port's atomic operation.                      *)
(***************************************************************************)
EXTENDS InMemoryDuplicateDetector, TLAPS

Critical == {"get", "branch", "exit"}
Past == {"exit", "returned"}

\* The thread in the critical section is the one that holds the lock.
LockInv == \A r \in Requests : pc[r] \in Critical <=> lock = r

\* What a thread has read is still what the dictionary holds, until it adds
\* its own entry; an entry that was found, or added, is there for good.
ReadInv ==
    \A r \in Requests :
        /\ pc[r] = "branch" => original[r] = seen[FingerprintOf(r)]
        /\ pc[r] \in {"idle", "enter", "get"} => original[r] = None
        /\ pc[r] \in Past /\ original[r] # None => seen[FingerprintOf(r)] = original[r]
        /\ pc[r] \in Past /\ original[r] = None =>
               seen[FingerprintOf(r)] = invoice[r].invoice_id
        /\ pc[r] = "returned" => answer[r] = original[r]

\* Every entry of the dictionary was added by one thread, and only one.
EntryInv ==
    /\ \A f \in Fingerprints : seen[f] # None =>
           \E q \in Requests :
               pc[q] \in Past /\ original[q] = None /\ FingerprintOf(q) = f
    /\ \A q, r \in Requests :
           /\ pc[q] \in Past /\ pc[r] \in Past
           /\ original[q] = None /\ original[r] = None
           /\ SameInvoice(q, r)
           => q = r

IInv == TypeOK /\ LockInv /\ ReadInv /\ EntryInv

LEMMA FingerprintType ==
    ASSUME NEW i \in Invoices
    PROVE  Fingerprint(i) \in Fingerprints /\ i.invoice_id \in Texts
BY FoldedAssumption, InvoicesAssumption DEF Fingerprint, Fingerprints

LEMMA InitIInv == Init => IInv
BY NoneAssumption DEF Init, IInv, TypeOK, LockInv, ReadInv, EntryInv, Locations, Critical, Past

LEMMA NextIInv == IInv /\ [Next]_vars => IInv'
<1> SUFFICES ASSUME IInv, [Next]_vars PROVE IInv'
  OBVIOUS
<1> USE NoneAssumption
<1>1. ASSUME NEW r \in Requests, Call(r) PROVE IInv'
  <2>1. TypeOK'
    BY <1>1, FingerprintType DEF IInv, TypeOK, Call, Goto, Locations, FingerprintOf
  <2>2. LockInv'
    BY <1>1 DEF IInv, TypeOK, LockInv, Call, Goto, Critical, Locations
  <2>3. ReadInv'
    BY <1>1, FingerprintType DEF IInv, TypeOK, LockInv, ReadInv, EntryInv, Call, Goto, FingerprintOf, Critical, Past, SameInvoice, Locations
  <2>4. EntryInv'
    BY <1>1, FingerprintType DEF IInv, TypeOK, LockInv, ReadInv, EntryInv, Call, Goto, FingerprintOf, Critical, Past, SameInvoice, Locations
  <2> QED
    BY <2>1, <2>2, <2>3, <2>4 DEF IInv
<1>2. ASSUME NEW r \in Requests, Acquire(r) PROVE IInv'
  <2>1. TypeOK'
    BY <1>2, FingerprintType DEF IInv, TypeOK, Acquire, Goto, Locations, FingerprintOf
  <2>2. LockInv'
    BY <1>2 DEF IInv, TypeOK, LockInv, Acquire, Goto, Critical, Locations
  <2>3. ReadInv'
    BY <1>2, FingerprintType DEF IInv, TypeOK, LockInv, ReadInv, EntryInv, Acquire, Goto, FingerprintOf, Critical, Past, SameInvoice, Locations
  <2>4. EntryInv'
    BY <1>2, FingerprintType DEF IInv, TypeOK, LockInv, ReadInv, EntryInv, Acquire, Goto, FingerprintOf, Critical, Past, SameInvoice, Locations
  <2> QED
    BY <2>1, <2>2, <2>3, <2>4 DEF IInv
<1>3. ASSUME NEW r \in Requests, Get(r) PROVE IInv'
  <2>1. TypeOK'
    BY <1>3, FingerprintType DEF IInv, TypeOK, Get, Goto, Locations, FingerprintOf
  <2>2. LockInv'
    BY <1>3 DEF IInv, TypeOK, LockInv, Get, Goto, Critical, Locations
  <2>3. ReadInv'
    BY <1>3, FingerprintType DEF IInv, TypeOK, LockInv, ReadInv, EntryInv, Get, Goto, FingerprintOf, Critical, Past, SameInvoice, Locations
  <2>4. EntryInv'
    BY <1>3, FingerprintType DEF IInv, TypeOK, LockInv, ReadInv, EntryInv, Get, Goto, FingerprintOf, Critical, Past, SameInvoice, Locations
  <2> QED
    BY <2>1, <2>2, <2>3, <2>4 DEF IInv
<1>4. ASSUME NEW r \in Requests, FindOriginal(r) PROVE IInv'
  <2>1. TypeOK'
    BY <1>4, FingerprintType DEF IInv, TypeOK, FindOriginal, Goto, Locations, FingerprintOf
  <2>2. LockInv'
    BY <1>4 DEF IInv, TypeOK, LockInv, FindOriginal, Goto, Critical, Locations
  <2>3. ReadInv'
    BY <1>4, FingerprintType DEF IInv, TypeOK, LockInv, ReadInv, EntryInv, FindOriginal, Goto, FingerprintOf, Critical, Past, SameInvoice, Locations
  <2>4. EntryInv'
    BY <1>4, FingerprintType DEF IInv, TypeOK, LockInv, ReadInv, EntryInv, FindOriginal, Goto, FingerprintOf, Critical, Past, SameInvoice, Locations
  <2> QED
    BY <2>1, <2>2, <2>3, <2>4 DEF IInv
<1>5. ASSUME NEW r \in Requests, Register(r) PROVE IInv'
  <2>1. TypeOK'
    BY <1>5, FingerprintType DEF IInv, TypeOK, Register, Goto, Locations, FingerprintOf
  <2>2. LockInv'
    BY <1>5 DEF IInv, TypeOK, LockInv, Register, Goto, Critical, Locations
  <2>3. ReadInv'
    BY <1>5, FingerprintType DEF IInv, TypeOK, LockInv, ReadInv, EntryInv, Register, Goto, FingerprintOf, Critical, Past, SameInvoice, Locations
  <2>4. EntryInv'
    BY <1>5, FingerprintType DEF IInv, TypeOK, LockInv, ReadInv, EntryInv, Register, Goto, FingerprintOf, Critical, Past, SameInvoice, Locations
  <2> QED
    BY <2>1, <2>2, <2>3, <2>4 DEF IInv
<1>6. ASSUME NEW r \in Requests, Release(r) PROVE IInv'
  <2>1. TypeOK'
    BY <1>6, FingerprintType DEF IInv, TypeOK, Release, Goto, Locations, FingerprintOf
  <2>2. LockInv'
    BY <1>6 DEF IInv, TypeOK, LockInv, Release, Goto, Critical, Locations
  <2>3. ReadInv'
    BY <1>6, FingerprintType DEF IInv, TypeOK, LockInv, ReadInv, EntryInv, Release, Goto, FingerprintOf, Critical, Past, SameInvoice, Locations
  <2>4. EntryInv'
    BY <1>6, FingerprintType DEF IInv, TypeOK, LockInv, ReadInv, EntryInv, Release, Goto, FingerprintOf, Critical, Past, SameInvoice, Locations
  <2> QED
    BY <2>1, <2>2, <2>3, <2>4 DEF IInv
<1>7. CASE UNCHANGED vars
  BY <1>7 DEF vars, IInv, TypeOK, LockInv, ReadInv, EntryInv, SameInvoice, FingerprintOf
<1> QED
  BY <1>1, <1>2, <1>3, <1>4, <1>5, <1>6, <1>7 DEF Next, Step, Quiescent

\* The type invariant, for any number of threads.
THEOREM TypeCorrect == Spec => []TypeOK
<1>1. IInv => TypeOK
  BY DEF IInv
<1> QED
  BY <1>1, InitIInv, NextIInv, PTL DEF Spec

\* At most one of the calls about one invoice is told that it is new: the
\* thread that adds the entry holds the lock since it read that there is none.
THEOREM OneNew == Spec => []AtMostOneNew
<1>1. IInv => AtMostOneNew
  BY DEF IInv, ReadInv, EntryInv, AtMostOneNew, Returned, Past
<1> QED
  BY <1>1, InitIInv, NextIInv, PTL DEF Spec

\* A duplicate cites the id of the call that added the entry.
THEOREM DuplicateCitesOriginal == Spec => []CitesTheOriginal
<1>1. IInv => CitesTheOriginal
  <2> SUFFICES ASSUME IInv, NEW r \in Requests, Returned(r), answer[r] # None
               PROVE \E q \in Requests \ {r} :
                         /\ pc[q] \in Past /\ SameInvoice(q, r)
                         /\ original[q] = None /\ answer[r] = invoice[q].invoice_id
    BY DEF CitesTheOriginal, Past
  <2>1. /\ original[r] = answer[r]
        /\ seen[FingerprintOf(r)] = answer[r]
        /\ FingerprintOf(r) \in Fingerprints
    BY FingerprintType DEF IInv, TypeOK, ReadInv, Returned, Past, FingerprintOf
  <2>2. PICK q \in Requests : pc[q] \in Past /\ original[q] = None
                              /\ FingerprintOf(q) = FingerprintOf(r)
    BY <2>1 DEF IInv, EntryInv
  <2> QED
    BY <2>1, <2>2 DEF IInv, ReadInv, SameInvoice
<1> QED
  BY <1>1, InitIInv, NextIInv, PTL DEF Spec

-----------------------------------------------------------------------------
(* The refinement: the read that finds an original, or the registration, is  *)
(* the abstract step; every other step of the code is a stutter.             *)

LEMMA InitRefines == Init => Port!Init
BY DEF Init, Port!Init, Decided

LEMMA NextRefines == IInv /\ IInv' /\ [Next]_vars => [Port!Next]_(Port!vars)
<1> SUFFICES ASSUME IInv, IInv', [Next]_vars PROVE [Port!Next]_(Port!vars)
  OBVIOUS
<1> USE NoneAssumption DEF IInv, TypeOK, Port!vars, Decided, Goto
<1>1. ASSUME NEW r \in Requests, Call(r) PROVE [Port!Next]_(Port!vars)
  <2>1. Port!Ask(r)
    BY <1>1 DEF Call, Port!Ask, ReadInv
  <2> QED
    BY <2>1 DEF Port!Next
<1>2. ASSUME NEW r \in Requests, Acquire(r) PROVE UNCHANGED Port!vars
  BY <1>2 DEF Acquire
<1>3. ASSUME NEW r \in Requests, Get(r), seen[FingerprintOf(r)] = None
      PROVE  UNCHANGED Port!vars
  BY <1>3 DEF Get, ReadInv
<1>4. ASSUME NEW r \in Requests, Get(r), seen[FingerprintOf(r)] # None
      PROVE  Port!CheckAndRegister(r)
  BY <1>4 DEF Get, ReadInv, Port!CheckAndRegister, FingerprintOf
<1>5. ASSUME NEW r \in Requests, FindOriginal(r) PROVE UNCHANGED Port!vars
  BY <1>5 DEF FindOriginal
<1>6. ASSUME NEW r \in Requests, Register(r) PROVE Port!CheckAndRegister(r)
  <2>1. /\ invoice[r] \in Invoices /\ seen[FingerprintOf(r)] = None
        /\ pc[r] = "branch" /\ original[r] = None
        /\ pc' = [pc EXCEPT ![r] = "exit"]
        /\ UNCHANGED <<invoice, original>>
    BY <1>6 DEF Register, ReadInv
  <2>2. seen' = [seen EXCEPT ![Fingerprint(invoice[r])] = invoice[r].invoice_id]
    BY <1>6 DEF Register, FingerprintOf
  <2> QED
    BY <2>1, <2>2 DEF Port!CheckAndRegister, FingerprintOf
<1>7. ASSUME NEW r \in Requests, Release(r) PROVE UNCHANGED Port!vars
  BY <1>7 DEF Release
<1>8. CASE UNCHANGED vars
  BY <1>8 DEF vars
<1> QED
  BY <1>1, <1>2, <1>3, <1>4, <1>5, <1>6, <1>7, <1>8 DEF Next, Step, Quiescent, Port!Next

\* The locked dictionary implements the port: every behaviour of the threads
\* is one in which each call tests and records in a single step.
THEOREM Refinement == Spec => ImplementsPort
<1>1. IInv /\ IInv' /\ [Next]_vars => [Port!Next]_(Port!vars)
  BY NextRefines
<1> QED
  BY <1>1, InitIInv, NextIInv, InitRefines, PTL DEF Spec, ImplementsPort, Port!Spec
=============================================================================
