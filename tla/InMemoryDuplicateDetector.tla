----------------------- MODULE InMemoryDuplicateDetector -----------------------
(***************************************************************************)
(* The in-memory duplicate detector (adapters/dedup/in_memory.py) as the   *)
(* threads that call it see it: check_and_register broken into the         *)
(* acquisition of the lock, the dictionary read, the branch that returns   *)
(* the original or stores a new entry, and the release on leaving the      *)
(* with-block.  It implements DuplicateDetection.                          *)
(***************************************************************************)
EXTENDS InvoiceIdentity, Values

CONSTANT Requests   \* threads of the pool, each making one call

ASSUME NoneAssumption == None \notin Texts /\ None \notin Requests /\ None \notin Invoices

VARIABLES
    seen,         \* self._seen: fingerprint -> invoice_id, None when absent
    lock,         \* self._lock: the thread that holds it, or None
    pc,           \* thread -> where it is in check_and_register
    invoice,      \* thread -> its argument
    original,     \* thread -> the local of the same name
    answer        \* thread -> the value returned to the caller

vars == <<seen, lock, pc, invoice, original, answer>>

Locations == {"idle", "enter", "get", "branch", "exit", "returned"}

Init ==
    /\ seen = [f \in Fingerprints |-> None]
    /\ lock = None
    /\ pc = [r \in Requests |-> "idle"]
    /\ invoice = [r \in Requests |-> None]
    /\ original = [r \in Requests |-> None]
    /\ answer = [r \in Requests |-> None]

Goto(r, location) == pc' = [pc EXCEPT ![r] = location]

FingerprintOf(r) == Fingerprint(invoice[r])

Call(r) ==
    /\ pc[r] = "idle"
    /\ \E i \in Invoices : invoice' = [invoice EXCEPT ![r] = i]
    /\ Goto(r, "enter")
    /\ UNCHANGED <<seen, lock, original, answer>>

\* Slip: the dictionary is used without the lock.
AcquireNothing(r) ==
    /\ pc[r] = "enter"
    /\ Goto(r, "get")
    /\ UNCHANGED <<seen, lock, invoice, original, answer>>

\* Slip: the lock says that it is held, not by whom.
AcquireAnonymously(r) ==
    /\ pc[r] = "enter"
    /\ lock = None
    /\ lock' = TRUE
    /\ Goto(r, "get")
    /\ UNCHANGED <<seen, invoice, original, answer>>

Acquire(r) ==
    /\ pc[r] = "enter"
    /\ lock = None
    /\ lock' = r
    /\ Goto(r, "get")
    /\ UNCHANGED <<seen, invoice, original, answer>>

Get(r) ==
    /\ pc[r] = "get"
    /\ original' = [original EXCEPT ![r] = seen[FingerprintOf(r)]]
    /\ Goto(r, "branch")
    /\ UNCHANGED <<seen, lock, invoice, answer>>

\* Slip: a call that finds an original looks again instead of returning.
FindOriginalAgain(r) ==
    /\ pc[r] = "branch"
    /\ original[r] # None
    /\ Goto(r, "get")
    /\ UNCHANGED <<seen, lock, invoice, original, answer>>

FindOriginal(r) ==
    /\ pc[r] = "branch"
    /\ original[r] # None
    /\ Goto(r, "exit")
    /\ UNCHANGED <<seen, lock, invoice, original, answer>>

Register(r) ==
    /\ pc[r] = "branch"
    /\ original[r] = None
    /\ seen' = [seen EXCEPT ![FingerprintOf(r)] = invoice[r].invoice_id]
    /\ Goto(r, "exit")
    /\ UNCHANGED <<lock, invoice, original, answer>>

\* Slip: a duplicate is reported under its own id.
ReleaseWithOwnId(r) ==
    /\ pc[r] = "exit"
    /\ lock' = None
    /\ answer' = [answer EXCEPT ![r] = IF original[r] = None
                                      THEN None ELSE invoice[r].invoice_id]
    /\ Goto(r, "returned")
    /\ UNCHANGED <<seen, invoice, original>>

\* Both branches return what the read found: the original, or None.
Release(r) ==
    /\ pc[r] = "exit"
    /\ lock' = None
    /\ answer' = [answer EXCEPT ![r] = original[r]]
    /\ Goto(r, "returned")
    /\ UNCHANGED <<seen, invoice, original>>

Step(r) == Acquire(r) \/ Get(r) \/ FindOriginal(r) \/ Register(r) \/ Release(r)

\* Every call has returned: nothing is left to do.
Quiescent == (\A r \in Requests : pc[r] = "returned") /\ UNCHANGED vars

Next == (\E r \in Requests : Call(r) \/ Step(r)) \/ Quiescent

\* A thread inside the call keeps running: the operating system schedules it.
Fairness == \A r \in Requests : WF_vars(Step(r))

Spec == Init /\ [][Next]_vars

FairSpec == Spec /\ Fairness
-----------------------------------------------------------------------------
TypeOK ==
    /\ seen \in [Fingerprints -> Texts \cup {None}]
    /\ lock \in Requests \cup {None}
    /\ pc \in [Requests -> Locations]
    /\ invoice \in [Requests -> Invoices \cup {None}]
    /\ \A r \in Requests : pc[r] # "idle" => invoice[r] \in Invoices
    /\ original \in [Requests -> Texts \cup {None}]
    /\ answer \in [Requests -> Texts \cup {None}]

Returned(r) == pc[r] = "returned"

SameInvoice(q, r) == FingerprintOf(q) = FingerprintOf(r)

\* "Concurrent batch workers cannot both treat the same invoice as new"
\* (the class's docstring): of the calls that returned about one invoice, at
\* most one was told that it is new.
AtMostOneNew ==
    \A q, r \in Requests :
        /\ Returned(q) /\ Returned(r) /\ SameInvoice(q, r)
        /\ answer[q] = None /\ answer[r] = None
        => q = r

\* A flagged duplicate cites the original occurrence: the id a call gets back
\* is the one printed on the invoice of another call, about the same invoice,
\* that found nothing and is past its own registration.
CitesTheOriginal ==
    \A r \in Requests : Returned(r) /\ answer[r] # None =>
        \E q \in Requests \ {r} :
            /\ pc[q] \in {"exit", "returned"}
            /\ SameInvoice(q, r)
            /\ original[q] = None
            /\ answer[r] = invoice[q].invoice_id

\* Every call returns: the lock is released on both branches, so no thread is
\* left waiting for it.
CallsReturn == \A r \in Requests : pc[r] = "enter" ~> pc[r] = "returned"
-----------------------------------------------------------------------------
\* The step that decides a call's answer: the read that finds an original, the
\* registration otherwise.
Decided(r) ==
    \/ pc[r] = "branch" /\ original[r] # None
    \/ pc[r] \in {"exit", "returned"}

Port == INSTANCE DuplicateDetection WITH
    Identities <- Fingerprints,
    Identity <- [i \in Invoices |-> Fingerprint(i)],
    PrintedId <- [i \in Invoices |-> i.invoice_id],
    known <- seen,
    phase <- [r \in Requests |->
                 IF pc[r] = "idle" THEN "idle"
                 ELSE IF Decided(r) THEN "answered" ELSE "asked"],
    answer <- [r \in Requests |-> IF Decided(r) THEN original[r] ELSE None]

\* The locked dictionary implements the atomic operation of the port.
ImplementsPort == Port!Spec
=============================================================================
