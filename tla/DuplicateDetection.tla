--------------------------- MODULE DuplicateDetection ---------------------------
(***************************************************************************)
(* What the duplicate-detection port promises (ports/deduplication.py): a  *)
(* single operation that tests, in one atomic step, whether an invoice was *)
(* seen before and records it if it was not.  Whatever keeps the record    *)
(* implements this specification; the reconciliation service relies on it. *)
(***************************************************************************)

CONSTANTS
    Requests,     \* calls of check_and_register, each made once
    Invoices,     \* invoices a call may carry
    Identities,   \* what makes two invoices the same one
    Identity,     \* the identity of each invoice
    PrintedId,    \* the invoice_id printed on each invoice
    None          \* Python's None

VARIABLES
    known,        \* identity -> id of the first invoice recorded, or None
    phase,        \* request -> "idle", "asked", "answered" or "failed"
    invoice,      \* request -> the invoice it asks about
    answer        \* request -> the id it got back, None when new

vars == <<known, phase, invoice, answer>>

Init ==
    /\ known = [f \in Identities |-> None]
    /\ phase = [r \in Requests |-> "idle"]
    /\ invoice = [r \in Requests |-> None]
    /\ answer = [r \in Requests |-> None]

\* A caller asks about an invoice.
Ask(r) ==
    /\ phase[r] = "idle"
    /\ \E i \in Invoices : invoice' = [invoice EXCEPT ![r] = i]
    /\ phase' = [phase EXCEPT ![r] = "asked"]
    /\ UNCHANGED <<known, answer>>

\* Test and record in one step: the answer is what was known before it.
CheckAndRegister(r) ==
    LET f == Identity[invoice[r]] IN
    /\ phase[r] = "asked"
    /\ phase' = [phase EXCEPT ![r] = "answered"]
    /\ answer' = [answer EXCEPT ![r] = known[f]]
    /\ known' = IF known[f] = None
                THEN [known EXCEPT ![f] = PrintedId[invoice[r]]]
                ELSE known
    /\ UNCHANGED invoice

\* The store cannot be read or written: DeduplicationError, nothing recorded.
\* The caller gives the request up and treats its invoice as new.
GiveUp(r) ==
    /\ phase[r] = "asked"
    /\ phase' = [phase EXCEPT ![r] = "failed"]
    /\ UNCHANGED <<known, invoice, answer>>

Next == \E r \in Requests : Ask(r) \/ CheckAndRegister(r) \/ GiveUp(r)

Spec == Init /\ [][Next]_vars
=============================================================================
