----------------------------- MODULE InvoiceIdentity -----------------------------
(***************************************************************************)
(* What makes two invoices the same one for the in-memory detector: vendor *)
(* and invoice id, both trimmed and case-folded.  The SHA-256 of the pair  *)
(* is an opaque injective token, so the pair itself stands for it.         *)
(***************************************************************************)

CONSTANTS
    Texts,        \* the vendor names and invoice ids that may be printed
    Folded,       \* text -> the text trimmed and case-folded
    Invoices      \* the invoices that may be submitted

ASSUME FoldedAssumption == Folded \in [Texts -> Texts]

ASSUME InvoicesAssumption ==
    \A i \in Invoices : i.vendor_name \in Texts /\ i.invoice_id \in Texts

Fingerprint(invoice) == <<Folded[invoice.vendor_name], Folded[invoice.invoice_id]>>

Fingerprints == Texts \X Texts
=============================================================================
