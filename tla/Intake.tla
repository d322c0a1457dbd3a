--------------------------------- MODULE Intake ---------------------------------
(***************************************************************************)
(* What the intake of a document request promises, whatever steps it takes *)
(* (parsers, tiers, retries): it comes to one of the readings that the     *)
(* documents allow, and stays there.                                       *)
(***************************************************************************)
CONSTANTS
    None,
    Readings(_, _, _),  \* of the settings and the documents: module DocumentReading
    InvoiceDocuments,
    ContractLists       \* the sequences of contract documents a request may carry

VARIABLES
    settings,
    invoice_document,
    contract_documents,
    reading             \* None until the intake has come to an end

vars == <<settings, invoice_document, contract_documents, reading>>

Init ==
    /\ settings \in [enable_ocr : BOOLEAN, enable_llm : BOOLEAN]
    /\ invoice_document \in InvoiceDocuments
    /\ contract_documents \in ContractLists
    /\ reading = None

Read ==
    /\ reading = None
    /\ reading' \in Readings(settings, invoice_document, contract_documents)
    /\ UNCHANGED <<settings, invoice_document, contract_documents>>

Spec == Init /\ [][Read]_vars
=============================================================================
