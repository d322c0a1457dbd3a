-------------------------------- MODULE Endpoints --------------------------------
(***************************************************************************)
(* The two endpoints of the API over one reconciliation service            *)
(* (api/routers/reconciliation.py).  A request either carries an invoice   *)
(* and contracts as JSON, or documents, which the intake first reads.      *)
(*                                                                         *)
(* The intake touches nothing that requests share, so all its steps are    *)
(* one here: it comes to any of the readings of its documents, which is    *)
(* what DocumentIntake is checked to implement.                            *)
(***************************************************************************)
EXTENDS Pipeline, DocumentReading

CONSTANTS
    Settings,           \* the settings the API may be started with
    JsonRequests,       \* the pairs of an invoice and a list of contracts sent as JSON
    InvoiceDocuments,
    ContractLists       \* the sequences of contract documents a request may carry

ASSUME SettingsAssumption == Settings \subseteq [enable_ocr : BOOLEAN, enable_llm : BOOLEAN]

ASSUME RequestsAssumption ==
    /\ JsonRequests \subseteq Invoices \X CandidateLists
    /\ None \notin InvoiceDocuments

ASSUME ParsersAssumption ==
    /\ \A doc \in InvoiceDocuments : \A parse \in ParsesOf(doc) : CopiedInvoice(parse)
    /\ \A docs \in ContractLists : \A doc \in Range(docs) :
           \A parse \in ParsesOf(doc) : CopiedContract(parse)

\* What the documents say is among the invoices and contracts of the service.
ASSUME ReadingsAssumption ==
    \A s \in Settings : \A doc \in InvoiceDocuments : \A docs \in ContractLists :
        \A reading \in Readings(s, doc, docs) : reading.status = None =>
            reading.invoice \in Invoices /\ reading.contracts \in CandidateLists

VARIABLES
    settings,              \* enable_ocr, enable_llm_extraction
    invoice_document,      \* request -> the documents it carries, None for JSON
    contract_documents,
    refused                \* request -> the status it was refused with, or None

documents == <<settings, invoice_document, contract_documents>>
api == <<documents, refused>>
allVars == <<vars, api>>

APIInit ==
    /\ Init
    /\ settings \in Settings
    /\ invoice_document = [r \in Requests |-> None]
    /\ contract_documents = [r \in Requests |-> <<>>]
    /\ refused = [r \in Requests |-> None]

\* POST /v1/reconcile.
SubmitJson(r) ==
    /\ invoice_document[r] = None
    /\ Submit(r)
    /\ <<invoice'[r], candidates'[r]>> \in JsonRequests
    /\ UNCHANGED api

\* POST /v1/reconcile-document.
ReceiveDocuments(r) ==
    /\ pc[r] = "idle" /\ invoice_document[r] = None
    /\ \E doc \in InvoiceDocuments : invoice_document' = [invoice_document EXCEPT ![r] = doc]
    /\ \E docs \in ContractLists : contract_documents' = [contract_documents EXCEPT ![r] = docs]
    /\ UNCHANGED <<vars, settings, refused>>

BeingRead(r) == pc[r] = "idle" /\ invoice_document[r] # None /\ refused[r] = None

\* All that the documents a request may carry can come to.
ReadingsTable ==
    [s \in Settings |-> [doc \in InvoiceDocuments |-> [docs \in ContractLists |->
        Readings(s, doc, docs)]]]

ReadingsOf(r) == ReadingsTable[settings][invoice_document[r]][contract_documents[r]]

HandOver(r) ==
    /\ BeingRead(r)
    /\ \E reading \in ReadingsOf(r) :
           /\ reading.status = None
           /\ invoice' = [invoice EXCEPT ![r] = reading.invoice]
           /\ candidates' = [candidates EXCEPT ![r] = reading.contracts]
    /\ pc' = [pc EXCEPT ![r] = "detect"]
    /\ UNCHANGED <<detector, seen, store, checked, original, result, auditId, api>>

\* Slip: the invoice is checked for duplicates before the contracts are read.
RefuseAfterCheck(r) ==
    /\ BeingRead(r)
    /\ \E reading \in ReadingsOf(r) :
           /\ reading.status # None
           /\ refused' = [refused EXCEPT ![r] = reading.status]
    /\ \E i \in InvoicesIn(settings, Parse(settings.enable_ocr, invoice_document[r])) :
           seen' = [seen EXCEPT ![Fingerprint(i)] = i.invoice_id]
    /\ UNCHANGED <<detector, store, pc, local, documents>>

\* An HTTP error before the service is called.
Refuse(r) ==
    /\ BeingRead(r)
    /\ \E reading \in ReadingsOf(r) :
           /\ reading.status # None
           /\ refused' = [refused EXCEPT ![r] = reading.status]
    /\ UNCHANGED <<vars, documents>>

Read(r) == HandOver(r) \/ Refuse(r)

Serve(r) == Step(r) /\ UNCHANGED api

Answered(r) == Ended(r) \/ refused[r] # None

AllAnswered == (\A r \in Requests : Answered(r)) /\ UNCHANGED allVars

APINext ==
    \/ \E r \in Requests : SubmitJson(r) \/ ReceiveDocuments(r) \/ Read(r) \/ Serve(r)
    \/ AllAnswered

\* A thread that serves a request keeps running, in the intake too.
APIFairness == Fairness /\ \A r \in Requests : WF_allVars(Read(r))

APISpec == APIInit /\ [][APINext]_allVars

APIFairSpec == APISpec /\ APIFairness
-----------------------------------------------------------------------------
\* The status a request ends with, None before: 200, or 422 where the service
\* raises its error.
StatusOf(r) ==
    CASE pc[r] = "done" -> 200
      [] pc[r] = "failed" -> 422
      [] OTHER -> refused[r]

\* A request that is refused leaves no trace: every invoice on record as seen
\* is one the service was asked about, so the same document, sent again once
\* its contracts are readable or the provider answers, is not taken for a
\* duplicate of itself (document_reconciliation.py:82-99).
RefusalLeavesNoTrace ==
    \A r \in Requests : refused[r] # None =>
        /\ result[r] = None /\ auditId[r] = None
        /\ \A f \in Fingerprints : seen[f] # None =>
               \E q \in Requests \ {r} : checked[q] /\ FingerprintOf(q) = f

\* What one invoice document says does not depend on a model.
ReadWithoutModel(r) ==
    LET text == Parse(settings.enable_ocr, invoice_document[r])
    IN ~settings.enable_llm \/ (text # None /\ ~NoTierReads(text))

\* A document that is sent twice, with whatever contracts, is cleared at most
\* once, if the detector works and the document is one that is read without a
\* model: a model may print the vendor in two ways, which nothing verifies
\* (llm_invoice.py:185-204, in_memory.py:26-42).
SameDocumentClearedOnce ==
    detector = "sound" => \A q, r \in Requests :
        /\ q # r
        /\ invoice_document[q] # None /\ invoice_document[q] = invoice_document[r]
        /\ ReadWithoutModel(q)
        /\ StatusOf(q) = 200 /\ result[q].review_status = "AUTO_CLEARED"
        => ~(StatusOf(r) = 200 /\ result[r].review_status = "AUTO_CLEARED")

\* A contract as a document of the request says it.
SaidBy(r, contract) ==
    \E k \in DOMAIN contract_documents[r] :
        /\ contract_documents[r][k].decodes
        /\ ContractOf(settings.enable_ocr, contract_documents[r][k]) = contract

\* A document request that is cleared with a contract is cleared for what is on
\* paper: the invoice id and every number judged are printed on the invoice
\* document, and the rate every line is billed at is at most the list rate a
\* contract document of the same request gives, on a date within its term
\* (README.md:252-285, document_reconciliation.py:82-99).
ClearedForWhatIsPrinted ==
    \A r \in Requests :
        /\ invoice_document[r] # None
        /\ StatusOf(r) = 200 /\ result[r].review_status = "AUTO_CLEARED"
        /\ result[r].contract_id # None
        => LET text == Parse(settings.enable_ocr, invoice_document[r])
           IN /\ result[r].invoice_id \in text.words
              /\ \E c \in Contracts :
                     /\ SaidBy(r, c)
                     /\ c.contract_id = result[r].contract_id
                     /\ IsActiveOn(c, invoice[r].invoice_date)
                     /\ \A k \in DOMAIN invoice[r].line_items :
                            LET line == invoice[r].line_items[k]
                            IN /\ Figures(line) \subseteq text.numbers
                               /\ RateFor(c, line.sku) # None
                               /\ line.unit_rate.amount <= RateFor(c, line.sku).unit_rate.amount

\* A document request is told of a currency mismatch only where the documents
\* really name two currencies: every extractor spells them in upper case, while
\* the rule compares letter by letter (rule_based_contract.py:106,
\* llm_invoice.py:138, checks.py:50).
DocumentMismatchesAreReal ==
    \A r \in Requests :
        LET ds == result[r].discrepancies
        IN invoice_document[r] # None /\ StatusOf(r) = 200 =>
               \A n \in DOMAIN ds : ds[n].type = "CURRENCY_MISMATCH" =>
                   Upper[invoice[r].currency] # Upper[Governing(r).currency]

\* Every request is answered: by the intake, or by the service it was handed
\* over to.
EveryRequestIsAnswered ==
    \A r \in Requests :
        (invoice_document[r] # None \/ pc[r] # "idle") ~> Answered(r)
=============================================================================
