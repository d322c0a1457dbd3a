----------------------------- MODULE DocumentIntake -----------------------------
(***************************************************************************)
(* One request to /v1/reconcile-document: the documents are decoded,       *)
(* the invoice document is parsed (text layer, then OCR), its invoice      *)
(* extracted by the first tier that can read it, the contracts read one by *)
(* one, and all of it handed to the reconciliation service.  The LLM tier  *)
(* asks its provider, which retries what failed transiently.               *)
(***************************************************************************)
EXTENDS DocumentReading

CONSTANTS
    MaxRetries,         \* LLMProvider.max_retries
    InvoiceDocuments,
    ContractLists       \* the sequences of contract documents a request may carry

ASSUME RetriesAreFinite == MaxRetries \in Nat

ASSUME DocumentsAssumption ==
    /\ MinTextChars \in Nat
    /\ \A doc \in InvoiceDocuments : \A parse \in ParsesOf(doc) :
           parse.text \in Nat /\ CopiedInvoice(parse)
    /\ \A docs \in ContractLists : docs \in Seq(Range(docs))

VARIABLES
    settings,           \* enable_ocr, enable_llm_extraction
    invoice_document,
    contract_documents,
    pc,
    parsed,             \* the parsed invoice document
    tier,               \* position in the cascade
    attempts,           \* how each call of the provider ended
    invoice,            \* the invoice extracted
    contracts,          \* the contracts extracted so far
    status              \* the HTTP status, None until the request has ended

request == <<settings, invoice_document, contract_documents>>
vars == <<settings, invoice_document, contract_documents, pc, parsed, tier,
          attempts, invoice, contracts, status>>

Documents == {invoice_document} \cup Range(contract_documents)

\* Slip: the LLM is the first tier.
LlmFirst == (IF settings.enable_llm THEN <<"llm">> ELSE <<>>) \o <<"layout", "text">>

\* build_invoice_extractor: the LLM is the last tier, if it is one at all.
Tiers == <<"layout", "text">> \o (IF settings.enable_llm THEN <<"llm">> ELSE <<>>)

ParsedInvoice == Parse(settings.enable_ocr, invoice_document)
-----------------------------------------------------------------------------
Init ==
    /\ settings \in [enable_ocr : BOOLEAN, enable_llm : BOOLEAN]
    /\ invoice_document \in InvoiceDocuments
    /\ contract_documents \in ContractLists
    /\ pc = "decode"
    /\ parsed = None
    /\ tier = 1
    /\ attempts = <<>>
    /\ invoice = None
    /\ contracts = <<>>
    /\ status = None

Goto(here, there) == pc = here /\ pc' = there

End(here, code) == Goto(here, "done") /\ status' = code

\* to_bytes of every document, before any of them is parsed.
Decode ==
    /\ Goto("decode", "parse")
    /\ \A doc \in Documents : doc.decodes
    /\ UNCHANGED <<request, parsed, tier, attempts, invoice, contracts, status>>

RefuseEncoding ==
    /\ \E doc \in Documents : ~doc.decodes
    /\ End("decode", 400)
    /\ UNCHANGED <<request, parsed, tier, attempts, invoice, contracts>>

ParseInvoice ==
    /\ ParsedInvoice # None
    /\ Goto("parse", "extract")
    /\ parsed' = ParsedInvoice
    /\ UNCHANGED <<request, tier, attempts, invoice, contracts, status>>

ParseFails ==
    /\ ParsedInvoice = None
    /\ End("parse", 422)
    /\ UNCHANGED <<request, parsed, tier, attempts, invoice, contracts>>
-----------------------------------------------------------------------------
InTier(name) == pc = "extract" /\ tier \in DOMAIN Tiers /\ Tiers[tier] = name

\* Slip: the cascade starts over.
FirstTier ==
    /\ tier' = 1
    /\ UNCHANGED <<request, pc, parsed, invoice, contracts, status>>

\* An InvoiceExtractionError: the cascade tries the next tier.
NextTier ==
    /\ tier' = tier + 1
    /\ UNCHANGED <<request, pc, parsed, invoice, contracts, status>>

Accept(extracted) ==
    /\ Goto("extract", "contracts")
    /\ invoice' = extracted
    /\ UNCHANGED <<request, parsed, tier, contracts, status>>

\* What the tiers without a model make of the document.
ReadBy(name) == IF name = "layout" THEN LayoutAware(parsed) ELSE RuleBased(parsed)

TierReads ==
    /\ \E name \in {"layout", "text"} :
           InTier(name) /\ ReadBy(name) # None /\ Accept(ReadBy(name))
    /\ UNCHANGED attempts

\* Slip: the first tier that fails ends the request.
TierFailsForGood ==
    /\ \E name \in {"layout", "text"} : InTier(name) /\ ReadBy(name) = None
    /\ End("extract", 422)
    /\ UNCHANGED <<request, parsed, tier, attempts, invoice, contracts>>

TierFails ==
    /\ \E name \in {"layout", "text"} : InTier(name) /\ ReadBy(name) = None
    /\ NextTier
    /\ UNCHANGED attempts

\* There is no text to send.
NothingToAsk ==
    /\ InTier("llm") /\ parsed.text = 0
    /\ NextTier
    /\ UNCHANGED attempts

Asked(outcome) ==
    /\ InTier("llm") /\ parsed.text > 0
    /\ attempts' = Append(attempts, outcome)

\* Slip: one retry too many.
ExhaustedLate == Len(attempts) > MaxRetries

Exhausted == Len(attempts) >= MaxRetries

\* A timeout, a network error or a retryable status, with retries left.
Retry ==
    /\ ~Exhausted
    /\ Asked("transient")
    /\ UNCHANGED <<request, pc, parsed, tier, invoice, contracts, status>>

RetriesExhausted ==
    /\ Exhausted
    /\ Asked("transient")
    /\ NextTier

\* A status that is not retried, a malformed envelope.
FailsPermanently ==
    /\ Asked("permanent")
    /\ NextTier

AnswerRejected(answer) ==
    /\ Asked("answer")
    /\ ~Escapes(answer) /\ FromAnswer(answer, parsed) = None
    /\ NextTier

AnswerAccepted(answer) ==
    /\ Asked("answer")
    /\ ~Escapes(answer) /\ FromAnswer(answer, parsed) # None
    /\ Accept(FromAnswer(answer, parsed))

\* The error leaves the cascade, the service and the endpoint's handlers.
AnswerEscapes(answer) ==
    /\ Asked("answer")
    /\ Escapes(answer)
    /\ End("extract", 500)
    /\ UNCHANGED <<request, parsed, tier, invoice, contracts>>

AllTiersFailed ==
    /\ tier > Len(Tiers)
    /\ End("extract", 422)
    /\ UNCHANGED <<request, parsed, tier, attempts, invoice, contracts>>
-----------------------------------------------------------------------------
NextContract == ContractOf(settings.enable_ocr, contract_documents[Len(contracts) + 1])

\* Slip: the contracts are handed over in reverse.
ReadContractToFront ==
    /\ pc = "contracts" /\ Len(contracts) < Len(contract_documents)
    /\ NextContract # None
    /\ contracts' = <<NextContract>> \o contracts
    /\ UNCHANGED <<request, pc, parsed, tier, attempts, invoice, status>>

ReadContract ==
    /\ pc = "contracts" /\ Len(contracts) < Len(contract_documents)
    /\ NextContract # None
    /\ contracts' = Append(contracts, NextContract)
    /\ UNCHANGED <<request, pc, parsed, tier, attempts, invoice, status>>

ReadContractFails ==
    /\ Len(contracts) < Len(contract_documents)
    /\ NextContract = None
    /\ End("contracts", 422)
    /\ UNCHANGED <<request, parsed, tier, attempts, invoice, contracts>>

\* ReconciliationService.reconcile, module Reconciliation: a result, or a
\* ReconciliationError, which there always is without a candidate.
Reconcile ==
    /\ contracts # <<>> /\ Len(contracts) = Len(contract_documents)
    /\ End("contracts", 200)
    /\ UNCHANGED <<request, parsed, tier, attempts, invoice, contracts>>

ReconcileFails ==
    /\ Len(contracts) = Len(contract_documents)
    /\ End("contracts", 422)
    /\ UNCHANGED <<request, parsed, tier, attempts, invoice, contracts>>

Next ==
    \/ Decode \/ RefuseEncoding \/ ParseInvoice \/ ParseFails
    \/ TierReads \/ TierFails \/ NothingToAsk
    \/ Retry \/ RetriesExhausted \/ FailsPermanently
    \/ \E answer \in Answers :
           AnswerRejected(answer) \/ AnswerAccepted(answer) \/ AnswerEscapes(answer)
    \/ AllTiersFailed
    \/ ReadContract \/ ReadContractFails \/ Reconcile \/ ReconcileFails

Spec == Init /\ [][Next]_vars

\* The handler is one thread that runs until it ends.
FairSpec == Spec /\ WF_vars(Next)
-----------------------------------------------------------------------------
\* The variables have their types; what has been read is never None.
TypeOK ==
    /\ pc \in {"decode", "parse", "extract", "contracts", "done"}
    /\ parsed \in {None, invoice_document.native, invoice_document.ocr}
    /\ tier \in 1 .. Len(Tiers) + 1
    /\ attempts \in Seq({"transient", "permanent", "answer"})
    /\ \A k \in DOMAIN contracts : contracts[k] # None
    /\ status \in {None, 200, 400, 422, 500}
    /\ pc = "contracts" => invoice # None

\* The LLM is asked only about a document neither deterministic tier can read,
\* and where it was not asked the invoice is that of the first tier that can
\* (cascading.py:60-75, dependencies.py:73-93).
LlmIsTheLastResort ==
    /\ attempts # <<>> => settings.enable_llm /\ NoTierReads(parsed)
    /\ invoice # None /\ attempts = <<>> =>
           invoice = IF LayoutAware(parsed) # None THEN LayoutAware(parsed) ELSE RuleBased(parsed)

\* Whichever tier read the invoice, its id, its SKUs and every number on it
\* stand in the document: none is made up (llm_invoice.py:171-204).
FiguresArePrinted ==
    invoice # None =>
        /\ invoice.invoice_id \in parsed.words
        /\ \A k \in DOMAIN invoice.line_items :
               LET line == invoice.line_items[k]
               IN /\ line.sku \in parsed.words
                  /\ Figures(line) \subseteq parsed.numbers

\* The provider is called at most MaxRetries + 1 times, again only after a
\* transient failure, and is not given up on such a failure before the last
\* of them (base.py:80-97).
RetriedWhileTransient ==
    /\ Len(attempts) <= MaxRetries + 1
    /\ \A k \in 1 .. Len(attempts) - 1 : attempts[k] = "transient"
    /\ attempts # <<>> /\ tier > Len(Tiers) /\ attempts[Len(attempts)] = "transient" =>
           Len(attempts) = MaxRetries + 1

\* No parse is kept that holds less text than the text layer, and a text layer
\* that is long enough is never exchanged (fallback.py:68-82).
BestTextIsRead ==
    parsed # None /\ invoice_document.native # None =>
        /\ parsed.text >= invoice_document.native.text
        /\ invoice_document.native.text >= MinTextChars => parsed = invoice_document.native

\* No parser reads the document, or its text layer is short and OCR raises.
Unparsed(doc) ==
    \/ ~settings.enable_ocr /\ doc.native = None
    \/ /\ settings.enable_ocr /\ doc.ocr = None
       /\ doc.native # None => doc.native.text < MinTextChars

\* A request is refused with 422 only if one of its documents cannot be
\* parsed, no enabled tier can read the invoice, a contract cannot be read, or
\* everything was read and the reconciliation failed (routers/reconciliation.py:97-103).
RefusedOnlyIfUnreadable ==
    status = 422 =>
        \/ \E doc \in Documents : Unparsed(doc)
        \/ /\ invoice = None /\ NoTierReads(parsed)
           /\ settings.enable_llm => parsed.text = 0 \/ attempts # <<>>
        \/ None \in Range(ContractsOf(settings, contract_documents))
        \/ Len(contracts) = Len(contract_documents)

\* What the request has come to: everything read, or a status without that.
Reading ==
    IF invoice # None /\ Len(contracts) = Len(contract_documents)
    THEN HandedOver(invoice, contracts)
    ELSE IF status # None THEN Refusal(status) ELSE None

Promise == INSTANCE Intake WITH reading <- Reading

\* The decoding, the parsers, the cascade, the retries and the contract loop
\* together do one thing: they come to a reading the documents allow.  What is
\* handed over is one invoice with every contract of the request, in its order
\* (document_reconciliation.py:64-99).
ImplementsIntake == Promise!Spec

\* Every request ends with a status.
RequestEnds == <>(status # None)

\* "400 on invalid base64; 422 if a document cannot be parsed/extracted or
\* reconciliation cannot complete" (routers/reconciliation.py:80-81): no other
\* way to fail.
FailsAsDocumented == status \in {None, 200, 400, 422}
=============================================================================
