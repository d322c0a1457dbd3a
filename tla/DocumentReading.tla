---------------------------- MODULE DocumentReading ----------------------------
(***************************************************************************)
(* What a document request can come to before its reconciliation starts    *)
(* (services/document_reconciliation.py, api/routers/reconciliation.py):   *)
(* refused with a status, or handed over to the service as an invoice and  *)
(* a list of contracts.                                                    *)
(*                                                                         *)
(* A document is [decodes, native, ocr]: whether its base64 is valid and   *)
(* what the two parsers make of it, None when they raise.  The settings    *)
(* are [enable_ocr, enable_llm].                                           *)
(***************************************************************************)
EXTENDS Extraction

CONSTANTS
    MinTextChars,       \* FallbackDocumentParser._min_text_chars
    Answers             \* what the LLM may answer, None when it is no JSON object

ASSUME StatusAssumption == None \notin Nat

ASSUME AnswersAssumption == \A a \in Answers \ {None} : a.currency \in DOMAIN Upper

ParsesOf(doc) == {doc.native, doc.ocr} \ {None}

TextLayerSuffices(doc) == doc.native # None /\ doc.native.text >= MinTextChars

OcrNoBetter(doc) == None \notin {doc.native, doc.ocr} /\ doc.ocr.text <= doc.native.text

\* The text layer if it is long enough, else the longer of the two texts.  An
\* OCR that raises loses the short text in hand.
Parse(enable_ocr, doc) ==
    IF ~enable_ocr \/ TextLayerSuffices(doc) \/ OcrNoBetter(doc)
    THEN doc.native
    ELSE doc.ocr

NoTierReads(text) == LayoutAware(text) = None /\ RuleBased(text) = None

\* The LLM tier is there, is reached, and has a text to send.
AsksTheLlm(options, text) == options.enable_llm /\ NoTierReads(text) /\ text.text > 0

\* Slip: the LLM is asked first.
InvoicesByLlmFirst(options, text) ==
    LET answers == {FromAnswer(a, text) :
                        a \in {b \in Answers : options.enable_llm /\ ~Escapes(b)}} \ {None}
    IN IF answers = {} THEN {LayoutAware(text), RuleBased(text)} \ {None} ELSE answers

\* The invoices that may be read from a text: the one of the first tier that
\* can, or those the LLM's answers give.
InvoicesIn(options, text) ==
    IF LayoutAware(text) # None
    THEN {LayoutAware(text)}
    ELSE IF RuleBased(text) # None
         THEN {RuleBased(text)}
         ELSE {FromAnswer(a, text) : a \in {b \in Answers : /\ AsksTheLlm(options, text)
                                                            /\ ~Escapes(b)}} \ {None}

\* What the contract extractor makes of a document, None if it cannot.
ContractOf(enable_ocr, doc) ==
    IF Parse(enable_ocr, doc) = None THEN None ELSE ContractFrom(Parse(enable_ocr, doc))

ContractsOf(options, docs) ==
    [k \in DOMAIN docs |-> ContractOf(options.enable_ocr, docs[k])]
-----------------------------------------------------------------------------
Refusal(code) == [status |-> code, invoice |-> None, contracts |-> <<>>]

HandedOver(inv, cs) == [status |-> None, invoice |-> inv, contracts |-> cs]

\* How the reading of the invoice may fail: no tier, whatever the provider
\* does, or an answer with a figure that is no number.
InvoiceRefusals(options, text) ==
    (IF NoTierReads(text) THEN {Refusal(422)} ELSE {})
    \cup {Refusal(500) : a \in {b \in Answers : AsksTheLlm(options, text) /\ Escapes(b)}}

\* All a request with these documents may come to.  Nothing is handed over
\* unless every one of its documents was read.
Readings(options, doc, docs) ==
    LET text == Parse(options.enable_ocr, doc)
        contracts == ContractsOf(options, docs)
    IN IF \E d \in {doc} \cup Range(docs) : ~d.decodes
       THEN {Refusal(400)}
       ELSE IF text = None
            THEN {Refusal(422)}
            ELSE InvoiceRefusals(options, text)
                 \cup {IF None \in Range(contracts) THEN Refusal(422) ELSE HandedOver(i, contracts)
                           : i \in InvoicesIn(options, text)}
=============================================================================
