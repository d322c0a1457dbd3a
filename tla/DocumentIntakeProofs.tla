-------------------------- MODULE DocumentIntakeProofs --------------------------
(***************************************************************************)
(* Proofs about the intake of a document request, for any documents, any   *)
(* answers of the model and any number of retries.                         *)
(***************************************************************************)
EXTENDS DocumentIntake, OperatorLemmas

\* What is set when, along the phases of a request.
PhaseInv ==
    /\ settings \in [enable_ocr : BOOLEAN, enable_llm : BOOLEAN]
    /\ invoice_document \in InvoiceDocuments
    /\ contract_documents \in ContractLists
    /\ pc \in {"decode", "parse", "extract", "contracts", "done"}
    /\ status \in {None, 200, 400, 422, 500}
    /\ pc # "done" => status = None
    /\ pc \in {"parse", "extract", "contracts"} => \A doc \in Documents : doc.decodes
    /\ parsed \in {None, ParsedInvoice}
    /\ pc \in {"extract", "contracts"} => parsed # None
    /\ pc \in {"decode", "parse"} => parsed = None /\ tier = 1
    /\ pc \in {"decode", "parse", "extract"} => invoice = None /\ contracts = <<>>
    /\ pc = "contracts" => invoice # None

\* How far the cascade has come, and what the tiers behind it could not do.
CascadeInv ==
    /\ tier \in 1 .. Len(Tiers) + 1
    /\ tier > 1 => LayoutAware(parsed) = None
    /\ tier > 2 => RuleBased(parsed) = None
    /\ attempts # <<>> => tier > 2 /\ settings.enable_llm /\ parsed.text > 0
    /\ tier > 3 => parsed.text = 0 \/ attempts # <<>>

\* The calls of the provider: one after another, each after a transient failure.
RetryInv ==
    /\ attempts \in Seq({"transient", "permanent", "answer"})
    /\ pc = "extract" /\ tier = 3 =>
           /\ Len(attempts) <= MaxRetries
           /\ \A k \in DOMAIN attempts : attempts[k] = "transient"
    /\ RetriedWhileTransient

\* What was extracted is what the documents say.
ExtractedInv ==
    /\ invoice # None =>
           /\ parsed # None
           /\ invoice \in InvoicesIn(settings, parsed)
           /\ \A doc \in Documents : doc.decodes
    /\ Len(contracts) \in 0 .. Len(contract_documents)
    /\ contracts = [k \in 1 .. Len(contracts) |-> ContractOf(settings.enable_ocr, contract_documents[k])]
    /\ \A k \in DOMAIN contracts : contracts[k] # None

IInv ==
    /\ PhaseInv /\ CascadeInv /\ RetryInv /\ ExtractedInv
    /\ LlmIsTheLastResort /\ RefusedOnlyIfUnreadable

LEMMA TiersInOrder ==
    ASSUME settings.enable_llm \in BOOLEAN
    PROVE  /\ Len(Tiers) = IF settings.enable_llm THEN 3 ELSE 2
           /\ Tiers[1] = "layout" /\ Tiers[2] = "text"
           /\ settings.enable_llm => Tiers[3] = "llm"
           /\ DOMAIN Tiers = 1 .. Len(Tiers)
<1>1. CASE settings.enable_llm
  <2> DEFINE tiers == <<"layout", "text">> \o <<"llm">>
  <2>1. tiers \in Seq({"layout", "text", "llm"}) /\ Len(tiers) = 3
    <3>1. <<"layout", "text">> \in Seq({"layout", "text", "llm"}) /\ <<"llm">> \in Seq({"layout", "text", "llm"})
      OBVIOUS
    <3> QED
      BY <3>1
  <2>2. tiers[1] = "layout" /\ tiers[2] = "text" /\ tiers[3] = "llm"
    OBVIOUS
  <2> QED
    BY <1>1, <2>1, <2>2 DEF Tiers
<1>2. CASE ~settings.enable_llm
  <2>1. <<"layout", "text">> \o <<>> = <<"layout", "text">>
    OBVIOUS
  <2> QED
    BY <1>2, <2>1 DEF Tiers
<1> QED
  BY <1>1, <1>2

LEMMA TierNumbers ==
    ASSUME PhaseInv, CascadeInv
    PROVE  /\ InTier("layout") => tier = 1
           /\ InTier("text") => tier = 2
           /\ InTier("llm") => tier = 3 /\ settings.enable_llm
           /\ \A name \in {"layout", "text", "llm"} : InTier(name) =>
                  pc = "extract" /\ tier + 1 \in 1 .. Len(Tiers) + 1
           /\ tier > 2 /\ ~settings.enable_llm => tier = 3 /\ tier > Len(Tiers)
           /\ tier > 3 => settings.enable_llm /\ tier = 4
           /\ settings.enable_llm => Len(Tiers) = 3
<1>1. settings.enable_llm \in BOOLEAN
  BY DEF PhaseInv
<1>2. tier \in Nat
  BY <1>1, TiersInOrder DEF CascadeInv
<1>3. CASE settings.enable_llm
  <2>1. tier \in {1, 2, 3, 4} /\ Len(Tiers) = 3 /\ DOMAIN Tiers = 1 .. 3
    <3>1. Len(Tiers) = 3 /\ DOMAIN Tiers = 1 .. Len(Tiers)
      BY <1>1, <1>3, TiersInOrder
    <3> QED
      BY <1>2, <3>1 DEF CascadeInv
  <2>2. Tiers[1] = "layout" /\ Tiers[2] = "text" /\ Tiers[3] = "llm"
    BY <1>1, <1>3, TiersInOrder
  <2>3. /\ InTier("layout") => tier = 1
        /\ InTier("text") => tier = 2
        /\ InTier("llm") => tier = 3
        /\ \A name \in {"layout", "text", "llm"} : InTier(name) =>
               pc = "extract" /\ tier + 1 \in 1 .. Len(Tiers) + 1
        /\ tier > 3 => tier = 4
    BY <2>1, <2>2 DEF InTier
  <2> QED
    BY <1>3, <2>1, <2>3
<1>4. CASE ~settings.enable_llm
  <2>1. tier \in {1, 2, 3} /\ Len(Tiers) = 2 /\ DOMAIN Tiers = 1 .. 2
    <3>1. Len(Tiers) = 2 /\ DOMAIN Tiers = 1 .. Len(Tiers)
      BY <1>1, <1>4, TiersInOrder
    <3> QED
      BY <1>2, <3>1 DEF CascadeInv
  <2>2. Tiers[1] = "layout" /\ Tiers[2] = "text"
    BY <1>1, <1>4, TiersInOrder
  <2> QED
    BY <1>4, <2>1, <2>2 DEF InTier
<1> QED
  BY <1>3, <1>4

\* What a lone document comes to does not change while the request lasts.
LEMMA RequestKept ==
    ASSUME UNCHANGED request
    PROVE  /\ Tiers' = Tiers /\ ParsedInvoice' = ParsedInvoice /\ Documents' = Documents
           /\ ContractsOf(settings, contract_documents)' = ContractsOf(settings, contract_documents)
           /\ \A doc : Unparsed(doc)' = Unparsed(doc)
BY DEF request, Tiers, ParsedInvoice, Documents, ContractsOf, Unparsed
-----------------------------------------------------------------------------
LEMMA InitIInv == Init => IInv
<1> SUFFICES ASSUME Init PROVE IInv
  OBVIOUS
<1>1. PhaseInv
  BY DEF Init, PhaseInv
<1>2. settings.enable_llm \in BOOLEAN
  BY <1>1 DEF PhaseInv
<1>3. CascadeInv /\ RetryInv /\ LlmIsTheLastResort
  BY <1>2, TiersInOrder, RetriesAreFinite
     DEF Init, CascadeInv, RetryInv, RetriedWhileTransient, LlmIsTheLastResort
<1>4. ExtractedInv
  BY <1>1, DocumentsAssumption DEF Init, ExtractedInv, PhaseInv
<1>5. RefusedOnlyIfUnreadable
  BY StatusAssumption DEF Init, RefusedOnlyIfUnreadable
<1> QED
  BY <1>1, <1>3, <1>4, <1>5 DEF IInv

StatusNumbers == None \notin {200, 400, 422, 500}

\* What a step that leaves some variables alone leaves true.
LEMMA KeptByUnchanged ==
    ASSUME IInv, UNCHANGED request
    PROVE  /\ UNCHANGED <<parsed, tier, attempts>> => CascadeInv'
           /\ UNCHANGED <<parsed, invoice, contracts>> => ExtractedInv'
           /\ UNCHANGED <<parsed, attempts, invoice>> => LlmIsTheLastResort'
           /\ UNCHANGED <<tier, attempts>> /\ (pc' # "extract" \/ pc = "extract") => RetryInv'
           /\ status' # 422 => RefusedOnlyIfUnreadable'
<1>1. Tiers' = Tiers /\ Documents' = Documents
  BY RequestKept
<1>2. UNCHANGED <<settings, invoice_document, contract_documents>>
  BY DEF request
<1>3. UNCHANGED <<parsed, tier, attempts>> => CascadeInv'
  BY <1>1, <1>2 DEF IInv, CascadeInv
<1>4. UNCHANGED <<parsed, invoice, contracts>> => ExtractedInv'
  BY <1>1, <1>2 DEF IInv, ExtractedInv
<1>5. UNCHANGED <<parsed, attempts, invoice>> => LlmIsTheLastResort'
  BY <1>2 DEF IInv, LlmIsTheLastResort
<1>6. UNCHANGED <<tier, attempts>> /\ (pc' # "extract" \/ pc = "extract") => RetryInv'
  BY <1>1 DEF IInv, RetryInv, RetriedWhileTransient
<1>7. status' # 422 => RefusedOnlyIfUnreadable'
  BY DEF RefusedOnlyIfUnreadable
<1> QED
  BY <1>3, <1>4, <1>5, <1>6, <1>7

LEMMA DecodingKeeps ==
    ASSUME IInv, Decode \/ RefuseEncoding \/ ParseInvoice \/ ParseFails
    PROVE  IInv'
<1>0. StatusNumbers
  BY StatusAssumption DEF StatusNumbers
<1>1. CASE Decode
  <2>1. UNCHANGED <<request, parsed, tier, attempts, invoice, contracts, status>>
    BY <1>1 DEF Decode
  <2>2. PhaseInv'
    BY <1>1, <2>1, RequestKept DEF IInv, PhaseInv, Decode, Goto, request
  <2>3. status' # 422
    BY <1>0, <1>1, <2>1 DEF IInv, PhaseInv, Decode, Goto, StatusNumbers
  <2> QED
    BY <1>1, <2>1, <2>2, <2>3, KeptByUnchanged DEF IInv, Decode, Goto
<1>2. CASE RefuseEncoding
  <2>1. UNCHANGED <<request, parsed, tier, attempts, invoice, contracts>> /\ status' = 400
    BY <1>2 DEF RefuseEncoding, End
  <2>2. PhaseInv'
    BY <1>2, <2>1, RequestKept DEF IInv, PhaseInv, RefuseEncoding, End, Goto, request
  <2> QED
    BY <1>2, <2>1, <2>2, KeptByUnchanged DEF IInv, RefuseEncoding, End, Goto
<1>3. CASE ParseInvoice
  <2>1. /\ UNCHANGED <<request, tier, attempts, invoice, contracts, status>>
        /\ parsed' = ParsedInvoice /\ ParsedInvoice # None
        /\ pc = "parse" /\ pc' = "extract" /\ parsed = None /\ tier = 1
        /\ invoice = None /\ contracts = <<>> /\ status = None
    BY <1>3 DEF ParseInvoice, Goto, IInv, PhaseInv
  <2>2. PhaseInv'
    BY <2>1, RequestKept DEF IInv, PhaseInv, request
  <2>3. attempts = <<>>
    BY <2>1 DEF IInv, CascadeInv
  <2>4. CascadeInv' /\ LlmIsTheLastResort' /\ ExtractedInv'
    BY <2>1, <2>3, RequestKept DEF IInv, CascadeInv, LlmIsTheLastResort, ExtractedInv, request
  <2>5. RetryInv'
    BY <2>1, <2>3, RequestKept, RetriesAreFinite DEF RetryInv, RetriedWhileTransient
  <2>6. status' # 422
    BY <1>0, <2>1 DEF StatusNumbers
  <2> QED
    BY <2>1, <2>2, <2>4, <2>5, <2>6, KeptByUnchanged DEF IInv
<1>4. CASE ParseFails
  <2>1. /\ UNCHANGED <<request, parsed, tier, attempts, invoice, contracts>>
        /\ ParsedInvoice = None /\ pc = "parse" /\ pc' = "done" /\ status' = 422
    BY <1>4 DEF ParseFails, End, Goto
  <2>2. PhaseInv'
    BY <2>1, RequestKept DEF IInv, PhaseInv, request
  <2>3. RefusedOnlyIfUnreadable'
    <3>1. Unparsed(invoice_document)
      <4>1. CASE settings.enable_ocr
        <5>1. /\ invoice_document.ocr = None
              /\ invoice_document.native # None => ~(invoice_document.native.text >= MinTextChars)
          BY <2>1, <4>1 DEF ParsedInvoice, Parse, TextLayerSuffices, OcrNoBetter
        <5>2. invoice_document.native # None => invoice_document.native.text \in Nat
          BY DocumentsAssumption DEF IInv, PhaseInv, ParsesOf
        <5> QED
          BY <4>1, <5>1, <5>2, DocumentsAssumption DEF Unparsed
      <4>2. CASE ~settings.enable_ocr
        BY <2>1, <4>2 DEF Unparsed, ParsedInvoice, Parse
      <4> QED
        BY <4>1, <4>2
    <3> QED
      BY <2>1, <3>1, RequestKept DEF RefusedOnlyIfUnreadable, Documents, request
  <2> QED
    BY <2>1, <2>2, <2>3, KeptByUnchanged DEF IInv
<1> QED
  BY <1>1, <1>2, <1>3, <1>4
-----------------------------------------------------------------------------
\* A tier that fails leaves everything but the tier and the attempts alone.
LEMMA NextTierKeeps ==
    ASSUME IInv, pc = "extract", NextTier
    PROVE  PhaseInv' /\ ExtractedInv' /\ RefusedOnlyIfUnreadable'
<1>1. /\ UNCHANGED <<request, pc, parsed, invoice, contracts, status>>
      /\ tier' = tier + 1 /\ status = None
  BY DEF NextTier, IInv, PhaseInv
<1>2. status' # 422
  BY <1>1, StatusAssumption
<1>3. ExtractedInv' /\ RefusedOnlyIfUnreadable'
  BY <1>1, <1>2, KeptByUnchanged
<1>4. PhaseInv'
  BY <1>1, RequestKept DEF IInv, PhaseInv, request
<1> QED
  BY <1>3, <1>4

\* An invoice the text allows is accepted.
LEMMA AcceptKeeps ==
    ASSUME IInv, NEW i, i # None, i \in InvoicesIn(settings, parsed), Accept(i)
    PROVE  PhaseInv' /\ ExtractedInv' /\ RefusedOnlyIfUnreadable'
<1>1. /\ UNCHANGED <<request, parsed, tier, contracts, status>>
      /\ pc = "extract" /\ pc' = "contracts" /\ invoice' = i
      /\ status = None /\ parsed # None /\ contracts = <<>>
  BY DEF Accept, Goto, IInv, PhaseInv
<1>2. RefusedOnlyIfUnreadable'
  BY <1>1, StatusAssumption, KeptByUnchanged
<1>3. PhaseInv'
  BY <1>1, RequestKept DEF IInv, PhaseInv, request
<1>4. \A doc \in Documents : doc.decodes
  BY <1>1 DEF IInv, PhaseInv
<1>5. ExtractedInv'
  BY <1>1, <1>4, RequestKept DEF IInv, ExtractedInv, request
<1> QED
  BY <1>2, <1>3, <1>5

LEMMA TiersKeep ==
    ASSUME IInv, TierReads \/ TierFails \/ NothingToAsk
    PROVE  IInv'
<1>0. PhaseInv /\ CascadeInv
  BY DEF IInv
<1>1. CASE TierReads
  <2>1. PICK name \in {"layout", "text"} :
            InTier(name) /\ ReadBy(name) # None /\ Accept(ReadBy(name))
    BY <1>1 DEF TierReads
  <2>2. /\ UNCHANGED <<request, parsed, tier, attempts>> /\ pc' = "contracts"
        /\ invoice' = ReadBy(name)
    BY <1>1, <2>1 DEF TierReads, Accept, Goto
  <2>3. attempts = <<>> /\ (name = "text" => LayoutAware(parsed) = None)
    BY <1>0, <2>1, TierNumbers DEF CascadeInv
  <2>4. /\ ReadBy(name) \in InvoicesIn(settings, parsed)
        /\ ReadBy(name) = IF LayoutAware(parsed) # None
                          THEN LayoutAware(parsed) ELSE RuleBased(parsed)
    BY <2>1, <2>3 DEF ReadBy, InvoicesIn
  <2>5. PhaseInv' /\ ExtractedInv' /\ RefusedOnlyIfUnreadable'
    BY <2>1, <2>4, AcceptKeeps
  <2>6. CascadeInv' /\ RetryInv'
    BY <2>2, KeptByUnchanged
  <2>7. LlmIsTheLastResort'
    BY <2>2, <2>3, <2>4 DEF LlmIsTheLastResort
  <2> QED
    BY <2>5, <2>6, <2>7 DEF IInv
<1>2. CASE TierFails
  <2>1. PICK name \in {"layout", "text"} : InTier(name) /\ ReadBy(name) = None
    BY <1>2 DEF TierFails
  <2>2. /\ NextTier /\ UNCHANGED <<request, parsed, attempts, invoice>> /\ pc' = pc
        /\ pc = "extract" /\ tier' = tier + 1
    BY <1>2, <2>1 DEF TierFails, NextTier, InTier
  <2>3. /\ attempts = <<>> /\ tier \in {1, 2} /\ tier + 1 \in 1 .. Len(Tiers) + 1
        /\ tier = 1 => LayoutAware(parsed) = None
        /\ tier = 2 => LayoutAware(parsed) = None /\ RuleBased(parsed) = None
    <3>1. /\ name = "layout" => tier = 1
          /\ name = "text" => tier = 2
          /\ tier + 1 \in 1 .. Len(Tiers) + 1
      BY <1>0, <2>1, TierNumbers
    <3>2. attempts = <<>> /\ (tier = 2 => LayoutAware(parsed) = None) /\ tier \in {1, 2}
      BY <1>0, <3>1 DEF CascadeInv
    <3> QED
      BY <2>1, <3>1, <3>2 DEF ReadBy
  <2>4. PhaseInv' /\ ExtractedInv' /\ RefusedOnlyIfUnreadable'
    BY <2>2, NextTierKeeps
  <2>5. CascadeInv'
    BY <2>2, <2>3, RequestKept DEF CascadeInv
  <2>6. RetryInv'
    BY <2>2, <2>3, RetriesAreFinite DEF RetryInv, RetriedWhileTransient
  <2>7. LlmIsTheLastResort'
    BY <2>2, KeptByUnchanged
  <2> QED
    BY <2>4, <2>5, <2>6, <2>7 DEF IInv
<1>3. CASE NothingToAsk
  <2>1. /\ InTier("llm") /\ parsed.text = 0
        /\ NextTier /\ UNCHANGED <<request, parsed, attempts, invoice>> /\ pc' = pc
        /\ pc = "extract" /\ tier' = tier + 1
    BY <1>3 DEF NothingToAsk, NextTier, InTier
  <2>2. /\ tier = 3 /\ 4 \in 1 .. Len(Tiers) + 1
        /\ LayoutAware(parsed) = None /\ RuleBased(parsed) = None
    BY <1>0, <2>1, TierNumbers DEF CascadeInv
  <2>3. PhaseInv' /\ ExtractedInv' /\ RefusedOnlyIfUnreadable'
    BY <2>1, NextTierKeeps
  <2>4. attempts = <<>>
    BY <1>0, <2>1 DEF CascadeInv
  <2>5. CascadeInv'
    BY <2>1, <2>2, <2>4, RequestKept DEF CascadeInv, request
  <2>6. LlmIsTheLastResort'
    BY <2>1, KeptByUnchanged
  <2>7. RetryInv'
    BY <2>1, <2>2, <2>4, RetriesAreFinite DEF RetryInv, RetriedWhileTransient
  <2> QED
    BY <2>3, <2>5, <2>6, <2>7 DEF IInv
<1> QED
  BY <1>1, <1>2, <1>3
-----------------------------------------------------------------------------
\* The provider is asked by the last tier, about a text no other could read.
LEMMA AskedLast ==
    ASSUME IInv, NEW outcome \in {"transient", "permanent", "answer"}, Asked(outcome)
    PROVE  /\ pc = "extract" /\ tier = 3 /\ settings.enable_llm /\ Len(Tiers) = 3
           /\ parsed.text > 0 /\ NoTierReads(parsed)
           /\ Len(attempts) \in 0 .. MaxRetries
           /\ \A k \in DOMAIN attempts : attempts[k] = "transient"
           /\ attempts' \in Seq({"transient", "permanent", "answer"})
           /\ attempts' # <<>> /\ Len(attempts') = Len(attempts) + 1
           /\ attempts'[Len(attempts')] = outcome
           /\ \A k \in 1 .. Len(attempts') - 1 : attempts'[k] = "transient"
<1>1. /\ InTier("llm") /\ parsed.text > 0 /\ attempts' = Append(attempts, outcome)
      /\ PhaseInv /\ CascadeInv /\ RetryInv
  BY DEF Asked, IInv
<1>2. pc = "extract" /\ tier = 3 /\ settings.enable_llm /\ Len(Tiers) = 3
  BY <1>1, TierNumbers
<1>3. NoTierReads(parsed)
  BY <1>1, <1>2 DEF CascadeInv, NoTierReads
<1>4. /\ attempts \in Seq({"transient", "permanent", "answer"})
      /\ Len(attempts) <= MaxRetries
      /\ \A k \in DOMAIN attempts : attempts[k] = "transient"
  BY <1>1, <1>2 DEF RetryInv
<1>5. /\ Len(attempts) \in 0 .. MaxRetries
      /\ attempts' \in Seq({"transient", "permanent", "answer"})
      /\ attempts' # <<>> /\ Len(attempts') = Len(attempts) + 1
      /\ attempts'[Len(attempts')] = outcome
      /\ \A k \in 1 .. Len(attempts') - 1 : attempts'[k] = "transient"
  BY <1>1, <1>4, RetriesAreFinite
<1> QED
  BY <1>1, <1>2, <1>3, <1>4, <1>5

\* Whatever the call ended with: what holds of the attempts after it.
LEMMA AskingKeeps ==
    ASSUME IInv, NEW outcome \in {"transient", "permanent", "answer"}, Asked(outcome),
           UNCHANGED <<request, parsed>>,
           \/ tier' = 3 /\ pc' # "extract"
           \/ tier' = 4 /\ (outcome = "transient" => Exhausted)
           \/ tier' = 3 /\ outcome = "transient" /\ ~Exhausted
    PROVE  CascadeInv' /\ RetryInv' /\ LlmIsTheLastResort'
<1>1. /\ tier = 3 /\ settings.enable_llm /\ Len(Tiers) = 3
      /\ parsed.text > 0 /\ NoTierReads(parsed)
      /\ Len(attempts) \in 0 .. MaxRetries
      /\ attempts' \in Seq({"transient", "permanent", "answer"})
      /\ attempts' # <<>> /\ Len(attempts') = Len(attempts) + 1
      /\ attempts'[Len(attempts')] = outcome
      /\ \A k \in 1 .. Len(attempts') - 1 : attempts'[k] = "transient"
  BY AskedLast
<1>2. /\ settings'.enable_llm /\ Tiers' = Tiers /\ Len(Tiers') = 3
      /\ parsed' = parsed /\ NoTierReads(parsed)'
  BY <1>1, RequestKept DEF request, NoTierReads
<1>3. CascadeInv'
  <2>1. tier' \in {3, 4} /\ (LayoutAware(parsed) = None /\ RuleBased(parsed) = None)'
    BY <1>2 DEF NoTierReads
  <2>2. tier' \in 1 .. Len(Tiers') + 1 /\ tier' > 2
    BY <1>2, <2>1
  <2>3. attempts' # <<>> /\ parsed'.text > 0
    BY <1>1, <1>2
  <2> QED
    BY <1>2, <2>1, <2>2, <2>3, Zenon DEF CascadeInv
<1>4. LlmIsTheLastResort'
  BY <1>1, <1>2 DEF LlmIsTheLastResort
<1>5. tier' = 4 /\ outcome = "transient" => Len(attempts) = MaxRetries
  BY <1>1, RetriesAreFinite DEF Exhausted
<1>6. RetriedWhileTransient'
  <2>1. Len(attempts') <= MaxRetries + 1
    BY <1>1, RetriesAreFinite
  <2>2. tier' > Len(Tiers') /\ attempts'[Len(attempts')] = "transient" => Len(attempts') = MaxRetries + 1
    <3> SUFFICES ASSUME tier' > Len(Tiers'), attempts'[Len(attempts')] = "transient"
                 PROVE  Len(attempts') = MaxRetries + 1
      OBVIOUS
    <3>1. outcome = "transient"
      BY <1>1
    <3>2. tier' = 4
      <4>1. tier' > 3
        BY <1>2
      <4>2. tier' = 3 \/ tier' = 4
        OBVIOUS
      <4> QED
        BY <4>1, <4>2
    <3>3. Len(attempts) = MaxRetries /\ Len(attempts') = Len(attempts) + 1
      BY <1>1, <1>5, <3>1, <3>2
    <3> QED
      BY <3>3
  <2> QED
    BY <1>1, <2>1, <2>2 DEF RetriedWhileTransient
<1>7. pc' = "extract" /\ tier' = 3 =>
          Len(attempts') <= MaxRetries /\ \A k \in DOMAIN attempts' : attempts'[k] = "transient"
  <2> SUFFICES ASSUME pc' = "extract", tier' = 3
               PROVE  Len(attempts') <= MaxRetries /\ \A k \in DOMAIN attempts' : attempts'[k] = "transient"
    OBVIOUS
  <2>1. outcome = "transient" /\ ~Exhausted
    OBVIOUS
  <2> QED
    BY <1>1, <2>1, RetriesAreFinite DEF Exhausted
<1>8. RetryInv'
  BY <1>1, <1>6, <1>7 DEF RetryInv
<1> QED
  BY <1>3, <1>4, <1>8

LEMMA ProviderKeeps ==
    ASSUME IInv,
           \/ Retry \/ RetriesExhausted \/ FailsPermanently
           \/ \E answer \in Answers :
                  AnswerRejected(answer) \/ AnswerAccepted(answer) \/ AnswerEscapes(answer)
    PROVE  IInv'
<1>1. CASE Retry
  <2>1. /\ Asked("transient") /\ ~Exhausted
        /\ UNCHANGED <<request, pc, parsed, tier, invoice, contracts, status>>
    BY <1>1 DEF Retry
  <2>2. pc = "extract" /\ tier = 3
    BY <2>1, AskedLast
  <2>3. CascadeInv' /\ RetryInv' /\ LlmIsTheLastResort'
    BY <2>1, <2>2, AskingKeeps
  <2>4. PhaseInv'
    BY <2>1, RequestKept DEF IInv, PhaseInv, request
  <2>5. status' # 422
    BY <2>1, <2>2, StatusAssumption DEF IInv, PhaseInv
  <2> QED
    BY <2>1, <2>3, <2>4, <2>5, KeptByUnchanged DEF IInv
<1>2. ASSUME NEW outcome \in {"transient", "permanent", "answer"}, Asked(outcome),
             outcome = "transient" => Exhausted, NextTier
      PROVE  IInv'
  <2>1. pc = "extract" /\ tier = 3
    BY <1>2, AskedLast
  <2>2. tier' = 4 /\ UNCHANGED <<request, parsed>>
    BY <1>2, <2>1 DEF NextTier
  <2>3. CascadeInv' /\ RetryInv' /\ LlmIsTheLastResort'
    BY <1>2, <2>2, AskingKeeps
  <2> QED
    BY <1>2, <2>1, <2>3, NextTierKeeps DEF IInv
<1>3. CASE RetriesExhausted \/ FailsPermanently \/ \E answer \in Answers : AnswerRejected(answer)
  BY <1>2, <1>3 DEF RetriesExhausted, FailsPermanently, AnswerRejected
<1>4. ASSUME NEW answer \in Answers, AnswerAccepted(answer)
      PROVE  IInv'
  <2> DEFINE i == FromAnswer(answer, parsed)
  <2>1. Asked("answer") /\ ~Escapes(answer) /\ i # None /\ Accept(i)
    BY <1>4 DEF AnswerAccepted
  <2>2. UNCHANGED <<request, parsed, tier>> /\ pc' = "contracts"
    BY <2>1 DEF Accept, Goto
  <2>3. tier = 3 /\ settings.enable_llm /\ parsed.text > 0 /\ NoTierReads(parsed)
    BY <2>1, AskedLast
  <2>4. CascadeInv' /\ RetryInv' /\ LlmIsTheLastResort'
    BY <2>1, <2>2, <2>3, AskingKeeps
  <2>5. i \in InvoicesIn(settings, parsed)
    <3>1. AsksTheLlm(settings, parsed)
      BY <2>3 DEF AsksTheLlm
    <3>2. LayoutAware(parsed) = None /\ RuleBased(parsed) = None
      BY <2>3 DEF NoTierReads
    <3> HIDE DEF i
    <3>3. \E a \in {b \in Answers : AsksTheLlm(settings, parsed) /\ ~Escapes(b)} :
              i = FromAnswer(a, parsed)
      BY <2>1, <3>1 DEF i
    <3> QED
      BY <2>1, <3>2, <3>3 DEF InvoicesIn
  <2> HIDE DEF i
  <2>6. PhaseInv' /\ ExtractedInv' /\ RefusedOnlyIfUnreadable'
    BY <2>1, <2>5, AcceptKeeps
  <2> QED
    BY <2>4, <2>6 DEF IInv
<1>5. ASSUME NEW answer \in Answers, AnswerEscapes(answer)
      PROVE  IInv'
  <2>1. /\ Asked("answer") /\ pc' = "done" /\ status' = 500
        /\ UNCHANGED <<request, parsed, tier, invoice, contracts>>
    BY <1>5 DEF AnswerEscapes, End, Goto
  <2>2. CascadeInv' /\ RetryInv' /\ LlmIsTheLastResort'
    BY <2>1, AskedLast, AskingKeeps
  <2>3. PhaseInv'
    BY <2>1, RequestKept DEF IInv, PhaseInv, request
  <2> QED
    BY <2>1, <2>2, <2>3, KeptByUnchanged DEF IInv
<1> QED
  BY <1>1, <1>3, <1>4, <1>5
-----------------------------------------------------------------------------
LEMMA PastTheTiers ==
    ASSUME PhaseInv, CascadeInv, tier > Len(Tiers)
    PROVE  /\ NoTierReads(parsed)
           /\ settings.enable_llm => parsed.text = 0 \/ attempts # <<>>
<1>1. settings.enable_llm \in BOOLEAN
  BY DEF PhaseInv
<1>2. tier > 2 /\ (settings.enable_llm => tier > 3)
  <2>1. CASE settings.enable_llm
    BY <1>1, <2>1, TiersInOrder DEF CascadeInv
  <2>2. CASE ~settings.enable_llm
    BY <1>1, <2>2, TiersInOrder DEF CascadeInv
  <2> QED
    BY <2>1, <2>2
<1>3. LayoutAware(parsed) = None /\ RuleBased(parsed) = None
  BY <1>2, TierNumbers DEF CascadeInv
<1>4. settings.enable_llm => parsed.text = 0 \/ attempts # <<>>
  BY <1>2 DEF CascadeInv
<1> QED
  BY <1>3, <1>4 DEF NoTierReads

LEMMA AllTiersFailedKeeps ==
    ASSUME IInv, AllTiersFailed
    PROVE  IInv'
<1>1. /\ tier > Len(Tiers) /\ pc = "extract" /\ pc' = "done" /\ status' = 422
      /\ UNCHANGED <<request, parsed, tier, attempts, invoice, contracts>>
      /\ invoice = None /\ PhaseInv /\ CascadeInv
  BY DEF AllTiersFailed, End, Goto, IInv, PhaseInv
<1>2. PhaseInv'
  BY <1>1, RequestKept DEF IInv, PhaseInv, request
<1>4. NoTierReads(parsed) /\ (settings.enable_llm => parsed.text = 0 \/ attempts # <<>>)
  BY <1>1, PastTheTiers
<1>5. RefusedOnlyIfUnreadable'
  BY <1>1, <1>4 DEF RefusedOnlyIfUnreadable, request, NoTierReads
<1> QED
  BY <1>1, <1>2, <1>5, KeptByUnchanged DEF IInv

LEMMA ContractsKeep ==
    ASSUME IInv, ReadContract \/ ReadContractFails \/ Reconcile \/ ReconcileFails
    PROVE  IInv'
<1>1. /\ contract_documents \in Seq(Range(contract_documents))
      /\ Len(contracts) \in 0 .. Len(contract_documents)
  BY DocumentsAssumption DEF IInv, PhaseInv, ExtractedInv
<1>2. CASE ReadContract
  <2>1. /\ UNCHANGED <<request, pc, parsed, tier, attempts, invoice, status>>
        /\ pc = "contracts" /\ contracts' = Append(contracts, NextContract)
        /\ Len(contracts) < Len(contract_documents) /\ NextContract # None
        /\ status = None
    BY <1>2 DEF ReadContract, IInv, PhaseInv
  <2>2. PhaseInv'
    BY <2>1, RequestKept DEF IInv, PhaseInv, request
  <2>3. ExtractedInv'
    <3> DEFINE Of(k) == ContractOf(settings.enable_ocr, contract_documents[k])
               n == Len(contracts)
    <3>1. /\ contracts = [k \in 1 .. n |-> Of(k)] /\ n \in Nat
          /\ \A k \in 1 .. n : contracts[k] # None
      BY <1>1 DEF IInv, ExtractedInv
    <3>2. NextContract = Of(n + 1)
      BY DEF NextContract
    <3>3. contracts' = [k \in 1 .. n + 1 |-> Of(k)]
      <4> HIDE DEF Of, n
      <4>1. Append([k \in 1 .. n |-> Of(k)], Of(n + 1)) = [k \in 1 .. n + 1 |-> Of(k)]
        BY <3>1
      <4> QED
        BY <2>1, <3>1, <3>2, <4>1
    <3>4. Len(contracts') = n + 1 /\ DOMAIN contracts' = 1 .. n + 1
      <4> HIDE DEF Of, n
      <4> QED
        BY <3>1, <3>3
    <3>5. \A k \in 1 .. n + 1 : contracts'[k] # None
      <4> HIDE DEF Of, n
      <4>1. ASSUME NEW k \in 1 .. n + 1 PROVE contracts'[k] # None
        <5>1. CASE k = n + 1
          BY <2>1, <3>2, <3>3, <5>1
        <5>2. CASE k \in 1 .. n
          BY <3>1, <3>3, <5>2
        <5> QED
          BY <3>1, <5>1, <5>2
      <4> QED
        BY <4>1
    <3>6. contracts' = [k \in 1 .. Len(contracts') |->
                           ContractOf(settings'.enable_ocr, contract_documents'[k])]
      BY <2>1, <3>3, <3>4 DEF request
    <3>7. n + 1 \in 0 .. Len(contract_documents')
      BY <1>1, <2>1 DEF request
    <3> HIDE DEF Of, n
    <3> QED
      BY <2>1, <3>4, <3>5, <3>6, <3>7, RequestKept DEF IInv, ExtractedInv, request
  <2>4. status' # 422
    BY <2>1, StatusAssumption
  <2> QED
    BY <2>1, <2>2, <2>3, <2>4, KeptByUnchanged DEF IInv
<1>3. CASE ReadContractFails
  <2>1. /\ UNCHANGED <<request, parsed, tier, attempts, invoice, contracts>>
        /\ pc' = "done" /\ status' = 422
        /\ Len(contracts) < Len(contract_documents) /\ NextContract = None
    BY <1>3 DEF ReadContractFails, End, Goto
  <2>2. PhaseInv'
    BY <2>1, RequestKept DEF IInv, PhaseInv, request
  <2>3. None \in Range(ContractsOf(settings, contract_documents))
    <3>1. Len(contracts) + 1 \in DOMAIN contract_documents
      BY <1>1, <2>1
    <3>2. ContractsOf(settings, contract_documents)[Len(contracts) + 1] = None
      BY <2>1, <3>1 DEF ContractsOf, NextContract
    <3>3. Len(contracts) + 1 \in DOMAIN ContractsOf(settings, contract_documents)
      BY <3>1 DEF ContractsOf
    <3> QED
      BY <3>2, <3>3 DEF Range
  <2>4. RefusedOnlyIfUnreadable'
    BY <2>1, <2>3, RequestKept DEF RefusedOnlyIfUnreadable
  <2> QED
    BY <2>1, <2>2, <2>4, KeptByUnchanged DEF IInv
<1>4. CASE Reconcile \/ ReconcileFails
  <2>1. /\ UNCHANGED <<request, parsed, tier, attempts, invoice, contracts>>
        /\ pc' = "done" /\ status' \in {200, 422}
        /\ Len(contracts) = Len(contract_documents)
    BY <1>4 DEF Reconcile, ReconcileFails, End, Goto
  <2>2. PhaseInv'
    BY <2>1, RequestKept DEF IInv, PhaseInv, request
  <2>3. RefusedOnlyIfUnreadable'
    BY <2>1, RequestKept DEF RefusedOnlyIfUnreadable, request
  <2> QED
    BY <2>1, <2>2, <2>3, KeptByUnchanged DEF IInv
<1> QED
  BY <1>2, <1>3, <1>4

LEMMA NextIInv == IInv /\ [Next]_vars => IInv'
<1> SUFFICES ASSUME IInv, [Next]_vars PROVE IInv'
  OBVIOUS
<1>1. CASE Decode \/ RefuseEncoding \/ ParseInvoice \/ ParseFails
  BY <1>1, DecodingKeeps
<1>2. CASE TierReads \/ TierFails \/ NothingToAsk
  BY <1>2, TiersKeep
<1>3. CASE \/ Retry \/ RetriesExhausted \/ FailsPermanently
           \/ \E answer \in Answers :
                  AnswerRejected(answer) \/ AnswerAccepted(answer) \/ AnswerEscapes(answer)
  BY <1>3, ProviderKeeps
<1>4. CASE AllTiersFailed
  BY <1>4, AllTiersFailedKeeps
<1>5. CASE ReadContract \/ ReadContractFails \/ Reconcile \/ ReconcileFails
  BY <1>5, ContractsKeep
<1>6. CASE UNCHANGED vars
  <2>1. UNCHANGED <<request, pc, parsed, tier, attempts, invoice, contracts, status>>
    BY <1>6 DEF vars, request
  <2>2. PhaseInv'
    BY <2>1, RequestKept DEF IInv, PhaseInv, request
  <2>3. RefusedOnlyIfUnreadable'
    BY <2>1, RequestKept DEF IInv, RefusedOnlyIfUnreadable, request
  <2> QED
    BY <2>1, <2>2, <2>3, KeptByUnchanged DEF IInv
<1> QED
  BY <1>1, <1>2, <1>3, <1>4, <1>5, <1>6 DEF Next

\* The invariant of the cascade, the retries and the contract loop.
THEOREM IntakeInvariant == Spec => []IInv
<1> QED
  BY InitIInv, NextIInv, PTL DEF Spec

\* The variables have their types, in every state.
THEOREM IntakeTypes == Spec => []TypeOK
<1>1. IInv => TypeOK
  BY DEF IInv, PhaseInv, CascadeInv, RetryInv, ExtractedInv, TypeOK, ParsedInvoice, Parse
<1> QED
  BY <1>1, IntakeInvariant, PTL

\* With any documents and any answers, the LLM is asked only where both
\* deterministic tiers fail, and else the first of them that can has the say.
THEOREM LlmComesLast == Spec => []LlmIsTheLastResort
<1>1. IInv => LlmIsTheLastResort
  BY DEF IInv
<1> QED
  BY <1>1, IntakeInvariant, PTL

\* With any number of retries, the provider is called once more than that at
\* most, and only after transient failures.
THEOREM RetriesAreBounded == Spec => []RetriedWhileTransient
<1>1. IInv => RetriedWhileTransient
  BY DEF IInv, RetryInv
<1> QED
  BY <1>1, IntakeInvariant, PTL

\* With any threshold and any two texts, the parse kept is never the shorter.
THEOREM NoTextIsLost == Spec => []BestTextIsRead
<1>1. IInv => BestTextIsRead
  <2> SUFFICES ASSUME IInv, parsed # None, invoice_document.native # None
               PROVE  /\ parsed.text >= invoice_document.native.text
                      /\ invoice_document.native.text >= MinTextChars => parsed = invoice_document.native
    BY DEF BestTextIsRead
  <2>1. parsed = Parse(settings.enable_ocr, invoice_document) /\ invoice_document \in InvoiceDocuments
    BY DEF IInv, PhaseInv, ParsedInvoice
  <2>2. invoice_document.native.text \in Nat /\ MinTextChars \in Nat
    BY <2>1, DocumentsAssumption DEF ParsesOf
  <2>3. CASE parsed = invoice_document.native
    BY <2>2, <2>3
  <2>4. CASE parsed # invoice_document.native
    <3>1. /\ parsed = invoice_document.ocr
          /\ ~(invoice_document.native.text >= MinTextChars)
          /\ ~(invoice_document.ocr.text <= invoice_document.native.text)
      BY <2>1, <2>4 DEF Parse, TextLayerSuffices, OcrNoBetter
    <3>2. invoice_document.ocr.text \in Nat
      BY <2>1, <3>1, DocumentsAssumption DEF ParsesOf
    <3> QED
      BY <2>2, <3>1, <3>2
  <2> QED
    BY <2>3, <2>4
<1> QED
  BY <1>1, IntakeInvariant, PTL

\* With any documents, any answers of a model and whichever tier: what is on an
\* invoice that was read is on the document.
THEOREM NoFigureIsMadeUp == Spec => []FiguresArePrinted
<1>1. IInv => FiguresArePrinted
  <2> SUFFICES ASSUME IInv, invoice # None PROVE CopiedFrom(invoice, parsed)
    BY DEF FiguresArePrinted, CopiedFrom
  <2>1. parsed # None /\ parsed = ParsedInvoice /\ invoice \in InvoicesIn(settings, parsed)
    BY DEF IInv, PhaseInv, ExtractedInv
  <2>2. parsed \in ParsesOf(invoice_document) /\ invoice_document \in InvoiceDocuments
    BY <2>1 DEF IInv, PhaseInv, ParsedInvoice, Parse, ParsesOf
  <2>3. CopiedInvoice(parsed)
    BY <2>2, DocumentsAssumption
  <2> QED
    BY <2>1, <2>3, InvoicesAreCopies
<1> QED
  BY <1>1, IntakeInvariant, PTL

\* A 422 always has one of the causes the endpoint's handlers are written for.
THEOREM RefusalsHaveACause == Spec => []RefusedOnlyIfUnreadable
<1>1. IInv => RefusedOnlyIfUnreadable
  BY DEF IInv
<1> QED
  BY <1>1, IntakeInvariant, PTL
-----------------------------------------------------------------------------
AllRead == invoice # None /\ Len(contracts) = Len(contract_documents)

\* What has been read in full is a reading the documents allow.
LEMMA AllReadIsAReading ==
    ASSUME IInv, AllRead
    PROVE  Reading \in Readings(settings, invoice_document, contract_documents)
<1>1. /\ parsed = Parse(settings.enable_ocr, invoice_document) /\ parsed # None
      /\ \A doc \in {invoice_document} \cup Range(contract_documents) : doc.decodes
      /\ invoice \in InvoicesIn(settings, parsed)
  BY DEF IInv, PhaseInv, ExtractedInv, AllRead, ParsedInvoice, Documents
<1>2. contract_documents \in Seq(Range(contract_documents))
  BY DocumentsAssumption DEF IInv, PhaseInv
<1>3. contracts = ContractsOf(settings, contract_documents)
  <2>1. /\ contracts = [k \in 1 .. Len(contracts) |-> ContractOf(settings.enable_ocr, contract_documents[k])]
        /\ Len(contracts) = Len(contract_documents)
    BY DEF IInv, ExtractedInv, AllRead
  <2>2. DOMAIN contract_documents = 1 .. Len(contract_documents)
    BY <1>2
  <2> QED
    BY <2>1, <2>2 DEF ContractsOf
<1>4. None \notin Range(contracts)
  BY DEF IInv, ExtractedInv, Range
<1>5. Reading = HandedOver(invoice, contracts)
  BY DEF Reading, AllRead
<1>6. HandedOver(invoice, contracts) \in
          {IF None \in Range(ContractsOf(settings, contract_documents))
           THEN Refusal(422) ELSE HandedOver(i, ContractsOf(settings, contract_documents))
               : i \in InvoicesIn(settings, parsed)}
  BY <1>1, <1>3, <1>4
<1> QED
  BY <1>1, <1>5, <1>6 DEF Readings

\* Each way to end before that is a refusal the documents allow.
LEMMA RefusedAsAllowed ==
    ASSUME IInv, Next, status' # None, ~AllRead
    PROVE  Refusal(status') \in Readings(settings, invoice_document, contract_documents)
<1> DEFINE text == Parse(settings.enable_ocr, invoice_document)
<1>1. CASE RefuseEncoding
  <2>1. status' = 400 /\ \E doc \in {invoice_document} \cup Range(contract_documents) : ~doc.decodes
    BY <1>1 DEF RefuseEncoding, End, Documents
  <2> QED
    BY <2>1 DEF Readings
<1>2. ASSUME pc \in {"parse", "extract", "contracts"}
      PROVE  \A doc \in {invoice_document} \cup Range(contract_documents) : doc.decodes
  BY <1>2 DEF IInv, PhaseInv, Documents
<1>3. CASE ParseFails
  <2>1. status' = 422 /\ text = None /\ pc = "parse"
    BY <1>3 DEF ParseFails, End, Goto, ParsedInvoice
  <2> QED
    BY <1>2, <2>1 DEF Readings
<1>4. ASSUME pc \in {"extract", "contracts"}
      PROVE  parsed = text /\ text # None
  BY <1>4 DEF IInv, PhaseInv, ParsedInvoice
<1>5. ASSUME pc = "extract", Refusal(status') \in InvoiceRefusals(settings, parsed)
      PROVE  Refusal(status') \in Readings(settings, invoice_document, contract_documents)
  BY <1>2, <1>4, <1>5 DEF Readings
<1>6. ASSUME NEW answer \in Answers, AnswerEscapes(answer)
      PROVE  Refusal(status') \in Readings(settings, invoice_document, contract_documents)
  <2>1. Asked("answer") /\ Escapes(answer) /\ status' = 500
    BY <1>6 DEF AnswerEscapes, End
  <2>2. pc = "extract" /\ AsksTheLlm(settings, parsed)
    <3>1. pc = "extract" /\ settings.enable_llm /\ NoTierReads(parsed) /\ parsed.text > 0
      BY <2>1, AskedLast
    <3> QED
      BY <3>1 DEF AsksTheLlm
  <2>3. Refusal(status') \in InvoiceRefusals(settings, parsed)
    BY <2>1, <2>2 DEF InvoiceRefusals
  <2> QED
    BY <1>5, <2>2, <2>3
<1>7. CASE AllTiersFailed
  <2>1. status' = 422 /\ pc = "extract" /\ tier > Len(Tiers)
    BY <1>7 DEF AllTiersFailed, End, Goto
  <2>2. NoTierReads(parsed)
    BY <2>1, PastTheTiers DEF IInv
  <2>3. Refusal(status') \in InvoiceRefusals(settings, parsed)
    BY <2>1, <2>2 DEF InvoiceRefusals
  <2> QED
    BY <1>5, <2>1, <2>3
<1>8. CASE ReadContractFails
  <2>1. status' = 422 /\ pc = "contracts" /\ invoice # None
    BY <1>8 DEF ReadContractFails, End, Goto, IInv, PhaseInv
  <2>2. status' = 422 /\ None \in Range(ContractsOf(settings, contract_documents))
    <3>1. Len(contracts) < Len(contract_documents) /\ NextContract = None
      BY <1>8 DEF ReadContractFails
    <3>2. Len(contracts) + 1 \in DOMAIN contract_documents
      BY <3>1, DocumentsAssumption DEF IInv, PhaseInv, ExtractedInv
    <3> QED
      BY <2>1, <3>1, <3>2 DEF ContractsOf, NextContract, Range
  <2>3. invoice \in InvoicesIn(settings, parsed)
    BY <2>1 DEF IInv, ExtractedInv
  <2>4. Refusal(status') \in
          {IF None \in Range(ContractsOf(settings, contract_documents))
           THEN Refusal(422) ELSE HandedOver(i, ContractsOf(settings, contract_documents))
               : i \in InvoicesIn(settings, parsed)}
    BY <2>2, <2>3
  <2> QED
    BY <1>2, <1>4, <2>1, <2>4 DEF Readings
<1>9. CASE Reconcile \/ ReconcileFails
  BY <1>9 DEF Reconcile, ReconcileFails, End, Goto, AllRead, IInv, PhaseInv
<1>10. pc # "done" => status = None
  BY DEF IInv, PhaseInv
<1>11. CASE Decode \/ ParseInvoice \/ ReadContract
  BY <1>10, <1>11 DEF Decode, ParseInvoice, ReadContract, Goto
<1>12. CASE TierReads \/ TierFails \/ NothingToAsk
  BY <1>10, <1>12 DEF TierReads, TierFails, NothingToAsk, InTier, Accept, NextTier
<1>13. CASE \/ Retry \/ RetriesExhausted \/ FailsPermanently
            \/ \E answer \in Answers : AnswerRejected(answer) \/ AnswerAccepted(answer)
  BY <1>10, <1>13 DEF Retry, RetriesExhausted, FailsPermanently, AnswerRejected, AnswerAccepted,
                      Asked, InTier, Accept, NextTier
<1> QED
  BY <1>1, <1>3, <1>6, <1>7, <1>8, <1>9, <1>11, <1>12, <1>13 DEF Next

LEMMA StepsKeepTheRequest ==
    ASSUME Next
    PROVE  UNCHANGED request /\ pc # "done"
BY DEF Next, Goto, End, Decode, RefuseEncoding, ParseInvoice, ParseFails, TierReads, TierFails,
       NothingToAsk, Retry, RetriesExhausted, FailsPermanently, AnswerRejected, AnswerAccepted,
       AnswerEscapes, AllTiersFailed, ReadContract, ReadContractFails, Reconcile, ReconcileFails,
       NextTier, Accept, Asked, InTier

LEMMA WhatIsReadStays ==
    ASSUME IInv, Next, AllRead
    PROVE  UNCHANGED <<invoice, contracts>>
<1>1. pc = "contracts" /\ ~(Len(contracts) < Len(contract_documents))
  <2>1. pc # "done" /\ invoice # None /\ pc \in {"decode", "parse", "extract", "contracts", "done"}
        /\ Len(contracts) = Len(contract_documents)
    BY StepsKeepTheRequest DEF AllRead, IInv, PhaseInv
  <2>2. pc = "contracts"
    BY <2>1 DEF IInv, PhaseInv
  <2>3. Len(contract_documents) \in Nat
    BY DocumentsAssumption DEF IInv, PhaseInv
  <2> QED
    BY <2>1, <2>2, <2>3
<1>2. Reconcile \/ ReconcileFails
  BY <1>1 DEF Next, Goto, End, Decode, RefuseEncoding, ParseInvoice, ParseFails, TierReads,
       TierFails, NothingToAsk, Retry, RetriesExhausted, FailsPermanently, AnswerRejected,
       AnswerAccepted, AnswerEscapes, AllTiersFailed, ReadContract, ReadContractFails, Accept,
       Asked, InTier
<1> QED
  BY <1>2 DEF Reconcile, ReconcileFails

\* The intake with its parsers, tiers and retries implements the module that
\* only says which readings a request may come to.
THEOREM ImplementsTheReadings == Spec => ImplementsIntake
<1>1. Init => Promise!Init
  BY DEF Init, Promise!Init, Reading
<1>2. IInv /\ IInv' /\ [Next]_vars => [Promise!Read]_(Promise!vars)
  <2> SUFFICES ASSUME IInv, IInv', [Next]_vars
               PROVE  Promise!Read \/ UNCHANGED Promise!vars
    OBVIOUS
  <2>1. CASE UNCHANGED vars
    BY <2>1 DEF vars, Promise!vars, Reading
  <2>2. CASE Next
    <3>1. UNCHANGED <<settings, invoice_document, contract_documents>> /\ status = None
      BY <2>2, StepsKeepTheRequest DEF request, IInv, PhaseInv
    <3>2. CASE AllRead
      <4>1. AllRead' /\ UNCHANGED <<invoice, contracts>>
        BY <2>2, <3>1, <3>2, WhatIsReadStays DEF AllRead
      <4>2. Reading' = Reading
        BY <3>2, <4>1 DEF Reading, AllRead
      <4> QED
        BY <3>1, <4>2 DEF Promise!vars
    <3>3. CASE ~AllRead
      <4>1. Reading = None
        BY <3>1, <3>3 DEF Reading, AllRead
      <4>2. CASE AllRead'
        <5>1. Reading' \in Readings(settings', invoice_document', contract_documents')
          <6>1. (IInv /\ AllRead => Reading \in Readings(settings, invoice_document, contract_documents))'
            BY AllReadIsAReading, PTL
          <6> QED
            BY <4>2, <6>1
        <5> QED
          BY <3>1, <4>1, <5>1 DEF Promise!Read
      <4>3. CASE ~AllRead' /\ status' # None
        <5>1. Reading' = Refusal(status')
          BY <4>3 DEF Reading, AllRead
        <5>2. Refusal(status') \in Readings(settings, invoice_document, contract_documents)
          BY <2>2, <3>3, <4>3, RefusedAsAllowed
        <5> QED
          BY <3>1, <4>1, <5>1, <5>2 DEF Promise!Read
      <4>4. CASE ~AllRead' /\ status' = None
        BY <3>1, <4>1, <4>4 DEF Reading, AllRead, Promise!vars
      <4> QED
        BY <4>2, <4>3, <4>4
    <3> QED
      BY <3>2, <3>3
  <2> QED
    BY <2>1, <2>2
<1> QED
  BY <1>1, <1>2, IntakeInvariant, PTL DEF Spec, ImplementsIntake, Promise!Spec
-----------------------------------------------------------------------------
\* How many phases are still to come.
Phase == [decode |-> 4, parse |-> 3, extract |-> 2, contracts |-> 1, done |-> 0][pc]

\* What a request can still do: phases, tiers, calls of the provider, contracts.
StepsLeft ==
    Phase + (Len(Tiers) + 1 - tier) + (MaxRetries + 1 - Len(attempts))
          + (Len(contract_documents) - Len(contracts))

LEMMA LengthsAreNumbers ==
    ASSUME IInv
    PROVE  /\ Len(Tiers) \in Nat /\ tier \in Nat /\ tier <= Len(Tiers) + 1
           /\ Len(attempts) \in Nat /\ Len(attempts) <= MaxRetries + 1 /\ MaxRetries \in Nat
           /\ Len(contract_documents) \in Nat /\ Len(contracts) \in Nat
           /\ Len(contracts) <= Len(contract_documents)
           /\ Phase \in Nat
<1>1. Len(Tiers) \in Nat
  BY TiersInOrder DEF IInv, PhaseInv
<1>2. tier \in Nat /\ tier <= Len(Tiers) + 1
  BY <1>1 DEF IInv, CascadeInv
<1>3. Len(attempts) \in Nat /\ Len(attempts) <= MaxRetries + 1 /\ MaxRetries \in Nat
  BY RetriesAreFinite DEF IInv, RetryInv, RetriedWhileTransient
<1>4. Len(contract_documents) \in Nat
  BY DocumentsAssumption DEF IInv, PhaseInv
<1>5. Len(contracts) \in Nat /\ Len(contracts) <= Len(contract_documents)
  BY <1>4 DEF IInv, ExtractedInv
<1>6. Phase \in Nat
  BY DEF IInv, PhaseInv, Phase
<1> QED
  BY <1>1, <1>2, <1>3, <1>4, <1>5, <1>6

\* A step goes to a later phase, to the next tier, calls the provider or reads
\* a contract, and takes none of these back.
LEMMA EachStepGetsOn ==
    ASSUME IInv, Next
    PROVE  /\ Phase' \in Int /\ Phase' <= Phase
           /\ tier' \in {tier, tier + 1}
           /\ Len(attempts') \in {Len(attempts), Len(attempts) + 1}
           /\ Len(contracts') \in {Len(contracts), Len(contracts) + 1}
           /\ \/ Phase' < Phase \/ tier' = tier + 1
              \/ Len(attempts') = Len(attempts) + 1 \/ Len(contracts') = Len(contracts) + 1
<1> USE LengthsAreNumbers
<1>1. ASSUME NEW outcome \in {"transient", "permanent", "answer"}, Asked(outcome)
      PROVE  Len(attempts') = Len(attempts) + 1
  BY <1>1 DEF Asked, IInv, RetryInv
<1>2. ASSUME NextTier
      PROVE  tier' = tier + 1 /\ Phase' = Phase /\ contracts' = contracts
  BY <1>2 DEF NextTier, Phase
<1>3. ASSUME NEW i, Accept(i)
      PROVE  tier' = tier /\ Phase' = 1 /\ Phase = 2 /\ contracts' = contracts
  BY <1>3 DEF Accept, Goto, Phase
<1>4. ASSUME NEW here \in {"decode", "parse", "extract", "contracts"}, NEW code, End(here, code)
      PROVE  Phase' = 0 /\ Phase > 0
  BY <1>4 DEF End, Goto, Phase
<1>5. CASE Decode \/ ParseInvoice
  BY <1>5 DEF Decode, ParseInvoice, Goto, Phase
<1>6. CASE RefuseEncoding \/ ParseFails
  BY <1>4, <1>6 DEF RefuseEncoding, ParseFails
<1>7. CASE TierReads
  BY <1>3, <1>7 DEF TierReads
<1>8. CASE TierFails \/ NothingToAsk
  BY <1>2, <1>8 DEF TierFails, NothingToAsk
<1>9. CASE Retry
  BY <1>1, <1>9 DEF Retry, Phase
<1>10. CASE RetriesExhausted \/ FailsPermanently
  BY <1>1, <1>2, <1>10 DEF RetriesExhausted, FailsPermanently
<1>11. ASSUME NEW answer \in Answers, AnswerRejected(answer)
       PROVE  /\ tier' = tier + 1 /\ Phase' = Phase /\ contracts' = contracts
              /\ Len(attempts') = Len(attempts) + 1
  BY <1>1, <1>2, <1>11 DEF AnswerRejected
<1>12. ASSUME NEW answer \in Answers, AnswerAccepted(answer)
       PROVE  /\ tier' = tier /\ Phase' = 1 /\ Phase = 2 /\ contracts' = contracts
              /\ Len(attempts') = Len(attempts) + 1
  BY <1>1, <1>3, <1>12 DEF AnswerAccepted
<1>13. ASSUME NEW answer \in Answers, AnswerEscapes(answer)
       PROVE  /\ tier' = tier /\ Phase' = 0 /\ Phase > 0 /\ contracts' = contracts
              /\ Len(attempts') = Len(attempts) + 1
  BY <1>1, <1>4, <1>13 DEF AnswerEscapes
<1>14. CASE AllTiersFailed \/ ReadContractFails \/ Reconcile \/ ReconcileFails
  BY <1>4, <1>14 DEF AllTiersFailed, ReadContractFails, Reconcile, ReconcileFails
<1>15. CASE ReadContract
  <2>1. /\ contracts' = Append(contracts, NextContract)
        /\ UNCHANGED <<pc, tier, attempts>>
    BY <1>15 DEF ReadContract
  <2>2. contracts \in Seq(Range(contracts) \cup {NextContract})
    <3>1. DOMAIN contracts = 1 .. Len(contracts)
      BY DEF IInv, ExtractedInv
    <3> QED
      BY <3>1 DEF IInv, ExtractedInv, Range
  <2>3. Len(contracts') = Len(contracts) + 1
    BY <2>1, <2>2
  <2> QED
    BY <2>1, <2>3 DEF Phase
<1> QED
  BY <1>5, <1>6, <1>7, <1>8, <1>9, <1>10, <1>11, <1>12, <1>13, <1>14, <1>15 DEF Next

\* One of four parts gets less and none gets more.
LEMMA FewerLeft ==
    \A a, b, c, d, e, f, g, h \in Int :
        /\ e <= a /\ f <= b /\ g <= c /\ h <= d
        /\ e < a \/ f < b \/ g < c \/ h < d
        => e + f + g + h < a + b + c + d
OBVIOUS

\* A request cannot go round in circles: whatever the documents, the answers
\* and the retries, every step of the intake leaves fewer to come, so there are
\* never more than the phases, tiers, attempts and contracts together.
THEOREM RequestsAreFinite == Spec => [](StepsLeft \in Nat) /\ [][StepsLeft' < StepsLeft]_vars
<1>1. IInv => StepsLeft \in Nat
  <2> SUFFICES ASSUME IInv PROVE StepsLeft \in Nat
    OBVIOUS
  <2> DEFINE tiers == Len(Tiers) + 1 - tier
             calls == MaxRetries + 1 - Len(attempts)
             docs == Len(contract_documents) - Len(contracts)
  <2>1. Phase \in Nat
    BY LengthsAreNumbers
  <2>2. tiers \in Nat
    BY LengthsAreNumbers
  <2>3. calls \in Nat
    BY LengthsAreNumbers
  <2>4. docs \in Nat
    BY LengthsAreNumbers
  <2>5. StepsLeft = Phase + tiers + calls + docs
    BY DEF StepsLeft
  <2> HIDE DEF tiers, calls, docs
  <2> QED
    BY <2>1, <2>2, <2>3, <2>4, <2>5
<1>2. IInv /\ [Next]_vars => [StepsLeft' < StepsLeft]_vars
  <2> SUFFICES ASSUME IInv, Next PROVE StepsLeft' < StepsLeft
    OBVIOUS
  <2>1. Len(Tiers)' = Len(Tiers) /\ Len(contract_documents)' = Len(contract_documents)
    BY StepsKeepTheRequest, RequestKept DEF request
  <2> DEFINE tiers == Len(Tiers) + 1 - tier
             calls == MaxRetries + 1 - Len(attempts)
             docs == Len(contract_documents) - Len(contracts)
  <2>2. /\ Len(Tiers) \in Nat /\ tier \in Nat /\ Len(attempts) \in Nat /\ MaxRetries \in Nat
        /\ Len(contract_documents) \in Nat /\ Len(contracts) \in Nat /\ Phase \in Nat
    BY LengthsAreNumbers
  <2>3. /\ Phase' \in Int /\ Phase' <= Phase
        /\ tier' \in {tier, tier + 1}
        /\ Len(attempts') \in {Len(attempts), Len(attempts) + 1}
        /\ Len(contracts') \in {Len(contracts), Len(contracts) + 1}
        /\ \/ Phase' < Phase \/ tier' = tier + 1
           \/ Len(attempts') = Len(attempts) + 1 \/ Len(contracts') = Len(contracts) + 1
    BY EachStepGetsOn
  <2>4. /\ tiers \in Int /\ tiers' \in Int /\ tiers' <= tiers
        /\ tier' = tier + 1 => tiers' < tiers
    BY <2>1, <2>2, <2>3
  <2>5. /\ calls \in Int /\ calls' \in Int /\ calls' <= calls
        /\ Len(attempts') = Len(attempts) + 1 => calls' < calls
    BY <2>2, <2>3
  <2>6. /\ docs \in Int /\ docs' \in Int /\ docs' <= docs
        /\ Len(contracts') = Len(contracts) + 1 => docs' < docs
    BY <2>1, <2>2, <2>3
  <2>7. /\ StepsLeft = Phase + tiers + calls + docs
        /\ StepsLeft' = Phase' + tiers' + calls' + docs'
    BY DEF StepsLeft
  <2>8. Phase' < Phase \/ tiers' < tiers \/ calls' < calls \/ docs' < docs
    BY <2>3, <2>4, <2>5, <2>6
  <2> HIDE DEF tiers, calls, docs
  <2>9. Phase' + tiers' + calls' + docs' < Phase + tiers + calls + docs
    <3>1. /\ Phase \in Int /\ tiers \in Int /\ calls \in Int /\ docs \in Int
          /\ Phase' \in Int /\ tiers' \in Int /\ calls' \in Int /\ docs' \in Int
      BY <2>2, <2>3, <2>4, <2>5, <2>6
    <3>2. /\ Phase' <= Phase /\ tiers' <= tiers /\ calls' <= calls /\ docs' <= docs
      BY <2>3, <2>4, <2>5, <2>6
    <3> QED
      BY <2>8, <3>1, <3>2, FewerLeft, Zenon
  <2> QED
    BY <2>7, <2>9
<1> QED
  BY <1>1, <1>2, IntakeInvariant, PTL DEF Spec
=============================================================================
