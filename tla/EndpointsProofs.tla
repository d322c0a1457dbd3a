----------------------------- MODULE EndpointsProofs -----------------------------
(***************************************************************************)
(* Proofs about the service with the heuristic matcher and the rules in    *)
(* its ports, and about the API over it: both endpoints drive the service  *)
(* as it is specified, so what is proved of the service holds of the API,  *)
(* for any number of requests, any documents and any readings of them.     *)
(***************************************************************************)
EXTENDS AssembledAPI, ReconciliationProofs

LEMMA OneType == One \in Nat
BY DEF One

LEMMA ScoreType ==
    ASSUME NEW i \in Invoices, NEW c \in Contracts
    PROVE  Score(i, c) \in 0 .. One
<1>1. i.vendor_name \in Vendors /\ c.vendor_name \in Vendors
  BY VendorsAssumption
<1>2. Ratio[<<i.vendor_name, c.vendor_name>>] \in 0 .. One
  BY <1>1, RatioAssumption
<1> QED
  BY <1>2, OneType DEF Score, Similarity

IsBest(i, cs, k) ==
    /\ \A j \in DOMAIN cs : Score(i, cs[j]) <= Score(i, cs[k])
    /\ \A j \in 1 .. k - 1 : Score(i, cs[j]) < Score(i, cs[k])

\* A list with a candidate has a first best one.
LEMMA BestExists ==
    ASSUME NEW i \in Invoices, NEW cs \in CandidateLists, cs # <<>>
    PROVE  Best(i, cs) \in DOMAIN cs /\ IsBest(i, cs, Best(i, cs))
<1> DEFINE S(k) == Score(i, cs[k])
           Scores == {S(k) : k \in DOMAIN cs}
<1>1. cs \in Seq(Contracts) /\ DOMAIN cs = 1 .. Len(cs) /\ Len(cs) \in Nat /\ DOMAIN cs # {}
  BY CandidatesAssumption
<1>2. \A k \in DOMAIN cs : S(k) \in 0 .. One
  BY <1>1, ScoreType
<1> HIDE DEF S
<1>3. PICK k \in DOMAIN cs : \A j \in DOMAIN cs : S(j) <= S(k)
  <2>1. Scores \subseteq 0 .. One /\ Scores # {}
    BY <1>1, <1>2
  <2>2. PICK x \in Scores : \A y \in Scores : y <= x
    <3> HIDE DEF Scores
    <3> QED
      BY <2>1, GreatestElement, OneType
  <2> QED
    BY <2>2
<1>4. PICK m \in {n \in DOMAIN cs : S(n) = S(k)} :
          \A n \in {l \in DOMAIN cs : S(l) = S(k)} : m <= n
  <2> DEFINE Ties == {n \in DOMAIN cs : S(n) = S(k)}
  <2>1. Ties \subseteq Nat /\ Ties # {}
    BY <1>1
  <2> HIDE DEF Ties
  <2>2. \E m \in Ties : \A n \in Ties : m <= n
    BY <2>1, LeastElement
  <2> QED
    BY <2>2 DEF Ties
<1>5. \A j \in 1 .. m - 1 : S(j) < S(m)
  <2> SUFFICES ASSUME NEW j \in 1 .. m - 1 PROVE S(j) < S(m)
    OBVIOUS
  <2>1. j \in DOMAIN cs /\ j < m
    BY <1>1, <1>4
  <2>2. S(j) <= S(m) /\ S(j) # S(m)
    BY <1>1, <1>3, <1>4, <2>1
  <2> QED
    <3>1. S(j) \in Int /\ S(m) \in Int
      BY <1>2, <1>4, <2>1, OneType
    <3> QED
      BY <2>2, <3>1
<1>6. IsBest(i, cs, m)
  BY <1>3, <1>4, <1>5 DEF IsBest, S
<1>7. Best(i, cs) = CHOOSE n \in DOMAIN cs : IsBest(i, cs, n)
  BY DEF Best, IsBest
<1> QED
  BY <1>4, <1>6, <1>7

\* The heuristic matcher does what the service expects of its matching port: a
\* score between 0 and 1, and no contract or one of the candidates.  So
\* MatcherAssumption is no assumption about the service as it is assembled.
THEOREM MatcherFillsItsPort ==
    \A i \in Invoices : \A cs \in CandidateLists :
        \/ HeuristicMatch[i][cs] = None
        \/ /\ HeuristicMatch[i][cs].score \in 0 .. One
           /\ \/ HeuristicMatch[i][cs].contract_id = None
              \/ \E k \in DOMAIN cs : cs[k].contract_id = HeuristicMatch[i][cs].contract_id
<1> SUFFICES ASSUME NEW i \in Invoices, NEW cs \in CandidateLists, cs # <<>>
             PROVE  /\ Match(i, cs).score \in 0 .. One
                    /\ \/ Match(i, cs).contract_id = None
                       \/ \E k \in DOMAIN cs : cs[k].contract_id = Match(i, cs).contract_id
  BY DEF HeuristicMatch
<1> DEFINE best == Best(i, cs)
<1>1. best \in DOMAIN cs /\ cs[best] \in Contracts
  BY BestExists, CandidatesAssumption
<1>2. Score(i, cs[best]) \in 0 .. One
  BY <1>1, ScoreType
<1>3. \/ Match(i, cs) = Unmatched(Score(i, cs[best]))
      \/ Match(i, cs) = Matched(cs[best], Score(i, cs[best]))
  BY DEF Match
<1> HIDE DEF best
<1> QED
  BY <1>1, <1>2, <1>3 DEF Unmatched, Matched

\* The rules engine does what the service expects of its other port: it reports
\* findings of the domain model.  So RuleFindingsAssumption is none either.
THEOREM EngineFillsItsPort ==
    \A i \in Invoices : \A c \in Contracts : EngineFindings[i][c] \in Seq(Discrepancies)
<1> SUFFICES ASSUME NEW i \in Invoices, NEW c \in Contracts
             PROVE  Evaluate(i, c) \in Seq(Discrepancies)
  BY DEF EngineFindings
<1>1. Billed(i) /\ Carded(c)
  BY LinesAssumption, CardsAssumption DEF Billed, Carded
<1>2. Evaluate(i, c) \in Seq(Findings)
  <2>1. 6 \in Turns
    BY DEF Turns
  <2> QED
    BY <1>1, <2>1, CollectedTurnByTurn
<1>3. Prices \subseteq Amounts
  <2>1. ASSUME NEW a \in Int, NEW currency \in DOMAIN Upper
        PROVE  Money(a, currency) \in Amounts
    BY UpperAssumption DEF Money, Amounts
  <2> QED
    BY <2>1 DEF Prices
<1>4. FindingTypes \subseteq DiscrepancyTypes
  BY DEF FindingTypes, DiscrepancyTypes
<1>5. Findings \subseteq Discrepancies
  <2> SUFFICES ASSUME NEW f \in Findings PROVE f \in Discrepancies
    OBVIOUS
  <2>1. /\ f = [type |-> f.type, invoice_line_no |-> f.invoice_line_no,
                monetary_impact |-> f.monetary_impact, confidence |-> f.confidence,
                cites |-> f.cites]
        /\ f.type \in FindingTypes /\ f.invoice_line_no \in Nat \cup {None}
        /\ f.monetary_impact \in Prices \cup {None}
        /\ f.confidence \in 0 .. 100 /\ f.cites \in {None}
    BY DEF Findings
  <2> QED
    BY <1>3, <1>4, <2>1 DEF Discrepancies
<1> QED
  BY <1>2, <1>5

\* The lookup by id finds the contract that won the match.
LEMMA GoverningIsBest ==
    ASSUME NEW r \in Requests, invoice[r] \in Invoices, candidates[r] \in CandidateLists,
           MatchOf(r) # None, MatchOf(r).contract_id # None, DistinctIds(candidates[r])
    PROVE  LET best == Best(invoice[r], candidates[r])
           IN /\ Governing(r) = candidates[r][best]
              /\ IsBest(invoice[r], candidates[r], best)
              /\ Score(invoice[r], candidates[r][best]) >= MatchAccept
<1> DEFINE cs == candidates[r]
           best == Best(invoice[r], cs)
           score == Score(invoice[r], cs[best])
<1>1. cs # <<>> /\ MatchOf(r) = Match(invoice[r], cs)
  <2>1. MatchOf(r) = IF cs = <<>> THEN None ELSE Match(invoice[r], cs)
    BY PortsAssumption DEF MatchOf, HeuristicMatch
  <2> QED
    BY <2>1
<1>2. best \in DOMAIN cs /\ IsBest(invoice[r], cs, best)
  BY <1>1, BestExists
<1>3. ~(score = 0 \/ score < MatchAccept) /\ MatchOf(r) = Matched(cs[best], score)
  BY <1>1 DEF Match, Unmatched
<1>4. cs \in Seq(Contracts) /\ DOMAIN cs = 1 .. Len(cs) /\ Len(cs) \in Nat
  BY CandidatesAssumption
<1>5. score >= MatchAccept
  <2>1. cs[best] \in Contracts
    BY <1>2, <1>4
  <2>2. score \in 0 .. One /\ MatchAccept \in 0 .. One
    BY <2>1, ScoreType, MatchAcceptAssumption
  <2>3. ~(score < MatchAccept)
    BY <1>3
  <2> HIDE DEF score
  <2> QED
    BY <2>2, <2>3, OneType
<1>6. Governing(r) = cs[best]
  <2> DEFINE HasId(k) == cs[k].contract_id = MatchOf(r).contract_id
  <2>1. HasId(best)
    BY <1>3 DEF Matched
  <2>2. \A k \in DOMAIN cs : HasId(k) => k = best
    BY <1>2, <2>1 DEF DistinctIds
  <2>3. \A j \in 1 .. best - 1 : ~HasId(j)
    BY <1>2, <1>4, <2>2
  <2>4. Governing(r) = cs[CHOOSE k \in DOMAIN cs : HasId(k) /\ \A j \in 1 .. k - 1 : ~HasId(j)]
    BY DEF Governing
  <2> HIDE DEF HasId
  <2>5. (CHOOSE k \in DOMAIN cs : HasId(k) /\ \A j \in 1 .. k - 1 : ~HasId(j)) = best
    BY <1>2, <2>1, <2>2, <2>3
  <2> QED
    BY <2>4, <2>5
<1> QED
  BY <1>2, <1>5, <1>6
-----------------------------------------------------------------------------
\* A result is about the request's invoice, and lists what the rules find on
\* the contract it names, if it names one.
JudgedAt(r) ==
    Evaluated(r) =>
        /\ result[r].invoice_id = invoice[r].invoice_id
        /\ result[r].contract_id = None => result[r].discrepancies = DedupFindings(r)
        /\ result[r].contract_id # None =>
               /\ MatchOf(r) # None /\ MatchOf(r).contract_id # None
               /\ result[r].contract_id = Governing(r).contract_id
               /\ result[r].discrepancies =
                      DedupFindings(r) \o RuleFindings[invoice[r]][Governing(r)]

JudgedInv == \A r \in Requests : JudgedAt(r)

LEMMA JudgedStable ==
    ASSUME NEW q \in Requests, JudgedAt(q),
           Evaluated(q)' =>
               /\ Evaluated(q)
               /\ result'[q] = result[q] /\ original'[q] = original[q]
               /\ invoice'[q] = invoice[q] /\ candidates'[q] = candidates[q]
    PROVE  JudgedAt(q)'
BY GoverningStable DEF JudgedAt, DedupFindings

LEMMA NextJudged == IInv /\ JudgedInv /\ [Next]_vars => JudgedInv'
<1> SUFFICES ASSUME IInv, JudgedInv, [Next]_vars, NEW q \in Requests PROVE JudgedAt(q)'
  BY DEF JudgedInv
<1>0. JudgedAt(q)
  BY DEF JudgedInv
<1> USE DEF IInv, TypeOK, From, local, Evaluated
<1>1. ASSUME NEW r \in Requests, Submit(r) PROVE JudgedAt(q)'
  BY <1>0, <1>1, JudgedStable DEF Submit
<1>2. ASSUME NEW r \in Requests, DetectDuplicate(r) PROVE JudgedAt(q)'
  BY <1>0, <1>2, JudgedStable DEF DetectDuplicate
<1>3. ASSUME NEW r \in Requests, TreatAsNew(r) PROVE JudgedAt(q)'
  BY <1>0, <1>3, JudgedStable DEF TreatAsNew
<1>4. ASSUME NEW r \in Requests, MatchFails(r) PROVE JudgedAt(q)'
  BY <1>0, <1>4, JudgedStable DEF MatchFails
<1>5. ASSUME NEW r \in Requests, LeaveUnmatched(r) PROVE JudgedAt(q)'
  <2>1. CASE q # r
    BY <1>0, <1>5, <2>1, JudgedStable DEF LeaveUnmatched
  <2>2. CASE q = r
    <3>1. result'[r] = Result(r, None, DedupFindings(r)) /\ UNCHANGED <<invoice, original>>
      BY <1>5 DEF LeaveUnmatched
    <3>2. DedupFindings(r)' = DedupFindings(r)
      BY <3>1 DEF DedupFindings
    <3> QED
      BY <2>2, <3>1, <3>2 DEF JudgedAt, Result
  <2> QED
    BY <2>1, <2>2
<1>6. ASSUME NEW r \in Requests, EvaluateMatched(r) PROVE JudgedAt(q)'
  <2>1. CASE q # r
    BY <1>0, <1>6, <2>1, JudgedStable DEF EvaluateMatched
  <2>2. CASE q = r
    <3> DEFINE ds == DedupFindings(r) \o RuleFindings[invoice[r]][Governing(r)]
    <3>1. /\ result'[r] = Result(r, Governing(r).contract_id, ds)
          /\ MatchOf(r) # None /\ MatchOf(r).contract_id # None
          /\ UNCHANGED <<invoice, candidates, original>>
      BY <1>6 DEF EvaluateMatched
    <3>2. MatchOf(r)' = MatchOf(r) /\ Governing(r)' = Governing(r) /\ DedupFindings(r)' = DedupFindings(r)
      BY <3>1, GoverningStable DEF DedupFindings
    <3>3. /\ result'[r].contract_id = Governing(r).contract_id
          /\ result'[r].discrepancies = ds
          /\ result'[r].invoice_id = invoice[r].invoice_id
      <4> HIDE DEF ds
      <4> QED
        BY <3>1 DEF Result
    <3>4. Governing(r).contract_id # None
      BY <1>6, <3>1, GoverningType DEF EvaluateMatched
    <3> QED
      BY <2>2, <3>1, <3>2, <3>3, <3>4 DEF JudgedAt
  <2> QED
    BY <2>1, <2>2
<1>7. ASSUME NEW r \in Requests, DrawAuditId(r) PROVE JudgedAt(q)'
  BY <1>0, <1>7, JudgedStable DEF DrawAuditId
<1>8. ASSUME NEW r \in Requests, AuditIdCollides(r) PROVE JudgedAt(q)'
  BY <1>0, <1>8, JudgedStable DEF AuditIdCollides
<1>9. ASSUME NEW r \in Requests, StoreRecord(r) PROVE JudgedAt(q)'
  BY <1>0, <1>9, JudgedStable DEF StoreRecord
<1>10. CASE UNCHANGED vars
  BY <1>0, <1>10, JudgedStable DEF vars
<1> QED
  BY <1>1, <1>2, <1>3, <1>4, <1>5, <1>6, <1>7, <1>8, <1>9, <1>10 DEF Next, Step, Quiescent

LEMMA JudgedHolds == Spec => []JudgedInv
<1>1. Init => JudgedInv
  BY DEF Init, JudgedInv, JudgedAt, Evaluated
<1> QED
  BY <1>1, InitIInv, NextIInv, NextJudged, PTL DEF Spec

\* With any contracts whose ids differ and any similarity of names, a result
\* that names a contract is the judgement of the contract that won the match.
THEOREM JudgedByTheWinner == Spec => []JudgedByTheBestMatch
<1>1. IInv /\ JudgedInv => JudgedByTheBestMatch
  <2> SUFFICES ASSUME IInv, JudgedInv, NEW r \in Requests, pc[r] = "done",
                      result[r].contract_id # None, DistinctIds(candidates[r])
               PROVE  LET cs == candidates[r]
                          best == cs[Best(invoice[r], cs)]
                      IN /\ result[r].contract_id = best.contract_id
                         /\ \A k \in DOMAIN cs : Score(invoice[r], cs[k]) <= Score(invoice[r], best)
                         /\ Score(invoice[r], best) >= MatchAccept
                         /\ result[r].discrepancies = DedupFindings(r) \o Evaluate(invoice[r], best)
    BY DEF JudgedByTheBestMatch
  <2>1. /\ MatchOf(r) # None /\ MatchOf(r).contract_id # None
        /\ result[r].contract_id = Governing(r).contract_id
        /\ result[r].discrepancies = DedupFindings(r) \o RuleFindings[invoice[r]][Governing(r)]
        /\ invoice[r] \in Invoices /\ candidates[r] \in CandidateLists
    BY DEF JudgedInv, JudgedAt, Evaluated, IInv, TypeOK
  <2>2. /\ Governing(r) = candidates[r][Best(invoice[r], candidates[r])]
        /\ IsBest(invoice[r], candidates[r], Best(invoice[r], candidates[r]))
        /\ Score(invoice[r], candidates[r][Best(invoice[r], candidates[r])]) >= MatchAccept
    BY <2>1, GoverningIsBest
  <2>3. RuleFindings[invoice[r]][Governing(r)] = Evaluate(invoice[r], Governing(r))
    BY <2>1, GoverningType, PortsAssumption DEF EngineFindings
  <2> QED
    BY <2>1, <2>2, <2>3 DEF IsBest
<1> QED
  BY <1>1, InitIInv, NextIInv, JudgedHolds, PTL DEF Spec
-----------------------------------------------------------------------------
\* What a request was handed over with comes from a reading of its documents.
ReadInv ==
    /\ settings \in Settings
    /\ invoice_document \in [Requests -> InvoiceDocuments \cup {None}]
    /\ DOMAIN contract_documents = Requests
    /\ refused \in [Requests -> {None, 400, 422, 500}]
    /\ \A r \in Requests :
           /\ invoice_document[r] # None => contract_documents[r] \in ContractLists
           /\ refused[r] # None => pc[r] = "idle" /\ invoice_document[r] # None
           /\ pc[r] = "idle" => result[r] = None /\ auditId[r] = None
           /\ invoice_document[r] # None /\ pc[r] # "idle" =>
                  \E reading \in ReadingsOf(r) :
                      /\ reading.status = None
                      /\ invoice[r] = reading.invoice /\ candidates[r] = reading.contracts

APIInv == IInv /\ ReadInv

LEMMA ReadingsOfDocuments ==
    ASSUME ReadInv, NEW r \in Requests, invoice_document[r] # None
    PROVE  /\ ReadingsOf(r) = Readings(settings, invoice_document[r], contract_documents[r])
           /\ \A reading \in ReadingsOf(r) : reading.status = None =>
                  reading.invoice \in Invoices /\ reading.contracts \in CandidateLists
<1>1. /\ settings \in Settings
      /\ invoice_document[r] \in InvoiceDocuments
      /\ contract_documents[r] \in ContractLists
  BY DEF ReadInv
<1>2. ReadingsOf(r) = Readings(settings, invoice_document[r], contract_documents[r])
  BY <1>1 DEF ReadingsOf, ReadingsTable
<1> QED
  BY <1>1, <1>2, ReadingsAssumption

LEMMA ReadingStatuses ==
    ASSUME NEW options, NEW doc, NEW docs, NEW reading \in Readings(options, doc, docs)
    PROVE  reading.status \in {None, 400, 422, 500}
BY DEF Readings, InvoiceRefusals, Refusal, HandedOver

LEMMA APIInitIInv == APIInit => APIInv
<1> SUFFICES ASSUME APIInit PROVE APIInv
  OBVIOUS
<1>1. IInv
  BY InitIInv DEF APIInit
<1>2. ReadInv
  BY NoneAssumption DEF APIInit, Init, ReadInv
<1> QED
  BY <1>1, <1>2 DEF APIInv

\* A request handed over is one submitted to the service.
LEMMA HandOverSubmits ==
    ASSUME APIInv, NEW r \in Requests, HandOver(r)
    PROVE  Submit(r)
<1>1. PICK reading \in ReadingsOf(r) :
          /\ reading.status = None
          /\ invoice' = [invoice EXCEPT ![r] = reading.invoice]
          /\ candidates' = [candidates EXCEPT ![r] = reading.contracts]
  BY DEF HandOver
<1>2. reading.invoice \in Invoices /\ reading.contracts \in CandidateLists
  BY <1>1, ReadingsOfDocuments DEF APIInv, HandOver, BeingRead
<1> QED
  BY <1>1, <1>2 DEF HandOver, BeingRead, Submit, From

LEMMA StepOfTheService == APIInv /\ [APINext]_allVars => [Next]_vars
<1> SUFFICES ASSUME APIInv, [APINext]_allVars PROVE [Next]_vars
  OBVIOUS
<1>1. ASSUME NEW r \in Requests, SubmitJson(r) PROVE Next
  BY <1>1 DEF SubmitJson, Next
<1>2. ASSUME NEW r \in Requests, ReceiveDocuments(r) PROVE UNCHANGED vars
  BY <1>2 DEF ReceiveDocuments
<1>3. ASSUME NEW r \in Requests, HandOver(r) PROVE Next
  BY <1>3, HandOverSubmits DEF Next
<1>4. ASSUME NEW r \in Requests, Refuse(r) PROVE UNCHANGED vars
  BY <1>4 DEF Refuse
<1>5. ASSUME NEW r \in Requests, Serve(r) PROVE Next
  BY <1>5 DEF Serve, Next
<1>6. CASE UNCHANGED allVars
  BY <1>6 DEF allVars
<1> QED
  BY <1>1, <1>2, <1>3, <1>4, <1>5, <1>6 DEF APINext, Read, AllAnswered
-----------------------------------------------------------------------------
\* Where a step of the service leaves the requests it does not serve, and
\* what it does to the one it serves.
LEMMA ServeKeeps ==
    ASSUME IInv, NEW r \in Requests, Step(r)
    PROVE  /\ pc[r] # "idle" /\ pc'[r] # "idle"
           /\ UNCHANGED <<invoice, candidates>>
           /\ DOMAIN pc' = Requests
           /\ \A q \in Requests \ {r} :
                  pc'[q] = pc[q] /\ result'[q] = result[q] /\ auditId'[q] = auditId[q]
<1> USE DEF IInv, TypeOK, From, local
<1>1. CASE DetectDuplicate(r)
  BY <1>1 DEF DetectDuplicate
<1>2. CASE TreatAsNew(r)
  BY <1>2 DEF TreatAsNew
<1>3. CASE MatchFails(r)
  BY <1>3 DEF MatchFails
<1>4. CASE LeaveUnmatched(r)
  BY <1>4 DEF LeaveUnmatched
<1>5. CASE EvaluateMatched(r)
  BY <1>5 DEF EvaluateMatched
<1>6. CASE DrawAuditId(r)
  BY <1>6 DEF DrawAuditId
<1>7. CASE AuditIdCollides(r)
  BY <1>7 DEF AuditIdCollides
<1>8. CASE StoreRecord(r)
  BY <1>8 DEF StoreRecord
<1> QED
  BY <1>1, <1>2, <1>3, <1>4, <1>5, <1>6, <1>7, <1>8 DEF Step

LEMMA NextReadInv == APIInv /\ [APINext]_allVars => ReadInv'
<1> SUFFICES ASSUME APIInv, [APINext]_allVars PROVE ReadInv'
  OBVIOUS
<1> USE DEF APIInv
<1>1. ASSUME NEW r \in Requests, SubmitJson(r) PROVE ReadInv'
  <2>1. /\ invoice_document[r] = None
        /\ pc[r] = "idle" /\ pc' = [pc EXCEPT ![r] = "detect"]
        /\ UNCHANGED <<result, auditId, settings, invoice_document, contract_documents, refused>>
        /\ \A q \in Requests \ {r} : invoice'[q] = invoice[q] /\ candidates'[q] = candidates[q]
    BY <1>1 DEF SubmitJson, Submit, From, api, documents, IInv, TypeOK
  <2>2. \A q \in Requests : ReadingsOf(q)' = ReadingsOf(q)
    BY <2>1 DEF ReadingsOf, ReadingsTable
  <2> QED
    BY <2>1, <2>2 DEF ReadInv, IInv, TypeOK
<1>2. ASSUME NEW r \in Requests, ReceiveDocuments(r) PROVE ReadInv'
  <2>1. PICK doc \in InvoiceDocuments, docs \in ContractLists :
            /\ invoice_document' = [invoice_document EXCEPT ![r] = doc]
            /\ contract_documents' = [contract_documents EXCEPT ![r] = docs]
    BY <1>2 DEF ReceiveDocuments
  <2>2. pc[r] = "idle" /\ UNCHANGED <<vars, settings, refused>>
    BY <1>2 DEF ReceiveDocuments
  <2>3. \A q \in Requests \ {r} : ReadingsOf(q)' = ReadingsOf(q)
    BY <2>1, <2>2 DEF ReadingsOf, ReadingsTable, ReadInv
  <2>4. invoice_document[r] = None /\ refused[r] = None
    BY <1>2 DEF ReceiveDocuments, ReadInv
  <2> QED
    BY <2>1, <2>2, <2>3, <2>4, RequestsAssumption DEF ReadInv, vars, local
<1>3. ASSUME NEW r \in Requests, HandOver(r) PROVE ReadInv'
  <2>1. /\ pc' = [pc EXCEPT ![r] = "detect"]
        /\ invoice_document[r] # None /\ refused[r] = None
        /\ UNCHANGED <<result, auditId, settings, invoice_document, contract_documents, refused>>
    BY <1>3 DEF HandOver, BeingRead, api, documents
  <2>2. \A q \in Requests : ReadingsOf(q)' = ReadingsOf(q)
    BY <2>1 DEF ReadingsOf, ReadingsTable
  <2>3. PICK reading \in ReadingsOf(r) :
            /\ reading.status = None
            /\ invoice' = [invoice EXCEPT ![r] = reading.invoice]
            /\ candidates' = [candidates EXCEPT ![r] = reading.contracts]
    BY <1>3 DEF HandOver
  <2> QED
    BY <2>1, <2>2, <2>3 DEF ReadInv, IInv, TypeOK
<1>4. ASSUME NEW r \in Requests, Refuse(r) PROVE ReadInv'
  <2>1. PICK reading \in ReadingsOf(r) :
            /\ reading.status # None
            /\ refused' = [refused EXCEPT ![r] = reading.status]
    BY <1>4 DEF Refuse
  <2>2. /\ pc[r] = "idle" /\ invoice_document[r] # None
        /\ UNCHANGED <<vars, settings, invoice_document, contract_documents>>
    BY <1>4 DEF Refuse, BeingRead, documents
  <2>3. \A q \in Requests : ReadingsOf(q)' = ReadingsOf(q)
    BY <2>2 DEF ReadingsOf, ReadingsTable
  <2>4. reading.status \in {None, 400, 422, 500}
    BY <2>1, <2>2, ReadingsOfDocuments, ReadingStatuses
  <2> QED
    BY <2>1, <2>2, <2>3, <2>4 DEF ReadInv, vars, local
<1>5. ASSUME NEW r \in Requests, Serve(r) PROVE ReadInv'
  <2>1. Step(r) /\ UNCHANGED <<settings, invoice_document, contract_documents, refused>>
    BY <1>5 DEF Serve, api, documents
  <2>2. \A q \in Requests : ReadingsOf(q)' = ReadingsOf(q)
    BY <2>1 DEF ReadingsOf, ReadingsTable
  <2> QED
    BY <2>1, <2>2, ServeKeeps DEF ReadInv
<1>6. CASE UNCHANGED allVars
  <2>1. \A q \in Requests : ReadingsOf(q)' = ReadingsOf(q)
    BY <1>6 DEF ReadingsOf, ReadingsTable, allVars, api, documents
  <2> QED
    BY <1>6, <2>1 DEF ReadInv, allVars, api, documents, vars, local
<1> QED
  BY <1>1, <1>2, <1>3, <1>4, <1>5, <1>6 DEF APINext, Read, AllAnswered

LEMMA NextAPIInv == APIInv /\ [APINext]_allVars => APIInv'
<1> SUFFICES ASSUME APIInv, [APINext]_allVars PROVE APIInv'
  OBVIOUS
<1>1. IInv'
  BY StepOfTheService, NextIInv DEF APIInv
<1>2. ReadInv'
  BY NextReadInv
<1> QED
  BY <1>1, <1>2 DEF APIInv
-----------------------------------------------------------------------------
\* The API is the service of module Reconciliation, seen through its two
\* endpoints: a request handed over is one call of reconcile, a refused one
\* none, and nothing else is done to the service.
THEOREM ImplementsService == APISpec => Spec
<1>1. APIInit => Init
  BY DEF APIInit
<1>2. APIInv /\ [APINext]_allVars => [Next]_vars
  BY StepOfTheService
<1> QED
  BY <1>1, <1>2, APIInitIInv, NextAPIInv, PTL DEF APISpec, Spec

\* What is served keeps its types, cites the original of a duplicate and adds up
\* every impact, and a detector is asked once for a request at most.
THEOREM APIService ==
    APISpec => []TypeOK /\ []FlaggedCitesFirst /\ []TotalIsComplete /\ UsesDetectorOnce
<1> QED
  BY ImplementsService, TypeCorrect, FlaggedCites, TotalComplete, RefinesPort, PTL

\* With a detector that works, no invoice is cleared twice, through whichever
\* endpoint it comes.
THEOREM APINotClearedTwice == APISpec => []NeverClearedTwice
<1> QED
  BY ImplementsService, NotClearedTwice, PTL

\* The records of both endpoints form one exact, append-only audit trail.
THEOREM APIAuditTrail == APISpec => []AuditTrailExact /\ ImplementsAuditLog
<1> QED
  BY ImplementsService, AuditTrail, RefinesAuditLog, PTL

\* Through whichever endpoint it came, an invoice is judged against the
\* contract that won its match, and cleared only if nothing was found.
THEOREM APIJudgedByTheWinner == APISpec => []JudgedByTheBestMatch /\ []ClearedOnlyWhenClean
<1> QED
  BY ImplementsService, JudgedByTheWinner, Cleared, PTL

\* A document that is read without a model says one invoice.
LEMMA OneReading ==
    ASSUME APIInv, NEW r \in Requests, invoice_document[r] # None, pc[r] # "idle",
           ReadWithoutModel(r)
    PROVE  LET text == Parse(settings.enable_ocr, invoice_document[r])
           IN /\ text # None
              /\ ~NoTierReads(text)
              /\ invoice[r] = IF LayoutAware(text) # None THEN LayoutAware(text) ELSE RuleBased(text)
<1> DEFINE text == Parse(settings.enable_ocr, invoice_document[r])
<1>1. PICK reading \in Readings(settings, invoice_document[r], contract_documents[r]) :
          reading.status = None /\ invoice[r] = reading.invoice
  BY ReadingsOfDocuments DEF APIInv, ReadInv
<1>2. text # None /\ invoice[r] \in InvoicesIn(settings, text)
  BY <1>1, StatusAssumption DEF Readings, InvoiceRefusals, Refusal, HandedOver
<1>3. ~AsksTheLlm(settings, text)
  BY <1>2 DEF ReadWithoutModel, AsksTheLlm
<1>4. ~NoTierReads(text)
  BY <1>2, <1>3 DEF InvoicesIn, NoTierReads
<1> QED
  BY <1>2, <1>3, <1>4 DEF InvoicesIn, NoTierReads

\* The same document is cleared once, where a working detector is behind the
\* endpoint and no model was needed to read it.
THEOREM DocumentClearedOnce == APISpec => []SameDocumentClearedOnce
<1>1. APIInv /\ NeverClearedTwice => SameDocumentClearedOnce
  <2> SUFFICES ASSUME APIInv, NeverClearedTwice, detector = "sound",
                      NEW q \in Requests, NEW r \in Requests, q # r,
                      invoice_document[q] # None, invoice_document[q] = invoice_document[r],
                      ReadWithoutModel(q),
                      StatusOf(q) = 200, result[q].review_status = "AUTO_CLEARED",
                      StatusOf(r) = 200, result[r].review_status = "AUTO_CLEARED"
               PROVE  FALSE
    BY DEF SameDocumentClearedOnce
  <2>1. pc[q] = "done" /\ pc[r] = "done"
    BY StatusAssumption DEF StatusOf, APIInv, ReadInv
  <2>2. ReadWithoutModel(r)
    BY DEF ReadWithoutModel
  <2>3. invoice[q] = invoice[r]
    BY <2>1, <2>2, OneReading
  <2> QED
    BY <2>1, <2>3 DEF NeverClearedTwice, SameInvoice, FingerprintOf
<1> QED
  BY <1>1, APINotClearedTwice, APIInitIInv, NextAPIInv, PTL DEF APISpec

\* A refused request has no result and no record, and is not on record as seen.
THEOREM NoTraceOfRefused == APISpec => []RefusalLeavesNoTrace
<1>1. APIInv => RefusalLeavesNoTrace
  <2> SUFFICES ASSUME APIInv, NEW r \in Requests, refused[r] # None
               PROVE /\ result[r] = None /\ auditId[r] = None
                     /\ \A f \in Fingerprints : seen[f] # None =>
                            \E q \in Requests \ {r} : checked[q] /\ FingerprintOf(q) = f
    BY DEF RefusalLeavesNoTrace
  <2>1. pc[r] = "idle" /\ result[r] = None /\ auditId[r] = None
    BY DEF APIInv, ReadInv
  <2>2. ~checked[r]
    BY <2>1 DEF APIInv, IInv, DedupInv, Asked
  <2> QED
    BY <2>1, <2>2 DEF APIInv, IInv, DedupInv
<1> QED
  BY <1>1, APIInitIInv, NextAPIInv, PTL DEF APISpec
-----------------------------------------------------------------------------
(* What comes of documents. *)

\* The request is served with a copy of its invoice document and with every
\* one of its contract documents as it reads.
LEMMA ServedAsRead ==
    ASSUME APIInv, NEW r \in Requests, invoice_document[r] # None, pc[r] # "idle"
    PROVE  /\ CopiedFrom(invoice[r], Parse(settings.enable_ocr, invoice_document[r]))
           /\ candidates[r] = ContractsOf(settings, contract_documents[r])
           /\ DOMAIN candidates[r] = DOMAIN contract_documents[r]
           /\ \A k \in DOMAIN candidates[r] :
                  candidates[r][k] # None /\ contract_documents[r][k].decodes
<1> DEFINE doc == invoice_document[r]
           docs == contract_documents[r]
           text == Parse(settings.enable_ocr, doc)
           contracts == ContractsOf(settings, docs)
<1>1. PICK reading \in Readings(settings, doc, docs) :
          /\ reading.status = None
          /\ invoice[r] = reading.invoice /\ candidates[r] = reading.contracts
  BY ReadingsOfDocuments DEF APIInv, ReadInv
<1>2. /\ text # None /\ invoice[r] \in InvoicesIn(settings, text)
      /\ candidates[r] = contracts /\ None \notin Range(contracts)
      /\ \A d \in {doc} \cup Range(docs) : d.decodes
  BY <1>1, StatusAssumption DEF Readings, InvoiceRefusals, Refusal, HandedOver
<1>3. CopiedInvoice(text)
  <2>1. doc \in InvoiceDocuments
    BY DEF APIInv, ReadInv
  <2>2. text \in ParsesOf(doc)
    BY <1>2 DEF Parse, ParsesOf
  <2> HIDE DEF text
  <2> QED
    BY <2>1, <2>2, ParsersAssumption
<1>4. CopiedFrom(invoice[r], text)
  <2> HIDE DEF text
  <2> QED
    BY <1>2, <1>3, InvoicesAreCopies
<1>5. DOMAIN contracts = DOMAIN docs
  BY DEF ContractsOf
<1>6. \A k \in DOMAIN docs : docs[k].decodes
  BY <1>2 DEF Range
<1> HIDE DEF contracts
<1>7. \A k \in DOMAIN contracts : contracts[k] # None
  BY <1>2 DEF Range
<1> QED
  BY <1>2, <1>4, <1>5, <1>6, <1>7 DEF contracts

\* A contract of the request is one a document says, in upper case throughout.
LEMMA CandidatesAreSaid ==
    ASSUME APIInv, NEW r \in Requests, invoice_document[r] # None, pc[r] # "idle",
           NEW k \in DOMAIN candidates[r]
    PROVE  LET c == candidates[r][k]
           IN /\ SaidBy(r, c)
              /\ Upper[c.currency] = c.currency
              /\ \A n \in DOMAIN c.rate_cards : c.rate_cards[n].unit_rate.currency = c.currency
<1> DEFINE doc == contract_documents[r][k]
           text == Parse(settings.enable_ocr, doc)
           c == candidates[r][k]
<1>1. /\ k \in DOMAIN contract_documents[r] /\ doc.decodes /\ c # None
      /\ c = ContractOf(settings.enable_ocr, doc)
  BY ServedAsRead DEF ContractsOf
<1>2. text # None /\ c = ContractFrom(text)
  BY <1>1 DEF ContractOf
<1>3. CopiedContract(text)
  <2>1. doc \in Range(contract_documents[r]) /\ contract_documents[r] \in ContractLists
    BY <1>1 DEF Range, APIInv, ReadInv
  <2>2. text \in ParsesOf(doc)
    BY <1>2 DEF Parse, ParsesOf
  <2> HIDE DEF text, doc
  <2> QED
    BY <2>1, <2>2, ParsersAssumption
<1>4. PICK p \in DOMAIN Upper :
          /\ c.currency = Upper[p]
          /\ \A n \in DOMAIN c.rate_cards : c.rate_cards[n].unit_rate.currency = Upper[Upper[p]]
  <2> HIDE DEF text, c
  <2> QED
    BY <1>1, <1>2, <1>3, ContractsAreCopies
<1>5. SaidBy(r, c)
  <2> HIDE DEF c
  <2> QED
    BY <1>1 DEF SaidBy
<1> HIDE DEF c
<1>6. /\ Upper[c.currency] = c.currency
      /\ \A n \in DOMAIN c.rate_cards : c.rate_cards[n].unit_rate.currency = c.currency
  BY <1>4, UpperAssumption
<1> QED
  BY <1>5, <1>6 DEF c

\* What the service and the ports behind it say of a request that is answered.
LEMMA AnsweredWithAContract ==
    ASSUME APIInv, JudgedInv, NEW r \in Requests, invoice_document[r] # None, pc[r] = "done",
           result[r].contract_id # None
    PROVE  LET c == Governing(r)
           IN /\ c \in Contracts /\ result[r].contract_id = c.contract_id
              /\ SaidBy(r, c)
              /\ Upper[c.currency] = c.currency
              /\ \A n \in DOMAIN c.rate_cards : c.rate_cards[n].unit_rate.currency = c.currency
              /\ Billed(invoice[r]) /\ Carded(c)
              /\ RuleFindings[invoice[r]][c] = Evaluate(invoice[r], c)
              /\ result[r].discrepancies = DedupFindings(r) \o Evaluate(invoice[r], c)
<1>1. /\ MatchOf(r) # None /\ MatchOf(r).contract_id # None
      /\ result[r].contract_id = Governing(r).contract_id
      /\ result[r].discrepancies = DedupFindings(r) \o RuleFindings[invoice[r]][Governing(r)]
      /\ invoice[r] \in Invoices /\ candidates[r] \in CandidateLists
  BY DEF JudgedInv, JudgedAt, Evaluated, APIInv, IInv, TypeOK
<1>2. Governing(r) \in Contracts
  BY <1>1, GoverningType
<1>3. PICK k \in DOMAIN candidates[r] : Governing(r) = candidates[r][k]
  BY <1>1, GoverningType
<1>4. /\ SaidBy(r, Governing(r))
      /\ Upper[Governing(r).currency] = Governing(r).currency
      /\ \A n \in DOMAIN Governing(r).rate_cards :
             Governing(r).rate_cards[n].unit_rate.currency = Governing(r).currency
  BY <1>3, CandidatesAreSaid
<1>5. RuleFindings[invoice[r]][Governing(r)] = Evaluate(invoice[r], Governing(r))
  BY <1>1, <1>2, PortsAssumption DEF EngineFindings
<1>6. Billed(invoice[r]) /\ Carded(Governing(r))
  BY <1>1, <1>2, LinesAssumption, CardsAssumption DEF Billed, Carded
<1> QED
  BY <1>1, <1>2, <1>4, <1>5, <1>6

LEMMA AnsweredMeansDone ==
    ASSUME APIInv, NEW r \in Requests, StatusOf(r) = 200
    PROVE  pc[r] = "done"
BY StatusAssumption DEF StatusOf, APIInv, ReadInv

LEMMA MismatchesHaveALine ==
    ASSUME APIInv, JudgedInv, NEW r \in Requests, invoice_document[r] # None, pc[r] = "done",
           NEW n \in DOMAIN result[r].discrepancies,
           result[r].discrepancies[n].type = "CURRENCY_MISMATCH"
    PROVE  result[r].contract_id # None /\ ElsewhereBilled(invoice[r], Governing(r)) # {}
<1> DEFINE ds == result[r].discrepancies
           first == DedupFindings(r)
<1>1. /\ first \in Seq({DuplicateFinding(invoice[r], original[r])})
      /\ \A m \in DOMAIN first : first[m].type # "CURRENCY_MISMATCH"
  <2> DEFINE d == DuplicateFinding(invoice[r], original[r])
  <2>1. d.type # "CURRENCY_MISMATCH"
    BY DEF DuplicateFinding
  <2>2. first = <<>> \/ first = <<d>>
    BY DEF DedupFindings
  <2> HIDE DEF first, d
  <2>3. /\ <<>> \in Seq({d}) /\ DOMAIN <<>> = {}
        /\ <<d>> \in Seq({d}) /\ DOMAIN <<d>> = {1} /\ <<d>>[1] = d
    OBVIOUS
  <2>4. first \in Seq({d}) /\ \A m \in DOMAIN first : first[m] = d
    BY <2>2, <2>3
  <2> QED
    BY <2>1, <2>4 DEF d
<1>2. result[r].contract_id # None
  BY <1>1 DEF JudgedInv, JudgedAt, Evaluated
<1> DEFINE rest == Evaluate(invoice[r], Governing(r))
<1>3. Billed(invoice[r]) /\ Carded(Governing(r)) /\ ds = first \o rest
  BY <1>2, AnsweredWithAContract
<1>4. rest \in Seq(Findings)
  <2>1. 6 \in Turns
    BY DEF Turns
  <2> QED
    BY <1>3, <2>1, CollectedTurnByTurn
<1> HIDE DEF first, rest
<1>5. \E m \in DOMAIN rest : rest[m].type = "CURRENCY_MISMATCH"
  <2>1. n \notin DOMAIN first
    <3>1. ASSUME n \in DOMAIN first PROVE ds[n] = first[n]
      BY <1>1, <1>3, <1>4, <3>1
    <3> QED
      BY <1>1, <3>1
  <2>2. n - Len(first) \in DOMAIN rest /\ ds[n] = rest[n - Len(first)]
    BY <1>1, <1>3, <1>4, <2>1
  <2> QED
    BY <2>2
<1>6. ElsewhereBilled(invoice[r], Governing(r)) # {}
  BY <1>3, <1>5, MismatchesFound DEF rest
<1> QED
  BY <1>2, <1>6

\* With any documents, any contracts and any lines on them: a mismatch reported
\* is one of two currencies, not of two spellings of one.
THEOREM MismatchesOfDocumentsAreReal == APISpec => []DocumentMismatchesAreReal
<1>1. APIInv /\ JudgedInv => DocumentMismatchesAreReal
  <2> SUFFICES ASSUME APIInv, JudgedInv, NEW r \in Requests, invoice_document[r] # None,
                      StatusOf(r) = 200, NEW n \in DOMAIN result[r].discrepancies,
                      result[r].discrepancies[n].type = "CURRENCY_MISMATCH"
               PROVE  Upper[invoice[r].currency] # Upper[Governing(r).currency]
    BY DEF DocumentMismatchesAreReal
  <2>1. pc[r] = "done"
    BY AnsweredMeansDone
  <2>2. result[r].contract_id # None /\ ElsewhereBilled(invoice[r], Governing(r)) # {}
    BY <2>1, MismatchesHaveALine
  <2>3. PICK k \in DOMAIN invoice[r].line_items :
            invoice[r].line_items[k].unit_rate.currency # Governing(r).currency
    BY <2>2 DEF ElsewhereBilled
  <2>4. CopiedFrom(invoice[r], Parse(settings.enable_ocr, invoice_document[r]))
    BY <2>1, ServedAsRead
  <2>5. /\ invoice[r].line_items[k].unit_rate.currency = invoice[r].currency
        /\ Upper[invoice[r].currency] = invoice[r].currency
    BY <2>4, UpperAssumption DEF CopiedFrom
  <2>6. Upper[Governing(r).currency] = Governing(r).currency
    BY <2>1, <2>2, AnsweredWithAContract
  <2> QED
    BY <2>3, <2>5, <2>6
<1> QED
  BY <1>1, ImplementsService, JudgedHolds, APIInitIInv, NextAPIInv, PTL DEF APISpec

\* With any documents: who is paid without a reviewer's look, and how much per
\* unit, is on the paper of the invoice and within that of the contract.
THEOREM ClearedOnPaper == APISpec => []ClearedForWhatIsPrinted
<1>1. APIInv /\ JudgedInv => ClearedForWhatIsPrinted
  <2> SUFFICES ASSUME APIInv, JudgedInv, NEW r \in Requests, invoice_document[r] # None,
                      StatusOf(r) = 200, result[r].review_status = "AUTO_CLEARED",
                      result[r].contract_id # None
               PROVE  LET text == Parse(settings.enable_ocr, invoice_document[r])
                      IN /\ result[r].invoice_id \in text.words
                         /\ \E c \in Contracts :
                                /\ SaidBy(r, c)
                                /\ c.contract_id = result[r].contract_id
                                /\ IsActiveOn(c, invoice[r].invoice_date)
                                /\ \A k \in DOMAIN invoice[r].line_items :
                                       LET line == invoice[r].line_items[k]
                                       IN /\ Figures(line) \subseteq text.numbers
                                          /\ RateFor(c, line.sku) # None
                                          /\ line.unit_rate.amount
                                                 <= RateFor(c, line.sku).unit_rate.amount
    BY DEF ClearedForWhatIsPrinted
  <2> DEFINE text == Parse(settings.enable_ocr, invoice_document[r])
             inv == invoice[r]
             c == Governing(r)
  <2>1. pc[r] = "done"
    BY AnsweredMeansDone
  <2>2. CopiedFrom(inv, text)
    BY <2>1, ServedAsRead
  <2>3. result[r].invoice_id = inv.invoice_id
    BY <2>1 DEF JudgedInv, JudgedAt, Evaluated
  <2>4. /\ c \in Contracts /\ result[r].contract_id = c.contract_id /\ SaidBy(r, c)
        /\ \A n \in DOMAIN c.rate_cards : c.rate_cards[n].unit_rate.currency = c.currency
        /\ Billed(inv) /\ Carded(c)
        /\ RuleFindings[inv][c] = Evaluate(inv, c)
    BY <2>1, AnsweredWithAContract
  <2>5. Evaluate(inv, c) = <<>>
    BY <2>1, <2>4 DEF APIInv, IInv, ClearedInv, ClearedAt, Evaluated
  <2> HIDE DEF text, inv, c
  <2>6. IsActiveOn(c, inv.invoice_date)
    BY <2>4, <2>5, NothingToFind
  <2>7. ASSUME NEW k \in DOMAIN inv.line_items
        PROVE  LET line == inv.line_items[k]
               IN /\ Figures(line) \subseteq text.numbers
                  /\ RateFor(c, line.sku) # None
                  /\ line.unit_rate.amount <= RateFor(c, line.sku).unit_rate.amount
    <3> DEFINE line == inv.line_items[k]
               entry == RateFor(c, line.sku)
    <3>1. /\ line.unit_rate.currency = c.currency /\ entry # None
          /\ Comparable(line, c) => line.unit_rate.amount <= Contracted(line, c)
      BY <2>4, <2>5, NothingToFind
    <3>2. \E n \in DOMAIN c.rate_cards : entry = c.rate_cards[n]
      BY <2>4, <3>1, RateForIsAnEntry DEF Carded
    <3>3. entry.unit_rate.currency = c.currency
      BY <2>4, <3>2
    <3>4. Comparable(line, c)
      BY <3>1, <3>3 DEF Comparable
    <3>5. line.unit_rate.amount <= entry.unit_rate.amount
      BY <3>1, <3>4 DEF Contracted
    <3>6. Figures(line) \subseteq text.numbers
      BY <2>2 DEF CopiedFrom
    <3> QED
      BY <3>1, <3>5, <3>6
  <2>8. result[r].invoice_id \in text.words
    BY <2>2, <2>3 DEF CopiedFrom
  <2> USE DEF text, inv, c
  <2> QED
    BY <2>4, <2>6, <2>7, <2>8, Zenon
<1> QED
  BY <1>1, ImplementsService, JudgedHolds, APIInitIInv, NextAPIInv, PTL DEF APISpec
-----------------------------------------------------------------------------
(* The API as it is deployed.  The thread in the critical section is the one *)
(* that holds the lock, so what it has read is still what the dictionary     *)
(* holds when it decides; deciding is then the atomic step of the API.       *)

\* The holder of the lock, and what a thread knows at each step of its call.
LockInv ==
    \A r \in Requests :
        /\ step[r] \in {"get", "branch", "exit"} <=> lock = r
        /\ step[r] = "branch" => found[r] = seen[FingerprintOf(r)]
        /\ step[r] \in {"exit", "returned"} => found[r] = original[r]
        /\ step[r] = "returned" => verdict[r] = original[r]

AssembledInv == APIInv /\ AssembledTypeOK /\ LockInv /\ detector = "sound"

LEMMA AssembledInitInv == AssembledInit => AssembledInv
<1> SUFFICES ASSUME AssembledInit PROVE AssembledInv
  OBVIOUS
<1>1. APIInv
  BY APIInitIInv DEF AssembledInit
<1>2. /\ pc = [r \in Requests |-> "idle"] /\ detector = "sound"
      /\ lock = None /\ step = [r \in Requests |-> "idle"]
      /\ found = [r \in Requests |-> None] /\ verdict = [r \in Requests |-> None]
  BY DEF AssembledInit, APIInit, Init, Adapter!Init
<1>3. AssembledTypeOK
  BY <1>2 DEF AssembledTypeOK, Adapter!Locations
<1>4. LockInv
  BY <1>2, NoneAssumption DEF LockInv
<1> QED
  BY <1>1, <1>2, <1>3, <1>4 DEF AssembledInv

\* What the rest of reconcile leaves alone: it has the answer of the detector.
LEMMA ResumeKeeps ==
    ASSUME AssembledInv, NEW r \in Requests, Resume(r)
    PROVE  /\ pc[r] \notin {"idle", "detect"} /\ pc'[r] \notin {"idle", "detect"}
           /\ \A q \in Requests \ {r} : pc'[q] = pc[q]
           /\ UNCHANGED <<detector, seen, invoice, original, inside>>
<1>1. pc[r] \notin {"idle", "detect"} /\ Step(r) /\ UNCHANGED inside
  BY DEF AssembledInv, AssembledTypeOK, Resume, Serve
<1> USE DEF AssembledInv, APIInv, IInv, TypeOK, From, local
<1>2. ~DetectDuplicate(r) /\ ~TreatAsNew(r)
  BY <1>1 DEF DetectDuplicate, TreatAsNew
<1>3. CASE MatchFails(r)
  BY <1>1, <1>3 DEF MatchFails
<1>4. CASE LeaveUnmatched(r)
  BY <1>1, <1>4 DEF LeaveUnmatched
<1>5. CASE EvaluateMatched(r)
  BY <1>1, <1>5 DEF EvaluateMatched
<1>6. CASE DrawAuditId(r)
  BY <1>1, <1>6 DEF DrawAuditId
<1>7. CASE AuditIdCollides(r)
  BY <1>1, <1>7 DEF AuditIdCollides
<1>8. CASE StoreRecord(r)
  BY <1>1, <1>8 DEF StoreRecord
<1> QED
  BY <1>1, <1>2, <1>3, <1>4, <1>5, <1>6, <1>7, <1>8 DEF Step

\* The decision, taken with the lock held, is the detector's atomic step.
LEMMA DecideIsAtomic ==
    ASSUME AssembledInv, NEW r \in Requests, Decide(r)
    PROVE  Serve(r)
<1>1. /\ step[r] = "branch" /\ found[r] = seen[FingerprintOf(r)]
      /\ From(r, "detect", "match") /\ detector = "sound"
      /\ checked' = [checked EXCEPT ![r] = TRUE]
      /\ original' = [original EXCEPT ![r] = found[r]]
      /\ UNCHANGED <<detector, store, candidates, result, auditId, api>>
  BY DEF AssembledInv, LockInv, Decide, TakeAnswer, Adapter!FindOriginal, Adapter!Register
<1>2. UNCHANGED invoice /\ seen' = Registered(r)
  <2>1. CASE Adapter!FindOriginal(r)
    BY <1>1, <2>1 DEF Adapter!FindOriginal, Registered
  <2>2. CASE Adapter!Register(r)
    BY <1>1, <2>2 DEF Adapter!Register, Adapter!FingerprintOf, Adapter!Fingerprint,
                     FingerprintOf, Fingerprint, Registered
  <2> QED
    BY <2>1, <2>2 DEF Decide
<1>3. DetectDuplicate(r)
  BY <1>1, <1>2 DEF DetectDuplicate
<1> QED
  BY <1>1, <1>3 DEF Serve, Step

LEMMA StepOfTheAPI == AssembledInv /\ [AssembledNext]_assembledVars => [APINext]_allVars
<1> SUFFICES ASSUME AssembledInv, [AssembledNext]_assembledVars PROVE [APINext]_allVars
  OBVIOUS
<1>1. ASSUME NEW r \in Requests, CallWithJson(r) PROVE APINext
  BY <1>1 DEF CallWithJson, APINext
<1>2. ASSUME NEW r \in Requests, Receive(r) PROVE APINext
  BY <1>2 DEF Receive, APINext
<1>3. ASSUME NEW r \in Requests, CallWithReading(r) \/ TurnDown(r) PROVE APINext
  BY <1>3 DEF CallWithReading, TurnDown, APINext, Read
<1>4. ASSUME NEW r \in Requests, EnterLock(r) \/ LookUp(r) \/ LeaveLock(r)
      PROVE  UNCHANGED allVars
  BY <1>4 DEF EnterLock, LookUp, LeaveLock
<1>5. ASSUME NEW r \in Requests, Decide(r) PROVE APINext
  BY <1>5, DecideIsAtomic DEF APINext
<1>6. ASSUME NEW r \in Requests, Resume(r) PROVE APINext
  BY <1>6 DEF Resume, APINext
<1>7. CASE UNCHANGED assembledVars
  BY <1>7 DEF assembledVars
<1> QED
  BY <1>1, <1>2, <1>3, <1>4, <1>5, <1>6, <1>7 DEF AssembledNext, InThread, AllAnswered

\* A call of the detector changes neither lock nor dictionary.
LEMMA CallKeepsLock ==
    ASSUME AssembledInv, NEW r \in Requests, CallDetector(r),
           pc' = [pc EXCEPT ![r] = "detect"], UNCHANGED <<detector, seen, original>>,
           \A q \in Requests \ {r} : invoice'[q] = invoice[q]
    PROVE  AssembledTypeOK' /\ LockInv'
<1>1. step[r] = "idle" /\ step' = [step EXCEPT ![r] = "enter"] /\ UNCHANGED <<lock, found, verdict>>
  BY DEF CallDetector
<1>2. AssembledTypeOK'
  BY <1>1 DEF AssembledInv, AssembledTypeOK, APIInv, IInv, TypeOK, Adapter!Locations
<1>3. LockInv'
  BY <1>1 DEF AssembledInv, AssembledTypeOK, LockInv, FingerprintOf
<1> QED
  BY <1>2, <1>3

LEMMA NextAssembledInv == AssembledInv /\ [AssembledNext]_assembledVars => AssembledInv'
<1> SUFFICES ASSUME AssembledInv, [AssembledNext]_assembledVars PROVE AssembledInv'
  OBVIOUS
<1>0. APIInv'
  BY StepOfTheAPI, NextAPIInv DEF AssembledInv
<1> SUFFICES AssembledTypeOK' /\ LockInv' /\ detector' = "sound"
  BY <1>0 DEF AssembledInv
<1>d. UNCHANGED detector
  <2>1. [Next]_vars
    BY StepOfTheAPI, StepOfTheService DEF AssembledInv
  <2> QED
    BY <2>1 DEF Next, Step, Quiescent, vars, Submit, DetectDuplicate, TreatAsNew, MatchFails,
                LeaveUnmatched, EvaluateMatched, DrawAuditId, AuditIdCollides, StoreRecord
<1> SUFFICES AssembledTypeOK' /\ LockInv'
  BY <1>d DEF AssembledInv
<1>1. ASSUME NEW r \in Requests, CallWithJson(r) PROVE AssembledTypeOK' /\ LockInv'
  <2>1. /\ CallDetector(r)
        /\ pc' = [pc EXCEPT ![r] = "detect"] /\ UNCHANGED <<detector, seen, original>>
        /\ \A q \in Requests \ {r} : invoice'[q] = invoice[q]
    BY <1>1 DEF CallWithJson, SubmitJson, Submit, From, AssembledInv, APIInv, IInv, TypeOK
  <2> QED
    BY <2>1, CallKeepsLock
<1>2. ASSUME NEW r \in Requests, CallWithReading(r) PROVE AssembledTypeOK' /\ LockInv'
  <2>1. /\ CallDetector(r)
        /\ pc' = [pc EXCEPT ![r] = "detect"] /\ UNCHANGED <<detector, seen, original>>
        /\ \A q \in Requests \ {r} : invoice'[q] = invoice[q]
    BY <1>2 DEF CallWithReading, HandOver, AssembledInv, APIInv, IInv, TypeOK
  <2> QED
    BY <2>1, CallKeepsLock
<1>3. ASSUME NEW r \in Requests, Receive(r) \/ TurnDown(r) PROVE AssembledTypeOK' /\ LockInv'
  <2>1. UNCHANGED <<vars, inside>>
    BY <1>3 DEF Receive, TurnDown, ReceiveDocuments, Refuse
  <2> QED
    BY <2>1 DEF AssembledInv, AssembledTypeOK, LockInv, FingerprintOf, vars, local, inside
<1>4. ASSUME NEW r \in Requests, EnterLock(r) PROVE AssembledTypeOK' /\ LockInv'
  <2>1. /\ step[r] = "enter" /\ lock = None /\ lock' = r
        /\ step' = [step EXCEPT ![r] = "get"]
        /\ UNCHANGED <<found, verdict, pc, seen, invoice, original>>
    BY <1>4 DEF EnterLock, Adapter!Acquire, Adapter!Goto, allVars, vars, local
  <2> QED
    BY <2>1, NoneAssumption DEF AssembledInv, AssembledTypeOK, LockInv, FingerprintOf, Adapter!Locations
<1>5. ASSUME NEW r \in Requests, LookUp(r) PROVE AssembledTypeOK' /\ LockInv'
  <2>1. /\ step[r] = "get" /\ found' = [found EXCEPT ![r] = seen[FingerprintOf(r)]]
        /\ step' = [step EXCEPT ![r] = "branch"]
        /\ UNCHANGED <<lock, verdict, pc, seen, invoice, original>>
    BY <1>5 DEF LookUp, Adapter!Get, Adapter!Goto, Adapter!FingerprintOf, Adapter!Fingerprint,
                FingerprintOf, Fingerprint, allVars, vars, local
  <2>2. seen[FingerprintOf(r)] \in Texts \cup {None}
    BY <2>1, FingerprintType DEF AssembledInv, AssembledTypeOK, APIInv, IInv, TypeOK, FingerprintOf
  <2> QED
    BY <2>1, <2>2 DEF AssembledInv, AssembledTypeOK, LockInv, FingerprintOf, Adapter!Locations
<1>6. ASSUME NEW r \in Requests, Decide(r) PROVE AssembledTypeOK' /\ LockInv'
  <2>1. /\ step[r] = "branch" /\ step' = [step EXCEPT ![r] = "exit"]
        /\ original' = [original EXCEPT ![r] = found[r]]
        /\ pc[r] = "detect" /\ pc' = [pc EXCEPT ![r] = "match"]
        /\ UNCHANGED <<lock, found, verdict, invoice>>
    BY <1>6 DEF Decide, TakeAnswer, From, Adapter!FindOriginal, Adapter!Register, Adapter!Goto
  <2>2. AssembledTypeOK'
    BY <2>1 DEF AssembledInv, AssembledTypeOK, APIInv, IInv, TypeOK, Adapter!Locations
  <2>3. \A q \in Requests \ {r} : step[q] # "branch"
    BY <2>1 DEF AssembledInv, LockInv
  <2>4. LockInv'
    BY <2>1, <2>3 DEF AssembledInv, AssembledTypeOK, APIInv, IInv, TypeOK, LockInv
  <2> QED
    BY <2>2, <2>4
<1>7. ASSUME NEW r \in Requests, LeaveLock(r) PROVE AssembledTypeOK' /\ LockInv'
  <2>1. /\ step[r] = "exit" /\ lock' = None
        /\ verdict' = [verdict EXCEPT ![r] = found[r]]
        /\ step' = [step EXCEPT ![r] = "returned"]
        /\ UNCHANGED <<found, pc, seen, invoice, original>>
    BY <1>7 DEF LeaveLock, Adapter!Release, Adapter!Goto, allVars, vars, local
  <2> QED
    BY <2>1, NoneAssumption DEF AssembledInv, AssembledTypeOK, LockInv, FingerprintOf, Adapter!Locations
<1>8. ASSUME NEW r \in Requests, Resume(r) PROVE AssembledTypeOK' /\ LockInv'
  BY <1>8, ResumeKeeps DEF AssembledInv, AssembledTypeOK, LockInv, FingerprintOf, inside
<1>9. CASE UNCHANGED assembledVars
  BY <1>9 DEF AssembledInv, AssembledTypeOK, LockInv, FingerprintOf, assembledVars, allVars, vars, local, inside
<1> QED
  BY <1>1, <1>2, <1>3, <1>4, <1>5, <1>6, <1>7, <1>8, <1>9 DEF AssembledNext, InThread, AllAnswered, assembledVars

\* The lock in the middle of reconcile does not show: with any number of
\* requests waiting for it, the API is the one of Endpoints.
THEOREM AssembledImplementsAPI == AssembledSpec => ImplementsAPI
<1>1. AssembledInit => APIInit
  BY DEF AssembledInit
<1> QED
  BY <1>1, StepOfTheAPI, AssembledInitInv, NextAssembledInv, PTL DEF AssembledSpec, ImplementsAPI, APISpec

\* The thread of a request is where its call of the detector is.
THEOREM AssembledTypes == AssembledSpec => []AssembledTypeOK
<1>1. AssembledInv => AssembledTypeOK
  BY DEF AssembledInv
<1> QED
  BY <1>1, AssembledInitInv, NextAssembledInv, PTL DEF AssembledSpec

\* The service goes on with what the call of its own thread returned.
THEOREM AnswersReachCallers == AssembledSpec => []AnswersReachTheirCaller
<1>1. AssembledInv => AnswersReachTheirCaller
  BY DEF AssembledInv, LockInv, AnswersReachTheirCaller
<1> QED
  BY <1>1, AssembledInitInv, NextAssembledInv, PTL DEF AssembledSpec

\* Nothing but the detector's own steps touches its dictionary, and a request
\* calls it once: all that is proved of the detector holds of the one in use.
THEOREM DetectorUsedAsMeant == AssembledSpec => KeepsToTheAdapter
<1>1. AssembledInit => Adapter!Init
  BY DEF AssembledInit
<1>2. AssembledInv /\ [AssembledNext]_assembledVars => [Adapter!Next]_(Adapter!vars)
  <2> SUFFICES ASSUME AssembledInv, [AssembledNext]_assembledVars
               PROVE [Adapter!Next]_(Adapter!vars)
    OBVIOUS
  <2>1. ASSUME NEW r \in Requests, CallWithJson(r) PROVE Adapter!Call(r)
    BY <2>1 DEF CallWithJson, SubmitJson, Submit, CallDetector, Adapter!Call, Adapter!Goto
  <2>2. ASSUME NEW r \in Requests, CallWithReading(r) PROVE Adapter!Call(r)
    <3>1. Submit(r)
      BY <2>2, HandOverSubmits DEF CallWithReading, AssembledInv
    <3> QED
      BY <2>2, <3>1 DEF CallWithReading, Submit, CallDetector, Adapter!Call, Adapter!Goto
  <2>3. ASSUME NEW r \in Requests, Receive(r) \/ TurnDown(r) PROVE UNCHANGED Adapter!vars
    BY <2>3 DEF Receive, TurnDown, ReceiveDocuments, Refuse, Adapter!vars, inside, vars, local
  <2>4. ASSUME NEW r \in Requests, EnterLock(r) \/ LookUp(r) \/ Decide(r) \/ LeaveLock(r)
        PROVE  Adapter!Step(r)
    BY <2>4 DEF EnterLock, LookUp, Decide, LeaveLock, Adapter!Step
  <2>5. ASSUME NEW r \in Requests, Resume(r) PROVE UNCHANGED Adapter!vars
    BY <2>5, ResumeKeeps DEF Adapter!vars, inside
  <2>6. CASE UNCHANGED assembledVars
    BY <2>6 DEF assembledVars, allVars, vars, local, inside, Adapter!vars
  <2> QED
    BY <2>1, <2>2, <2>3, <2>4, <2>5, <2>6
       DEF AssembledNext, InThread, AllAnswered, assembledVars, Adapter!Next
<1> QED
  BY <1>1, <1>2, AssembledInitInv, NextAssembledInv, PTL
     DEF AssembledSpec, KeepsToTheAdapter, Adapter!Spec

\* As deployed, with a lock, a dictionary, a matcher and rules of the code: no
\* invoice is cleared twice, nor a document that is sent twice.
THEOREM DeployedNotClearedTwice ==
    AssembledSpec => []NeverClearedTwice /\ []SameDocumentClearedOnce
<1> QED
  BY AssembledImplementsAPI, APINotClearedTwice, DocumentClearedOnce, PTL DEF ImplementsAPI

\* As deployed, a request is answered with the judgement of the contract that
\* won its match, cleared only if clean and, from documents, only for what is
\* printed; every answer is on the audit trail, and a refusal leaves no trace.
THEOREM DeployedAnswers ==
    AssembledSpec =>
        /\ []JudgedByTheBestMatch /\ []ClearedOnlyWhenClean /\ []ClearedForWhatIsPrinted
        /\ []AuditTrailExact /\ ImplementsAuditLog /\ []RefusalLeavesNoTrace
<1> QED
  BY AssembledImplementsAPI, APIJudgedByTheWinner, ClearedOnPaper, APIAuditTrail,
     NoTraceOfRefused, PTL DEF ImplementsAPI
=============================================================================
