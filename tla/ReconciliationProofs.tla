-------------------------- MODULE ReconciliationProofs --------------------------
(***************************************************************************)
(* Proofs about the reconciliation service, for any number of requests,    *)
(* any invoices and contracts, any matcher and any rules.                  *)
(***************************************************************************)
EXTENDS Reconciliation, OperatorLemmas

Asked(r) == pc[r] \notin {"idle", "detect"}

\* The detector's record and the answers it gave.
DedupInv ==
    /\ \A r \in Requests :
           /\ checked[r] => Asked(r)
           /\ detector = "sound" /\ Asked(r) => checked[r]
           /\ original[r] # None => checked[r] /\ seen[FingerprintOf(r)] = original[r]
           /\ checked[r] /\ original[r] = None =>
                  seen[FingerprintOf(r)] = invoice[r].invoice_id
    /\ \A f \in Fingerprints : seen[f] # None =>
           \E q \in Requests : checked[q] /\ original[q] = None /\ FingerprintOf(q) = f
    /\ \A q, r \in Requests :
           /\ checked[q] /\ checked[r]
           /\ original[q] = None /\ original[r] = None
           /\ SameInvoice(q, r)
           => q = r

\* A result is cleared from the moment it is built only if it is clean.
ClearedAt(r) ==
    Evaluated(r) /\ result[r].review_status = "AUTO_CLEARED" =>
        /\ original[r] = None
        /\ MatchOf(r).score >= ReviewThreshold
        /\ result[r].contract_id # None =>
               RuleFindings[invoice[r]][Governing(r)] = <<>>

ClearedInv == \A r \in Requests : ClearedAt(r)

\* An id that was drawn is free and drawn by one request only until it is used.
StoreInv ==
    /\ \A r \in Requests : pc[r] \in {"store", "done"} => auditId[r] \in AuditIds
    /\ \A r \in Requests : pc[r] = "store" => auditId[r] \notin DOMAIN store
    /\ \A q, r \in Requests :
           pc[q] = "store" /\ pc[r] = "store" /\ auditId[q] = auditId[r] => q = r

IInv == TypeOK /\ DedupInv /\ ClearedInv /\ StoreInv /\ AuditTrailExact

LEMMA FingerprintType ==
    ASSUME NEW i \in Invoices
    PROVE  Fingerprint(i) \in Fingerprints /\ i.invoice_id \in Texts
BY FoldedAssumption, InvoicesAssumption DEF Fingerprint, Fingerprints

\* Routing: an automatic clearance means that nothing was found and that the
\* score reaches the review threshold.
LEMMA RouteType ==
    ASSUME NEW score, NEW ds
    PROVE  Route(score, ds) \in Statuses
BY DEF Route, Statuses

LEMMA RouteCleared ==
    ASSUME NEW score \in 0 .. One, NEW ds, Route(score, ds) = "AUTO_CLEARED"
    PROVE  ds = <<>> /\ score >= ReviewThreshold
<1>1. ReviewThreshold \in Int /\ score \in Int
  BY ReviewThresholdAssumption
<1>2. ds = <<>> /\ ~(ResultConfidence(score, ds) < ReviewThreshold)
  BY DEF Route
<1> QED
  BY <1>1, <1>2 DEF ResultConfidence

LEMMA InitIInv == Init => IInv
BY NoneAssumption
   DEF Init, IInv, TypeOK, DedupInv, ClearedInv, StoreInv, AuditTrailExact, Asked,
       ClearedAt, Evaluated, Locations

\* The lookup of the matched contract finds a candidate.
LEMMA GoverningType ==
    ASSUME NEW r \in Requests, invoice[r] \in Invoices, candidates[r] \in CandidateLists,
           MatchOf(r) # None, MatchOf(r).contract_id # None
    PROVE  /\ Governing(r) \in Contracts
           /\ Governing(r).contract_id = MatchOf(r).contract_id
           /\ \E k \in DOMAIN candidates[r] : Governing(r) = candidates[r][k]
<1> DEFINE cs == candidates[r]
           HasId(k) == cs[k].contract_id = MatchOf(r).contract_id
           Ks == {k \in DOMAIN cs : HasId(k)}
<1>1. cs \in Seq(Contracts) /\ DOMAIN cs = 1 .. Len(cs) /\ Len(cs) \in Nat
  BY CandidatesAssumption
<1>2. Ks # {} /\ Ks \subseteq Nat
  BY <1>1, MatcherAssumption DEF MatchOf
<1>3. PICK k \in Ks : \A j \in Ks : k <= j
  <2> HIDE DEF Ks
  <2> QED
    BY <1>2, LeastElement
<1>4. HasId(k) /\ \A j \in 1 .. k - 1 : ~HasId(j)
  BY <1>1, <1>3
<1>5. \E m \in DOMAIN cs : HasId(m) /\ \A j \in 1 .. m - 1 : ~HasId(j)
  BY <1>3, <1>4
<1>6. \E m \in DOMAIN cs : HasId(m) /\ Governing(r) = cs[m]
  BY <1>5 DEF Governing
<1> QED
  BY <1>1, <1>6

\* The match and the contract of a request depend on its arguments only.
LEMMA GoverningStable ==
    ASSUME NEW r \in Requests, invoice'[r] = invoice[r], candidates'[r] = candidates[r]
    PROVE  MatchOf(r)' = MatchOf(r) /\ Governing(r)' = Governing(r)
BY DEF Governing, MatchOf

LEMMA ClearedStable ==
    ASSUME NEW q \in Requests, ClearedAt(q),
           Evaluated(q)' =>
               /\ Evaluated(q)
               /\ result'[q] = result[q] /\ original'[q] = original[q]
               /\ invoice'[q] = invoice[q] /\ candidates'[q] = candidates[q]
    PROVE  ClearedAt(q)'
BY GoverningStable DEF ClearedAt

LEMMA DedupOrNot ==
    ASSUME NEW r \in Requests, NEW s \in Seq(Discrepancies), DedupFindings(r) \o s = <<>>
    PROVE  original[r] = None /\ s = <<>>
<1>1. CASE original[r] = None
  BY <1>1 DEF DedupFindings
<1>2. CASE original[r] # None
  <2> DEFINE d == DuplicateFinding(invoice[r], original[r])
  <2>1. DedupFindings(r) = <<d>>
    BY <1>2 DEF DedupFindings
  <2>2. Len(<<d>> \o s) = 1 + Len(s) /\ Len(s) \in Nat
    <3> HIDE DEF d
    <3>1. <<d>> \in Seq({d}) /\ <<d>> \in Seq({d} \cup Discrepancies) /\ s \in Seq({d} \cup Discrepancies)
      OBVIOUS
    <3> QED
      BY <3>1
  <2>3. Len(<<d>> \o s) = 0
    BY <2>1
  <2> QED
    BY <2>2, <2>3
<1> QED
  BY <1>1, <1>2
-----------------------------------------------------------------------------
LEMMA NextIInv == IInv /\ [Next]_vars => IInv'
<1> SUFFICES ASSUME IInv, [Next]_vars PROVE IInv'
  OBVIOUS
<1> USE NoneAssumption DEF From, local
<1>1. ASSUME NEW r \in Requests, Submit(r) PROVE IInv'
  <2>1. TypeOK'
    BY <1>1 DEF IInv, TypeOK, Submit, Locations, Evaluated
  <2>2. DedupInv'
    BY <1>1, FingerprintType DEF IInv, TypeOK, DedupInv, Submit, FingerprintOf, SameInvoice, Asked
  <2>3. ClearedInv'
    <3>1. ASSUME NEW q \in Requests, Evaluated(q)'
          PROVE  /\ Evaluated(q)
                 /\ result'[q] = result[q] /\ original'[q] = original[q]
                 /\ invoice'[q] = invoice[q] /\ candidates'[q] = candidates[q]
      BY <1>1, <3>1 DEF IInv, TypeOK, Submit, Evaluated
    <3> QED
      BY <3>1, ClearedStable DEF IInv, ClearedInv
  <2>4. StoreInv'
    BY <1>1 DEF IInv, TypeOK, StoreInv, Submit, Drawn
  <2>5. AuditTrailExact'
    BY <1>1 DEF IInv, TypeOK, StoreInv, AuditTrailExact, Submit
  <2> QED
    BY <2>1, <2>2, <2>3, <2>4, <2>5 DEF IInv
<1>2. ASSUME NEW r \in Requests, DetectDuplicate(r) PROVE IInv'
  <2>1. TypeOK'
    BY <1>2, FingerprintType, RouteType DEF IInv, TypeOK, DetectDuplicate, Registered, Locations, FingerprintOf, Evaluated, Result
  <2>2. DedupInv'
    BY <1>2, FingerprintType DEF IInv, TypeOK, DedupInv, DetectDuplicate, Registered, FingerprintOf, SameInvoice, Asked
  <2>3. ClearedInv'
    <3>1. ASSUME NEW q \in Requests, Evaluated(q)'
          PROVE  /\ Evaluated(q)
                 /\ result'[q] = result[q] /\ original'[q] = original[q]
                 /\ invoice'[q] = invoice[q] /\ candidates'[q] = candidates[q]
      BY <1>2, <3>1 DEF IInv, TypeOK, DetectDuplicate, Evaluated
    <3> QED
      BY <3>1, ClearedStable DEF IInv, ClearedInv
  <2>4. StoreInv'
    BY <1>2 DEF IInv, TypeOK, StoreInv, DetectDuplicate, Drawn
  <2>5. AuditTrailExact'
    BY <1>2 DEF IInv, TypeOK, StoreInv, AuditTrailExact, DetectDuplicate
  <2> QED
    BY <2>1, <2>2, <2>3, <2>4, <2>5 DEF IInv
<1>3. ASSUME NEW r \in Requests, TreatAsNew(r) PROVE IInv'
  <2>1. TypeOK'
    BY <1>3 DEF IInv, TypeOK, TreatAsNew, Locations, Evaluated
  <2>2. DedupInv'
    BY <1>3, FingerprintType DEF IInv, TypeOK, DedupInv, TreatAsNew, FingerprintOf, SameInvoice, Asked
  <2>3. ClearedInv'
    <3>1. ASSUME NEW q \in Requests, Evaluated(q)'
          PROVE  /\ Evaluated(q)
                 /\ result'[q] = result[q] /\ original'[q] = original[q]
                 /\ invoice'[q] = invoice[q] /\ candidates'[q] = candidates[q]
      BY <1>3, <3>1 DEF IInv, TypeOK, TreatAsNew, Evaluated
    <3> QED
      BY <3>1, ClearedStable DEF IInv, ClearedInv
  <2>4. StoreInv'
    BY <1>3 DEF IInv, TypeOK, StoreInv, TreatAsNew, Drawn
  <2>5. AuditTrailExact'
    BY <1>3 DEF IInv, TypeOK, StoreInv, AuditTrailExact, TreatAsNew
  <2> QED
    BY <2>1, <2>2, <2>3, <2>4, <2>5 DEF IInv
<1>4. ASSUME NEW r \in Requests, MatchFails(r) PROVE IInv'
  <2>1. TypeOK'
    BY <1>4 DEF IInv, TypeOK, MatchFails, Locations, Evaluated
  <2>2. DedupInv'
    BY <1>4, FingerprintType DEF IInv, TypeOK, DedupInv, MatchFails, FingerprintOf, SameInvoice, Asked
  <2>3. ClearedInv'
    <3>1. ASSUME NEW q \in Requests, Evaluated(q)'
          PROVE  /\ Evaluated(q)
                 /\ result'[q] = result[q] /\ original'[q] = original[q]
                 /\ invoice'[q] = invoice[q] /\ candidates'[q] = candidates[q]
      BY <1>4, <3>1 DEF IInv, TypeOK, MatchFails, Evaluated
    <3> QED
      BY <3>1, ClearedStable DEF IInv, ClearedInv
  <2>4. StoreInv'
    BY <1>4 DEF IInv, TypeOK, StoreInv, MatchFails, Drawn
  <2>5. AuditTrailExact'
    BY <1>4 DEF IInv, TypeOK, StoreInv, AuditTrailExact, MatchFails
  <2> QED
    BY <2>1, <2>2, <2>3, <2>4, <2>5 DEF IInv
<1>5. ASSUME NEW r \in Requests, LeaveUnmatched(r) PROVE IInv'
  <2>1. TypeOK'
    BY <1>5, FingerprintType, RouteType DEF IInv, TypeOK, LeaveUnmatched, Locations, FingerprintOf, Evaluated, Result
  <2>2. DedupInv'
    BY <1>5, FingerprintType DEF IInv, TypeOK, DedupInv, LeaveUnmatched, FingerprintOf, SameInvoice, Asked
  <2>3. ClearedInv'
    <3>1. ASSUME NEW q \in Requests, q # r, Evaluated(q)'
          PROVE  /\ Evaluated(q)
                 /\ result'[q] = result[q] /\ original'[q] = original[q]
                 /\ invoice'[q] = invoice[q] /\ candidates'[q] = candidates[q]
      BY <1>5, <3>1 DEF IInv, TypeOK, LeaveUnmatched, Evaluated
    <3>2. ASSUME NEW q \in Requests, q # r PROVE ClearedAt(q)'
      BY <3>1, <3>2, ClearedStable DEF IInv, ClearedInv
    <3>3. ClearedAt(r)'
      <4>1. /\ result'[r] = Result(r, None, DedupFindings(r))
            /\ original'[r] = original[r]
            /\ MatchOf(r)' = MatchOf(r)
        BY <1>5, GoverningStable DEF LeaveUnmatched, IInv, TypeOK
      <4>2. MatchOf(r).score \in 0 .. One
        BY <1>5, MatcherAssumption DEF LeaveUnmatched, MatchOf, IInv, TypeOK
      <4>3. /\ result'[r].contract_id = None
            /\ result'[r].review_status = Route(MatchOf(r).score, DedupFindings(r))
        BY <4>1 DEF Result
      <4>4. ASSUME result'[r].review_status = "AUTO_CLEARED"
            PROVE  original[r] = None /\ MatchOf(r).score >= ReviewThreshold
        BY <4>2, <4>3, <4>4, RouteCleared DEF DedupFindings
      <4> QED
        BY <4>1, <4>3, <4>4 DEF ClearedAt
    <3> QED
      BY <3>2, <3>3 DEF ClearedInv
  <2>4. StoreInv'
    BY <1>5 DEF IInv, TypeOK, StoreInv, LeaveUnmatched, Drawn
  <2>5. AuditTrailExact'
    BY <1>5 DEF IInv, TypeOK, StoreInv, AuditTrailExact, LeaveUnmatched
  <2> QED
    BY <2>1, <2>2, <2>3, <2>4, <2>5 DEF IInv
<1>6. ASSUME NEW r \in Requests, EvaluateMatched(r) PROVE IInv'
  <2>1. TypeOK'
    BY <1>6, FingerprintType, RouteType DEF IInv, TypeOK, EvaluateMatched, Locations, FingerprintOf, Evaluated, Result
  <2>2. DedupInv'
    BY <1>6, FingerprintType DEF IInv, TypeOK, DedupInv, EvaluateMatched, FingerprintOf, SameInvoice, Asked
  <2>3. ClearedInv'
    <3>1. ASSUME NEW q \in Requests, q # r, Evaluated(q)'
          PROVE  /\ Evaluated(q)
                 /\ result'[q] = result[q] /\ original'[q] = original[q]
                 /\ invoice'[q] = invoice[q] /\ candidates'[q] = candidates[q]
      BY <1>6, <3>1 DEF IInv, TypeOK, EvaluateMatched, Evaluated
    <3>2. ASSUME NEW q \in Requests, q # r PROVE ClearedAt(q)'
      BY <3>1, <3>2, ClearedStable DEF IInv, ClearedInv
    <3>3. ClearedAt(r)'
      <4> DEFINE found == RuleFindings[invoice[r]][Governing(r)]
      <4>1. /\ result'[r] = Result(r, Governing(r).contract_id, DedupFindings(r) \o found)
            /\ original'[r] = original[r] /\ invoice'[r] = invoice[r]
            /\ MatchOf(r)' = MatchOf(r) /\ Governing(r)' = Governing(r)
        BY <1>6, GoverningStable DEF EvaluateMatched, IInv, TypeOK
      <4>2. /\ MatchOf(r).score \in 0 .. One
            /\ found \in Seq(Discrepancies)
        BY <1>6, MatcherAssumption, RuleFindingsAssumption, GoverningType
           DEF EvaluateMatched, MatchOf, IInv, TypeOK
      <4>3. result'[r].review_status = Route(MatchOf(r).score, DedupFindings(r) \o found)
        BY <4>1 DEF Result
      <4>4. ASSUME result'[r].review_status = "AUTO_CLEARED"
            PROVE  /\ original[r] = None /\ found = <<>>
                   /\ MatchOf(r).score >= ReviewThreshold
        <5>1. DedupFindings(r) \o found = <<>> /\ MatchOf(r).score >= ReviewThreshold
          BY <4>2, <4>3, <4>4, RouteCleared
        <5> QED
          BY <4>2, <5>1, DedupOrNot
      <4> QED
        BY <4>1, <4>4 DEF ClearedAt
    <3> QED
      BY <3>2, <3>3 DEF ClearedInv
  <2>4. StoreInv'
    BY <1>6 DEF IInv, TypeOK, StoreInv, EvaluateMatched, Drawn
  <2>5. AuditTrailExact'
    BY <1>6 DEF IInv, TypeOK, StoreInv, AuditTrailExact, EvaluateMatched
  <2> QED
    BY <2>1, <2>2, <2>3, <2>4, <2>5 DEF IInv
<1>7. ASSUME NEW r \in Requests, DrawAuditId(r) PROVE IInv'
  <2>1. TypeOK'
    BY <1>7 DEF IInv, TypeOK, DrawAuditId, FreeDrawn, Drawn, Locations, FingerprintOf, Evaluated
  <2>2. DedupInv'
    BY <1>7, FingerprintType DEF IInv, TypeOK, DedupInv, DrawAuditId, FingerprintOf, SameInvoice, Asked
  <2>3. ClearedInv'
    <3>1. ASSUME NEW q \in Requests, Evaluated(q)'
          PROVE  /\ Evaluated(q)
                 /\ result'[q] = result[q] /\ original'[q] = original[q]
                 /\ invoice'[q] = invoice[q] /\ candidates'[q] = candidates[q]
      BY <1>7, <3>1 DEF IInv, TypeOK, DrawAuditId, Evaluated
    <3> QED
      BY <3>1, ClearedStable DEF IInv, ClearedInv
  <2>4. StoreInv'
    BY <1>7 DEF IInv, TypeOK, StoreInv, DrawAuditId, FreeDrawn, Drawn
  <2>5. AuditTrailExact'
    BY <1>7 DEF IInv, TypeOK, StoreInv, AuditTrailExact, DrawAuditId
  <2> QED
    BY <2>1, <2>2, <2>3, <2>4, <2>5 DEF IInv
<1>8. ASSUME NEW r \in Requests, AuditIdCollides(r) PROVE IInv'
  <2>1. TypeOK'
    BY <1>8 DEF IInv, TypeOK, AuditIdCollides, Locations, Evaluated
  <2>2. DedupInv'
    BY <1>8, FingerprintType DEF IInv, TypeOK, DedupInv, AuditIdCollides, FingerprintOf, SameInvoice, Asked
  <2>3. ClearedInv'
    <3>1. ASSUME NEW q \in Requests, Evaluated(q)'
          PROVE  /\ Evaluated(q)
                 /\ result'[q] = result[q] /\ original'[q] = original[q]
                 /\ invoice'[q] = invoice[q] /\ candidates'[q] = candidates[q]
      BY <1>8, <3>1 DEF IInv, TypeOK, AuditIdCollides, Evaluated
    <3> QED
      BY <3>1, ClearedStable DEF IInv, ClearedInv
  <2>4. StoreInv'
    BY <1>8 DEF IInv, TypeOK, StoreInv, AuditIdCollides, Drawn
  <2>5. AuditTrailExact'
    BY <1>8 DEF IInv, TypeOK, StoreInv, AuditTrailExact, AuditIdCollides
  <2> QED
    BY <2>1, <2>2, <2>3, <2>4, <2>5 DEF IInv
<1>9. ASSUME NEW r \in Requests, StoreRecord(r) PROVE IInv'
  <2>1. TypeOK'
    BY <1>9 DEF IInv, TypeOK, StoreInv, StoreRecord, Stored, Locations, Evaluated
  <2>2. DedupInv'
    BY <1>9, FingerprintType DEF IInv, TypeOK, DedupInv, StoreRecord, FingerprintOf, SameInvoice, Asked
  <2>3. ClearedInv'
    <3>1. ASSUME NEW q \in Requests, Evaluated(q)'
          PROVE  /\ Evaluated(q)
                 /\ result'[q] = result[q] /\ original'[q] = original[q]
                 /\ invoice'[q] = invoice[q] /\ candidates'[q] = candidates[q]
      BY <1>9, <3>1 DEF IInv, TypeOK, StoreRecord, Evaluated
    <3> QED
      BY <3>1, ClearedStable DEF IInv, ClearedInv
  <2>4. StoreInv'
    BY <1>9 DEF IInv, TypeOK, StoreInv, StoreRecord, Stored, Drawn
  <2>5. AuditTrailExact'
    BY <1>9 DEF IInv, TypeOK, StoreInv, AuditTrailExact, StoreRecord, Stored
  <2> QED
    BY <2>1, <2>2, <2>3, <2>4, <2>5 DEF IInv
<1>10. CASE UNCHANGED vars
  <2>1. ClearedInv'
    BY <1>10, ClearedStable DEF vars, IInv, ClearedInv, Evaluated
  <2> QED
    BY <1>10, <2>1 DEF vars, IInv, TypeOK, DedupInv, StoreInv, AuditTrailExact, Asked,
                       Evaluated, SameInvoice, FingerprintOf
<1> QED
  BY <1>1, <1>2, <1>3, <1>4, <1>5, <1>6, <1>7, <1>8, <1>9, <1>10 DEF Next, Step, Quiescent

\* The type invariant, for any number of requests.
THEOREM TypeCorrect == Spec => []TypeOK
<1>1. IInv => TypeOK
  BY DEF IInv
<1> QED
  BY <1>1, InitIInv, NextIInv, PTL DEF Spec

\* A flagged duplicate cites the request that was told the invoice is new.
THEOREM FlaggedCites == Spec => []FlaggedCitesFirst
<1>1. IInv => FlaggedCitesFirst
  <2> SUFFICES ASSUME IInv, NEW r \in Requests, original[r] # None
               PROVE \E q \in Requests \ {r} :
                         /\ checked[q] /\ SameInvoice(q, r)
                         /\ original[q] = None
                         /\ original[r] = invoice[q].invoice_id
    BY DEF FlaggedCitesFirst
  <2>1. /\ checked[r] /\ seen[FingerprintOf(r)] = original[r]
        /\ FingerprintOf(r) \in Fingerprints
    BY FingerprintType DEF IInv, TypeOK, DedupInv, FingerprintOf, Asked
  <2>2. PICK q \in Requests : checked[q] /\ original[q] = None
                              /\ FingerprintOf(q) = FingerprintOf(r)
    BY <2>1 DEF IInv, DedupInv
  <2> QED
    BY <2>1, <2>2 DEF IInv, DedupInv, SameInvoice
<1> QED
  BY <1>1, InitIInv, NextIInv, PTL DEF Spec

\* An invoice is cleared automatically only if nothing was found on it.
THEOREM Cleared == Spec => []ClearedOnlyWhenClean
<1>1. IInv => ClearedOnlyWhenClean
  BY DEF IInv, ClearedInv, ClearedAt, ClearedOnlyWhenClean, Evaluated
<1> QED
  BY <1>1, InitIInv, NextIInv, PTL DEF Spec

\* With a working detector no invoice is cleared twice: of two requests that
\* carry it one was told that it is a duplicate, and its finding keeps it from
\* being cleared.
THEOREM NotClearedTwice == Spec => []NeverClearedTwice
<1>1. IInv => NeverClearedTwice
  BY DEF IInv, DedupInv, ClearedInv, ClearedAt, NeverClearedTwice, Evaluated, Asked
<1> QED
  BY <1>1, InitIInv, NextIInv, PTL DEF Spec

\* The audit log holds exactly the answers that were given.
THEOREM AuditTrail == Spec => []AuditTrailExact
<1>1. IInv => AuditTrailExact
  BY DEF IInv
<1> QED
  BY <1>1, InitIInv, NextIInv, PTL DEF Spec
-----------------------------------------------------------------------------
(* The total of a result. *)

\* Discrepancies whose impacts, where they have one, are amounts of money.
Priceable(ds) ==
    /\ Len(ds) \in Nat /\ DOMAIN ds = 1 .. Len(ds)
    /\ \A k \in DOMAIN ds : ds[k].monetary_impact \in Amounts \cup {None}

\* The total of such discrepancies: none without an impact, and the sum of all
\* the impacts when they share a currency.
TotalOf(total, ds) ==
    /\ total = None <=> Priced(ds) = {}
    /\ \A k \in Priced(ds) :
           (\A j \in Priced(ds) : ds[j].monetary_impact.currency = ds[k].monetary_impact.currency)
           => total = [amount |-> SumFunctionOnSet(Impact(ds), Priced(ds)),
                       currency |-> ds[k].monetary_impact.currency]

LEMMA PartOfARange ==
    ASSUME NEW N \in Nat, NEW S \in SUBSET (1 .. N)
    PROVE  IsFiniteSet(S)
<1>1. 1 \in Int /\ N \in Int
  OBVIOUS
<1>2. IsFiniteSet(1 .. N)
  BY <1>1, FS_Interval
<1> QED
  BY <1>2, FS_Subset

LEMMA AggregateIsTotal ==
    ASSUME NEW ds, Priceable(ds)
    PROVE  TotalOf(AggregateImpact(ds), ds)
<1> DEFINE priced == Priced(ds)
           currency == ds[Min(priced)].monetary_impact.currency
           alike == {k \in priced : ds[k].monetary_impact.currency = currency}
           sum == SumFunctionOnSet(Impact(ds), alike)
<1>1. priced \in SUBSET (1 .. Len(ds)) /\ Len(ds) \in Nat
  BY DEF Priced, Priceable
<1>2. \A k \in priced : ds[k].monetary_impact \in Amounts
  BY DEF Priced, Priceable
<1>3. CASE priced = {}
  BY <1>3 DEF AggregateImpact, TotalOf
<1>4. CASE priced # {}
  <2>1. Min(priced) \in priced
    <3>1. \E m \in priced : \A j \in priced : m <= j
      <4> HIDE DEF priced
      <4>1. priced \subseteq Nat
        BY <1>1
      <4> QED
        BY <4>1, <1>4, LeastElement
    <3> HIDE DEF priced
    <3> QED
      BY <3>1 DEF Min
  <2>2. sum \in Int
    <3>1. IsFiniteSet(alike)
      BY <1>1, PartOfARange
    <3>2. \A k \in alike : Impact(ds)[k] \in Int
      BY <1>2 DEF Impact, Amounts
    <3> HIDE DEF alike
    <3> QED
      BY <3>1, <3>2, SumWithout
  <2>3. currency \in DOMAIN Upper
    BY <1>2, <2>1 DEF Amounts
  <2>4. AggregateImpact(ds) = [amount |-> sum, currency |-> currency]
    BY <1>4 DEF AggregateImpact
  <2>5. AggregateImpact(ds) # None
    <3> HIDE DEF sum, currency
    <3>1. AggregateImpact(ds) \in Amounts
      BY <2>2, <2>3, <2>4 DEF Amounts
    <3> QED
      BY <3>1, NoneAssumption
  <2>6. ASSUME NEW k \in priced,
               \A j \in priced : ds[j].monetary_impact.currency = ds[k].monetary_impact.currency
        PROVE  AggregateImpact(ds) = [amount |-> SumFunctionOnSet(Impact(ds), priced),
                                      currency |-> ds[k].monetary_impact.currency]
    <3>1. currency = ds[k].monetary_impact.currency /\ alike = priced
      BY <2>1, <2>6
    <3> HIDE DEF priced, currency, alike
    <3> QED
      BY <2>4, <3>1 DEF sum
  <2> QED
    BY <1>4, <2>5, <2>6 DEF TotalOf
<1> QED
  BY <1>3, <1>4

LEMMA InvoiceTotalType ==
    ASSUME NEW i \in Invoices
    PROVE  InvoiceTotal(i) \in Amounts \cup {None}
<1> DEFINE lines == i.line_items
           own == {k \in DOMAIN lines : lines[k].line_total.currency = i.currency}
           amounts == [k \in own |-> Piece * lines[k].line_total.amount]
<1>1. /\ i.currency \in DOMAIN Upper
      /\ Len(lines) \in Nat /\ DOMAIN lines = 1 .. Len(lines)
      /\ \A k \in DOMAIN lines : lines[k] \in LineItems
  BY LinesAssumption
<1>2. IsFiniteSet(own)
  BY <1>1, PartOfARange
<1>3. \A k \in own : amounts[k] \in Int
  <2>1. \A k \in own : lines[k].line_total.amount \in Int
    BY <1>1 DEF LineItems, Amounts
  <2> HIDE DEF lines, own
  <2> QED
    BY <2>1, ScalesArePositive
<1>4. SumFunctionOnSet(amounts, own) \in Int
  <2> HIDE DEF own, amounts
  <2> QED
    BY <1>2, <1>3, SumWithout
<1>5. \/ InvoiceTotal(i) = None
      \/ InvoiceTotal(i) = [amount |-> SumFunctionOnSet(amounts, own), currency |-> i.currency]
  BY DEF InvoiceTotal
<1> HIDE DEF own, amounts
<1> QED
  BY <1>1, <1>4, <1>5 DEF Amounts

\* What the duplicate check and the rules found has a total.
LEMMA FindingsPriceable ==
    ASSUME NEW r \in Requests, invoice[r] \in Invoices, NEW s \in Seq(Discrepancies)
    PROVE  Priceable(DedupFindings(r)) /\ Priceable(DedupFindings(r) \o s)
<1>1. /\ Len(s) \in Nat /\ DOMAIN s = 1 .. Len(s)
      /\ \A k \in DOMAIN s : s[k].monetary_impact \in Amounts \cup {None}
  <2>1. \A d \in Discrepancies : d.monetary_impact \in Amounts \cup {None}
    BY DEF Discrepancies
  <2>2. \A k \in DOMAIN s : s[k] \in Discrepancies
    OBVIOUS
  <2> QED
    BY <2>1, <2>2
<1>2. CASE original[r] = None
  <2>1. DedupFindings(r) = <<>> /\ DedupFindings(r) \o s = s
    BY <1>2 DEF DedupFindings
  <2>2. Priceable(<<>>) /\ Priceable(s)
    BY <1>1 DEF Priceable
  <2> QED
    BY <2>1, <2>2
<1>3. CASE original[r] # None
  <2> DEFINE d == DuplicateFinding(invoice[r], original[r])
  <2>1. DedupFindings(r) = <<d>>
    BY <1>3 DEF DedupFindings
  <2>2. d.monetary_impact \in Amounts \cup {None}
    BY InvoiceTotalType DEF DuplicateFinding
  <2> HIDE DEF d
  <2>3. Priceable(<<d>>)
    BY <2>2 DEF Priceable
  <2>4. Priceable(<<d>> \o s)
    <3> DEFINE all == {d} \cup Discrepancies
    <3>1. <<d>> \in Seq(all) /\ s \in Seq(all)
      OBVIOUS
    <3>2. <<d>> \o s \in Seq(all)
      BY <3>1
    <3>3. \A x \in all : x.monetary_impact \in Amounts \cup {None}
      BY <2>2 DEF Discrepancies
    <3> HIDE DEF all
    <3> QED
      BY <3>2, <3>3 DEF Priceable
  <2> QED
    BY <2>1, <2>3, <2>4
<1> QED
  BY <1>2, <1>3

\* From the moment a result is built its total is that of its discrepancies.
TotalAt(r) ==
    Evaluated(r) => TotalOf(result[r].total_impact, result[r].discrepancies)

TotalInv == \A r \in Requests : TotalAt(r)

LEMMA TotalStable ==
    ASSUME NEW q \in Requests, TotalAt(q),
           Evaluated(q)' => Evaluated(q) /\ result'[q] = result[q]
    PROVE  TotalAt(q)'
BY DEF TotalAt, TotalOf, Priced, Impact

LEMMA TotalBuilt ==
    ASSUME NEW r \in Requests, NEW id, NEW ds, Priceable(ds), result'[r] = Result(r, id, ds)
    PROVE  TotalAt(r)'
<1>1. result'[r].total_impact = AggregateImpact(ds) /\ result'[r].discrepancies = ds
  BY DEF Result
<1>2. TotalOf(result'[r].total_impact, result'[r].discrepancies)
  BY <1>1, AggregateIsTotal
<1> QED
  BY <1>2 DEF TotalAt, TotalOf, Priced, Impact

LEMMA NextTotal == IInv /\ TotalInv /\ [Next]_vars => TotalInv'
<1> SUFFICES ASSUME IInv, TotalInv, [Next]_vars, NEW q \in Requests PROVE TotalAt(q)'
  BY DEF TotalInv
<1>0. TotalAt(q)
  BY DEF TotalInv
<1> USE DEF IInv, TypeOK, From, local, Evaluated
<1>1. ASSUME NEW r \in Requests, Submit(r) PROVE TotalAt(q)'
  BY <1>0, <1>1, TotalStable DEF Submit
<1>2. ASSUME NEW r \in Requests, DetectDuplicate(r) PROVE TotalAt(q)'
  BY <1>0, <1>2, TotalStable DEF DetectDuplicate
<1>3. ASSUME NEW r \in Requests, TreatAsNew(r) PROVE TotalAt(q)'
  BY <1>0, <1>3, TotalStable DEF TreatAsNew
<1>4. ASSUME NEW r \in Requests, MatchFails(r) PROVE TotalAt(q)'
  BY <1>0, <1>4, TotalStable DEF MatchFails
<1>5. ASSUME NEW r \in Requests, LeaveUnmatched(r) PROVE TotalAt(q)'
  <2>1. CASE q # r
    BY <1>0, <1>5, <2>1, TotalStable DEF LeaveUnmatched
  <2>2. CASE q = r
    <3> DEFINE ds == DedupFindings(r)
    <3>1. result'[r] = Result(r, None, ds) /\ invoice[r] \in Invoices
      BY <1>5 DEF LeaveUnmatched
    <3>2. Priceable(ds)
      <4>1. <<>> \in Seq(Discrepancies)
        OBVIOUS
      <4> QED
        BY <3>1, <4>1, FindingsPriceable
    <3> HIDE DEF ds
    <3> QED
      BY <2>2, <3>1, <3>2, TotalBuilt
  <2> QED
    BY <2>1, <2>2
<1>6. ASSUME NEW r \in Requests, EvaluateMatched(r) PROVE TotalAt(q)'
  <2>1. CASE q # r
    BY <1>0, <1>6, <2>1, TotalStable DEF EvaluateMatched
  <2>2. CASE q = r
    <3> DEFINE found == RuleFindings[invoice[r]][Governing(r)]
               ds == DedupFindings(r) \o found
    <3>1. result'[r] = Result(r, Governing(r).contract_id, ds) /\ invoice[r] \in Invoices
      BY <1>6 DEF EvaluateMatched
    <3>2. found \in Seq(Discrepancies)
      BY <1>6, RuleFindingsAssumption, GoverningType DEF EvaluateMatched
    <3>3. Priceable(ds)
      <4> HIDE DEF found
      <4> QED
        BY <3>1, <3>2, FindingsPriceable
    <3> HIDE DEF ds
    <3> QED
      BY <2>2, <3>1, <3>3, TotalBuilt
  <2> QED
    BY <2>1, <2>2
<1>7. ASSUME NEW r \in Requests, DrawAuditId(r) PROVE TotalAt(q)'
  BY <1>0, <1>7, TotalStable DEF DrawAuditId
<1>8. ASSUME NEW r \in Requests, AuditIdCollides(r) PROVE TotalAt(q)'
  BY <1>0, <1>8, TotalStable DEF AuditIdCollides
<1>9. ASSUME NEW r \in Requests, StoreRecord(r) PROVE TotalAt(q)'
  BY <1>0, <1>9, TotalStable DEF StoreRecord
<1>10. CASE UNCHANGED vars
  BY <1>0, <1>10, TotalStable DEF vars
<1> QED
  BY <1>1, <1>2, <1>3, <1>4, <1>5, <1>6, <1>7, <1>8, <1>9, <1>10 DEF Next, Step, Quiescent

\* The total of a result leaves out no impact in its currency, for any rules
\* whose findings carry money and any lines of the invoice.
THEOREM TotalComplete == Spec => []TotalIsComplete
<1>1. Init => TotalInv
  BY DEF Init, TotalInv, TotalAt, Evaluated
<1>2. TotalInv => TotalIsComplete
  BY DEF TotalInv, TotalAt, TotalOf, TotalIsComplete, Evaluated
<1> QED
  BY <1>1, <1>2, InitIInv, NextIInv, NextTotal, PTL DEF Spec
-----------------------------------------------------------------------------
(* Refinement of the two stateful ports. *)

LEMMA InitRefinesPort == Init => Port!Init
BY DEF Init, Port!Init, DedupPhase

LEMMA NextRefinesPort == IInv /\ [Next]_vars => [Port!Next]_(Port!vars)
<1> SUFFICES ASSUME IInv, [Next]_vars PROVE [Port!Next]_(Port!vars)
  OBVIOUS
<1> USE NoneAssumption DEF From, local, IInv, TypeOK, Port!vars, DedupPhase
<1>1. ASSUME NEW r \in Requests, Submit(r) PROVE Port!Ask(r)
  <2>1. [q \in Requests |-> DedupPhase(q)]'
            = [[q \in Requests |-> DedupPhase(q)] EXCEPT ![r] = "asked"]
    BY <1>1 DEF Submit
  <2> QED
    BY <1>1, <2>1 DEF Submit, Port!Ask
<1>2. ASSUME NEW r \in Requests, DetectDuplicate(r) PROVE Port!CheckAndRegister(r)
  <2>1. [q \in Requests |-> DedupPhase(q)]'
            = [[q \in Requests |-> DedupPhase(q)] EXCEPT ![r] = "answered"]
    BY <1>2 DEF DetectDuplicate
  <2>2. invoice[r] \in Invoices /\ DedupPhase(r) = "asked"
    BY <1>2 DEF DetectDuplicate
  <2> QED
    BY <1>2, <2>1, <2>2 DEF DetectDuplicate, Registered, Port!CheckAndRegister, FingerprintOf
<1>3. ASSUME NEW r \in Requests, TreatAsNew(r) PROVE Port!GiveUp(r)
  <2>1. ~checked[r]
    BY <1>3 DEF TreatAsNew, DedupInv, Asked
  <2>2. [q \in Requests |-> DedupPhase(q)]'
            = [[q \in Requests |-> DedupPhase(q)] EXCEPT ![r] = "failed"]
    BY <1>3, <2>1 DEF TreatAsNew
  <2> QED
    BY <1>3, <2>1, <2>2 DEF TreatAsNew, Port!GiveUp
<1>4. ASSUME NEW r \in Requests,
             \/ MatchFails(r) \/ LeaveUnmatched(r) \/ EvaluateMatched(r)
             \/ DrawAuditId(r) \/ AuditIdCollides(r) \/ StoreRecord(r)
      PROVE  UNCHANGED Port!vars
  <2>1. UNCHANGED <<seen, invoice, original, checked>>
    BY <1>4 DEF MatchFails, LeaveUnmatched, EvaluateMatched, DrawAuditId, AuditIdCollides,
                StoreRecord
  <2>2. \A q \in Requests : DedupPhase(q)' = DedupPhase(q)
    BY <1>4, <2>1 DEF MatchFails, LeaveUnmatched, EvaluateMatched, DrawAuditId,
                      AuditIdCollides, StoreRecord
  <2> QED
    BY <2>1, <2>2
<1>5. CASE UNCHANGED vars
  BY <1>5 DEF vars
<1> QED
  BY <1>1, <1>2, <1>3, <1>4, <1>5 DEF Next, Step, Quiescent, Port!Next

\* The service asks its detector as the port requires: once per request, and
\* what the detector keeps and answers is the port's.
THEOREM RefinesPort == Spec => UsesDetectorOnce
<1>1. IInv /\ [Next]_vars => [Port!Next]_(Port!vars)
  BY NextRefinesPort
<1> QED
  BY <1>1, InitIInv, NextIInv, InitRefinesPort, PTL DEF Spec, UsesDetectorOnce, Port!Spec

Receipt(r) == IF pc[r] = "done" THEN auditId[r] ELSE None

LEMMA InitRefinesLog == Init => Log!Init
BY DEF Init, Log!Init

LEMMA NextRefinesLog == IInv /\ [Next]_vars => [Log!Next]_(Log!vars)
<1> SUFFICES ASSUME IInv, [Next]_vars PROVE [Log!Next]_(Log!vars)
  OBVIOUS
<1> USE NoneAssumption DEF From, local, IInv, TypeOK, Log!vars
<1>1. ASSUME NEW r \in Requests,
             \/ Submit(r) \/ DetectDuplicate(r) \/ TreatAsNew(r) \/ MatchFails(r)
             \/ DrawAuditId(r) \/ AuditIdCollides(r)
      PROVE  UNCHANGED Log!vars
  <2>1. UNCHANGED <<store, result>>
    BY <1>1 DEF Submit, DetectDuplicate, TreatAsNew, MatchFails, DrawAuditId, AuditIdCollides
  <2>2. \A q \in Requests : Receipt(q)' = Receipt(q)
    BY <1>1 DEF Submit, DetectDuplicate, TreatAsNew, MatchFails, DrawAuditId,
                AuditIdCollides, Receipt
  <2> QED
    BY <2>1, <2>2 DEF Receipt
<1>2. ASSUME NEW r \in Requests, LeaveUnmatched(r) \/ EvaluateMatched(r)
      PROVE  Log!Submit(r)
  <2>1. UNCHANGED <<store, auditId>> /\ result' = [result EXCEPT ![r] = result'[r]]
    BY <1>2 DEF LeaveUnmatched, EvaluateMatched
  <2>2. Receipt(r) = None /\ \A q \in Requests : Receipt(q)' = Receipt(q)
    BY <1>2, <2>1 DEF LeaveUnmatched, EvaluateMatched, Receipt
  <2> QED
    BY <2>1, <2>2 DEF Log!Submit, Receipt
<1>3. ASSUME NEW r \in Requests, StoreRecord(r) PROVE Log!Record(r)
  <2>1. /\ auditId[r] \in AuditIds \ DOMAIN store
        /\ UNCHANGED <<result, auditId>>
        /\ store' = [a \in DOMAIN store \cup {auditId[r]} |->
                        IF a = auditId[r] THEN result[r] ELSE store[a]]
    BY <1>3 DEF StoreRecord, Stored, StoreInv
  <2>2. /\ Receipt(r) = None
        /\ [q \in Requests |-> Receipt(q)]'
               = [[q \in Requests |-> Receipt(q)] EXCEPT ![r] = auditId[r]]
    BY <1>3, <2>1 DEF StoreRecord, Receipt
  <2> QED
    BY <2>1, <2>2 DEF Log!Record, Receipt
<1>4. CASE UNCHANGED vars
  BY <1>4 DEF vars
<1> QED
  BY <1>1, <1>2, <1>3, <1>4 DEF Next, Step, Quiescent, Log!Next

\* The audit trail is append-only: every step adds at most the record of the
\* request it serves, under an id that was free.
THEOREM RefinesAuditLog == Spec => ImplementsAuditLog
<1>1. IInv /\ [Next]_vars => [Log!Next]_(Log!vars)
  BY NextRefinesLog
<1> QED
  BY <1>1, InitIInv, NextIInv, InitRefinesLog, PTL DEF Spec, ImplementsAuditLog, Log!Spec
=============================================================================
