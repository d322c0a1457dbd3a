----------------------------- MODULE Reconciliation -----------------------------
(***************************************************************************)
(* The reconciliation service (services/reconciliation.py) serving the     *)
(* threads of the API's pool at once.  Each request runs                   *)
(*    detect duplicate -> match -> rules -> route -> audit record          *)
(* and the requests share the duplicate detector and the audit log.  The   *)
(* matcher and the rules engine are ports: functions of their arguments.   *)
(***************************************************************************)
EXTENDS InvoiceIdentity, Currency, Scoring

CONSTANTS
    Requests,        \* requests, each one call of reconcile
    CandidateLists,  \* the lists of contracts a request may carry
    Contracts,       \* the contracts in them
    Matcher,         \* invoice, list -> MatchResult, None when match raises
    RuleFindings,    \* invoice, contract -> what the rules engine finds
    AuditIds         \* the values uuid4 may draw

ASSUME CandidatesAssumption == CandidateLists \subseteq Seq(Contracts)

\* The matcher's contract is one of the candidates it was given.
ASSUME MatcherAssumption ==
    \A i \in Invoices : \A cs \in CandidateLists :
        \/ Matcher[i][cs] = None
        \/ /\ Matcher[i][cs].score \in 0 .. One
           /\ \/ Matcher[i][cs].contract_id = None
              \/ \E k \in DOMAIN cs : cs[k].contract_id = Matcher[i][cs].contract_id

\* What a rule reports (domain/models.py:210-236).
Discrepancies ==
    [type : DiscrepancyTypes,
     invoice_line_no : Nat \cup {None},
     monetary_impact : Amounts \cup {None},
     confidence : 0 .. 100,
     cites : {None}]

ASSUME RuleFindingsAssumption ==
    \A i \in Invoices : \A c \in Contracts : RuleFindings[i][c] \in Seq(Discrepancies)

\* What the validated model of an invoice holds (domain/models.py:142-184).
ASSUME LinesAssumption ==
    \A i \in Invoices : i.currency \in DOMAIN Upper /\ i.line_items \in Seq(LineItems)

ASSUME NoneAssumption ==
    /\ None \notin Texts /\ None \notin Requests /\ None \notin Invoices
    /\ None \notin AuditIds /\ None \notin Amounts

VARIABLES
    detector,     \* the detector configured: "absent", "sound" or "failing"
    seen,         \* its record: fingerprint -> invoice_id, None when absent
    store,        \* the audit log: a dictionary from audit ids to results
    pc,           \* request -> where it is in reconcile
    invoice,      \* request -> its arguments
    candidates,
    checked,      \* request -> the duplicate check was made and succeeded
    original,     \* request -> the id the check returned, or None
    result,       \* request -> the result it is recording or has returned
    auditId       \* request -> the id drawn for its record

local == <<invoice, candidates, checked, original, result, auditId>>
vars == <<detector, seen, store, pc, local>>

Locations == {"idle", "detect", "match", "record", "store", "done", "failed"}

Init ==
    /\ detector \in {"absent", "sound", "failing"}
    /\ seen = [f \in Fingerprints |-> None]
    /\ store = [a \in {} |-> None]
    /\ pc = [r \in Requests |-> "idle"]
    /\ invoice = [r \in Requests |-> None]
    /\ candidates = [r \in Requests |-> <<>>]
    /\ checked = [r \in Requests |-> FALSE]
    /\ original = [r \in Requests |-> None]
    /\ result = [r \in Requests |-> None]
    /\ auditId = [r \in Requests |-> None]

From(r, here, there) == pc[r] = here /\ pc' = [pc EXCEPT ![r] = there]

FingerprintOf(r) == Fingerprint(invoice[r])

\* The line totals in the invoice's own currency, in the unit of an impact.
InvoiceTotal(inv) ==
    LET lines == inv.line_items
        own == {k \in DOMAIN lines : lines[k].line_total.currency = inv.currency}
    IN IF own = {}
       THEN None
       ELSE [amount |-> SumFunctionOnSet([k \in own |-> Piece * lines[k].line_total.amount], own),
             currency |-> inv.currency]

DuplicateFinding(inv, first) ==
    [type |-> "DUPLICATE_INVOICE", invoice_line_no |-> None,
     monetary_impact |-> InvoiceTotal(inv), confidence |-> 100, cites |-> first]

DedupFindings(r) ==
    IF original[r] = None THEN <<>> ELSE <<DuplicateFinding(invoice[r], original[r])>>

Submit(r) ==
    /\ From(r, "idle", "detect")
    /\ \E i \in Invoices : invoice' = [invoice EXCEPT ![r] = i]
    /\ \E cs \in CandidateLists : candidates' = [candidates EXCEPT ![r] = cs]
    /\ UNCHANGED <<detector, seen, store, checked, original, result, auditId>>

\* Slips: a duplicate takes the place of its original; nothing is registered.
RegisteredLatest(r) == [seen EXCEPT ![FingerprintOf(r)] = invoice[r].invoice_id]
RegisteredNever(r) == seen

Registered(r) ==
    IF seen[FingerprintOf(r)] = None
    THEN [seen EXCEPT ![FingerprintOf(r)] = invoice[r].invoice_id]
    ELSE seen

\* Slip: the invoice is registered before it is looked up.
RegisterThenDetect(r) ==
    /\ From(r, "detect", "match")
    /\ detector # "absent"
    /\ checked' = [checked EXCEPT ![r] = TRUE]
    /\ original' = [original EXCEPT ![r] = Registered(r)[FingerprintOf(r)]]
    /\ seen' = Registered(r)
    /\ UNCHANGED <<detector, store, invoice, candidates, result, auditId>>

\* check_and_register returns: one atomic step of the detector.
DetectDuplicate(r) ==
    /\ From(r, "detect", "match")
    /\ detector # "absent"
    /\ checked' = [checked EXCEPT ![r] = TRUE]
    /\ original' = [original EXCEPT ![r] = seen[FingerprintOf(r)]]
    /\ seen' = Registered(r)
    /\ UNCHANGED <<detector, store, invoice, candidates, result, auditId>>

\* No detector, or one that raises DeduplicationError: treated as new.
TreatAsNew(r) ==
    /\ detector # "sound"
    /\ From(r, "detect", "match")
    /\ UNCHANGED <<detector, seen, store, local>>

MatchOf(r) == Matcher[invoice[r]][candidates[r]]

\* Slip: a request whose match failed starts over.
MatchRetries(r) ==
    /\ From(r, "match", "detect")
    /\ MatchOf(r) = None
    /\ UNCHANGED <<detector, seen, store, local>>

\* The matcher raises: ReconciliationError, after the invoice was registered.
MatchFails(r) ==
    /\ From(r, "match", "failed")
    /\ MatchOf(r) = None
    /\ UNCHANGED <<detector, seen, store, local>>

Result(r, contract_id, discrepancies) ==
    [invoice_id |-> invoice[r].invoice_id,
     contract_id |-> contract_id,
     match_score |-> MatchOf(r).score,
     discrepancies |-> discrepancies,
     review_status |-> Route(MatchOf(r).score, discrepancies),
     total_impact |-> AggregateImpact(discrepancies)]

LeaveUnmatched(r) ==
    /\ From(r, "match", "record")
    /\ MatchOf(r) # None
    /\ MatchOf(r).contract_id = None
    /\ result' = [result EXCEPT ![r] = Result(r, None, DedupFindings(r))]
    /\ UNCHANGED <<detector, seen, store, invoice, candidates, checked, original, auditId>>

\* Slip: the first candidate is taken.
GoverningFirst(r) == candidates[r][1]

\* The first candidate that has the id the matcher returned.
Governing(r) ==
    LET cs == candidates[r]
        HasId(k) == cs[k].contract_id = MatchOf(r).contract_id
    IN cs[CHOOSE k \in DOMAIN cs : HasId(k) /\ \A j \in 1 .. k - 1 : ~HasId(j)]

EvaluateMatched(r) ==
    LET contract == Governing(r)
        discrepancies == DedupFindings(r) \o RuleFindings[invoice[r]][contract]
    IN
    /\ From(r, "match", "record")
    /\ MatchOf(r) # None
    /\ MatchOf(r).contract_id # None
    /\ result' = [result EXCEPT ![r] = Result(r, contract.contract_id, discrepancies)]
    /\ UNCHANGED <<detector, seen, store, invoice, candidates, checked, original, auditId>>

\* uuid4 does not give two requests that are writing at once the same id; it
\* may, against all odds, give one that is already in the store.
Drawn(r) == AuditIds \ {auditId[q] : q \in {p \in Requests : pc[p] = "store"}}

\* Slip: the id drawn is not looked up in the store.
AnyDrawn(r) == Drawn(r)

FreeDrawn(r) == Drawn(r) \ DOMAIN store

DrawAuditId(r) ==
    /\ From(r, "record", "store")
    /\ \E a \in FreeDrawn(r) : auditId' = [auditId EXCEPT ![r] = a]
    /\ UNCHANGED <<detector, seen, store, invoice, candidates, checked, original, result>>

\* AuditError, turned into a ReconciliationError.
AuditIdCollides(r) ==
    /\ From(r, "record", "failed")
    /\ Drawn(r) \cap DOMAIN store # {}
    /\ UNCHANGED <<detector, seen, store, local>>

Stored(r) ==
    [a \in DOMAIN store \cup {auditId[r]} |-> IF a = auditId[r] THEN result[r] ELSE store[a]]

\* The stored result has no audit id; the copy returned to the caller has it.
StoreRecord(r) ==
    /\ From(r, "store", "done")
    /\ store' = Stored(r)
    /\ UNCHANGED <<detector, seen, local>>

Step(r) ==
    \/ DetectDuplicate(r) \/ TreatAsNew(r)
    \/ MatchFails(r) \/ LeaveUnmatched(r) \/ EvaluateMatched(r)
    \/ DrawAuditId(r) \/ AuditIdCollides(r) \/ StoreRecord(r)

Ended(r) == pc[r] \in {"done", "failed"}

\* Every request was answered: nothing is left to do.
Quiescent == (\A r \in Requests : Ended(r)) /\ UNCHANGED vars

Next == (\E r \in Requests : Submit(r) \/ Step(r)) \/ Quiescent

\* A thread that serves a request keeps running.
Fairness == \A r \in Requests : WF_vars(Step(r))

Spec == Init /\ [][Next]_vars

FairSpec == Spec /\ Fairness
-----------------------------------------------------------------------------
Evaluated(r) == pc[r] \in {"record", "store", "done"}

TypeOK ==
    /\ detector \in {"absent", "sound", "failing"}
    /\ seen \in [Fingerprints -> Texts \cup {None}]
    /\ DOMAIN store \subseteq AuditIds
    /\ pc \in [Requests -> Locations]
    /\ invoice \in [Requests -> Invoices \cup {None}]
    /\ candidates \in [Requests -> CandidateLists \cup {<<>>}]
    /\ checked \in [Requests -> BOOLEAN]
    /\ original \in [Requests -> Texts \cup {None}]
    /\ auditId \in [Requests -> AuditIds \cup {None}]
    /\ DOMAIN result = Requests
    /\ \A r \in Requests :
           /\ pc[r] # "idle" => invoice[r] \in Invoices /\ candidates[r] \in CandidateLists
           /\ Evaluated(r) => result[r].review_status \in Statuses

SameInvoice(q, r) == FingerprintOf(q) = FingerprintOf(r)

\* A flagged duplicate cites the occurrence that came first: another request
\* with the same invoice, itself told that the invoice is new, and by the id
\* printed on that one (services/reconciliation.py:170-193).
FlaggedCitesFirst ==
    \A r \in Requests : original[r] # None =>
        \E q \in Requests \ {r} :
            /\ checked[q] /\ SameInvoice(q, r)
            /\ original[q] = None
            /\ original[r] = invoice[q].invoice_id

\* The point of the detector: with one that works, no invoice is cleared for
\* payment twice, whatever the contracts and however the requests interleave.
NeverClearedTwice ==
    detector = "sound" => \A q, r \in Requests :
        /\ pc[q] = "done" /\ pc[r] = "done" /\ SameInvoice(q, r)
        /\ result[q].review_status = "AUTO_CLEARED"
        /\ result[r].review_status = "AUTO_CLEARED"
        => q = r

\* The audit trail is exact: every answer is in the log under the id it
\* carries, no two answers share an id, and nothing else is in the log, not
\* even from requests that failed.
AuditTrailExact ==
    /\ \A r \in Requests : pc[r] = "done" =>
           auditId[r] \in DOMAIN store /\ store[auditId[r]] = result[r]
    /\ \A q, r \in Requests :
           pc[q] = "done" /\ pc[r] = "done" /\ auditId[q] = auditId[r] => q = r
    /\ \A a \in DOMAIN store :
           \E r \in Requests : pc[r] = "done" /\ auditId[r] = a

\* An invoice is cleared automatically only if nothing was found: neither by
\* the rules on its contract nor by the duplicate check.  A failing duplicate
\* store never hides what the rules found (services/reconciliation.py:156-158).
ClearedOnlyWhenClean ==
    \A r \in Requests :
        pc[r] = "done" /\ result[r].review_status = "AUTO_CLEARED" =>
            /\ original[r] = None
            /\ MatchOf(r).score >= ReviewThreshold
            /\ result[r].contract_id # None =>
                   RuleFindings[invoice[r]][Governing(r)] = <<>>

\* When the impacts of a result share a currency, its total is their sum; a
\* result has no total exactly when no discrepancy has an impact.
TotalIsComplete ==
    \A r \in Requests : pc[r] = "done" =>
        LET ds == result[r].discrepancies
            priced == Priced(ds)
            total == result[r].total_impact
            OneCurrency(c) == \A k \in priced : ds[k].monetary_impact.currency = c
        IN /\ total = None <=> priced = {}
           /\ \A k \in priced : OneCurrency(ds[k].monetary_impact.currency) =>
                  total = [amount |-> SumFunctionOnSet(Impact(ds), priced),
                           currency |-> ds[k].monetary_impact.currency]
-----------------------------------------------------------------------------
DedupPhase(r) ==
    CASE pc[r] = "idle" -> "idle"
      [] pc[r] = "detect" -> "asked"
      [] OTHER -> IF checked[r] THEN "answered" ELSE "failed"

Port == INSTANCE DuplicateDetection WITH
    Identities <- Fingerprints,
    Identity <- [i \in Invoices |-> Fingerprint(i)],
    PrintedId <- [i \in Invoices |-> i.invoice_id],
    known <- seen,
    phase <- [r \in Requests |-> DedupPhase(r)],
    answer <- original

\* The service calls the detector as the port asks: once per request, before
\* anything else, and uses the answer it got.
UsesDetectorOnce == Port!Spec

Log == INSTANCE AuditLog WITH
    Writers <- Requests,
    submission <- result,
    records <- store,
    receipt <- [r \in Requests |-> IF pc[r] = "done" THEN auditId[r] ELSE None]

\* The audit trail is append-only: one new record per answer, none changed or
\* removed (ports/audit.py:17).
ImplementsAuditLog == Log!Spec
-----------------------------------------------------------------------------
\* "No governing contract - record and route to review, do not invent one"
\* (services/reconciliation.py:114).
UnmatchedGoesToReview ==
    \A r \in Requests : pc[r] = "done" /\ result[r].contract_id = None =>
        result[r].review_status = "NEEDS_REVIEW"

\* "Previously recorded invoice: ..." and "already recorded as ..."
\* (services/reconciliation.py:187-189): once nothing is in progress any more,
\* the original a duplicate cites has a record in the audit log.
CitedOriginalIsRecorded ==
    (\A r \in Requests : pc[r] = "idle" \/ Ended(r)) =>
        \A r \in Requests : pc[r] = "done" /\ original[r] # None =>
            \E a \in DOMAIN store : store[a].invoice_id = original[r]
=============================================================================
