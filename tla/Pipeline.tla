-------------------------------- MODULE Pipeline --------------------------------
(***************************************************************************)
(* The service as the API assembles it (api/dependencies.py:63-70): the    *)
(* reconciliation service with the heuristic matcher and the default rules *)
(* in the places of its two ports.                                         *)
(***************************************************************************)
EXTENDS Reconciliation, Matching, Checks

HeuristicMatch ==
    [i \in Invoices |-> [cs \in CandidateLists |->
        IF cs = <<>> THEN None ELSE Match(i, cs)]]

EngineFindings == [i \in Invoices |-> [c \in Contracts |-> Evaluate(i, c)]]

\* What the composition root puts behind the two ports.
ASSUME PortsAssumption == Matcher = HeuristicMatch /\ RuleFindings = EngineFindings

ASSUME VendorsAssumption ==
    \A party \in Invoices \cup Contracts : party.vendor_name \in Vendors

ASSUME CardsAssumption == \A c \in Contracts : c.rate_cards \in Seq(RateCardEntries)

DistinctIds(cs) ==
    \A j, k \in DOMAIN cs : cs[j].contract_id = cs[k].contract_id => j = k

\* A matched invoice is judged by the rules against the contract that won the
\* match, the most similar one and similar enough, although the matcher hands
\* over only its id and the service looks it up again in the list.  It takes
\* contract ids that are unique among the candidates.
JudgedByTheBestMatch ==
    \A r \in Requests :
        LET cs == candidates[r]
            best == cs[Best(invoice[r], cs)]
        IN pc[r] = "done" /\ result[r].contract_id # None /\ DistinctIds(cs) =>
               /\ result[r].contract_id = best.contract_id
               /\ \A k \in DOMAIN cs : Score(invoice[r], cs[k]) <= Score(invoice[r], best)
               /\ Score(invoice[r], best) >= MatchAccept
               /\ result[r].discrepancies = DedupFindings(r) \o Evaluate(invoice[r], best)
=============================================================================
