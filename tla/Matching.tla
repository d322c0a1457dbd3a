-------------------------------- MODULE Matching --------------------------------
(***************************************************************************)
(* Which contract governs an invoice (ports/matching.py): the first        *)
(* candidate whose vendor name is most similar to the invoice's, provided  *)
(* it reaches the acceptance threshold.                                    *)
(***************************************************************************)
EXTENDS Values, Sequences

CONSTANTS
    Vendors,      \* the vendor names printed on invoices and contracts
    Lowered,      \* vendor -> the name trimmed and lower-cased
    Ratio,        \* <<vendor, vendor>> -> the string library's similarity
    MatchAccept   \* settings.match_accept_threshold

ASSUME LoweredAssumption == DOMAIN Lowered = Vendors
ASSUME RatioAssumption == Ratio \in [Vendors \X Vendors -> 0 .. One]
ASSUME MatchAcceptAssumption == MatchAccept \in 0 .. One

Similarity(a, b) == IF Lowered[a] = Lowered[b] THEN One ELSE Ratio[<<a, b>>]

Score(inv, contract) == Similarity(inv.vendor_name, contract.vendor_name)

\* The position of the first candidate no other candidate outscores.
Best(inv, cands) ==
    CHOOSE k \in DOMAIN cands :
        /\ \A j \in DOMAIN cands :
               Score(inv, cands[j]) <= Score(inv, cands[k])
        /\ \A j \in 1 .. k - 1 :
               Score(inv, cands[j]) < Score(inv, cands[k])

Unmatched(score) == [contract_id |-> None, score |-> score, method |-> "UNMATCHED"]

Matched(contract, score) ==
    [contract_id |-> contract.contract_id, score |-> score,
     method |-> IF score = One THEN "EXACT_VENDOR" ELSE "FUZZY_VENDOR"]

\* The match of an invoice with a non-empty list of candidates.
Match(inv, cands) ==
    LET best == cands[Best(inv, cands)]
        score == Score(inv, best)
    IN IF score = 0 \/ score < MatchAccept
       THEN Unmatched(score)
       ELSE Matched(best, score)

IsMatched(match) == match.contract_id # None
=============================================================================
