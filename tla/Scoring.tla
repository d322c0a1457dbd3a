-------------------------------- MODULE Scoring --------------------------------
(***************************************************************************)
(* Confidence and routing (confidence/scorer.py).  A discrepancy carries   *)
(* its confidence in hundredths and its monetary impact, or None.          *)
(***************************************************************************)
EXTENDS Values, Sequences, SequencesExt

CONSTANT ReviewThreshold   \* settings.review_confidence_threshold

ASSUME ReviewThresholdAssumption == ReviewThreshold \in 0 .. One

Statuses == {"AUTO_CLEARED", "AUTO_REPORTED", "NEEDS_REVIEW"}

\* The positions of the discrepancies that have an impact.
Priced(discrepancies) ==
    {k \in DOMAIN discrepancies : discrepancies[k].monetary_impact # None}

Impact(discrepancies) ==
    [k \in Priced(discrepancies) |-> discrepancies[k].monetary_impact.amount]

\* Slip: only the first impact is counted.
FirstImpact(discrepancies) ==
    IF Priced(discrepancies) = {}
    THEN None ELSE discrepancies[Min(Priced(discrepancies))].monetary_impact

\* The impacts in the currency of the first one, summed; None without impacts.
AggregateImpact(discrepancies) ==
    LET priced == Priced(discrepancies)
        currency == discrepancies[Min(priced)].monetary_impact.currency
        alike == {k \in priced : discrepancies[k].monetary_impact.currency = currency}
    IN IF priced = {}
       THEN None
       ELSE [amount |-> SumFunctionOnSet(Impact(discrepancies), alike),
             currency |-> currency]

\* The lowest confidence among the discrepancies.
Weakest(discrepancies) ==
    CHOOSE c \in {discrepancies[k].confidence : k \in DOMAIN discrepancies} :
        \A k \in DOMAIN discrepancies : c <= discrepancies[k].confidence

ResultConfidence(score, discrepancies) ==
    IF discrepancies = <<>>
    THEN score
    ELSE HalfEven(score * Weakest(discrepancies), 100)

\* Slip: an empty list of findings clears whatever the score.
RouteEmptyFirst(score, discrepancies) ==
    IF discrepancies = <<>>
    THEN "AUTO_CLEARED"
    ELSE IF ResultConfidence(score, discrepancies) < ReviewThreshold
         THEN "NEEDS_REVIEW" ELSE "AUTO_REPORTED"

Route(score, discrepancies) ==
    IF ResultConfidence(score, discrepancies) < ReviewThreshold
    THEN "NEEDS_REVIEW"
    ELSE IF discrepancies = <<>> THEN "AUTO_CLEARED" ELSE "AUTO_REPORTED"
=============================================================================
