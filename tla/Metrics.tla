--------------------------------- MODULE Metrics ---------------------------------
(***************************************************************************)
(* Precision, recall and F1 of discrepancy detection                       *)
(* (evaluation/metrics.py).  A finding is known by its key, the pair of    *)
(* its type and its line; an outcome is the set of the keys detected in a  *)
(* case and the set of those seeded in it.  A share is an exact fraction   *)
(* <<numerator, denominator>>, where the code rounds to a float.           *)
(***************************************************************************)
EXTENDS Integers, Sequences, FiniteSets, SequencesExt

OfType(keys, type) == {key \in keys : key[1] = type}

TypesIn(keys) == {key[1] : key \in keys}

\* Case by case, the keys detected and seeded, the detected and not seeded, the
\* seeded and not detected.
Hits(outcomes) == [k \in DOMAIN outcomes |-> outcomes[k].detected \cap outcomes[k].seeded]
Alarms(outcomes) == [k \in DOMAIN outcomes |-> outcomes[k].detected \ outcomes[k].seeded]
Misses(outcomes) == [k \in DOMAIN outcomes |-> outcomes[k].seeded \ outcomes[k].detected]

\* How many keys of the type there are in all the cases together.
Count(keys, type) ==
    SumFunction([k \in DOMAIN keys |-> Cardinality(OfType(keys[k], type))])

\* The three counts of one type over all cases.
TypeMetrics(outcomes, type) ==
    [true_positives |-> Count(Hits(outcomes), type),
     false_positives |-> Count(Alarms(outcomes), type),
     false_negatives |-> Count(Misses(outcomes), type)]

\* Slip: a type that was only ever missed is left out.
TypesDetected(outcomes) == UNION {TypesIn(outcomes[k].detected) : k \in DOMAIN outcomes}

AllTypes(outcomes) ==
    UNION {TypesIn(outcomes[k].detected \cup outcomes[k].seeded) : k \in DOMAIN outcomes}

ComputeMetrics(outcomes, total_cases) ==
    [per_type |-> [type \in AllTypes(outcomes) |-> TypeMetrics(outcomes, type)],
     total_cases |-> total_cases]
-----------------------------------------------------------------------------
\* A share of nothing is all of it.
Share(part, rest) == IF part + rest = 0 THEN <<1, 1>> ELSE <<part, part + rest>>

\* The harmonic mean of two shares, 0 when both are 0.
F1(precision, recall) ==
    IF precision[1] = 0 /\ recall[1] = 0
    THEN <<0, 1>>
    ELSE <<2 * precision[1] * recall[1],
           precision[1] * recall[2] + recall[1] * precision[2]>>

IsOne(share) == share[1] = share[2]

Total(report, count) ==
    SumFunction([type \in DOMAIN report.per_type |-> report.per_type[type][count]])

\* The shares of the report, over all types together.
Precision(report) ==
    Share(Total(report, "true_positives"), Total(report, "false_positives"))

Recall(report) ==
    Share(Total(report, "true_positives"), Total(report, "false_negatives"))

ReportF1(report) == F1(Precision(report), Recall(report))
=============================================================================
