---------------------------- MODULE EvaluationHarness ----------------------------
(***************************************************************************)
(* The evaluation harness (evaluation/harness.py): every case of a suite,  *)
(* in order, through the text extractors, the matcher and the rules, then  *)
(* one report.  It runs the service without a duplicate detector; the      *)
(* audit log it writes to is read by no one and left out.                  *)
(***************************************************************************)
EXTENDS EvaluationCases, Matching, Checks, Metrics

CONSTANTS
    Cases,      \* the labelled cases there are
    Suites      \* the sequences of them that may be run

CaseInvoice(case) == IF case.invoice = None THEN None ELSE RuleBased(case.invoice)
CaseContract(case) == IF case.contract = None THEN None ELSE ContractFrom(case.contract)

IsReadable(case) == None \notin {CaseInvoice(case), CaseContract(case)}

\* What is planted is of a known type, what the extractors return is validated
\* by the models.
ASSUME CasesAssumption ==
    \A case \in Cases :
        /\ case.seeded \subseteq DiscrepancyTypes \X (Int \cup {None})
        /\ IsFiniteSet(case.seeded)
        /\ IsReadable(case) => /\ CaseInvoice(case).line_items \in Seq(LineItems)
                               /\ CaseContract(case).rate_cards \in Seq(RateCardEntries)

ASSUME SuitesAssumption == Suites \subseteq Seq(Cases)

\* The settings leave the errors planted in the built-in cases errors: the
\* total that is 50.00 off is beyond the tolerance, no product overflows.
ASSUME PlantedErrorsAssumption ==
    /\ Upper["INR"] = "INR" /\ Upper["USD"] = "USD" /\ {"INR", "USD"} \subseteq DOMAIN Upper
    /\ ArithmeticTolerance \in Nat /\ ArithmeticTolerance < 5000 * Cent
    /\ QuantizeLimit \in Nat /\ QuantizeLimit >= 1950000 * Cent

\* None, and text that is no number, are nothing that is in the built-in cases
\* and nothing that is made of them.
ASSUME BuiltinAssumption ==
    /\ None \notin Int /\ Junk \notin Int
    /\ \A k \in DOMAIN BuiltinCases :
           LET text == BuiltinCases[k].invoice
               header == text.above
               contract == BuiltinCases[k].contract
           IN /\ None # text /\ None # text.written /\ None # contract
              /\ \A f \in RequiredHeader : header[f] \notin {None, Junk}
              /\ \A n \in DOMAIN text.written.rows : text.written.rows[n] # None
              /\ \A n \in DOMAIN contract.labels : contract.labels[n].value \notin {None, Junk}
              /\ \A n \in DOMAIN contract.rows :
                     contract.rows[n] # None /\ contract.rows[n].volume_discounts # Junk
              /\ None # InvoiceFrom(header["invoice_id"], header["vendor"], header["date"],
                                    header["currency"], text.written.rows)
              /\ None # ContractIn(contract, "INR")

VARIABLES
    cases,      \* the suite
    results,    \* the outcomes of the cases run so far
    report,     \* the report, None before
    raised      \* a case of the suite could not be read

suiteVars == <<cases, results, report, raised>>

SuiteInit ==
    /\ cases \in Suites
    /\ results = <<>>
    /\ report = None
    /\ raised = FALSE

\* What reconcile finds with the case's contract as the only candidate.
FoundIn(case) ==
    IF IsMatched(Match(CaseInvoice(case), <<CaseContract(case)>>))
    THEN Evaluate(CaseInvoice(case), CaseContract(case))
    ELSE <<>>

\* Slip: findings are known by their type alone.
CaseResultByType(case) ==
    LET found == FoundIn(case)
    IN [detected |-> {<<found[n].type, None>> : n \in DOMAIN found},
        seeded |-> {<<key[1], None>> : key \in case.seeded}]

CaseResult(case) ==
    LET found == FoundIn(case)
    IN [detected |-> {<<found[n].type, found[n].invoice_line_no>> : n \in DOMAIN found},
        seeded |-> case.seeded]

CurrentCase == cases[Len(results) + 1]

Running == ~raised /\ Len(results) < Len(cases)

RunCase ==
    /\ Running
    /\ IsReadable(CurrentCase)
    /\ results' = Append(results, CaseResult(CurrentCase))
    /\ UNCHANGED <<cases, report, raised>>

\* Slip: a case that cannot be read is scored as one in which nothing is found.
ScoreZero ==
    /\ Running
    /\ ~IsReadable(CurrentCase)
    /\ results' = Append(results, [detected |-> {}, seeded |-> CurrentCase.seeded])
    /\ UNCHANGED <<cases, report, raised>>

\* The error of the parser or of an extractor leaves run_suite.
RunCaseFails ==
    /\ Running
    /\ ~IsReadable(CurrentCase)
    /\ raised' = TRUE
    /\ UNCHANGED <<cases, results, report>>

Report ==
    /\ Len(results) = Len(cases) /\ report = None
    /\ report' = ComputeMetrics(results, Len(results))
    /\ UNCHANGED <<cases, results, raised>>

Ended == (report # None \/ raised) /\ UNCHANGED suiteVars

SuiteNext == RunCase \/ RunCaseFails \/ Report \/ Ended

SuiteSpec == SuiteInit /\ [][SuiteNext]_suiteVars
-----------------------------------------------------------------------------
SuiteTypeOK ==
    /\ cases \in Suites
    /\ Len(results) <= Len(cases)
    /\ report # None =>
           /\ DOMAIN report.per_type \subseteq DiscrepancyTypes
           /\ \A type \in DOMAIN report.per_type :
                  report.per_type[type] \in
                      [true_positives : Nat, false_positives : Nat, false_negatives : Nat]
    /\ raised \in BOOLEAN

\* The four built-in cases are scored perfectly, and among them they exercise
\* every rule of the engine (cases.py:4-5, tests/test_eval_harness.py:10-15).
BuiltinScoresPerfectly ==
    cases = BuiltinCases =>
        /\ ~raised
        /\ report # None =>
               /\ IsOne(Precision(report)) /\ IsOne(Recall(report))
               /\ DOMAIN report.per_type = FindingTypes

Detected == [k \in DOMAIN results |-> Cardinality(results[k].detected)]
Seeded == [k \in DOMAIN results |-> Cardinality(results[k].seeded)]

\* The counts of the report account for every finding once: hits and false
\* alarms are all that was detected, hits and misses all that was seeded, in
\* whatever cases and types they are (metrics.py:119-146).
CountsConserve ==
    report # None =>
        LET hits == Total(report, "true_positives")
        IN /\ hits + Total(report, "false_positives") = SumFunction(Detected)
           /\ hits + Total(report, "false_negatives") = SumFunction(Seeded)

\* A perfect score is given to exact detection only: the F1 of the report is 1
\* just when every case detects what is planted in it and nothing else, on the
\* right line, also where nothing is planted or found (metrics.py:5-7, 42-52).
PerfectMeansExact ==
    report # None =>
        (IsOne(ReportF1(report)) <=>
            \A k \in DOMAIN cases :
                LET found == FoundIn(cases[k])
                IN cases[k].seeded =
                       {<<found[n].type, found[n].invoice_line_no>> : n \in DOMAIN found})

\* "A broken case should fail loudly, not score 0" (harness.py:97-98): a suite
\* that has one gets no report, and one that has none gets one over all cases.
BrokenSuiteFails ==
    LET broken == \E k \in DOMAIN cases : ~IsReadable(cases[k])
    IN /\ report # None => ~broken /\ report.total_cases = Len(cases)
       /\ raised => broken
=============================================================================
