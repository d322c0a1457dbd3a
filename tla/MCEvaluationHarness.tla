--------------------------- MODULE MCEvaluationHarness ---------------------------
(***************************************************************************)
(* Every suite of up to three cases out of nine, and the built-in one.     *)
(* Besides the built-in cases: an error that no rule finds, an error       *)
(* planted on another line than the one it is on, one that is not said to  *)
(* be planted, an invoice whose vendor is not the contract's, one without  *)
(* a table.                                                                *)
(***************************************************************************)
EXTENDS EvaluationHarness, TLC

MCUpper == "INR" :> "INR" @@ "USD" :> "USD"

MCVendors == {"Acme Supplies Pvt Ltd", "Beta Traders", "Gamma Corp", "Delta Ltd"}
MCLowered == [v \in MCVendors |-> v]
MCRatio == [p \in MCVendors \X MCVendors |-> 3000]

Unfound == [Clean EXCEPT !.seeded = {<<"DUPLICATE_INVOICE", None>>}]

OnTheWrongLine == [Overbilling EXCEPT !.seeded =
    {<<"RATE_MISMATCH", 2>>, <<"MISSED_VOLUME_DISCOUNT", 1>>, <<"UNCONTRACTED_ITEM", 2>>}]

Unlabelled == [CurrencyMismatch EXCEPT !.seeded = {}]

NotItsContract == [ArithmeticAndTerm EXCEPT !.contract = Clean.contract]

WithoutTable == [Clean EXCEPT !.invoice.written = None]

MCCases == {Overbilling, ArithmeticAndTerm, CurrencyMismatch, Clean,
            Unfound, OnTheWrongLine, Unlabelled, NotItsContract, WithoutTable}

MCSuites == UNION {[1 .. n -> MCCases] : n \in 0 .. 3} \cup {BuiltinCases}

MCCurrencyOrder == <<"INR", "USD">>
=============================================================================
