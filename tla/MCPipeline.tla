------------------------------- MODULE MCPipeline -------------------------------
(***************************************************************************)
(* Four invoices: one that is right, the same invoice in another spelling  *)
(* and with an overcharge, one of a vendor that resembles one contract     *)
(* almost enough and the other too little even to be cleared, and one with *)
(* two currencies, none of its lines in its own.  Candidate lists: none,   *)
(* the right contract, the right one behind a weaker one, and a list that  *)
(* only resembles.                                                         *)
(***************************************************************************)
EXTENDS Pipeline, TLC

MCTexts == {"Acme", "ACME ", "Acme Co", "Axle", "INV-1", "inv-1", "INV-2"}

MCFolded == "ACME " :> "Acme" @@ "inv-1" :> "INV-1" @@ [t \in MCTexts |-> t]

MCVendors == {"Acme", "ACME ", "Acme Co", "Axle"}

MCLowered == "ACME " :> "Acme" @@ [v \in MCVendors |-> v]

MCRatio == [p \in MCVendors \X MCVendors |->
               CASE p = <<"Axle", "Acme">> -> 7200
                 [] p = <<"Axle", "Acme Co">> -> 6500
                 [] OTHER -> 8000]

MCUpper == "INR" :> "INR" @@ "USD" :> "USD" @@ "inr" :> "INR"

Line(line_no, sku, quantity, rate, currency) ==
    [line_no |-> line_no, sku |-> sku, quantity |-> quantity, unit_rate |-> Money(rate, currency),
     line_total |-> Money(quantity * rate, currency)]

Printed(vendor, id, currency, lines) ==
    [vendor_name |-> vendor, invoice_id |-> id, currency |-> currency,
     invoice_date |-> 3, line_items |-> lines]

Right == Printed("Acme", "INV-1", "INR", <<Line(1, "A", 1, 100, "INR")>>)
Resent == Printed("ACME ", "inv-1", "INR",
                  <<Line(1, "A", 1, 130, "INR"), Line(2, "A", 10, 100, "INR")>>)
Lookalike == Printed("Axle", "INV-1", "INR", <<Line(1, "A", 1, 100, "INR")>>)
Foreign == Printed("Acme", "INV-2", "inr",
                   <<Line(1, "A", 1, 100, "USD"), Line(1, "X", 1, 100, "INR")>>)

MCInvoices == {Right, Resent, Lookalike, Foreign}
SameTwice == {Right, Resent}

Contract(id, vendor, rate) ==
    [contract_id |-> id, vendor_name |-> vendor, currency |-> "INR",
     valid_from |-> 1, valid_to |-> 5,
     rate_cards |-> <<[sku |-> "A", unit_rate |-> Money(rate, "INR"),
                       volume_discounts |-> {[min_quantity |-> 10, discount_pct |-> 10]}]>>]

Acme == Contract("C1", "Acme", 100)
AcmeCo == Contract("C2", "Acme Co", 90)

MCContracts == {Acme, AcmeCo}

MCCandidateLists == {<<>>, <<Acme>>, <<AcmeCo, Acme>>, <<AcmeCo>>}
FewCandidateLists == {<<>>, <<Acme>>}

\* The tables of the two ports, worked out once.
Tabulated(f) == f @@ <<>>
MCMatcher == Tabulated([i \in Invoices |-> Tabulated(HeuristicMatch[i])])
MCFindings == Tabulated([i \in Invoices |-> Tabulated(EngineFindings[i])])
=============================================================================
