----------------------------- MODULE EvaluationCases -----------------------------
(***************************************************************************)
(* The built-in cases of the evaluation (evaluation/cases.py): an invoice, *)
(* the contract it is judged by, and the keys of the errors planted in it. *)
(* A text is given as the extractors see it (module Extraction); a day is  *)
(* its eight digits, quantities are whole and prices whole cents.          *)
(***************************************************************************)
EXTENDS Extraction

InvoiceText(id, vendor, day, currency, rows) ==
    [above |-> [invoice_id |-> id, vendor |-> vendor, date |-> day, currency |-> currency],
     written |-> [columns |-> RequiredColumns, rows |-> rows]]

Row(line, sku, quantity, unit_rate, line_total) ==
    [line |-> line, sku |-> sku, quantity |-> quantity * Piece,
     unit_rate |-> unit_rate * Cent, line_total |-> line_total * Cent]

\* Every built-in contract is in rupees, for the year 2026, with one rate.
ContractText(id, vendor, sku, unit_rate, tiers) ==
    [labels |-> <<[key |-> "contract-id", value |-> id], [key |-> "vendor", value |-> vendor],
                  [key |-> "valid-from", value |-> 20260101],
                  [key |-> "valid-to", value |-> 20261231], [key |-> "currency", value |-> "INR"]>>,
     columns |-> ContractColumns,
     rows |-> <<[sku |-> sku, unit_rate |-> unit_rate * Cent, volume_discounts |-> tiers]>>]

TenPercentFrom100 == {[min_quantity |-> 100 * Piece, discount_pct |-> 10 * Percent]}

Overbilling ==
    [invoice |-> InvoiceText("INV-900", "Acme Supplies Pvt Ltd", 20260601, "INR",
                     <<Row(1, "WIDGET-A", 150, 13000, 1950000), Row(2, "GADGET-Z", 5, 5000, 25000)>>),
     contract |-> ContractText("C-001", "Acme Supplies Pvt Ltd", "WIDGET-A", 10000,
                               TenPercentFrom100),
     seeded |-> {<<"RATE_MISMATCH", 1>>, <<"MISSED_VOLUME_DISCOUNT", 1>>,
                 <<"UNCONTRACTED_ITEM", 2>>}]

ArithmeticAndTerm ==
    [invoice |-> InvoiceText("INV-901", "Beta Traders", 20250601, "INR",
                             <<Row(1, "BOLT-1", 2, 10000, 25000)>>),
     contract |-> ContractText("C-002", "Beta Traders", "BOLT-1", 10000, {}),
     seeded |-> {<<"ARITHMETIC_ERROR", 1>>, <<"OUT_OF_TERM", None>>}]

CurrencyMismatch ==
    [invoice |-> InvoiceText("INV-902", "Gamma Corp", 20260301, "USD",
                             <<Row(1, "PART-X", 1, 10000, 10000)>>),
     contract |-> ContractText("C-003", "Gamma Corp", "PART-X", 10000, {}),
     seeded |-> {<<"CURRENCY_MISMATCH", 1>>}]

Clean ==
    [invoice |-> InvoiceText("INV-903", "Delta Ltd", 20260501, "INR",
                             <<Row(1, "NUT-9", 10, 2000, 20000)>>),
     contract |-> ContractText("C-004", "Delta Ltd", "NUT-9", 2000, TenPercentFrom100),
     seeded |-> {}]

BuiltinCases == <<Overbilling, ArithmeticAndTerm, CurrencyMismatch, Clean>>
=============================================================================
