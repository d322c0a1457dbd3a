----------------------------- MODULE MCRulesEngine -----------------------------
(***************************************************************************)
(* Invoices of up to two lines out of seventeen against seven contracts,   *)
(* on a day within and a day after their term, two lines with numbers of   *)
(* their own or with the same.  Amounts are in tenths of a cent,           *)
(* quantities in tenths, discounts in halves of a percent.  The lines:     *)
(* right ones, with and without a discount; a discount missed, and missed  *)
(* on top of an overcharge; totals off by the tolerance and by more, after *)
(* rounding a half; rates of less than a cent's precision, where the       *)
(* discounted rate is rounded up above the list rate, or down; another     *)
(* currency, two currencies on one line; an item that is not contracted;   *)
(* an amount too large to quantize.                                        *)
(***************************************************************************)
EXTENDS RulesEngine, TLC

MCUpper == "INR" :> "INR" @@ "USD" :> "USD" @@ "inr" :> "INR"

Line(sku, quantity, rate, currency, total) ==
    [line_no |-> 1, sku |-> sku, quantity |-> quantity, unit_rate |-> Money(rate, currency),
     line_total |-> Money(total, currency)]

MixedLine ==
    [line_no |-> 1, sku |-> "A", quantity |-> 10, unit_rate |-> Money(1000, "INR"),
     line_total |-> Money(1000, "USD")]

MCLines == {Line("A", 10, 1000, "INR", 1000), Line("A", 100, 900, "INR", 9000),
            Line("A", 100, 1000, "INR", 10000), Line("A", 100, 1100, "INR", 11000),
            Line("A", 200, 800, "INR", 16000), Line("A", 10, 1200, "INR", 1200),
            Line("A", 100, -95, "INR", -950), Line("A", 10, 13, "USD", 10),
            Line("B", 15, 3330, "INR", 4990), Line("B", 15, 3330, "INR", 4960),
            Line("C", 10, 140, "INR", 140), Line("C", 10, 130, "INR", 130),
            Line("D", 10, 132, "INR", 130), Line("D", 10, 130, "INR", 130),
            Line("X", 10, 500, "INR", 500), Line("X", 10, 400000, "INR", 400000),
            MixedLine}

Numbered(lines, nos) == [k \in DOMAIN lines |-> [lines[k] EXCEPT !.line_no = nos[k]]]

Invoice(lines, day) ==
    [line_items |-> lines, currency |-> "INR", invoice_date |-> day]

MCInvoices ==
    {Invoice(Numbered(lines, nos), day) :
         lines \in UNION {[1 .. n -> MCLines] : n \in 0 .. 2},
         nos \in {<<2, 1>>, <<7, 7>>}, day \in {5, 6}}

Entry(sku, rate, currency, tiers) ==
    [sku |-> sku, unit_rate |-> Money(rate, currency), volume_discounts |-> tiers]

Tier(quantity, percents) ==
    [min_quantity |-> quantity, discount_pct |-> percents * Percent]

Tiers == {Tier(100, 10), Tier(200, 25)}

Contract(currency, cards) ==
    [currency |-> currency, rate_cards |-> cards, valid_from |-> 1, valid_to |-> 5]

\* B is 12.5 % off.
InrCard == <<Entry("A", 1000, "INR", Tiers),
             Entry("B", 3330, "INR", {[min_quantity |-> 15, discount_pct |-> 25]}),
             Entry("C", 129, "INR", {Tier(10, 1)}), Entry("D", 134, "INR", {Tier(10, 1)}),
             Entry("A", 2000, "INR", {})>>

Standard == Contract("INR", InrCard)
LowerCase == Contract("inr", InrCard)
ForeignEntry == Contract("INR", <<Entry("A", 10, "USD", Tiers)>>)

MCContracts == {Standard, LowerCase, ForeignEntry, Contract("INR", <<>>),
                Contract("USD", <<Entry("A", 10, "USD", {})>>),
                Contract("INR", <<Entry("A", 400000, "INR", Tiers)>>),
                Contract("INR", <<Entry("A", -100, "INR", Tiers)>>)}

LowerCaseOnly == {LowerCase}
=============================================================================
