--------------------------------- MODULE Checks ---------------------------------
(***************************************************************************)
(* The six deterministic rules (rules/checks.py) over the domain models    *)
(* (domain/models.py).  Prices, quantities and discounts are counted in    *)
(* the units of module Currency, a monetary impact in the product of the   *)
(* unit of an amount and that of a quantity.                               *)
(***************************************************************************)
EXTENDS Currency, Sequences, FiniteSets, SequencesExt

CONSTANTS
    ArithmeticTolerance,  \* settings.arithmetic_tolerance, as an amount
    QuantizeLimit         \* quantize raises on a larger result (28 digits)

\* The discount that leaves nothing to pay.
Whole == 100 * Percent

\* What the validated models can hold.
DiscountTiers == [min_quantity : Nat \ {0}, discount_pct : 0 .. Whole]

RateCardEntries ==
    [sku : STRING, unit_rate : Amounts, volume_discounts : SUBSET DiscountTiers]

\* The first entry of the rate card for the sku, or None.
RateFor(contract, sku) ==
    LET cards == contract.rate_cards
        Has(k) == cards[k].sku = sku
    IN IF \E k \in DOMAIN cards : Has(k)
       THEN cards[CHOOSE k \in DOMAIN cards : Has(k) /\ \A j \in 1 .. k - 1 : ~Has(j)]
       ELSE None

\* The best discount the quantity has earned, 0 when it has earned none.
ApplicableDiscount(entry, quantity) ==
    LET earned == {0} \cup {t.discount_pct : t \in
                               {u \in entry.volume_discounts : quantity >= u.min_quantity}}
    IN CHOOSE d \in earned : \A e \in earned : e <= d

IsActiveOn(contract, day) == contract.valid_from <= day /\ day <= contract.valid_to

\* The amount n / d to the nearest whole cent: quantize(Decimal("0.01")).
Quantized(n, d) == Cent * HalfEven(n, d * Cent)

ExpectedTotal(line) == Quantized(line.quantity * line.unit_rate.amount, Piece)

\* Rounded, the discounted rate may be above or below the exact one.
ExpectedUnit(entry, quantity) ==
    Quantized(entry.unit_rate.amount * (Whole - ApplicableDiscount(entry, quantity)), Whole)

Overflows(amount) == amount > QuantizeLimit \/ amount < -QuantizeLimit
-----------------------------------------------------------------------------
Finding(type, line_no, impact, confidence) ==
    [type |-> type, invoice_line_no |-> line_no, monetary_impact |-> impact,
     confidence |-> confidence, cites |-> None]

\* What the rules report, DUPLICATE_INVOICE being the duplicate check's.
FindingTypes == {"CURRENCY_MISMATCH", "ARITHMETIC_ERROR", "RATE_MISMATCH",
                 "MISSED_VOLUME_DISCOUNT", "OUT_OF_TERM", "UNCONTRACTED_ITEM"}

Raised == [raised |-> TRUE, findings |-> <<>>]

Returns(findings) == [raised |-> FALSE, findings |-> findings]

\* The numbers of a finite set in ascending order.
InOrder(numbers) ==
    CHOOSE s \in [1 .. Cardinality(numbers) -> numbers] :
        \A m, n \in DOMAIN s : m < n => s[m] < s[n]

\* A rule that reports lines, each with its finding, in the order of the
\* invoice.  A finding names its line by the number printed on it.
PerLine(report) ==
    LET ks == InOrder(DOMAIN report)
    IN Returns([n \in DOMAIN ks |-> report[ks[n]]])

\* Slip: lines compared with the invoice's currency, not the contract's.
InvoiceCurrencyRule(inv, contract) ==
    LET lines == inv.line_items
        flagged == {k \in DOMAIN lines : lines[k].unit_rate.currency # inv.currency}
    IN PerLine([k \in flagged |-> Finding("CURRENCY_MISMATCH", lines[k].line_no, None, 99)])

CurrencyMismatchRule(inv, contract) ==
    LET lines == inv.line_items
        flagged == {k \in DOMAIN lines : lines[k].unit_rate.currency # contract.currency}
    IN PerLine([k \in flagged |-> Finding("CURRENCY_MISMATCH", lines[k].line_no, None, 99)])

\* A single line that mixes currencies, or one whose product overflows, makes
\* the rule raise: the findings it has collected are lost with it.
ArithmeticRule(inv, contract) ==
    LET lines == inv.line_items
        Mixed(line) == line.unit_rate.currency # line.line_total.currency
        Difference(k) == lines[k].line_total.amount - ExpectedTotal(lines[k])
        flagged == {k \in DOMAIN lines : \/ Difference(k) > ArithmeticTolerance
                                         \/ -Difference(k) > ArithmeticTolerance}
    IN IF \E k \in DOMAIN lines : Mixed(lines[k]) \/ Overflows(ExpectedTotal(lines[k]))
       THEN Raised
       ELSE PerLine([k \in flagged |->
                Finding("ARITHMETIC_ERROR", lines[k].line_no,
                        Money(Piece * Difference(k), lines[k].line_total.currency), 99)])

\* A line the amount-comparing rules can judge: contracted, and billed in the
\* currency of its rate-card entry.
Comparable(line, contract) ==
    LET entry == RateFor(contract, line.sku)
    IN entry # None /\ line.unit_rate.currency = entry.unit_rate.currency

Excess(line, rate) == (line.unit_rate.amount - rate) * line.quantity

\* Slip: a rate equal to the contracted one is reported too.
RateMismatchOrEqualRule(inv, contract) ==
    LET lines == inv.line_items
        Contracted(k) == RateFor(contract, lines[k].sku).unit_rate.amount
        flagged == {k \in DOMAIN lines : /\ Comparable(lines[k], contract)
                                         /\ lines[k].unit_rate.amount >= Contracted(k)}
    IN PerLine([k \in flagged |->
           Finding("RATE_MISMATCH", lines[k].line_no,
                   Money(Excess(lines[k], Contracted(k)),
                         lines[k].unit_rate.currency), 97)])

RateMismatchRule(inv, contract) ==
    LET lines == inv.line_items
        Contracted(k) == RateFor(contract, lines[k].sku).unit_rate.amount
        flagged == {k \in DOMAIN lines : /\ Comparable(lines[k], contract)
                                         /\ lines[k].unit_rate.amount > Contracted(k)}
    IN PerLine([k \in flagged |->
           Finding("RATE_MISMATCH", lines[k].line_no,
                   Money(Excess(lines[k], Contracted(k)),
                         lines[k].unit_rate.currency), 97)])

MissedVolumeDiscountRule(inv, contract) ==
    LET lines == inv.line_items
        Entry(k) == RateFor(contract, lines[k].sku)
        Earned(k) == /\ Comparable(lines[k], contract)
                     /\ ApplicableDiscount(Entry(k), lines[k].quantity) > 0
        Unit(k) == ExpectedUnit(Entry(k), lines[k].quantity)
        flagged == {k \in DOMAIN lines : Earned(k) /\ lines[k].unit_rate.amount > Unit(k)}
    IN IF \E k \in DOMAIN lines : Earned(k) /\ Overflows(Unit(k))
       THEN Raised
       ELSE PerLine([k \in flagged |->
                Finding("MISSED_VOLUME_DISCOUNT", lines[k].line_no,
                        Money(Excess(lines[k], Unit(k)),
                              lines[k].unit_rate.currency), 90)])

OutOfTermRule(inv, contract) ==
    Returns(IF IsActiveOn(contract, inv.invoice_date)
            THEN <<>>
            ELSE <<Finding("OUT_OF_TERM", None, None, 95)>>)

UncontractedItemRule(inv, contract) ==
    LET lines == inv.line_items
        flagged == {k \in DOMAIN lines : RateFor(contract, lines[k].sku) = None}
    IN PerLine([k \in flagged |-> Finding("UNCONTRACTED_ITEM", lines[k].line_no, None, 85)])

DefaultRules == <<"currency_mismatch", "arithmetic_consistency", "rate_mismatch",
                  "missed_volume_discount", "out_of_term", "uncontracted_item">>

\* What one rule does on an invoice and a contract: raise, or return findings.
Outcome(rule, inv, contract) ==
    CASE rule = "currency_mismatch" -> CurrencyMismatchRule(inv, contract)
      [] rule = "arithmetic_consistency" -> ArithmeticRule(inv, contract)
      [] rule = "rate_mismatch" -> RateMismatchRule(inv, contract)
      [] rule = "missed_volume_discount" -> MissedVolumeDiscountRule(inv, contract)
      [] rule = "out_of_term" -> OutOfTermRule(inv, contract)
      [] rule = "uncontracted_item" -> UncontractedItemRule(inv, contract)

\* The findings of the rules that return, in the order of the rules.
Evaluate(inv, contract) ==
    FlattenSeq([n \in DOMAIN DefaultRules |->
                   Outcome(DefaultRules[n], inv, contract).findings])
=============================================================================
