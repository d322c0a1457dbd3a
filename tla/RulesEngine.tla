------------------------------- MODULE RulesEngine -------------------------------
(***************************************************************************)
(* One evaluation by the rules engine (rules/engine.py): the rules in      *)
(* their order, a rule that raises skipped with everything it had found,   *)
(* the findings of the others collected.                                   *)
(***************************************************************************)
EXTENDS Checks

CONSTANTS
    Invoices,
    Contracts

ASSUME InvoicesAssumption == \A i \in Invoices : i.line_items \in Seq(LineItems)

ASSUME ContractsAssumption == \A c \in Contracts : c.rate_cards \in Seq(RateCardEntries)

ASSUME ToleranceAssumption == ArithmeticTolerance \in Nat

ASSUME NoneAssumption == None \notin Nat /\ None \notin RateCardEntries

VARIABLES
    invoice,      \* the arguments of evaluate
    contract,
    turn,         \* index of the rule the loop runs next
    skipped,      \* indices of the rules that raised
    findings,     \* the list returned
    finished      \* evaluate has returned

vars == <<invoice, contract, turn, skipped, findings, finished>>

Init ==
    /\ invoice \in Invoices
    /\ contract \in Contracts
    /\ turn = 1
    /\ skipped = {}
    /\ findings = <<>>
    /\ finished = FALSE

Current == Outcome(DefaultRules[turn], invoice, contract)

RuleReturns ==
    /\ turn <= Len(DefaultRules)
    /\ ~Current.raised
    /\ findings' = findings \o Current.findings
    /\ turn' = turn + 1
    /\ UNCHANGED <<invoice, contract, skipped, finished>>

\* Slip: a rule that raises ends the evaluation.
RuleRaisesAndAborts ==
    /\ turn <= Len(DefaultRules)
    /\ Current.raised
    /\ skipped' = skipped \cup {turn}
    /\ turn' = Len(DefaultRules) + 1
    /\ UNCHANGED <<invoice, contract, findings, finished>>

\* Slip: a rule that raises is run again.
RuleRaisesAgain ==
    /\ turn <= Len(DefaultRules)
    /\ Current.raised
    /\ skipped' = skipped \cup {turn}
    /\ UNCHANGED <<invoice, contract, turn, findings, finished>>

RuleRaises ==
    /\ turn <= Len(DefaultRules)
    /\ Current.raised
    /\ skipped' = skipped \cup {turn}
    /\ turn' = turn + 1
    /\ UNCHANGED <<invoice, contract, findings, finished>>

Return ==
    /\ turn > Len(DefaultRules)
    /\ ~finished
    /\ finished' = TRUE
    /\ UNCHANGED <<invoice, contract, turn, skipped, findings>>

Next == RuleReturns \/ RuleRaises \/ Return

Spec == Init /\ [][Next]_vars

FairSpec == Spec /\ WF_vars(Next)
-----------------------------------------------------------------------------
TypeOK ==
    /\ invoice \in Invoices
    /\ contract \in Contracts
    /\ turn \in 1 .. Len(DefaultRules) + 1
    /\ skipped \subseteq DOMAIN DefaultRules
    /\ \A n \in DOMAIN findings :
           /\ findings[n].type \in FindingTypes
           /\ findings[n].confidence \in 0 .. 100
    /\ finished \in BOOLEAN

Lines == DOMAIN invoice.line_items

\* The findings of these types on a line of this number.
FoundOn(no, types) ==
    {n \in DOMAIN findings : /\ findings[n].type \in types
                             /\ findings[n].invoice_line_no = no}

\* A rule that raises costs only its own findings: the list returned is the
\* one of the rules that did not raise, complete and in rule order
\* (engine.py:6-8 and 53-56).
FaultIsolation == finished => findings = Evaluate(invoice, contract)

ListRate(line) == RateFor(contract, line.sku).unit_rate.amount

DiscountOf(line) == ApplicableDiscount(RateFor(contract, line.sku), line.quantity)

\* Whole times the rate of the contract with the discount taken off, unrounded.
DiscountedRate(line) == ListRate(line) * (Whole - DiscountOf(line))

\* The rate is at most the list rate, and above the discounted one by no more
\* than the half cent lost in rounding that.
RateIsRight(line) ==
    /\ line.unit_rate.amount <= ListRate(line)
    /\ 2 * (Whole * line.unit_rate.amount - DiscountedRate(line)) <= Whole * Cent

\* The total is the product, up to the tolerance and half a cent.
TotalIsRight(line) ==
    LET allowed == Piece * (2 * ArithmeticTolerance + Cent)
    IN 2 * (Piece * line.line_total.amount - line.quantity * line.unit_rate.amount)
           \in -allowed .. allowed

RightlyBilled(line) ==
    /\ line.unit_rate.currency = contract.currency
    /\ line.line_total.currency = contract.currency
    /\ RateFor(contract, line.sku) # None
    /\ Comparable(line, contract) => RateIsRight(line)
    /\ TotalIsRight(line)

\* An invoice in which no rule finds anything, with no rule skipped, is right
\* in every respect the rules are there for: its lines contracted, in the
\* contract's currency, no dearer than the list rate nor, but for half a cent,
\* than the discounted one, their totals the product up to the tolerance and
\* half a cent, its date within the term (checks.py:30-280).  What one rule
\* skips another reports, but for the rate of a line whose rate-card entry is
\* in another currency than its contract (Comparable).
CleanBillIsRight ==
    finished /\ findings = <<>> /\ skipped = {} =>
        /\ \A k \in Lines : RightlyBilled(invoice.line_items[k])
        /\ IsActiveOn(contract, invoice.invoice_date)

\* Whole times what the line costs more than the contract allows: the lower of
\* the list rate and the discounted one, which is the dearer of the two when a
\* contracted rate is negative, a credit.
Overcharge(line) ==
    LET lower == IF DiscountedRate(line) < Whole * ListRate(line)
                 THEN DiscountedRate(line) ELSE Whole * ListRate(line)
    IN (Whole * line.unit_rate.amount - lower) * line.quantity

\* Whole times twice the half cent a unit that rounding the discounted rate may
\* add or hide.
Rounding(line) == IF DiscountOf(line) = 0 THEN 0 ELSE Whole * Cent * line.quantity

\* No other line of the invoice has the number of line k.
OwnNumber(k) ==
    \A j \in Lines \ {k} : invoice.line_items[j].line_no # invoice.line_items[k].line_no

\* The impacts claimed for a line cover its overcharge and, the rate and the
\* discount rule both counting it, never claim more than twice it; a line with
\* no discount to miss is claimed for its overcharge exactly.  Only the half
\* cent a unit of the discounted rate's rounding comes on top or is missing,
\* and a line that is not overcharged, but for that half cent, has no claim at
\* all (checks.py:142-162 and 214-246).  Lines that share a number cannot be
\* told apart in the findings.
ClaimsBounded ==
    finished /\ skipped = {} => \A k \in Lines :
        LET line == invoice.line_items[k]
            claims == FoundOn(line.line_no, {"RATE_MISMATCH", "MISSED_VOLUME_DISCOUNT"})
            amounts == [n \in claims |-> findings[n].monetary_impact.amount]
            claimed == 2 * (Whole * SumFunctionOnSet(amounts, claims))
            over == Overcharge(line)
            due == IF over > 0 THEN 2 * over ELSE 0
            most == IF DiscountOf(line) = 0 THEN due ELSE 2 * due
        IN Comparable(line, contract) /\ OwnNumber(k) =>
               /\ claims # {} => 2 * over > -Rounding(line)
               /\ claimed \in due - Rounding(line) .. most + Rounding(line)

\* Every evaluation ends, whatever the rules raise.
Finishes == <>finished
-----------------------------------------------------------------------------
\* "Flag lines billed in a currency other than the contract's" (checks.py:31):
\* a currency mismatch names a line billed in another currency.
MismatchesAreReal ==
    finished => \A n \in DOMAIN findings : findings[n].type = "CURRENCY_MISMATCH" =>
        \E k \in Lines :
            /\ invoice.line_items[k].line_no = findings[n].invoice_line_no
            /\ invoice.line_items[k].unit_rate.currency # Upper[contract.currency]
=============================================================================
