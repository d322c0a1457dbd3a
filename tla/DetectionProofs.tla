------------------------------ MODULE DetectionProofs ------------------------------
(***************************************************************************)
(* The safety of the detection of discrepancies.  Of the rules engine, for *)
(* every invoice and contract the models validate: a rule that raises      *)
(* costs only its own findings, an invoice without findings is right, and  *)
(* the impacts of an overcharged line are bounded by the overcharge.  Of   *)
(* the evaluation harness, for every suite: its report counts each finding *)
(* once, is perfect for exact detection only, is given to no suite with a  *)
(* broken case, and is perfect for the built-in cases.                     *)
(***************************************************************************)
EXTENDS RulesEngine, EvaluationHarness, OperatorLemmas

-----------------------------------------------------------------------------
(* The inductive invariant. *)

\* What the loop has collected is what the rules it has passed return, and a
\* rule that raised is among the skipped ones.
LoopInv ==
    /\ invoice \in Invoices
    /\ contract \in Contracts
    /\ turn \in 1 .. 7
    /\ skipped \subseteq Turns
    /\ finished \in BOOLEAN
    /\ findings = IF turn = 1 THEN <<>> ELSE Collected(invoice, contract)[turn - 1]
    /\ \A t \in Turns : /\ t < turn
                        /\ Outcome(DefaultRules[t], invoice, contract).raised
                        => t \in skipped
    /\ finished => turn = 7

\* The arguments of the evaluation hold what the models validate.
LEMMA Arguments ==
    ASSUME LoopInv
    PROVE  Billed(invoice) /\ Carded(contract)
BY InvoicesAssumption, ContractsAssumption DEF LoopInv, Billed, Carded

LEMMA LoopInvInit == Init => LoopInv
<1>1. \A t \in Turns : ~(t < 1)
  BY DEF Turns
<1>2. 1 \in 1 .. 7
  OBVIOUS
<1>3. Init => /\ invoice \in Invoices /\ contract \in Contracts
              /\ skipped \subseteq Turns /\ finished \in BOOLEAN /\ ~finished
              /\ turn = 1 /\ findings = <<>>
  BY Zenon DEF Init
<1> QED
  BY <1>1, <1>2, <1>3 DEF LoopInv

\* The next turn's findings, appended, make the next prefix.
LEMMA OneMoreTurn ==
    ASSUME LoopInv, turn \in Turns
    PROVE  findings \o Current.findings = Collected(invoice, contract)[turn]
<1> DEFINE f == Collected(invoice, contract)
<1>1. /\ f[turn] = IF turn = 1 THEN Current.findings ELSE f[turn - 1] \o Current.findings
      /\ Current.findings \in Seq(Findings)
  BY Arguments, CollectedTurnByTurn DEF LoopInv, Current
<1>2. findings = IF turn = 1 THEN <<>> ELSE f[turn - 1]
  BY DEF LoopInv
<1> HIDE DEF f
<1>3. <<>> \o Current.findings = Current.findings
  BY <1>1
<1> QED
  BY <1>1, <1>2, <1>3 DEF f

LEMMA LoopInvStep == LoopInv /\ [Next]_vars => LoopInv'
<1> SUFFICES ASSUME LoopInv, [Next]_vars PROVE LoopInv'
  OBVIOUS
<1>1. Len(DefaultRules) = 6
  BY SixRules
<1>2. CASE RuleReturns
  <2>1. turn \in Turns /\ turn' \in 1 .. 7 /\ turn' - 1 = turn /\ turn' # 1
    BY <1>1, <1>2 DEF RuleReturns, LoopInv, Turns
  <2>2. findings' = Collected(invoice, contract)[turn' - 1]
    BY <1>2, <2>1, OneMoreTurn DEF RuleReturns
  <2>3. \A t \in Turns : /\ t < turn'
                         /\ Outcome(DefaultRules[t], invoice, contract).raised
                         => t \in skipped
    <3>1. \A t \in Turns : t < turn' => t < turn \/ t = turn
      BY <1>2 DEF RuleReturns, LoopInv, Turns
    <3> QED
      BY <1>2, <3>1 DEF RuleReturns, Current, LoopInv
  <2>4. ~finished /\ UNCHANGED <<invoice, contract, skipped, finished>>
    BY <1>2, <2>1 DEF RuleReturns, LoopInv, Turns
  <2> QED
    BY <2>1, <2>2, <2>3, <2>4 DEF LoopInv
<1>3. CASE RuleRaises
  <2>1. turn \in Turns /\ turn' \in 1 .. 7 /\ turn' - 1 = turn /\ turn' # 1
    BY <1>1, <1>3 DEF RuleRaises, LoopInv, Turns
  <2>2. findings' = Collected(invoice, contract)[turn' - 1]
    <3>1. Current.findings = <<>>
      BY <1>3, <2>1, Arguments, OutcomesAreSequences DEF RuleRaises, Current, LoopInv
    <3>2. findings \in Seq(Findings)
      <4>1. CASE turn = 1
        BY <4>1 DEF LoopInv
      <4>2. CASE turn # 1
        <5>1. turn - 1 \in Turns
          BY <2>1, <4>2 DEF Turns
        <5> QED
          BY <4>2, <5>1, Arguments, CollectedTurnByTurn DEF LoopInv
      <4> QED
        BY <4>1, <4>2
    <3>3. findings \o <<>> = findings
      BY <3>2
    <3> QED
      BY <1>3, <2>1, <3>1, <3>3, OneMoreTurn DEF RuleRaises
  <2>3. \A t \in Turns : /\ t < turn'
                         /\ Outcome(DefaultRules[t], invoice, contract).raised
                         => t \in skipped'
    <3>1. \A t \in Turns : t < turn' => t < turn \/ t = turn
      BY <1>3 DEF RuleRaises, LoopInv, Turns
    <3> QED
      BY <1>3, <3>1 DEF RuleRaises, LoopInv
  <2> QED
    BY <1>3, <2>1, <2>2, <2>3 DEF RuleRaises, LoopInv, Turns
<1>4. CASE Return
  BY <1>1, <1>4 DEF Return, LoopInv, Turns
<1>5. CASE UNCHANGED vars
  BY <1>5 DEF vars, LoopInv
<1> QED
  BY <1>2, <1>3, <1>4, <1>5 DEF Next

THEOREM LoopInvHolds == Spec => []LoopInv
BY LoopInvInit, LoopInvStep, PTL DEF Spec
-----------------------------------------------------------------------------
(* The theorems. *)

\* Every finding is of one of the six types, with a confidence of at most 1.
THEOREM TypeCorrect == Spec => []TypeOK
<1>1. ASSUME LoopInv PROVE findings \in Seq(Findings)
  <2>1. CASE turn = 1
    BY <1>1, <2>1 DEF LoopInv
  <2>2. CASE turn # 1
    <3>1. turn - 1 \in Turns
      BY <1>1, <2>2 DEF LoopInv, Turns
    <3> QED
      BY <1>1, <2>2, <3>1, Arguments, CollectedTurnByTurn DEF LoopInv
  <2> QED
    BY <2>1, <2>2
<1>2. ASSUME LoopInv PROVE TypeOK
  <2>1. ASSUME NEW n \in DOMAIN findings
        PROVE  findings[n].type \in FindingTypes /\ findings[n].confidence \in 0 .. 100
    <3>1. findings[n] \in Findings
      BY <1>1, <1>2
    <3> QED
      BY <3>1 DEF Findings
  <2>2. 1 .. Len(DefaultRules) + 1 = 1 .. 7
    BY SixRules
  <2> QED
    BY <1>2, <2>1, <2>2, SixRules DEF LoopInv, TypeOK
<1> QED
  BY <1>2, LoopInvHolds, PTL

LEMMA EvaluateReturned ==
    ASSUME LoopInv, finished
    PROVE  findings = Evaluate(invoice, contract)
<1>1. turn = 7 /\ turn # 1 /\ turn - 1 = 6
  BY DEF LoopInv
<1>2. Evaluate(invoice, contract) = Collected(invoice, contract)[6]
  BY Arguments, CollectedTurnByTurn
<1> QED
  BY <1>1, <1>2 DEF LoopInv

\* The list returned is that of the rules that did not raise, complete and in
\* their order.
THEOREM IsolatesFaults == Spec => []FaultIsolation
<1>1. LoopInv => FaultIsolation
  BY EvaluateReturned DEF FaultIsolation
<1> QED
  BY <1>1, LoopInvHolds, PTL

\* What a finished evaluation has found, rule by rule.
LEMMA FoundByTheRules ==
    ASSUME LoopInv, finished
    PROVE  LET f == Found(invoice, contract)
           IN /\ \A t \in Turns : f[t] \in Seq(Findings)
              /\ findings = ((((f[1] \o f[2]) \o f[3]) \o f[4]) \o f[5]) \o f[6]
BY EvaluateReturned, Arguments, EvaluateJoins

\* With no rule skipped, each rule has reported all it flags.
LEMMA ReportsOfTheRules ==
    ASSUME LoopInv, finished, skipped = {}
    PROVE  LET Rule(t) == Outcome(DefaultRules[t], invoice, contract)
               Nos(lines) == LineNos(invoice, lines)
           IN /\ \A t \in Turns : Found(invoice, contract)[t] = Rule(t).findings
              /\ Reports(Rule(1), "CURRENCY_MISMATCH",
                         Nos(ElsewhereBilled(invoice, contract)))
              /\ Reports(Rule(2), "ARITHMETIC_ERROR", Nos(MisTotalled(invoice)))
              /\ Reports(Rule(3), "RATE_MISMATCH", Nos(Overcharged(invoice, contract)))
              /\ Reports(Rule(4), "MISSED_VOLUME_DISCOUNT",
                         Nos(Undiscounted(invoice, contract)))
              /\ Reports(Rule(5), "OUT_OF_TERM", Expired(invoice, contract))
              /\ Reports(Rule(6), "UNCONTRACTED_ITEM",
                         Nos(Uncontracted(invoice, contract)))
              /\ Claims(Rule(3), invoice, Overcharged(invoice, contract),
                        LAMBDA line : Contracted(line, contract))
              /\ Claims(Rule(4), invoice, Undiscounted(invoice, contract),
                        LAMBDA line : Discounted(line, contract))
              /\ \A k \in Lines : invoice.line_items[k].unit_rate.currency
                                      = invoice.line_items[k].line_total.currency
<1>1. Billed(invoice) /\ Carded(contract)
  BY Arguments
<1>2. \A t \in Turns : ~Outcome(DefaultRules[t], invoice, contract).raised
  BY DEF LoopInv, Turns
<1>3. /\ ~ArithmeticRule(invoice, contract).raised
      /\ ~MissedVolumeDiscountRule(invoice, contract).raised
  BY <1>2, SixRules DEF Turns
<1>4. Raised.raised
  BY DEF Raised
<1>5. \A t \in Turns : Found(invoice, contract)[t]
                           = Outcome(DefaultRules[t], invoice, contract).findings
  BY <1>1, CollectedTurnByTurn
<1>6. /\ Reports(ArithmeticRule(invoice, contract), "ARITHMETIC_ERROR",
                 LineNos(invoice, MisTotalled(invoice)))
      /\ \A k \in Lines : invoice.line_items[k].unit_rate.currency
                              = invoice.line_items[k].line_total.currency
  BY <1>1, <1>3, <1>4, ArithmeticReports DEF Lines
<1>7. /\ Reports(MissedVolumeDiscountRule(invoice, contract), "MISSED_VOLUME_DISCOUNT",
                 LineNos(invoice, Undiscounted(invoice, contract)))
      /\ Claims(MissedVolumeDiscountRule(invoice, contract), invoice,
                Undiscounted(invoice, contract),
                LAMBDA line : Discounted(line, contract))
  BY <1>1, <1>3, <1>4, MissedVolumeDiscountReports DEF Claims
<1>8. /\ Reports(RateMismatchRule(invoice, contract), "RATE_MISMATCH",
                 LineNos(invoice, Overcharged(invoice, contract)))
      /\ Claims(RateMismatchRule(invoice, contract), invoice,
                Overcharged(invoice, contract),
                LAMBDA line : Contracted(line, contract))
  BY <1>1, RateMismatchReports DEF Claims
<1>9. /\ Reports(CurrencyMismatchRule(invoice, contract), "CURRENCY_MISMATCH",
                 LineNos(invoice, ElsewhereBilled(invoice, contract)))
      /\ Reports(OutOfTermRule(invoice, contract), "OUT_OF_TERM",
                 Expired(invoice, contract))
      /\ Reports(UncontractedItemRule(invoice, contract), "UNCONTRACTED_ITEM",
                 LineNos(invoice, Uncontracted(invoice, contract)))
  BY <1>1, CurrencyMismatchReports, OutOfTermReports, UncontractedItemReports
<1> QED
  BY <1>5, <1>6, <1>7, <1>8, <1>9, SixRules

\* Multiplied by a positive number, two numbers keep their order.
LEMMA InProportion ==
    ASSUME NEW x \in Int, NEW y \in Int, NEW q \in Nat, q > 0
    PROVE  /\ x * q \in Int /\ y * q \in Int /\ q * x = x * q
           /\ x <= y => x * q <= y * q
           /\ x < y => x * q < y * q
<1>1. x * q \in Int /\ y * q \in Int /\ (y - x) * q = (y * q) - (x * q)
  OBVIOUS
<1>2. ASSUME x <= y PROVE x * q <= y * q
  <2>1. (y - x) * q \in Nat
    BY <1>2, ProductOfNaturals
  <2> QED
    BY <1>1, <2>1
<1>3. ASSUME x < y PROVE x * q < y * q
  <2>1. (y - x) * q > 0
    BY <1>3, ProductOfPositives
  <2> QED
    BY <1>1, <2>1
<1> QED
  BY <1>1, <1>2, <1>3

\* An invoice in which no rule finds anything, with no rule skipped, is right
\* in every respect the rules are there for.
THEOREM CleanBillsAreRight == Spec => []CleanBillIsRight
<1>1. ASSUME LoopInv, finished, findings = <<>>, skipped = {}
      PROVE  /\ \A k \in Lines : RightlyBilled(invoice.line_items[k])
             /\ IsActiveOn(contract, invoice.invoice_date)
  <2> DEFINE Rule(t) == Outcome(DefaultRules[t], invoice, contract)
  <2>1. \A t \in Turns : Rule(t).findings = <<>>
    BY <1>1, Arguments, EvaluateReturned, NothingFound
  <2>2. \A outcome, type, flagged :
            Reports(outcome, type, flagged) /\ outcome.findings = <<>> => flagged = {}
    BY DEF Reports
  <2>3. /\ 1 \in Turns /\ 2 \in Turns /\ 3 \in Turns
        /\ 4 \in Turns /\ 5 \in Turns /\ 6 \in Turns
    BY DEF Turns
  <2> DEFINE Nos(lines) == LineNos(invoice, lines)
  <2>4. /\ Reports(Rule(1), "CURRENCY_MISMATCH", Nos(ElsewhereBilled(invoice, contract)))
        /\ Reports(Rule(2), "ARITHMETIC_ERROR", Nos(MisTotalled(invoice)))
        /\ Reports(Rule(3), "RATE_MISMATCH", Nos(Overcharged(invoice, contract)))
        /\ Reports(Rule(4), "MISSED_VOLUME_DISCOUNT", Nos(Undiscounted(invoice, contract)))
        /\ Reports(Rule(5), "OUT_OF_TERM", Expired(invoice, contract))
        /\ Reports(Rule(6), "UNCONTRACTED_ITEM", Nos(Uncontracted(invoice, contract)))
        /\ \A k \in Lines : invoice.line_items[k].unit_rate.currency
                                = invoice.line_items[k].line_total.currency
    BY <1>1, ReportsOfTheRules
  <2> HIDE DEF Rule, Nos
  <2>8. /\ Nos(ElsewhereBilled(invoice, contract)) = {} /\ Nos(MisTotalled(invoice)) = {}
        /\ Nos(Overcharged(invoice, contract)) = {}
        /\ Nos(Undiscounted(invoice, contract)) = {}
        /\ Expired(invoice, contract) = {} /\ Nos(Uncontracted(invoice, contract)) = {}
    BY <2>1, <2>2, <2>3, <2>4
  <2>5. /\ ElsewhereBilled(invoice, contract) = {} /\ MisTotalled(invoice) = {}
        /\ Overcharged(invoice, contract) = {} /\ Undiscounted(invoice, contract) = {}
        /\ Expired(invoice, contract) = {} /\ Uncontracted(invoice, contract) = {}
    BY <2>8, NoLineNoNumber DEF Nos
  <2>6. ASSUME NEW k \in Lines PROVE RightlyBilled(invoice.line_items[k])
    <3> DEFINE line == invoice.line_items[k]
    <3>1. /\ Billed(invoice) /\ Carded(contract)
          /\ k \in DOMAIN invoice.line_items
      BY <1>1, Arguments DEF Lines
    <3>2. line.unit_rate.currency = contract.currency
      BY <2>5, <3>1 DEF ElsewhereBilled
    <3>3. line.line_total.currency = contract.currency
      BY <2>4, <3>2
    <3>4. RateFor(contract, line.sku) # None
      BY <2>5, <3>1 DEF Uncontracted
    <3>5. ASSUME Comparable(line, contract) PROVE RateIsRight(line)
      <4> DEFINE a == line.unit_rate.amount
                 r == Contracted(line, contract)
                 unit == Discounted(line, contract)
                 d == Discount(line, contract)
                 exact == r * (Whole - d)
      <4>1. /\ r \in Int /\ unit \in Int /\ d \in 0 .. Whole /\ exact \in Int
            /\ 2 * (Whole * unit) <= 2 * exact + Whole * Cent
        BY <3>1, <3>5, RatesOfALine
      <4>2. a \in Int
        BY <3>1, LinesAreLines
      <4>3. ~(a > r)
        BY <2>5, <3>1, <3>5 DEF Overcharged
      <4>4. ~(d > 0 /\ a > unit)
        BY <2>5, <3>1, <3>5 DEF Undiscounted
      <4>5. ListRate(line) = r /\ DiscountedRate(line) = exact
        BY DEF ListRate, DiscountedRate, DiscountOf, Discount, Contracted
      <4> HIDE DEF a, r, unit, d
      <4>6. d = 0 => exact = Whole * r
        BY <4>1, ScalesArePositive
      <4> HIDE DEF exact
      <4>7. Whole * Cent > 0 /\ Whole * Cent \in Int
        BY ScalesArePositive, ProductOfPositives
      <4>8. a <= r => Whole * a <= Whole * r
        BY <4>1, <4>2, ScalesArePositive, InProportion
      <4>9. a <= unit => Whole * a <= Whole * unit
        BY <4>1, <4>2, ScalesArePositive, InProportion
      <4>10. Whole * a \in Int /\ Whole * r \in Int /\ Whole * unit \in Int
        BY <4>1, <4>2, ScalesArePositive
      <4>11. a <= r /\ 2 * (Whole * a - exact) <= Whole * Cent
        BY <4>1, <4>2, <4>3, <4>4, <4>6, <4>7, <4>8, <4>9, <4>10
      <4> QED
        BY <4>5, <4>11 DEF RateIsRight, a
    <3>6. TotalIsRight(line)
      <4> DEFINE total == line.line_total.amount
                 expected == ExpectedTotal(line)
                 product == line.quantity * line.unit_rate.amount
      <4>1. /\ expected \in Int /\ product \in Int
            /\ 2 * (Piece * expected) <= 2 * product + Piece * Cent
            /\ 2 * (Piece * expected) >= 2 * product - Piece * Cent
        BY <3>1, ExpectedTotalIsNear
      <4>2. ~(total - expected > ArithmeticTolerance)
            /\ ~(-(total - expected) > ArithmeticTolerance)
        BY <2>5, <3>1 DEF MisTotalled
      <4>3. total \in Int /\ ArithmeticTolerance \in Nat
        BY <3>1, LinesAreLines, ToleranceAssumption
      <4> HIDE DEF total, expected, product
      <4>4. /\ total <= expected + ArithmeticTolerance
            /\ expected - ArithmeticTolerance <= total
        BY <4>1, <4>2, <4>3
      <4>5. /\ Piece * total <= Piece * (expected + ArithmeticTolerance)
            /\ Piece * (expected - ArithmeticTolerance) <= Piece * total
        BY <4>1, <4>3, <4>4, ScalesArePositive, InProportion
      <4>6. /\ Piece * (expected + ArithmeticTolerance)
                   = (Piece * expected) + (Piece * ArithmeticTolerance)
            /\ Piece * (expected - ArithmeticTolerance)
                   = (Piece * expected) - (Piece * ArithmeticTolerance)
            /\ Piece * (2 * ArithmeticTolerance + Cent)
                   = (2 * (Piece * ArithmeticTolerance)) + (Piece * Cent)
            /\ Piece * expected \in Int /\ Piece * ArithmeticTolerance \in Int
            /\ Piece * Cent \in Int /\ Piece * total \in Int
        BY <4>1, <4>3, ScalesArePositive
      <4>7. LET allowed == Piece * (2 * ArithmeticTolerance + Cent)
            IN 2 * (Piece * total - product) \in -allowed .. allowed
        BY <4>1, <4>5, <4>6
      <4> QED
        BY <4>7 DEF TotalIsRight, total, product
    <3> QED
      BY <3>2, <3>3, <3>4, <3>5, <3>6 DEF RightlyBilled
  <2>7. IsActiveOn(contract, invoice.invoice_date)
    BY <2>5 DEF Expired
  <2> QED
    BY <2>6, <2>7
<1>2. LoopInv => CleanBillIsRight
  BY <1>1 DEF CleanBillIsRight
<1> QED
  BY <1>2, LoopInvHolds, PTL
-----------------------------------------------------------------------------
(* The claims for a line. *)

\* The findings of the type are those of p, in a row.
Holds(s, type, p) ==
    \E d \in Nat :
        /\ \A n \in DOMAIN s : s[n].type = type => \E m \in DOMAIN p : n = d + m
        /\ \A m \in DOMAIN p : d + m \in DOMAIN s /\ s[d + m] = p[m] /\ p[m].type = type

LEMMA HoldsAppended ==
    ASSUME NEW S, NEW s \in Seq(S), NEW p \in Seq(S), NEW type,
           Without(s, type), \A m \in DOMAIN p : p[m].type = type
    PROVE  Holds(s \o p, type, p)
<1>1. ASSUME NEW n \in DOMAIN (s \o p), (s \o p)[n].type = type
      PROVE  \E m \in DOMAIN p : n = Len(s) + m
  <2>1. n \notin DOMAIN s
    BY <1>1 DEF Without
  <2>2. n - Len(s) \in DOMAIN p /\ n = Len(s) + (n - Len(s))
    BY <2>1
  <2> QED
    BY <2>2
<1>2. \A m \in DOMAIN p : Len(s) + m \in DOMAIN (s \o p) /\ (s \o p)[Len(s) + m] = p[m]
  OBVIOUS
<1>3. Len(s) \in Nat
  OBVIOUS
<1> QED
  BY <1>1, <1>2, <1>3 DEF Holds

LEMMA HoldsExtended ==
    ASSUME NEW S, NEW s \in Seq(S), NEW t \in Seq(S), NEW type, NEW p \in Seq(S),
           Holds(s, type, p), Without(t, type)
    PROVE  Holds(s \o t, type, p)
<1>1. PICK d \in Nat :
          /\ \A n \in DOMAIN s : s[n].type = type => \E m \in DOMAIN p : n = d + m
          /\ \A m \in DOMAIN p : d + m \in DOMAIN s /\ s[d + m] = p[m] /\ p[m].type = type
  BY DEF Holds
<1>2. ASSUME NEW n \in DOMAIN (s \o t), (s \o t)[n].type = type
      PROVE  \E m \in DOMAIN p : n = d + m
  <2>1. CASE n \in DOMAIN s
    <3>1. (s \o t)[n] = s[n]
      BY <2>1
    <3> QED
      BY <1>1, <1>2, <2>1, <3>1
  <2>2. CASE n \notin DOMAIN s
    <3>1. n - Len(s) \in DOMAIN t /\ (s \o t)[n] = t[n - Len(s)]
      BY <2>2
    <3> QED
      BY <1>2, <3>1 DEF Without
  <2> QED
    BY <2>1, <2>2
<1>3. ASSUME NEW m \in DOMAIN p
      PROVE  d + m \in DOMAIN (s \o t) /\ (s \o t)[d + m] = p[m] /\ p[m].type = type
  <2>1. d + m \in DOMAIN s /\ s[d + m] = p[m] /\ p[m].type = type
    BY <1>1
  <2>2. \A n \in DOMAIN s : n \in DOMAIN (s \o t) /\ (s \o t)[n] = s[n]
    OBVIOUS
  <2> QED
    BY <2>1, <2>2
<1> QED
  BY <1>2, <1>3 DEF Holds

On(s, type, k) == {n \in DOMAIN s : s[n].type = type /\ s[n].invoice_line_no = k}

\* No finding names a number the rule has not reported.
LEMMA NoneFound ==
    ASSUME NEW s, NEW type, NEW outcome, NEW nos, NEW no,
           Reports(outcome, type, nos), Holds(s, type, outcome.findings), no \notin nos
    PROVE  On(s, type, no) = {}
BY DEF Reports, Holds, On

\* A finding that the rule reports once for a number is found once for it.
LEMMA OneFound ==
    ASSUME NEW s, NEW type, NEW fs, NEW no, NEW finding,
           Holds(s, type, fs), NamedOnce(fs, no, finding)
    PROVE  \E n \in DOMAIN s : On(s, type, no) = {n} /\ s[n] = finding
<1>1. PICK d \in Nat :
          /\ \A n \in DOMAIN s : s[n].type = type => \E m \in DOMAIN fs : n = d + m
          /\ \A m \in DOMAIN fs : d + m \in DOMAIN s /\ s[d + m] = fs[m] /\ fs[m].type = type
  BY DEF Holds
<1>2. PICK m \in DOMAIN fs :
          /\ fs[m] = finding /\ finding.invoice_line_no = no
          /\ \A j \in DOMAIN fs : fs[j].invoice_line_no = no => j = m
  BY DEF NamedOnce
<1>3. d + m \in On(s, type, no) /\ s[d + m] = finding
  BY <1>1, <1>2 DEF On
<1>4. \A n \in On(s, type, no) : n = d + m
  BY <1>1, <1>2 DEF On
<1>5. On(s, type, no) = {d + m} /\ d + m \in DOMAIN s
  BY <1>3, <1>4 DEF On
<1> QED
  BY <1>3, <1>5

\* The rate and the discount findings stand in a row each in what is returned.
LEMMA ClaimsInARow ==
    ASSUME LoopInv, finished, skipped = {}
    PROVE  /\ Holds(findings, "RATE_MISMATCH", Found(invoice, contract)[3])
           /\ Holds(findings, "MISSED_VOLUME_DISCOUNT", Found(invoice, contract)[4])
<1> DEFINE f == Found(invoice, contract)
           two == f[1] \o f[2]
           three == two \o f[3]
           four == three \o f[4]
           five == four \o f[5]
           six == five \o f[6]
           FindsOnly(t, type) == \A m \in DOMAIN f[t] : f[t][m].type = type
<1>1. findings = six /\ \A t \in Turns : f[t] \in Seq(Findings)
  BY FoundByTheRules
<1>2. /\ FindsOnly(1, "CURRENCY_MISMATCH") /\ FindsOnly(2, "ARITHMETIC_ERROR")
      /\ FindsOnly(3, "RATE_MISMATCH") /\ FindsOnly(4, "MISSED_VOLUME_DISCOUNT")
      /\ FindsOnly(5, "OUT_OF_TERM") /\ FindsOnly(6, "UNCONTRACTED_ITEM")
  BY ReportsOfTheRules, SMTT(30) DEF Reports, Turns
<1> HIDE DEF f
<1>3. /\ f[1] \in Seq(Findings) /\ f[2] \in Seq(Findings) /\ f[3] \in Seq(Findings)
      /\ f[4] \in Seq(Findings) /\ f[5] \in Seq(Findings) /\ f[6] \in Seq(Findings)
  BY <1>1 DEF Turns
<1>4. /\ two \in Seq(Findings) /\ three \in Seq(Findings)
      /\ four \in Seq(Findings) /\ five \in Seq(Findings)
  <2>1. two \in Seq(Findings)
    BY <1>3
  <2>2. three \in Seq(Findings)
    BY <1>3, <2>1
  <2>3. four \in Seq(Findings)
    BY <1>3, <2>2
  <2>4. five \in Seq(Findings)
    BY <1>3, <2>3
  <2> QED
    BY <2>1, <2>2, <2>3, <2>4
<1>5. /\ \A t \in {1, 2, 4, 5, 6} : Without(f[t], "RATE_MISMATCH")
      /\ \A t \in {1, 2, 3, 5, 6} : Without(f[t], "MISSED_VOLUME_DISCOUNT")
  BY <1>2 DEF Without
<1> HIDE DEF two, three, four, five, six
<1>6. Without(two, "RATE_MISMATCH") /\ Without(two, "MISSED_VOLUME_DISCOUNT")
  BY <1>3, <1>5, WithoutBoth DEF two
<1>7. Holds(three, "RATE_MISMATCH", f[3])
  BY <1>2, <1>3, <1>4, <1>6, HoldsAppended DEF three
<1>8. Without(three, "MISSED_VOLUME_DISCOUNT")
  BY <1>3, <1>4, <1>5, <1>6, WithoutBoth DEF three
<1>9. Holds(four, "RATE_MISMATCH", f[3])
  BY <1>3, <1>4, <1>5, <1>7, HoldsExtended DEF four
<1>10. Holds(four, "MISSED_VOLUME_DISCOUNT", f[4])
  BY <1>2, <1>3, <1>4, <1>8, HoldsAppended DEF four
<1>11. /\ Holds(five, "RATE_MISMATCH", f[3])
       /\ Holds(five, "MISSED_VOLUME_DISCOUNT", f[4])
  BY <1>3, <1>4, <1>5, <1>9, <1>10, HoldsExtended DEF five
<1>12. /\ Holds(six, "RATE_MISMATCH", f[3])
       /\ Holds(six, "MISSED_VOLUME_DISCOUNT", f[4])
  BY <1>3, <1>4, <1>5, <1>11, HoldsExtended DEF six
<1> QED
  BY <1>1, <1>12 DEF f

\* The line has one finding of the type, and that claims the excess over the rate.
Claimed(line, type, rate) ==
    \E n \in DOMAIN findings :
        /\ FoundOn(line.line_no, {type}) = {n}
        /\ findings[n].monetary_impact.amount = Excess(line, rate)

\* What a line with a number of its own is claimed for by the two rules that
\* compare its rate.
LEMMA ClaimsOfALine ==
    ASSUME LoopInv, finished, skipped = {}, NEW k \in Lines, OwnNumber(k)
    PROVE  LET line == invoice.line_items[k]
           IN /\ IF k \in Overcharged(invoice, contract)
                 THEN Claimed(line, "RATE_MISMATCH", Contracted(line, contract))
                 ELSE FoundOn(line.line_no, {"RATE_MISMATCH"}) = {}
              /\ IF k \in Undiscounted(invoice, contract)
                 THEN Claimed(line, "MISSED_VOLUME_DISCOUNT", Discounted(line, contract))
                 ELSE FoundOn(line.line_no, {"MISSED_VOLUME_DISCOUNT"}) = {}
<1> DEFINE line == invoice.line_items[k]
           no == line.line_no
           over == Overcharged(invoice, contract)
           under == Undiscounted(invoice, contract)
           three == Outcome(DefaultRules[3], invoice, contract)
           four == Outcome(DefaultRules[4], invoice, contract)
<1>1. /\ Found(invoice, contract)[3] = three.findings
      /\ Found(invoice, contract)[4] = four.findings
      /\ Reports(three, "RATE_MISMATCH", LineNos(invoice, over))
      /\ Reports(four, "MISSED_VOLUME_DISCOUNT", LineNos(invoice, under))
      /\ Claims(three, invoice, over, LAMBDA l : Contracted(l, contract))
      /\ Claims(four, invoice, under, LAMBDA l : Discounted(l, contract))
  BY ReportsOfTheRules DEF Turns
<1> HIDE DEF three, four
<1>2. /\ Holds(findings, "RATE_MISMATCH", three.findings)
      /\ Holds(findings, "MISSED_VOLUME_DISCOUNT", four.findings)
  BY <1>1, ClaimsInARow
<1>3. \A type : FoundOn(no, {type}) = On(findings, type, no)
  BY DEF FoundOn, On
<1>4. Alone(invoice, k)
  BY DEF OwnNumber, Alone, Lines
<1>5. over \subseteq DOMAIN invoice.line_items /\ under \subseteq DOMAIN invoice.line_items
  BY DEF Overcharged, Undiscounted
<1> HIDE DEF over, under
<1>6. /\ k \notin over => no \notin LineNos(invoice, over)
      /\ k \notin under => no \notin LineNos(invoice, under)
  BY <1>4, <1>5, FlaggedByNumber
<1>7. ASSUME k \in over
      PROVE  Claimed(line, "RATE_MISMATCH", Contracted(line, contract))
  <2>1. PICK finding : /\ NamedOnce(three.findings, no, finding)
                       /\ finding.monetary_impact.amount
                              = Excess(line, Contracted(line, contract))
    BY <1>1, <1>4, <1>7 DEF Claims
  <2>2. \E n \in DOMAIN findings :
            On(findings, "RATE_MISMATCH", no) = {n} /\ findings[n] = finding
    BY <1>2, <2>1, OneFound
  <2> QED
    BY <1>3, <2>1, <2>2 DEF Claimed
<1>8. ASSUME k \in under
      PROVE  Claimed(line, "MISSED_VOLUME_DISCOUNT", Discounted(line, contract))
  <2>1. PICK finding : /\ NamedOnce(four.findings, no, finding)
                       /\ finding.monetary_impact.amount
                              = Excess(line, Discounted(line, contract))
    BY <1>1, <1>4, <1>8 DEF Claims
  <2>2. \E n \in DOMAIN findings :
            On(findings, "MISSED_VOLUME_DISCOUNT", no) = {n} /\ findings[n] = finding
    BY <1>2, <2>1, OneFound
  <2> QED
    BY <1>3, <2>1, <2>2 DEF Claimed
<1>9. /\ k \notin over => On(findings, "RATE_MISMATCH", no) = {}
      /\ k \notin under => On(findings, "MISSED_VOLUME_DISCOUNT", no) = {}
  BY <1>1, <1>2, <1>6, NoneFound
<1> QED
  BY <1>3, <1>7, <1>8, <1>9 DEF over, under

\* The claims for one unit of a line billed at A against a contracted rate R, a
\* discounted one X and that rounded, U.
LEMMA ClaimsOfAUnit ==
    ASSUME NEW A \in Int, NEW R \in Int, NEW X \in Int, NEW U \in Int, NEW K \in Nat,
           NEW d \in Nat, d = 0 => X = R, 2 * U <= 2 * X + K, 2 * U >= 2 * X - K
    PROVE  LET over == A - (IF X < R THEN X ELSE R)
               lost == IF d = 0 THEN 0 ELSE K
               rated == IF A > R THEN A - R ELSE 0
               missed == IF d > 0 /\ A > U THEN A - U ELSE 0
               due == IF over > 0 THEN 2 * over ELSE 0
               most == IF d = 0 THEN due ELSE 2 * due
           IN /\ A > R \/ (d > 0 /\ A > U) => 2 * over > -lost
              /\ due - lost <= 2 * (rated + missed)
              /\ 2 * (rated + missed) <= most + lost
OBVIOUS

\* The set has the one amount, or none, to add.
Adds(S, f, x) == (S = {} /\ x = 0) \/ \E n : S = {n} /\ f[n] = x

\* The amounts of at most one finding of either type, added.
LEMMA SumOfClaims ==
    ASSUME NEW f, NEW rated, NEW missed, rated \cap missed = {},
           NEW x \in Int, NEW y \in Int,
           Adds(rated, f, x), Adds(missed, f, y)
    PROVE  SumFunctionOnSet(f, rated \cup missed) = x + y
<1>1. CASE rated = {} /\ x = 0
  <2>1. rated \cup missed = missed /\ x + y = y
    BY <1>1
  <2>2. SumFunctionOnSet(f, missed) = y
    BY SumOfNone, SumOfOne DEF Adds
  <2> QED
    BY <2>1, <2>2
<1>2. ASSUME NEW n, rated = {n}, f[n] = x
      PROVE  SumFunctionOnSet(f, rated \cup missed) = x + y
  <2>1. CASE missed = {} /\ y = 0
    <3>1. rated \cup missed = {n} /\ x + y = x
      BY <1>2, <2>1
    <3> QED
      BY <1>2, <3>1, SumOfOne
  <2>2. ASSUME NEW m, missed = {m}, f[m] = y
        PROVE  SumFunctionOnSet(f, rated \cup missed) = x + y
    <3>1. rated \cup missed = {n, m} /\ n # m
      BY <1>2, <2>2
    <3> QED
      BY <1>2, <2>2, <3>1, SumOfTwo
  <2> QED
    BY <2>1, <2>2 DEF Adds
<1> QED
  BY <1>1, <1>2 DEF Adds

\* The impacts claimed for a line cover its overcharge and never claim more than
\* twice it, but for the half cent a unit of the discounted rate's rounding.
THEOREM ClaimsAreBounded == Spec => []ClaimsBounded
<1>1. ASSUME LoopInv, finished, skipped = {}, NEW k \in Lines,
             Comparable(invoice.line_items[k], contract), OwnNumber(k)
      PROVE  LET line == invoice.line_items[k]
                 claims == FoundOn(line.line_no, {"RATE_MISMATCH", "MISSED_VOLUME_DISCOUNT"})
                 amounts == [n \in claims |-> findings[n].monetary_impact.amount]
                 claimed == 2 * (Whole * SumFunctionOnSet(amounts, claims))
                 over == Overcharge(line)
                 due == IF over > 0 THEN 2 * over ELSE 0
                 most == IF DiscountOf(line) = 0 THEN due ELSE 2 * due
             IN /\ claims # {} => 2 * over > -Rounding(line)
                /\ claimed \in due - Rounding(line) .. most + Rounding(line)
  <2> DEFINE line == invoice.line_items[k]
             rated == FoundOn(line.line_no, {"RATE_MISMATCH"})
             missed == FoundOn(line.line_no, {"MISSED_VOLUME_DISCOUNT"})
             claims == FoundOn(line.line_no, {"RATE_MISMATCH", "MISSED_VOLUME_DISCOUNT"})
             amounts == [n \in claims |-> findings[n].monetary_impact.amount]
             sum == SumFunctionOnSet(amounts, claims)
             a == line.unit_rate.amount
             q == line.quantity
             r == Contracted(line, contract)
             u == Discounted(line, contract)
             d == Discount(line, contract)
             A == Whole * a
             R == Whole * r
             U == Whole * u
             X == r * (Whole - d)
             K == Whole * Cent
             over == A - (IF X < R THEN X ELSE R)
             lost == IF d = 0 THEN 0 ELSE K
             due == IF over > 0 THEN 2 * over ELSE 0
             most == IF d = 0 THEN due ELSE 2 * due
             more == IF a > r THEN a - r ELSE 0
             less == IF d > 0 /\ a > u THEN a - u ELSE 0
             rates == IF A > R THEN A - R ELSE 0
             discounts == IF d > 0 /\ A > U THEN A - U ELSE 0
  <2>1. k \in DOMAIN invoice.line_items /\ Billed(invoice) /\ Carded(contract)
    BY <1>1, Arguments DEF Lines
  <2>2. a \in Int /\ q \in Nat /\ q > 0
    BY <2>1, LinesAreLines
  <2>3. /\ r \in Int /\ u \in Int /\ d \in 0 .. Whole /\ X \in Int
        /\ 2 * U <= 2 * X + K /\ 2 * U >= 2 * X - K
    BY <1>1, <2>1, RatesOfALine
  <2>4. /\ k \in Overcharged(invoice, contract) <=> a > r
        /\ k \in Undiscounted(invoice, contract) <=> d > 0 /\ a > u
    BY <1>1, <2>1 DEF Overcharged, Undiscounted
  <2>5. claims = rated \cup missed /\ rated \cap missed = {}
    BY DEF FoundOn
  <2>6. /\ IF a > r THEN Claimed(line, "RATE_MISMATCH", r) ELSE rated = {}
        /\ IF d > 0 /\ a > u
           THEN Claimed(line, "MISSED_VOLUME_DISCOUNT", u) ELSE missed = {}
    BY <1>1, <2>4, ClaimsOfALine
  <2>7. Excess(line, r) = (a - r) * q /\ Excess(line, u) = (a - u) * q
    BY DEF Excess
  <2>8. /\ Overcharge(line) = over * q
        /\ Rounding(line) = IF d = 0 THEN 0 ELSE K * q
        /\ DiscountOf(line) = d
    BY DEF Overcharge, Rounding, DiscountedRate, DiscountOf, ListRate, Contracted, Discount
  <2> HIDE DEF rated, missed, claims, a, q, r, u, d, line
  <2>9. /\ a > r => \E n : rated = {n} /\ amounts[n] = (a - r) * q
        /\ d > 0 /\ a > u => \E n : missed = {n} /\ amounts[n] = (a - u) * q
    BY <2>5, <2>6, <2>7 DEF Claimed, rated, missed
  <2>10. (a - r) * q \in Int /\ (a - u) * q \in Int
    BY <2>2, <2>3
  <2>11. sum = (IF a > r THEN (a - r) * q ELSE 0)
                   + (IF d > 0 /\ a > u THEN (a - u) * q ELSE 0)
    <3> DEFINE x == IF a > r THEN (a - r) * q ELSE 0
               y == IF d > 0 /\ a > u THEN (a - u) * q ELSE 0
    <3>1. x \in Int /\ y \in Int
      BY <2>10
    <3>2. Adds(rated, amounts, x)
      BY <2>6, <2>9 DEF Adds
    <3>3. Adds(missed, amounts, y)
      BY <2>6, <2>9 DEF Adds
    <3> HIDE DEF amounts, x, y
    <3>4. SumFunctionOnSet(amounts, rated \cup missed) = x + y
      BY <2>5, <3>1, <3>2, <3>3, SumOfClaims
    <3> QED
      BY <2>5, <3>4 DEF x, y
  <2>12. A \in Int /\ R \in Int /\ U \in Int /\ K \in Nat /\ d \in Nat
    BY <2>2, <2>3, ScalesArePositive
  <2>13. /\ a > r <=> A > R
         /\ a > u <=> A > U
    BY <2>2, <2>3, ScalesArePositive, InProportion
  <2>14. /\ Whole * ((a - r) * q) = (A - R) * q
         /\ Whole * ((a - u) * q) = (A - U) * q
    BY <2>2, <2>3, ScalesArePositive
  <2>15. d = 0 => X = R
    BY <2>3, ScalesArePositive
  <2> HIDE DEF A, R, U, X, K, sum
  <2>16. /\ A > R \/ (d > 0 /\ A > U) => 2 * over > -lost
         /\ due - lost <= 2 * (rates + discounts)
         /\ 2 * (rates + discounts) <= most + lost
    BY <2>3, <2>12, <2>15, ClaimsOfAUnit
  <2>17. Whole * sum = (rates + discounts) * q
    <3> DEFINE x == (a - r) * q
               y == (a - u) * q
    <3>1. /\ sum = (IF A > R THEN x ELSE 0) + (IF d > 0 /\ A > U THEN y ELSE 0)
          /\ x \in Int /\ y \in Int
          /\ Whole * x = (A - R) * q /\ Whole * y = (A - U) * q
      BY <2>10, <2>11, <2>13, <2>14
    <3>2. /\ Whole * (x + y) = (Whole * x) + (Whole * y)
          /\ ((A - R) + (A - U)) * q = ((A - R) * q) + ((A - U) * q)
          /\ Whole * 0 = 0 /\ 0 * q = 0
      <4> HIDE DEF x, y
      <4> QED
        BY <2>2, <2>12, <3>1, ScalesArePositive
    <3> HIDE DEF x, y
    <3> QED
      BY <2>2, <2>12, <3>1, <3>2
  <2>18. /\ over \in Int /\ lost \in Nat /\ due \in Nat /\ most \in Nat
         /\ rates \in Nat /\ discounts \in Nat
    BY <2>3, <2>12
  <2>19. /\ over > 0 <=> over * q > 0
         /\ 2 * (over * q) = (2 * over) * q
    BY <2>2, <2>18, InProportion
  <2>20. /\ Rounding(line) = lost * q
         /\ due * q = IF Overcharge(line) > 0 THEN 2 * Overcharge(line) ELSE 0
         /\ most * q = IF d = 0 THEN due * q ELSE 2 * (due * q)
    <3>1. 0 * q = 0 /\ (2 * due) * q = 2 * (due * q)
      BY <2>2, <2>18
    <3> QED
      BY <2>8, <2>19, <3>1
  <2>21. claims # {} => A > R \/ (d > 0 /\ A > U)
    BY <2>5, <2>6, <2>13
  <2> DEFINE c == rates + discounts
  <2> HIDE DEF over, lost, due, most, rates, discounts
  <2>22. claims # {} => 2 * Overcharge(line) > -Rounding(line)
    <3>1. claims # {} => (-lost) * q < (2 * over) * q
      BY <2>2, <2>16, <2>18, <2>21, InProportion
    <3>2. (-lost) * q = -(lost * q)
      BY <2>2, <2>18
    <3> QED
      BY <2>2, <2>8, <2>18, <2>19, <2>20, <3>1, <3>2
  <2>23. 2 * (Whole * sum) \in (due * q) - (lost * q) .. (most * q) + (lost * q)
    <3>1. c \in Int /\ due - lost <= 2 * c /\ 2 * c <= most + lost
      BY <2>16, <2>18
    <3> HIDE DEF c
    <3>2. (due - lost) * q <= (2 * c) * q /\ (2 * c) * q <= (most + lost) * q
      BY <2>2, <2>18, <3>1, InProportion
    <3>3. /\ (due - lost) * q = (due * q) - (lost * q)
          /\ (most + lost) * q = (most * q) + (lost * q)
          /\ (2 * c) * q = 2 * (c * q) /\ c * q \in Int
          /\ due * q \in Int /\ lost * q \in Int /\ most * q \in Int
      BY <2>2, <2>18, <3>1
    <3> QED
      BY <2>17, <3>2, <3>3 DEF c
  <2> QED
    BY <2>8, <2>20, <2>22, <2>23 DEF claims, sum, line, d
<1>2. LoopInv => ClaimsBounded
  BY <1>1 DEF ClaimsBounded
<1> QED
  BY <1>2, LoopInvHolds, PTL
-----------------------------------------------------------------------------
(* Counting. *)

Tag(x, T) == {<<x, y>> : y \in T}

\* The members of the sets F[x], each with the x it is counted for.
Tagged(F, S) == UNION {Tag(x, F[x]) : x \in S}

\* A tagged member is a pair of a tag and a member.
LEMMA TaggedMembers ==
    ASSUME NEW S, NEW F, NEW z
    PROVE  z \in Tagged(F, S) <=> \E x \in S : \E y \in F[x] : z = <<x, y>>
BY DEF Tagged, Tag

\* Tagging the members of a set loses none.
LEMMA OneTagged ==
    ASSUME NEW x, NEW T, IsFiniteSet(T)
    PROVE  IsFiniteSet(Tag(x, T)) /\ Cardinality(Tag(x, T)) = Cardinality(T)
<1> DEFINE f == [y \in T |-> <<x, y>>]
<1>1. f \in Surjection(T, Tag(x, T)) /\ f \in Injection(T, Tag(x, T))
  BY DEF Surjection, Injection, IsInjective, Tag
<1> HIDE DEF f
<1> QED
  BY <1>1, FS_Surjection

\* The sizes of the sets add up to the number of their tagged members.
LEMMA SizesAddUp ==
    ASSUME NEW S, IsFiniteSet(S), NEW F, \A x \in S : IsFiniteSet(F[x])
    PROVE  /\ IsFiniteSet(Tagged(F, S))
           /\ SumFunction([x \in S |-> Cardinality(F[x])]) = Cardinality(Tagged(F, S))
<1> DEFINE f == [x \in S |-> Cardinality(F[x])]
           Good(T) == /\ IsFiniteSet(Tagged(F, T))
                      /\ SumFunctionOnSet(f, T) = Cardinality(Tagged(F, T))
           Bad == {T \in SUBSET S : ~Good(T)}
           Sizes == {Cardinality(T) : T \in Bad}
<1>1. \A T \in SUBSET S : IsFiniteSet(T) /\ Cardinality(T) \in Nat
  BY FS_Subset, FS_CardinalityType
<1>2. \A x \in S : f[x] = Cardinality(F[x]) /\ f[x] \in Int
  BY FS_CardinalityType
<1>3. DOMAIN f = S
  OBVIOUS
<1> SUFFICES ASSUME Bad # {} PROVE FALSE
  <2>1. S \in SUBSET S
    OBVIOUS
  <2>2. SumFunction(f) = SumFunctionOnSet(f, S)
    BY <1>3 DEF SumFunction
  <2> HIDE DEF f
  <2>3. Bad = {} => Good(S)
    BY <2>1
  <2> USE DEF f
  <2> QED
    BY <2>2, <2>3
<1> HIDE DEF f
<1>4. Sizes \subseteq Nat /\ Sizes # {}
  BY <1>1
<1>5. PICK m \in Sizes : \A n \in Sizes : m <= n
  <2> HIDE DEF Sizes
  <2> QED
    BY <1>4, LeastElement
<1>6. PICK T \in Bad : Cardinality(T) = m
  OBVIOUS
<1>7. CASE T = {}
  <2>1. Tagged(F, T) = {}
    BY <1>7 DEF Tagged, Tag
  <2>2. Good(T)
    BY <1>7, <2>1, SumOfNone, FS_EmptySet
  <2> QED
    BY <1>6, <2>2
<1>8. CASE T # {}
  <2>1. PICK x \in T : TRUE
    BY <1>8
  <2> DEFINE rest == T \ {x}
             tagged == Tag(x, F[x])
  <2>2. x \in S /\ IsFiniteSet(T) /\ T \subseteq S /\ rest \in SUBSET S
    BY <1>1, <1>6, <2>1
  <2>3. Good(rest)
    <3>1. Cardinality(rest) = Cardinality(T) - 1
      BY <2>1, <2>2, FS_RemoveElement
    <3>2. ~(m <= Cardinality(rest))
      BY <1>1, <1>6, <2>2, <3>1
    <3>3. Cardinality(rest) \notin Sizes
      <4> HIDE DEF Sizes, rest
      <4> QED
        BY <1>5, <3>2
    <3> QED
      BY <2>2, <3>3
  <2>4. IsFiniteSet(tagged) /\ Cardinality(tagged) = f[x]
    BY <1>2, <2>2, OneTagged
  <2>5. Tagged(F, T) = tagged \cup Tagged(F, rest)
    BY <2>1 DEF Tagged, Tag
  <2>6. tagged \cap Tagged(F, rest) = {}
    BY DEF Tagged, Tag
  <2>7. SumFunctionOnSet(f, T) = f[x] + SumFunctionOnSet(f, rest)
    <3>1. \A y \in T : f[y] \in Int
      BY <1>2, <2>2
    <3> QED
      BY <2>1, <2>2, <3>1, SumWithout
  <2> HIDE DEF rest, tagged
  <2>8. /\ IsFiniteSet(tagged \cup Tagged(F, rest))
        /\ Cardinality(tagged \cup Tagged(F, rest))
               = f[x] + Cardinality(Tagged(F, rest))
    <3>1. Cardinality({}) = 0
      BY FS_EmptySet
    <3>2. Cardinality(Tagged(F, rest)) \in Nat /\ f[x] \in Int
      BY <1>2, <2>2, <2>3, FS_CardinalityType
    <3>3. Cardinality(tagged \cup Tagged(F, rest))
              = Cardinality(tagged) + Cardinality(Tagged(F, rest)) - Cardinality({})
      BY <2>3, <2>4, <2>6, FS_Union
    <3>4. IsFiniteSet(tagged \cup Tagged(F, rest))
      BY <2>3, <2>4, FS_Union
    <3> QED
      BY <2>4, <3>1, <3>2, <3>3, <3>4
  <2>9. Good(T)
    BY <2>3, <2>5, <2>7, <2>8
  <2> QED
    BY <1>6, <2>9
<1> QED
  BY <1>7, <1>8

\* Of whatever types its members are, a set is counted once, type by type.
LEMMA TypesAddUp ==
    ASSUME NEW D, IsFiniteSet(D), NEW K, \A k \in D : IsFiniteSet(K[k]),
           NEW Types, IsFiniteSet(Types), \A k \in D : TypesIn(K[k]) \subseteq Types
    PROVE  SumFunction([type \in Types |->
               SumFunction([k \in D |-> Cardinality(OfType(K[k], type))])])
                   = Cardinality(Tagged(K, D))
<1> DEFINE OfT(type) == [k \in D |-> OfType(K[k], type)]
           C == [type \in Types |-> Tagged(OfT(type), D)]
           f == [z \in Tagged(K, D) |-> <<z[2][1], z>>]
<1>1. ASSUME NEW type \in Types
      PROVE  /\ IsFiniteSet(C[type])
             /\ SumFunction([k \in D |-> Cardinality(OfType(K[k], type))])
                    = Cardinality(C[type])
  <2>1. \A k \in D : IsFiniteSet(OfType(K[k], type))
    BY FS_Subset DEF OfType
  <2>2. \A k \in D : OfT(type)[k] = OfType(K[k], type)
    OBVIOUS
  <2>3. [k \in D |-> Cardinality(OfType(K[k], type))]
            = [k \in D |-> Cardinality(OfT(type)[k])]
    BY <2>2
  <2>4. C[type] = Tagged(OfT(type), D)
    OBVIOUS
  <2> HIDE DEF OfT, C
  <2> QED
    BY <2>1, <2>2, <2>3, <2>4, SizesAddUp
<1>2. [type \in Types |-> SumFunction([k \in D |-> Cardinality(OfType(K[k], type))])]
          = [type \in Types |-> Cardinality(C[type])]
  <2> HIDE DEF C
  <2> QED
    BY <1>1
<1>3. /\ SumFunction([type \in Types |-> Cardinality(C[type])]) = Cardinality(Tagged(C, Types))
      /\ IsFiniteSet(Tagged(C, Types))
  <2> HIDE DEF C
  <2> QED
    BY <1>1, SizesAddUp
<1>4. IsFiniteSet(Tagged(K, D))
  BY SizesAddUp
<1>5. /\ f \in Surjection(Tagged(K, D), Tagged(C, Types))
      /\ f \in Injection(Tagged(K, D), Tagged(C, Types))
  <2>1. ASSUME NEW z \in Tagged(K, D)
        PROVE  f[z] \in Tagged(C, Types) /\ f[z][2] = z
    <3>1. PICK k \in D : \E y \in K[k] : z = <<k, y>>
      BY TaggedMembers
    <3>2. PICK y \in K[k] : z = <<k, y>>
      BY <3>1
    <3>3. y[1] \in Types /\ y \in OfType(K[k], y[1])
      BY <3>2 DEF TypesIn, OfType
    <3>4. z \in Tagged(OfT(y[1]), D)
      BY <3>2, <3>3 DEF Tagged, Tag
    <3>5. z \in C[y[1]]
      BY <3>3, <3>4
    <3>6. f[z] = <<y[1], z>>
      BY <3>2
    <3> HIDE DEF C, f
    <3> QED
      BY <3>3, <3>5, <3>6, TaggedMembers
  <2>2. ASSUME NEW w \in Tagged(C, Types)
        PROVE  \E z \in Tagged(K, D) : f[z] = w
    <3>1. PICK type \in Types : \E z \in C[type] : w = <<type, z>>
      <4> HIDE DEF C
      <4> QED
        BY TaggedMembers
    <3>2. PICK z \in C[type] : w = <<type, z>>
      BY <3>1
    <3>3. z \in Tagged(OfT(type), D)
      BY <3>2
    <3>4. PICK k \in D : \E y \in OfT(type)[k] : z = <<k, y>>
      <4> HIDE DEF OfT
      <4> QED
        BY <3>3, TaggedMembers
    <3>5. PICK y \in OfT(type)[k] : z = <<k, y>>
      BY <3>4
    <3>6. y \in K[k] /\ y[1] = type
      BY <3>5 DEF OfType
    <3>7. z \in Tagged(K, D)
      BY <3>5, <3>6, TaggedMembers
    <3>8. f[z] = w
      BY <3>2, <3>5, <3>6, <3>7
    <3> QED
      BY <3>7, <3>8
  <2> HIDE DEF f, C
  <2>3. f \in [Tagged(K, D) -> Tagged(C, Types)]
    <3>1. f = [z \in Tagged(K, D) |-> f[z]]
      BY DEF f
    <3> QED
      BY <2>1, <3>1
  <2> QED
    BY <2>1, <2>2, <2>3 DEF Surjection, Injection, IsInjective
<1> HIDE DEF f, C
<1>6. Cardinality(Tagged(C, Types)) = Cardinality(Tagged(K, D))
  BY <1>4, <1>5, FS_Surjection
<1> QED
  BY <1>2, <1>3, <1>6

(* The metrics. *)

\* How many members the sets of a case hold, over all the cases.
InAll(K) == Cardinality(Tagged(K, DOMAIN K))

FiniteOutcomes(outcomes) ==
    /\ IsFiniteSet(DOMAIN outcomes)
    /\ \A k \in DOMAIN outcomes :
           IsFiniteSet(outcomes[k].detected) /\ IsFiniteSet(outcomes[k].seeded)

\* A report has finitely many types.
LEMMA TypesAreFinite ==
    ASSUME NEW outcomes, FiniteOutcomes(outcomes)
    PROVE  IsFiniteSet(AllTypes(outcomes))
<1> DEFINE D == DOMAIN outcomes
           Of(k) == TypesIn(outcomes[k].detected \cup outcomes[k].seeded)
           f == [k \in D |-> Of(k)]
           Sets == {Of(k) : k \in D}
<1>1. ASSUME NEW X, IsFiniteSet(X) PROVE IsFiniteSet(TypesIn(X))
  <2> DEFINE g == [key \in X |-> key[1]]
  <2>1. g \in Surjection(X, TypesIn(X))
    BY DEF Surjection, TypesIn
  <2> HIDE DEF g
  <2> QED
    BY <1>1, <2>1, FS_Surjection
<1>2. \A k \in D : IsFiniteSet(Of(k))
  BY <1>1, FS_Union DEF FiniteOutcomes
<1> HIDE DEF Of
<1>3. f \in Surjection(D, Sets)
  BY DEF Surjection
<1> HIDE DEF f
<1>4. IsFiniteSet(Sets)
  BY <1>3, FS_Surjection DEF FiniteOutcomes
<1>5. IsFiniteSet(UNION Sets)
  BY <1>2, <1>4, FS_UNION
<1> QED
  BY <1>5 DEF AllTypes, Of

\* The counts of a type, by the kind of its keys.
LEMMA CountsByKind ==
    ASSUME NEW outcomes, NEW type
    PROVE  LET Sum(K) == SumFunction([k \in DOMAIN outcomes |->
                             Cardinality(OfType(K[k], type))])
           IN /\ TypeMetrics(outcomes, type)["true_positives"] = Sum(Hits(outcomes))
              /\ TypeMetrics(outcomes, type)["false_positives"] = Sum(Alarms(outcomes))
              /\ TypeMetrics(outcomes, type)["false_negatives"] = Sum(Misses(outcomes))
<1>1. /\ DOMAIN Hits(outcomes) = DOMAIN outcomes
      /\ DOMAIN Alarms(outcomes) = DOMAIN outcomes
      /\ DOMAIN Misses(outcomes) = DOMAIN outcomes
  BY DEF Hits, Alarms, Misses
<1> QED
  BY <1>1 DEF TypeMetrics, Count

\* Each total of a report is the number of keys of its kind in all the cases.
LEMMA TotalsCount ==
    ASSUME NEW outcomes, FiniteOutcomes(outcomes), NEW n
    PROVE  LET made == ComputeMetrics(outcomes, n)
           IN /\ Total(made, "true_positives") = InAll(Hits(outcomes))
              /\ Total(made, "false_positives") = InAll(Alarms(outcomes))
              /\ Total(made, "false_negatives") = InAll(Misses(outcomes))
<1> DEFINE made == ComputeMetrics(outcomes, n)
           D == DOMAIN outcomes
           Types == AllTypes(outcomes)
           Either(k) == outcomes[k].detected \cup outcomes[k].seeded
           Typed(K) == [type \in Types |->
                            SumFunction([k \in D |-> Cardinality(OfType(K[k], type))])]
<1>1. /\ [type \in DOMAIN made.per_type |-> made.per_type[type]["true_positives"]]
             = Typed(Hits(outcomes))
      /\ [type \in DOMAIN made.per_type |-> made.per_type[type]["false_positives"]]
             = Typed(Alarms(outcomes))
      /\ [type \in DOMAIN made.per_type |-> made.per_type[type]["false_negatives"]]
             = Typed(Misses(outcomes))
  <2>1. /\ DOMAIN made.per_type = Types
        /\ \A type \in Types : made.per_type[type] = TypeMetrics(outcomes, type)
    BY DEF ComputeMetrics
  <2>2. ASSUME NEW type \in Types
        PROVE  /\ made.per_type[type]["true_positives"] = Typed(Hits(outcomes))[type]
               /\ made.per_type[type]["false_positives"] = Typed(Alarms(outcomes))[type]
               /\ made.per_type[type]["false_negatives"] = Typed(Misses(outcomes))[type]
    <3> HIDE DEF made, Types
    <3> QED
      BY <2>1, CountsByKind
  <2>3. \A K : Typed(K) = [type \in Types |-> Typed(K)[type]]
    OBVIOUS
  <2> HIDE DEF made, Types, Typed
  <2> QED
    BY <2>1, <2>2, <2>3
<1>2. ASSUME NEW K, DOMAIN K = D,
             \A k \in D : /\ K[k] \subseteq Either(k)
      PROVE  SumFunction(Typed(K)) = InAll(K)
  <2>1. IsFiniteSet(D) /\ IsFiniteSet(Types)
    BY TypesAreFinite DEF FiniteOutcomes
  <2>2. \A k \in D : IsFiniteSet(K[k])
    BY <1>2, FS_Union, FS_Subset DEF FiniteOutcomes
  <2>3. \A k \in D : TypesIn(K[k]) \subseteq Types
    BY <1>2 DEF TypesIn, AllTypes
  <2> HIDE DEF D, Types
  <2> QED
    BY <1>2, <2>1, <2>2, <2>3, TypesAddUp DEF InAll
<1>3. /\ SumFunction(Typed(Hits(outcomes))) = InAll(Hits(outcomes))
      /\ SumFunction(Typed(Alarms(outcomes))) = InAll(Alarms(outcomes))
      /\ SumFunction(Typed(Misses(outcomes))) = InAll(Misses(outcomes))
  <2>1. /\ DOMAIN Hits(outcomes) = D
        /\ \A k \in D : Hits(outcomes)[k] \subseteq Either(k)
    BY DEF Hits
  <2>2. /\ DOMAIN Alarms(outcomes) = D
        /\ \A k \in D : Alarms(outcomes)[k] \subseteq Either(k)
    BY DEF Alarms
  <2>3. /\ DOMAIN Misses(outcomes) = D
        /\ \A k \in D : Misses(outcomes)[k] \subseteq Either(k)
    BY DEF Misses
  <2> HIDE DEF Typed, D
  <2> QED
    BY <1>2, <2>1, <2>2, <2>3
<1> HIDE DEF Typed, made
<1> QED
  BY <1>1, <1>3 DEF Total, made

IsSplit(whole, part, rest) == whole = part \cup rest /\ part \cap rest = {}

\* Sets that are split stay so when they are tagged.
LEMMA TaggedParts ==
    ASSUME NEW S, NEW F, NEW G, NEW H, \A x \in S : IsSplit(F[x], G[x], H[x])
    PROVE  IsSplit(Tagged(F, S), Tagged(G, S), Tagged(H, S))
<1>1. ASSUME NEW z PROVE z \in Tagged(F, S) <=> z \in Tagged(G, S) \/ z \in Tagged(H, S)
  <2>1. \A x \in S : \A y : y \in F[x] <=> y \in G[x] \/ y \in H[x]
    BY DEF IsSplit
  <2> QED
    BY <2>1, TaggedMembers
<1>2. ASSUME NEW z PROVE ~(z \in Tagged(G, S) /\ z \in Tagged(H, S))
  <2> SUFFICES ASSUME z \in Tagged(G, S), z \in Tagged(H, S) PROVE FALSE
    OBVIOUS
  <2>1. PICK x \in S : \E y \in G[x] : z = <<x, y>>
    BY TaggedMembers
  <2>2. PICK w \in S : \E y \in H[w] : z = <<w, y>>
    BY TaggedMembers
  <2> QED
    BY <2>1, <2>2 DEF IsSplit
<1> QED
  BY <1>1, <1>2 DEF IsSplit

\* Nothing is tagged just when there is nothing to tag.
LEMMA NoneTagged ==
    ASSUME NEW S, NEW F
    PROVE  Tagged(F, S) = {} <=> \A x \in S : F[x] = {}
<1>1. \A x \in S : \A y \in F[x] : <<x, y>> \in Tagged(F, S)
  BY TaggedMembers
<1>2. \A z \in Tagged(F, S) : \E x \in S : \E y \in F[x] : z = <<x, y>>
  BY TaggedMembers
<1> QED
  BY <1>1, <1>2

\* The detected are the hits and the alarms, the seeded the hits and the misses.
LEMMA OutcomesSplit ==
    ASSUME NEW outcomes, FiniteOutcomes(outcomes)
    PROVE  /\ InAll(Hits(outcomes)) \in Nat
           /\ InAll(Alarms(outcomes)) \in Nat
           /\ InAll(Misses(outcomes)) \in Nat
           /\ InAll(Hits(outcomes)) + InAll(Alarms(outcomes))
                  = SumFunction([k \in DOMAIN outcomes |-> Cardinality(outcomes[k].detected)])
           /\ InAll(Hits(outcomes)) + InAll(Misses(outcomes))
                  = SumFunction([k \in DOMAIN outcomes |-> Cardinality(outcomes[k].seeded)])
           /\ InAll(Alarms(outcomes)) = 0 /\ InAll(Misses(outcomes)) = 0
                  <=> \A k \in DOMAIN outcomes : outcomes[k].detected = outcomes[k].seeded
<1> DEFINE D == DOMAIN outcomes
           detected == [k \in D |-> outcomes[k].detected]
           seeded == [k \in D |-> outcomes[k].seeded]
           hits == Tagged(Hits(outcomes), D)
           alarms == Tagged(Alarms(outcomes), D)
           misses == Tagged(Misses(outcomes), D)
<1>1. /\ InAll(Hits(outcomes)) = Cardinality(hits)
      /\ InAll(Alarms(outcomes)) = Cardinality(alarms)
      /\ InAll(Misses(outcomes)) = Cardinality(misses)
  BY DEF InAll, Hits, Alarms, Misses
<1>2. IsFiniteSet(hits) /\ IsFiniteSet(alarms) /\ IsFiniteSet(misses)
  <2>1. IsFiniteSet(D)
    BY DEF FiniteOutcomes
  <2>2. \A k \in D : /\ IsFiniteSet(Hits(outcomes)[k])
                     /\ IsFiniteSet(Alarms(outcomes)[k])
                     /\ IsFiniteSet(Misses(outcomes)[k])
    BY FS_Subset DEF FiniteOutcomes, Hits, Alarms, Misses
  <2> HIDE DEF D
  <2> QED
    BY <2>1, <2>2, SizesAddUp
<1>3. /\ SumFunction([k \in D |-> Cardinality(outcomes[k].detected)])
             = Cardinality(Tagged(detected, D))
      /\ SumFunction([k \in D |-> Cardinality(outcomes[k].seeded)])
             = Cardinality(Tagged(seeded, D))
  <2>1. IsFiniteSet(D) /\ \A k \in D : IsFiniteSet(detected[k]) /\ IsFiniteSet(seeded[k])
    BY DEF FiniteOutcomes
  <2>2. /\ [k \in D |-> Cardinality(outcomes[k].detected)]
               = [k \in D |-> Cardinality(detected[k])]
        /\ [k \in D |-> Cardinality(outcomes[k].seeded)]
               = [k \in D |-> Cardinality(seeded[k])]
    OBVIOUS
  <2> HIDE DEF D, detected, seeded
  <2> QED
    BY <2>1, <2>2, SizesAddUp
<1>4. /\ Tagged(detected, D) = hits \cup alarms /\ hits \cap alarms = {}
      /\ Tagged(seeded, D) = hits \cup misses /\ hits \cap misses = {}
  <2>1. \A k \in D : /\ IsSplit(detected[k], Hits(outcomes)[k], Alarms(outcomes)[k])
                     /\ IsSplit(seeded[k], Hits(outcomes)[k], Misses(outcomes)[k])
    BY DEF Hits, Alarms, Misses, IsSplit
  <2> HIDE DEF D, detected, seeded
  <2>2. IsSplit(Tagged(detected, D), hits, alarms) /\ IsSplit(Tagged(seeded, D), hits, misses)
    BY <2>1, TaggedParts
  <2> QED
    BY <2>2 DEF IsSplit
<1>5. alarms = {} /\ misses = {}
          <=> \A k \in DOMAIN outcomes : outcomes[k].detected = outcomes[k].seeded
  <2>1. /\ alarms = {} <=> \A k \in D : Alarms(outcomes)[k] = {}
        /\ misses = {} <=> \A k \in D : Misses(outcomes)[k] = {}
    BY NoneTagged
  <2>2. \A k \in D : Alarms(outcomes)[k] = {} /\ Misses(outcomes)[k] = {}
                        <=> outcomes[k].detected = outcomes[k].seeded
    BY DEF Alarms, Misses
  <2> HIDE DEF alarms, misses
  <2> QED
    BY <2>1, <2>2
<1> HIDE DEF D, detected, seeded, hits, alarms, misses
<1>6. /\ Cardinality(hits) \in Nat /\ Cardinality(alarms) \in Nat /\ Cardinality(misses) \in Nat
      /\ Cardinality(alarms) = 0 <=> alarms = {}
      /\ Cardinality(misses) = 0 <=> misses = {}
      /\ Cardinality({}) = 0
  BY <1>2, FS_CardinalityType, FS_EmptySet
<1>7. /\ Cardinality(hits \cup alarms) = Cardinality(hits) + Cardinality(alarms)
      /\ Cardinality(hits \cup misses) = Cardinality(hits) + Cardinality(misses)
  <2>1. /\ Cardinality(hits \cup alarms)
               = Cardinality(hits) + Cardinality(alarms) - Cardinality({})
        /\ Cardinality(hits \cup misses)
               = Cardinality(hits) + Cardinality(misses) - Cardinality({})
    BY <1>2, <1>4, FS_Union
  <2> QED
    BY <1>6, <2>1
<1> QED
  BY <1>1, <1>3, <1>4, <1>5, <1>6, <1>7 DEF D

\* F1 is 1 just when there are no false alarms and no misses, also where there
\* is nothing at all.
LEMMA PerfectF1 ==
    ASSUME NEW tp \in Nat, NEW fp \in Nat, NEW fn \in Nat
    PROVE  IsOne(F1(Share(tp, fp), Share(tp, fn))) <=> fp = 0 /\ fn = 0
<1>1. CASE tp = 0
  BY <1>1 DEF IsOne, F1, Share
<1>2. CASE tp > 0
  <2>1. Share(tp, fp) = <<tp, tp + fp>> /\ Share(tp, fn) = <<tp, tp + fn>>
    BY <1>2 DEF Share
  <2>2. IsOne(F1(Share(tp, fp), Share(tp, fn)))
            <=> 2 * tp * tp = tp * (tp + fn) + tp * (tp + fp)
    BY <1>2, <2>1 DEF IsOne, F1
  <2>3. tp * (tp + fn) + tp * (tp + fp) = 2 * tp * tp + tp * (fn + fp)
    BY Z3
  <2>4. tp * (fn + fp) = 0 <=> fn + fp = 0
    BY <1>2, Z3
  <2>5. 2 * tp * tp \in Nat /\ tp * (fn + fp) \in Nat
    BY Z3
  <2> QED
    BY <2>2, <2>3, <2>4, <2>5
<1> QED
  BY <1>1, <1>2

\* The counts of one type are numbers.
LEMMA CountsAreNumbers ==
    ASSUME NEW outcomes, FiniteOutcomes(outcomes), NEW type
    PROVE  TypeMetrics(outcomes, type) \in
               [true_positives : Nat, false_positives : Nat, false_negatives : Nat]
<1> DEFINE D == DOMAIN outcomes
<1>1. ASSUME NEW K, \A k \in D : IsFiniteSet(K[k])
      PROVE  SumFunction([k \in D |-> Cardinality(OfType(K[k], type))]) \in Nat
  <2> DEFINE F == [k \in D |-> OfType(K[k], type)]
  <2>1. IsFiniteSet(D) /\ \A k \in D : IsFiniteSet(F[k])
    BY <1>1, FS_Subset DEF FiniteOutcomes, OfType
  <2>2. [k \in D |-> Cardinality(OfType(K[k], type))] = [k \in D |-> Cardinality(F[k])]
    OBVIOUS
  <2> HIDE DEF D, F
  <2> QED
    BY <2>1, <2>2, SizesAddUp, FS_CardinalityType
<1>2. \A k \in D : /\ IsFiniteSet(Hits(outcomes)[k])
                   /\ IsFiniteSet(Alarms(outcomes)[k])
                   /\ IsFiniteSet(Misses(outcomes)[k])
  BY FS_Subset DEF FiniteOutcomes, Hits, Alarms, Misses
<1>3. /\ SumFunction([k \in D |-> Cardinality(OfType(Hits(outcomes)[k], type))]) \in Nat
      /\ SumFunction([k \in D |-> Cardinality(OfType(Alarms(outcomes)[k], type))]) \in Nat
      /\ SumFunction([k \in D |-> Cardinality(OfType(Misses(outcomes)[k], type))]) \in Nat
  <2> HIDE DEF D
  <2> QED
    BY <1>1, <1>2
<1>4. TypeMetrics(outcomes, type) =
          [true_positives |-> TypeMetrics(outcomes, type)["true_positives"],
           false_positives |-> TypeMetrics(outcomes, type)["false_positives"],
           false_negatives |-> TypeMetrics(outcomes, type)["false_negatives"]]
  BY DEF TypeMetrics
<1> QED
  BY <1>3, <1>4, CountsByKind
-----------------------------------------------------------------------------
(* The evaluation harness. *)

\* The results so far are those of the first cases, which could be read, and the
\* report is made of the results of all.
SuiteInv ==
    /\ cases \in Suites
    /\ raised \in BOOLEAN
    /\ results \in Seq({CaseResult(case) : case \in Cases})
    /\ Len(results) <= Len(cases)
    /\ \A k \in 1 .. Len(results) : /\ results[k] = CaseResult(cases[k])
                                    /\ IsReadable(cases[k])
    /\ raised => \E k \in DOMAIN cases : ~IsReadable(cases[k])
    /\ report # None => /\ Len(results) = Len(cases)
                        /\ report = ComputeMetrics(results, Len(results))

LEMMA SuiteInvInit == SuiteInit => SuiteInv
<1> SUFFICES ASSUME SuiteInit PROVE SuiteInv
  OBVIOUS
<1>1. cases \in Seq(Cases) /\ Len(cases) \in Nat
  BY SuitesAssumption DEF SuiteInit
<1>2. \A S : results \in Seq(S)
  BY DEF SuiteInit
<1>3. Len(results) = 0 /\ \A k \in 1 .. Len(results) : FALSE
  BY DEF SuiteInit
<1>4. Len(results) <= Len(cases)
  BY <1>1, <1>3
<1> QED
  BY <1>2, <1>3, <1>4 DEF SuiteInit, SuiteInv

LEMMA SuiteInvStep == SuiteInv /\ [SuiteNext]_suiteVars => SuiteInv'
<1> SUFFICES ASSUME SuiteInv, [SuiteNext]_suiteVars PROVE SuiteInv'
  OBVIOUS
<1>1. /\ cases \in Seq(Cases) /\ Len(cases) \in Nat /\ Len(results) \in Nat
      /\ DOMAIN cases = 1 .. Len(cases)
  BY SuitesAssumption DEF SuiteInv
<1>2. CASE RunCase
  <2>1. Len(results) < Len(cases) /\ Len(results) + 1 \in DOMAIN cases
    BY <1>1, <1>2 DEF RunCase, Running
  <2>2. CurrentCase \in Cases
    BY <1>1, <2>1 DEF CurrentCase
  <2>3. report = None
    BY <1>1, <2>1 DEF SuiteInv
  <2>4. /\ results' \in Seq({CaseResult(case) : case \in Cases})
        /\ Len(results') = Len(results) + 1
        /\ \A k \in 1 .. Len(results) : results'[k] = results[k]
        /\ results'[Len(results) + 1] = CaseResult(CurrentCase)
    <3> DEFINE outcome == CaseResult(CurrentCase)
               S == {CaseResult(case) : case \in Cases}
    <3>1. outcome \in S /\ results \in Seq(S) /\ results' = Append(results, outcome)
      BY <1>2, <2>2 DEF RunCase, SuiteInv
    <3> HIDE DEF outcome, S
    <3>2. /\ results' \in Seq(S) /\ Len(results') = Len(results) + 1
          /\ \A k \in 1 .. Len(results) : results'[k] = results[k]
          /\ results'[Len(results) + 1] = outcome
      BY <3>1
    <3> QED
      BY <3>2 DEF outcome, S
  <2>5. ASSUME NEW k \in 1 .. Len(results')
        PROVE  results'[k] = CaseResult(cases[k]) /\ IsReadable(cases[k])
    <3>1. k \in 1 .. Len(results) \/ k = Len(results) + 1
      BY <1>1, <2>4
    <3> QED
      BY <1>2, <2>4, <3>1 DEF RunCase, CurrentCase, SuiteInv
  <2>6. Len(results') <= Len(cases)
    BY <1>1, <2>1, <2>4
  <2> QED
    BY <1>2, <2>3, <2>4, <2>5, <2>6 DEF RunCase, SuiteInv
<1>3. CASE RunCaseFails
  <2>1. \E k \in DOMAIN cases : ~IsReadable(cases[k])
    BY <1>1, <1>3 DEF RunCaseFails, Running, CurrentCase
  <2> QED
    BY <1>3, <2>1 DEF RunCaseFails, SuiteInv
<1>4. CASE Report
  BY <1>4 DEF Report, SuiteInv
<1>5. CASE UNCHANGED suiteVars
  BY <1>5 DEF suiteVars, SuiteInv
<1> QED
  BY <1>2, <1>3, <1>4, <1>5 DEF SuiteNext, Ended

\* The invariant of the harness holds.
LEMMA SuiteInvHolds == SuiteSpec => []SuiteInv
BY SuiteInvInit, SuiteInvStep, PTL DEF SuiteSpec

\* A suite one of whose cases cannot be read gets no report, and one whose cases
\* can all be read does not fail (harness.py:97-98).
THEOREM BrokenSuitesFail == SuiteSpec => []BrokenSuiteFails
<1>1. ASSUME SuiteInv PROVE BrokenSuiteFails
  <2>1. DOMAIN cases = 1 .. Len(cases)
    BY <1>1, SuitesAssumption DEF SuiteInv
  <2>2. ASSUME report # None
        PROVE  report.total_cases = Len(cases) /\ \A k \in DOMAIN cases : IsReadable(cases[k])
    BY <1>1, <2>1, <2>2 DEF SuiteInv, ComputeMetrics
  <2>3. raised => \E k \in DOMAIN cases : ~IsReadable(cases[k])
    BY <1>1 DEF SuiteInv
  <2> QED
    BY <2>2, <2>3 DEF BrokenSuiteFails
<1> QED
  BY <1>1, SuiteInvHolds, PTL

\* What is found in a case that was read is known by finitely many keys, of the
\* types there are.
LEMMA OutcomeOfACase ==
    ASSUME NEW case \in Cases, IsReadable(case)
    PROVE  LET outcome == CaseResult(case)
           IN /\ IsFiniteSet(outcome.detected) /\ IsFiniteSet(outcome.seeded)
              /\ TypesIn(outcome.detected \cup outcome.seeded) \subseteq DiscrepancyTypes
<1> DEFINE found == FoundIn(case)
           Key(n) == <<found[n].type, found[n].invoice_line_no>>
           keys == {Key(n) : n \in DOMAIN found}
           f == [n \in DOMAIN found |-> Key(n)]
<1>1. CaseResult(case).detected = keys /\ CaseResult(case).seeded = case.seeded
  BY DEF CaseResult
<1>2. found \in Seq(Findings)
  <2>1. Billed(CaseInvoice(case)) /\ Carded(CaseContract(case))
    BY CasesAssumption DEF Billed, Carded
  <2>2. 6 \in Turns
    BY DEF Turns
  <2>3. Evaluate(CaseInvoice(case), CaseContract(case)) \in Seq(Findings)
    BY <2>1, <2>2, CollectedTurnByTurn
  <2> QED
    BY <2>3 DEF FoundIn
<1> HIDE DEF found
<1>3. ASSUME NEW n \in DOMAIN found PROVE Key(n)[1] \in DiscrepancyTypes
  <2>1. found[n] \in Findings
    BY <1>2
  <2> QED
    BY <2>1 DEF Findings, FindingTypes, DiscrepancyTypes
<1>4. IsFiniteSet(keys)
  <2>1. IsFiniteSet(DOMAIN found)
    BY <1>2, FS_Interval
  <2>2. f \in Surjection(DOMAIN found, keys)
    BY DEF Surjection
  <2> HIDE DEF keys, f
  <2> QED
    BY <2>1, <2>2, FS_Surjection
<1>5. \A key \in case.seeded : key[1] \in DiscrepancyTypes
  BY CasesAssumption
<1>6. \A key \in keys : key[1] \in DiscrepancyTypes
  BY <1>3
<1>7. IsFiniteSet(case.seeded)
  BY CasesAssumption
<1> HIDE DEF keys
<1> QED
  BY <1>1, <1>4, <1>5, <1>6, <1>7 DEF TypesIn

LEMMA OutcomesOfTheSuite ==
    ASSUME SuiteInv
    PROVE  /\ FiniteOutcomes(results)
           /\ AllTypes(results) \subseteq DiscrepancyTypes
           /\ DOMAIN results = 1 .. Len(results)
<1>1. /\ DOMAIN results = 1 .. Len(results) /\ Len(results) \in Nat
      /\ IsFiniteSet(DOMAIN results)
  BY FS_Interval DEF SuiteInv
<1>2. ASSUME NEW k \in DOMAIN results
      PROVE  /\ IsFiniteSet(results[k].detected) /\ IsFiniteSet(results[k].seeded)
             /\ TypesIn(results[k].detected \cup results[k].seeded) \subseteq DiscrepancyTypes
  <2>1. cases[k] \in Cases /\ results[k] = CaseResult(cases[k]) /\ IsReadable(cases[k])
    BY <1>1, SuitesAssumption DEF SuiteInv
  <2> QED
    BY <2>1, OutcomeOfACase
<1> QED
  BY <1>1, <1>2 DEF FiniteOutcomes, AllTypes

\* A report counts findings of the types there are, in natural numbers
\* (metrics.py:119-146).
THEOREM SuiteTypes == SuiteSpec => []SuiteTypeOK
<1>1. ASSUME SuiteInv PROVE SuiteTypeOK
  <2>1. ASSUME report # None
        PROVE  /\ DOMAIN report.per_type \subseteq DiscrepancyTypes
               /\ \A type \in DOMAIN report.per_type :
                      report.per_type[type] \in
                          [true_positives : Nat, false_positives : Nat, false_negatives : Nat]
    <3>1. report = ComputeMetrics(results, Len(results))
      BY <1>1, <2>1 DEF SuiteInv
    <3>2. /\ DOMAIN report.per_type = AllTypes(results)
          /\ \A type \in AllTypes(results) : report.per_type[type] = TypeMetrics(results, type)
      BY <3>1 DEF ComputeMetrics
    <3> QED
      BY <1>1, <3>2, OutcomesOfTheSuite, CountsAreNumbers
  <2> QED
    BY <1>1, <2>1 DEF SuiteTypeOK, SuiteInv
<1> QED
  BY <1>1, SuiteInvHolds, PTL

\* The counts of a report account for every finding once: hits and false alarms
\* are all that was detected, hits and misses all that was seeded
\* (metrics.py:119-146).
THEOREM CountsAreConserved == SuiteSpec => []CountsConserve
<1>1. ASSUME SuiteInv, report # None
      PROVE  LET hits == Total(report, "true_positives")
             IN /\ hits + Total(report, "false_positives") = SumFunction(Detected)
                /\ hits + Total(report, "false_negatives") = SumFunction(Seeded)
  <2>1. FiniteOutcomes(results) /\ report = ComputeMetrics(results, Len(results))
    BY <1>1, OutcomesOfTheSuite DEF SuiteInv
  <2> QED
    BY <2>1, TotalsCount, OutcomesSplit DEF Detected, Seeded
<1>2. SuiteInv => CountsConserve
  BY <1>1 DEF CountsConserve
<1> QED
  BY <1>2, SuiteInvHolds, PTL

\* A perfect score is given to exact detection only: the F1 of a report is 1 just
\* when every case detects what is planted in it (metrics.py:19-23, 42-52).
THEOREM PerfectIsExact == SuiteSpec => []PerfectMeansExact
<1>1. ASSUME SuiteInv, report # None
      PROVE  IsOne(ReportF1(report)) <=>
                 \A k \in DOMAIN cases :
                     LET found == FoundIn(cases[k])
                     IN cases[k].seeded =
                            {<<found[n].type, found[n].invoice_line_no>> : n \in DOMAIN found}
  <2> DEFINE tp == InAll(Hits(results))
             fp == InAll(Alarms(results))
             fn == InAll(Misses(results))
  <2>1. FiniteOutcomes(results) /\ report = ComputeMetrics(results, Len(results))
    BY <1>1, OutcomesOfTheSuite DEF SuiteInv
  <2>2. /\ Total(report, "true_positives") = tp
        /\ Total(report, "false_positives") = fp
        /\ Total(report, "false_negatives") = fn
    BY <2>1, TotalsCount
  <2>3. /\ tp \in Nat /\ fp \in Nat /\ fn \in Nat
        /\ fp = 0 /\ fn = 0 <=> \A k \in DOMAIN results : results[k].detected = results[k].seeded
    BY <2>1, OutcomesSplit
  <2> HIDE DEF tp, fp, fn
  <2>4. IsOne(ReportF1(report)) <=> fp = 0 /\ fn = 0
    BY <2>2, <2>3, PerfectF1 DEF ReportF1, Precision, Recall
  <2>5. DOMAIN results = DOMAIN cases
    BY <1>1, OutcomesOfTheSuite, SuitesAssumption DEF SuiteInv
  <2>6. ASSUME NEW k \in DOMAIN cases
        PROVE  results[k].detected = results[k].seeded <=>
                   LET found == FoundIn(cases[k])
                   IN cases[k].seeded =
                          {<<found[n].type, found[n].invoice_line_no>> : n \in DOMAIN found}
    <3>1. results[k] = CaseResult(cases[k])
      BY <1>1, <2>5, OutcomesOfTheSuite DEF SuiteInv
    <3> QED
      BY <3>1 DEF CaseResult
  <2> QED
    BY <2>3, <2>4, <2>5, <2>6
<1>2. SuiteInv => PerfectMeansExact
  BY <1>1 DEF PerfectMeansExact
<1> QED
  BY <1>2, SuiteInvHolds, PTL
-----------------------------------------------------------------------------
(* The keys of what is found. *)

\* The keys of the findings of a sequence.
KeysOf(found) == {<<found[n].type, found[n].invoice_line_no>> : n \in DOMAIN found}

\* The keys of findings of one type on these lines.
KeysOn(type, flagged) == {<<type, k>> : k \in flagged}

\* The keys of two sequences of findings, one after the other.
LEMMA KeysJoined ==
    ASSUME NEW S, NEW s \in Seq(S), NEW t \in Seq(S)
    PROVE  KeysOf(s \o t) = KeysOf(s) \cup KeysOf(t)
<1>1. /\ DOMAIN s = 1 .. Len(s) /\ DOMAIN t = 1 .. Len(t) /\ Len(s) \in Nat /\ Len(t) \in Nat
      /\ DOMAIN (s \o t) = 1 .. Len(s) + Len(t)
      /\ \A n \in DOMAIN s : (s \o t)[n] = s[n]
      /\ \A n \in DOMAIN t : (s \o t)[Len(s) + n] = t[n]
  OBVIOUS
<1> DEFINE both == s \o t
           Key(f) == <<f.type, f.invoice_line_no>>
<1>2. /\ KeysOf(both) = {Key(both[n]) : n \in DOMAIN both}
      /\ KeysOf(s) = {Key(s[n]) : n \in DOMAIN s}
      /\ KeysOf(t) = {Key(t[n]) : n \in DOMAIN t}
  BY DEF KeysOf
<1> HIDE DEF both, Key
<1>3. ASSUME NEW n \in DOMAIN both
      PROVE  (\E m \in DOMAIN s : both[n] = s[m]) \/ (\E m \in DOMAIN t : both[n] = t[m])
  <2>1. CASE n \in DOMAIN s
    BY <1>1, <2>1 DEF both
  <2>2. CASE n \notin DOMAIN s
    <3>1. n - Len(s) \in DOMAIN t /\ Len(s) + (n - Len(s)) = n
      BY <1>1, <2>2 DEF both
    <3> QED
      BY <1>1, <3>1 DEF both
  <2> QED
    BY <2>1, <2>2
<1>4. \A m \in DOMAIN s : \E n \in DOMAIN both : both[n] = s[m]
  BY <1>1 DEF both
<1>5. \A m \in DOMAIN t : \E n \in DOMAIN both : both[n] = t[m]
  <2> TAKE m \in DOMAIN t
  <2>1. Len(s) + m \in DOMAIN both
    BY <1>1 DEF both
  <2> QED
    BY <1>1, <2>1 DEF both
<1> QED
  BY <1>2, <1>3, <1>4, <1>5 DEF both

\* The keys of a rule's findings are its type on the numbers it reports.
LEMMA KeysReported ==
    ASSUME NEW outcome, NEW type, NEW nos, Reports(outcome, type, nos)
    PROVE  KeysOf(outcome.findings) = KeysOn(type, nos)
BY DEF Reports, KeysOf, KeysOn

\* What is found where no rule raises: each rule's type on the lines it flags.
LEMMA KeysOfAll ==
    ASSUME NEW inv, Billed(inv), NEW c, Carded(c),
           ~ArithmeticRule(inv, c).raised, ~MissedVolumeDiscountRule(inv, c).raised
    PROVE  LET KeysAt(type, lines) == KeysOn(type, LineNos(inv, lines))
           IN KeysOf(Evaluate(inv, c)) =
                  ((((KeysAt("CURRENCY_MISMATCH", ElsewhereBilled(inv, c))
                  \cup KeysAt("ARITHMETIC_ERROR", MisTotalled(inv)))
                  \cup KeysAt("RATE_MISMATCH", Overcharged(inv, c)))
                  \cup KeysAt("MISSED_VOLUME_DISCOUNT", Undiscounted(inv, c)))
                  \cup KeysOn("OUT_OF_TERM", Expired(inv, c)))
                  \cup KeysAt("UNCONTRACTED_ITEM", Uncontracted(inv, c))
<1> DEFINE f == Found(inv, c)
           two == f[1] \o f[2]
           three == two \o f[3]
           four == three \o f[4]
           five == four \o f[5]
           Nos(lines) == LineNos(inv, lines)
<1>1. /\ \A t \in Turns : f[t] \in Seq(Findings)
      /\ Evaluate(inv, c) = five \o f[6]
  BY EvaluateJoins
<1>2. \A t \in Turns : f[t] = Outcome(DefaultRules[t], inv, c).findings
  BY CollectedTurnByTurn
<1>3. Raised.raised
  BY DEF Raised
<1>4. /\ Reports(ArithmeticRule(inv, c), "ARITHMETIC_ERROR", Nos(MisTotalled(inv)))
      /\ Reports(MissedVolumeDiscountRule(inv, c), "MISSED_VOLUME_DISCOUNT",
                 Nos(Undiscounted(inv, c)))
      /\ Reports(RateMismatchRule(inv, c), "RATE_MISMATCH", Nos(Overcharged(inv, c)))
  BY <1>3, ArithmeticReports, MissedVolumeDiscountReports, RateMismatchReports DEF Claims
<1>5. /\ KeysOf(CurrencyMismatchRule(inv, c).findings)
             = KeysOn("CURRENCY_MISMATCH", Nos(ElsewhereBilled(inv, c)))
      /\ KeysOf(ArithmeticRule(inv, c).findings)
             = KeysOn("ARITHMETIC_ERROR", Nos(MisTotalled(inv)))
      /\ KeysOf(RateMismatchRule(inv, c).findings)
             = KeysOn("RATE_MISMATCH", Nos(Overcharged(inv, c)))
      /\ KeysOf(MissedVolumeDiscountRule(inv, c).findings)
             = KeysOn("MISSED_VOLUME_DISCOUNT", Nos(Undiscounted(inv, c)))
      /\ KeysOf(OutOfTermRule(inv, c).findings) = KeysOn("OUT_OF_TERM", Expired(inv, c))
      /\ KeysOf(UncontractedItemRule(inv, c).findings)
             = KeysOn("UNCONTRACTED_ITEM", Nos(Uncontracted(inv, c)))
  BY <1>4, KeysReported, CurrencyMismatchReports, OutOfTermReports, UncontractedItemReports
<1>6. /\ f[1] = CurrencyMismatchRule(inv, c).findings /\ f[2] = ArithmeticRule(inv, c).findings
      /\ f[3] = RateMismatchRule(inv, c).findings
      /\ f[4] = MissedVolumeDiscountRule(inv, c).findings
      /\ f[5] = OutOfTermRule(inv, c).findings /\ f[6] = UncontractedItemRule(inv, c).findings
  <2>1. 1 \in Turns /\ 2 \in Turns /\ 3 \in Turns /\ 4 \in Turns /\ 5 \in Turns /\ 6 \in Turns
    BY DEF Turns
  <2> HIDE DEF f
  <2> QED
    BY <1>2, <2>1, SixRules
<1> HIDE DEF f
<1>7. /\ f[1] \in Seq(Findings) /\ f[2] \in Seq(Findings) /\ f[3] \in Seq(Findings)
      /\ f[4] \in Seq(Findings) /\ f[5] \in Seq(Findings) /\ f[6] \in Seq(Findings)
  BY <1>1 DEF Turns
<1>8. two \in Seq(Findings) /\ KeysOf(two) = KeysOf(f[1]) \cup KeysOf(f[2])
  BY <1>7, KeysJoined
<1> HIDE DEF two
<1>9. three \in Seq(Findings) /\ KeysOf(three) = KeysOf(two) \cup KeysOf(f[3])
  BY <1>7, <1>8, KeysJoined
<1> HIDE DEF three
<1>10. four \in Seq(Findings) /\ KeysOf(four) = KeysOf(three) \cup KeysOf(f[4])
  BY <1>7, <1>9, KeysJoined
<1> HIDE DEF four
<1>11. five \in Seq(Findings) /\ KeysOf(five) = KeysOf(four) \cup KeysOf(f[5])
  BY <1>7, <1>10, KeysJoined
<1> HIDE DEF five
<1>12. KeysOf(five \o f[6]) = KeysOf(five) \cup KeysOf(f[6])
  BY <1>7, <1>11, KeysJoined
<1>13. KeysOf(Evaluate(inv, c)) =
           ((((KeysOf(f[1]) \cup KeysOf(f[2])) \cup KeysOf(f[3])) \cup KeysOf(f[4]))
               \cup KeysOf(f[5])) \cup KeysOf(f[6])
  BY <1>1, <1>8, <1>9, <1>10, <1>11, <1>12
<1> QED
  BY <1>5, <1>6, <1>13
-----------------------------------------------------------------------------
(* The built-in cases as the extractors read them. *)

\* Every column stands in the table, which is more than the three it takes.
LEMMA TextsAreTables ==
    ASSUME NEW id, NEW vendor, NEW day, NEW currency, NEW rows
    PROVE  IsTable(InvoiceText(id, vendor, day, currency, rows).written)
<1> DEFINE three == ({"line"} \cup {"sku"}) \cup {"qty"}
<1>1. IsFiniteSet(three) /\ Cardinality(three) = 3
  <2>1. IsFiniteSet({"line"}) /\ Cardinality({"line"}) = 1
    BY FS_Singleton
  <2>2. "sku" \notin {"line"} /\ "qty" \notin {"line"} \cup {"sku"}
    OBVIOUS
  <2>3. IsFiniteSet({"line"} \cup {"sku"}) /\ Cardinality({"line"} \cup {"sku"}) = 2
    BY <2>1, <2>2, FS_AddElement
  <2> QED
    BY <2>2, <2>3, FS_AddElement
<1>2. IsFiniteSet(RequiredColumns)
  <2> DEFINE f == <<"line", "sku", "description", "qty", "unit_rate", "line_total">>
  <2>1. f \in Surjection(1 .. 6, RequiredColumns)
    BY DEF Surjection, RequiredColumns
  <2>2. IsFiniteSet(1 .. 6)
    <3>1. 1 \in Int /\ 6 \in Int
      OBVIOUS
    <3> QED
      BY <3>1, FS_Interval, Zenon
  <2> HIDE DEF f
  <2> QED
    BY <2>1, <2>2, FS_Surjection
<1>3. three \subseteq RequiredColumns
  BY DEF RequiredColumns
<1>4. Cardinality(RequiredColumns) \in Nat /\ Cardinality(RequiredColumns) >= 3
  <2> HIDE DEF three
  <2> QED
    BY <1>1, <1>2, <1>3, FS_Subset, FS_CardinalityType
<1>5. InvoiceText(id, vendor, day, currency, rows).written.columns \cap RequiredColumns
          = RequiredColumns
  BY DEF InvoiceText
<1> QED
  BY <1>4, <1>5 DEF IsTable

\* A text of a built-in case is read as the invoice printed in it.
LEMMA TextsAreInvoices ==
    ASSUME NEW id, NEW vendor, NEW day, NEW currency, NEW rows,
           LET text == InvoiceText(id, vendor, day, currency, rows)
           IN /\ None # text.written
              /\ \A f \in RequiredHeader : text.above[f] \notin {None, Junk},
           rows # <<>>, \A k \in DOMAIN rows : RowParses(rows[k])
    PROVE  RuleBased(InvoiceText(id, vendor, day, currency, rows))
               = InvoiceFrom(id, vendor, day, currency, rows)
<1> DEFINE text == InvoiceText(id, vendor, day, currency, rows)
<1>1. /\ text.above["invoice_id"] = id /\ text.above["vendor"] = vendor
      /\ text.above["date"] = day /\ text.above["currency"] = currency
      /\ text.written.rows = rows /\ text.written.columns = RequiredColumns
  BY DEF InvoiceText
<1>2. IsTable(text.written)
  BY TextsAreTables
<1> HIDE DEF text
<1>3. Readable(text.written)
  BY <1>1 DEF Readable
<1>4. IsDate(day)
  BY <1>1 DEF text, IsDate, RequiredHeader
<1> QED
  BY <1>1, <1>2, <1>3, <1>4 DEF RuleBased, text

\* The field of the only line with its label.
LEMMA FieldOfALine ==
    ASSUME NEW doc, NEW N \in Nat, Len(doc.labels) = N, NEW n \in 1 .. N, NEW key,
           \A i \in 1 .. N : doc.labels[i].key = key <=> i = n
    PROVE  Field(doc, key) = doc.labels[n].value
<1> DEFINE Places == {i \in 1 .. Len(doc.labels) : doc.labels[i].key = key}
           last == SelectLastInSeq(doc.labels, LAMBDA line : line.key = key)
<1>1. Places = {n}
  OBVIOUS
<1>2. Max({n}) = n
  <2>1. \A x \in {n} : \A y \in {n} : x >= y
    OBVIOUS
  <2> QED
    BY <2>1 DEF Max
<1>3. last = n
  BY <1>1, <1>2 DEF SelectLastInSeq
<1>4. last # 0
  BY <1>3
<1>5. Field(doc, key) = IF last = 0 THEN None ELSE doc.labels[last].value
  BY DEF Field
<1> HIDE DEF last
<1> QED
  BY <1>3, <1>4, <1>5

\* The contract a text of a built-in case is read as.
ContractOfCase(id, vendor, sku, unit_rate, tiers) ==
    [contract_id |-> id, vendor_name |-> vendor,
     valid_from |-> 20260101, valid_to |-> 20261231, currency |-> "INR",
     rate_cards |-> <<[sku |-> sku, unit_rate |-> [amount |-> unit_rate, currency |-> "INR"],
                       volume_discounts |-> tiers]>>]

\* A contract text of a built-in case is read as the contract printed in it.
LEMMA TextsAreContracts ==
    ASSUME NEW id, NEW vendor, NEW sku, NEW unit_rate \in Int, NEW tiers,
           LET text == ContractText(id, vendor, sku, unit_rate, tiers)
           IN /\ \A n \in DOMAIN text.labels : text.labels[n].value \notin {None, Junk}
              /\ text.rows[1] # None /\ text.rows[1].volume_discounts # Junk
    PROVE  LET text == ContractText(id, vendor, sku, unit_rate, tiers)
           IN /\ ContractFrom(text) = ContractIn(text, "INR")
              /\ ContractFrom(text) = ContractOfCase(id, vendor, sku, unit_rate * Cent, tiers)
<1> DEFINE text == ContractText(id, vendor, sku, unit_rate, tiers)
           from == 20260101
           to == 20261231
           rate == unit_rate * Cent
           row == [sku |-> sku, unit_rate |-> rate, volume_discounts |-> tiers]
<1>1. /\ Len(text.labels) = 5 /\ DOMAIN text.labels = 1 .. 5
      /\ text.labels[1] = [key |-> "contract-id", value |-> id]
      /\ text.labels[2] = [key |-> "vendor", value |-> vendor]
      /\ text.labels[3] = [key |-> "valid-from", value |-> from]
      /\ text.labels[4] = [key |-> "valid-to", value |-> to]
      /\ text.labels[5] = [key |-> "currency", value |-> "INR"]
      /\ text.columns = ContractColumns /\ text.rows = <<row>>
  BY SMT DEF ContractText
<1>0. from <= to
  BY SMT
<1> HIDE DEF text, from, to
<1>2. \A i \in 1 .. 5 : /\ text.labels[i].key = "contract-id" <=> i = 1
                        /\ text.labels[i].key = "vendor" <=> i = 2
                        /\ text.labels[i].key = "valid-from" <=> i = 3
                        /\ text.labels[i].key = "valid-to" <=> i = 4
                        /\ text.labels[i].key = "currency" <=> i = 5
  <2> TAKE i \in 1 .. 5
  <2>1. i = 1 \/ i = 2 \/ i = 3 \/ i = 4 \/ i = 5
    OBVIOUS
  <2> QED
    BY <1>1, <2>1
<1>3. /\ Field(text, "contract-id") = text.labels[1].value
      /\ Field(text, "vendor") = text.labels[2].value
      /\ Field(text, "valid-from") = text.labels[3].value
      /\ Field(text, "valid-to") = text.labels[4].value
      /\ Field(text, "currency") = text.labels[5].value
  <2>1. ASSUME NEW key, NEW n \in 1 .. 5, \A i \in 1 .. 5 : text.labels[i].key = key <=> i = n
        PROVE  Field(text, key) = text.labels[n].value
    <3> HIDE DEF row
    <3>1. 5 \in Nat /\ Len(text.labels) = 5
      BY <1>1
    <3> QED
      BY <2>1, <3>1, FieldOfALine
  <2>2. 1 \in 1 .. 5 /\ 2 \in 1 .. 5 /\ 3 \in 1 .. 5 /\ 4 \in 1 .. 5 /\ 5 \in 1 .. 5
    OBVIOUS
  <2> QED
    BY <1>2, <2>1, <2>2
<1>4. /\ Field(text, "contract-id") = id /\ Field(text, "vendor") = vendor
      /\ Field(text, "valid-from") = from /\ Field(text, "valid-to") = to
      /\ Field(text, "currency") = "INR"
  BY <1>1, <1>3
<1>5. \A key \in ContractKeys : Field(text, key) \notin {None, Junk}
  <2>1. \A n \in 1 .. 5 : text.labels[n].value \notin {None, Junk}
    BY <1>1 DEF text
  <2>2. 1 \in 1 .. 5 /\ 2 \in 1 .. 5 /\ 3 \in 1 .. 5 /\ 4 \in 1 .. 5 /\ 5 \in 1 .. 5
    OBVIOUS
  <2> QED
    BY <1>3, <2>1, <2>2 DEF ContractKeys
<1>6. \A k \in DOMAIN text.rows : RateCardParses(text.rows[k])
  <2>1. row # None /\ tiers # Junk
    BY <1>1 DEF text
  <2>2. rate \in Int
    BY ScalesArePositive
  <2>3. RateCardParses(row)
    BY <2>1, <2>2, BuiltinAssumption DEF RateCardParses
  <2> QED
    BY <1>1, <2>3
<1>7. ReadableContract(text)
  <2>1. IsDate(Field(text, "valid-from")) /\ IsDate(Field(text, "valid-to"))
    BY <1>5 DEF IsDate, ContractKeys
  <2>2. Field(text, "valid-from") <= Field(text, "valid-to")
    BY <1>0, <1>4
  <2>3. text.rows # <<>>
    BY <1>1
  <2> QED
    BY <1>1, <1>5, <1>6, <2>1, <2>2, <2>3 DEF ReadableContract
<1>8. Upper["INR"] = "INR"
  BY PlantedErrorsAssumption
<1>9. ContractFrom(text) = ContractIn(text, "INR")
  BY <1>4, <1>7, <1>8 DEF ContractFrom
<1>10. [k \in DOMAIN text.rows |-> RateCardEntry(text.rows[k], "INR")]
           = <<[sku |-> sku, unit_rate |-> [amount |-> rate, currency |-> "INR"],
                volume_discounts |-> tiers]>>
  <2>1. DOMAIN text.rows = 1 .. 1 /\ text.rows[1] = row
    BY <1>1
  <2>2. RateCardEntry(row, "INR") =
            [sku |-> sku, unit_rate |-> [amount |-> rate, currency |-> "INR"],
             volume_discounts |-> tiers]
    BY <1>8 DEF RateCardEntry, Money
  <2> HIDE DEF row
  <2> QED
    BY <2>1, <2>2
<1> HIDE DEF row
<1> QED
  BY <1>4, <1>9, <1>10, SMT DEF ContractIn, ContractOfCase, text, from, to, rate

\* A contract in the name of the invoice's vendor is matched with it.
LEMMA NamesakesMatch ==
    ASSUME NEW inv, NEW c, inv.vendor_name = c.vendor_name, c.contract_id # None
    PROVE  IsMatched(Match(inv, <<c>>))
<1> DEFINE cands == <<c>>
<1>1. DOMAIN cands = {1} /\ cands[1] = c
  OBVIOUS
<1>2. Score(inv, c) = One
  BY DEF Score, Similarity
<1> HIDE DEF cands
<1>3. Best(inv, cands) = 1
  <2>1. /\ \A j \in DOMAIN cands : Score(inv, cands[j]) <= Score(inv, cands[1])
        /\ \A j \in 1 .. 1 - 1 : Score(inv, cands[j]) < Score(inv, cands[1])
    BY <1>1, <1>2 DEF One
  <2> QED
    BY <1>1, <2>1 DEF Best
<1>4. ~(One = 0 \/ One < MatchAccept)
  BY MatchAcceptAssumption DEF One
<1>5. Match(inv, cands) = Matched(c, One)
  BY <1>1, <1>2, <1>3, <1>4 DEF Match
<1> QED
  BY <1>5 DEF IsMatched, Matched, cands

\* The rate card, and the line, a row of a text is read as.
EntryOf(sku, unit_rate, tiers) ==
    [sku |-> sku, unit_rate |-> [amount |-> unit_rate, currency |-> "INR"],
     volume_discounts |-> tiers]

LineOf(no, sku, quantity, unit_rate, line_total, currency) ==
    [line_no |-> no, sku |-> sku, quantity |-> quantity,
     unit_rate |-> [amount |-> unit_rate, currency |-> currency],
     line_total |-> [amount |-> line_total, currency |-> currency]]

\* A contract with one rate has it for that item, and none for any other.
LEMMA OnlyRate ==
    ASSUME NEW c, NEW entry, c.rate_cards = <<entry>>, NEW sku
    PROVE  RateFor(c, sku) = IF entry.sku = sku THEN entry ELSE None
<1> DEFINE cards == c.rate_cards
           Has(k) == cards[k].sku = sku
<1>1. DOMAIN cards = {1} /\ cards[1] = entry
  OBVIOUS
<1>2. RateFor(c, sku) =
          IF \E k \in DOMAIN cards : Has(k)
          THEN cards[CHOOSE k \in DOMAIN cards : Has(k) /\ \A j \in 1 .. k - 1 : ~Has(j)]
          ELSE None
  BY DEF RateFor
<1>3. ASSUME Has(1)
      PROVE  (CHOOSE k \in DOMAIN cards : Has(k) /\ \A j \in 1 .. k - 1 : ~Has(j)) = 1
  <2>1. \A j \in 1 .. 1 - 1 : ~Has(j)
    OBVIOUS
  <2> HIDE DEF cards, Has
  <2> QED
    BY <1>1, <1>3, <2>1
<1> QED
  BY <1>1, <1>2, <1>3

\* The contract has this one rate, in rupees.
HasRate(c, sku, rate, tiers) ==
    /\ c.currency = "INR" /\ c.rate_cards = <<EntryOf(sku, rate, tiers)>>
    /\ EntryOf(sku, rate, tiers) # None

\* The line of the invoice is this one, and its number says which it is.
HasLine(inv, k, s, q, u, t, cur) ==
    k \in DOMAIN inv.line_items /\ inv.line_items[k] = LineOf(k, s, q, u, t, cur)

\* How a contract with one rate judges a line.
IsJudged(inv, c, k, sku, rate, tiers, s, q, u, t, cur) ==
    LET entry == EntryOf(sku, rate, tiers)
        expected == Quantized(q * u, Piece)
        discount == ApplicableDiscount(entry, q)
        unit == Quantized(rate * (Whole - discount), Whole)
    IN /\ k \in ElsewhereBilled(inv, c) <=> cur # "INR"
       /\ k \in MisTotalled(inv) <=> \/ t - expected > ArithmeticTolerance
                                     \/ -(t - expected) > ArithmeticTolerance
       /\ k \in Overcharged(inv, c) <=> sku = s /\ cur = "INR" /\ u > rate
       /\ k \in Undiscounted(inv, c) <=> sku = s /\ cur = "INR" /\ discount > 0 /\ u > unit
       /\ k \in Uncontracted(inv, c) <=> sku # s
       /\ ExpectedTotal(inv.line_items[k]) = expected
       /\ Comparable(inv.line_items[k], c) <=> sku = s /\ cur = "INR"
       /\ sku = s => RateFor(c, inv.line_items[k].sku) = entry
       /\ ExpectedUnit(entry, q) = unit

\* Each line is judged by the one rate as IsJudged says.
LEMMA LinesJudged ==
    ASSUME NEW inv, NEW c, NEW k, NEW sku, NEW rate, NEW tiers,
           NEW s, NEW q, NEW u, NEW t, NEW cur,
           HasRate(c, sku, rate, tiers), HasLine(inv, k, s, q, u, t, cur)
    PROVE  IsJudged(inv, c, k, sku, rate, tiers, s, q, u, t, cur)
<1> DEFINE line == inv.line_items[k]
           entry == EntryOf(sku, rate, tiers)
<1>1. /\ line.sku = s /\ line.quantity = q /\ line.unit_rate.amount = u
      /\ line.unit_rate.currency = cur /\ line.line_total.amount = t
      /\ line.line_total.currency = cur
  BY DEF LineOf, HasLine
<1>2. /\ entry.sku = sku /\ entry.unit_rate.amount = rate /\ entry.unit_rate.currency = "INR"
  BY DEF EntryOf
<1>0. /\ k \in DOMAIN inv.line_items /\ c.currency = "INR" /\ c.rate_cards = <<entry>>
      /\ entry # None
  BY DEF HasRate, HasLine
<1> HIDE DEF line, entry
<1>3. RateFor(c, line.sku) = IF sku = s THEN entry ELSE None
  BY <1>0, <1>1, <1>2, OnlyRate
<1>4. Comparable(line, c) <=> sku = s /\ cur = "INR"
  BY <1>0, <1>1, <1>2, <1>3 DEF Comparable
<1>5. ExpectedTotal(line) = Quantized(q * u, Piece)
  BY <1>1 DEF ExpectedTotal
<1>6. ExpectedUnit(entry, q)
          = Quantized(rate * (Whole - ApplicableDiscount(entry, q)), Whole)
  BY <1>2 DEF ExpectedUnit
<1>7. k \in ElsewhereBilled(inv, c) <=> cur # "INR"
  BY <1>0, <1>1 DEF ElsewhereBilled, line
<1>8. k \in MisTotalled(inv) <=> \/ t - Quantized(q * u, Piece) > ArithmeticTolerance
                                \/ -(t - Quantized(q * u, Piece)) > ArithmeticTolerance
  BY <1>0, <1>1, <1>5 DEF MisTotalled, line
<1>9. k \in Overcharged(inv, c) <=> sku = s /\ cur = "INR" /\ u > rate
  BY <1>0, <1>1, <1>2, <1>3, <1>4 DEF Overcharged, Contracted, line
<1>10. k \in Undiscounted(inv, c) <=> /\ sku = s /\ cur = "INR"
                                     /\ ApplicableDiscount(entry, q) > 0
                                     /\ u > ExpectedUnit(entry, q)
  BY <1>0, <1>1, <1>2, <1>3, <1>4 DEF Undiscounted, Discount, Discounted, line
<1>11. k \in Uncontracted(inv, c) <=> sku # s
  BY <1>0, <1>3 DEF Uncontracted, line
<1> QED
  BY <1>3, <1>4, <1>5, <1>6, <1>7, <1>8, <1>9, <1>10, <1>11, <1>1
     DEF IsJudged, line, entry

\* A bill in one currency whose lines overflow nothing makes no rule raise.
LEMMA NoRuleRaises ==
    ASSUME NEW inv, NEW c,
           \A k \in DOMAIN inv.line_items :
               LET line == inv.line_items[k]
                   entry == RateFor(c, line.sku)
               IN /\ line.unit_rate.currency = line.line_total.currency
                  /\ ~Overflows(ExpectedTotal(line))
                  /\ Comparable(line, c) => ~Overflows(ExpectedUnit(entry, line.quantity))
    PROVE  ~ArithmeticRule(inv, c).raised /\ ~MissedVolumeDiscountRule(inv, c).raised
<1>1. \A what : ~PerLine(what).raised
  BY DEF PerLine, Returns
<1>2. ~ArithmeticRule(inv, c).raised
  BY <1>1 DEF ArithmeticRule
<1>3. ~MissedVolumeDiscountRule(inv, c).raised
  BY <1>1 DEF MissedVolumeDiscountRule
<1> QED
  BY <1>2, <1>3

\* Where the lines are numbered in order, the numbers of lines are the lines.
LEMMA NumberedInOrder ==
    ASSUME NEW inv, \A k \in DOMAIN inv.line_items : inv.line_items[k].line_no = k,
           NEW flagged, flagged \subseteq DOMAIN inv.line_items
    PROVE  LineNos(inv, flagged) = flagged
BY DEF LineNos

\* A built-in case, by what is printed in it.
IsBuiltin(case, id, vendor, day, currency, rows, cid, sku, rate, tiers) ==
    /\ case \in Cases /\ \E k \in DOMAIN BuiltinCases : BuiltinCases[k] = case
    /\ case.invoice = InvoiceText(id, vendor, day, currency, rows)
    /\ case.contract = ContractText(cid, vendor, sku, rate, tiers)
    /\ rate \in Int /\ rows # <<>>
    /\ \A k \in DOMAIN rows : /\ rows[k].line \in Int /\ rows[k].quantity \in Int
                              /\ rows[k].unit_rate \in Int /\ rows[k].line_total \in Int

\* The invoice and the contract a case comes to are evaluated.
IsEvaluated(case, inv, c) ==
    /\ IsReadable(case) /\ Billed(inv) /\ Carded(c)
    /\ CaseResult(case).detected = KeysOf(Evaluate(inv, c))

\* A built-in case is read, and its invoice is matched and evaluated with its
\* contract.
LEMMA BuiltinCaseIsRead ==
    ASSUME NEW id, NEW vendor, NEW day, NEW currency, NEW rows,
           NEW cid, NEW sku, NEW rate, NEW tiers, NEW case,
           IsBuiltin(case, id, vendor, day, currency, rows, cid, sku, rate, tiers)
    PROVE  /\ IsEvaluated(case, InvoiceFrom(id, vendor, day, currency, rows),
                          ContractOfCase(cid, vendor, sku, rate * Cent, tiers))
           /\ EntryOf(sku, rate * Cent, tiers) # None
<1>0. /\ case \in Cases /\ \E k \in DOMAIN BuiltinCases : BuiltinCases[k] = case
      /\ case.invoice = InvoiceText(id, vendor, day, currency, rows)
      /\ case.contract = ContractText(cid, vendor, sku, rate, tiers)
      /\ rate \in Int /\ rows # <<>>
      /\ \A k \in DOMAIN rows : /\ rows[k].line \in Int /\ rows[k].quantity \in Int
                                /\ rows[k].unit_rate \in Int /\ rows[k].line_total \in Int
  BY DEF IsBuiltin
<1> DEFINE text == InvoiceText(id, vendor, day, currency, rows)
           doc == ContractText(cid, vendor, sku, rate, tiers)
           inv == InvoiceFrom(id, vendor, day, currency, rows)
           c == ContractOfCase(cid, vendor, sku, rate * Cent, tiers)
<1>1. /\ text.above["invoice_id"] = id /\ text.above["vendor"] = vendor
      /\ text.above["date"] = day /\ text.above["currency"] = currency
      /\ text.written.rows = rows
  BY DEF InvoiceText
<1>2. /\ doc.rows[1].volume_discounts = tiers /\ 1 \in DOMAIN doc.rows
      /\ 1 \in DOMAIN doc.labels /\ doc.labels[1].value = cid
  BY SMT DEF ContractText
<1> HIDE DEF text, doc, inv, c
<1>3. /\ None # text /\ None # text.written /\ None # doc
      /\ \A f \in RequiredHeader : text.above[f] \notin {None, Junk}
      /\ \A k \in DOMAIN rows : rows[k] # None
      /\ \A n \in DOMAIN doc.labels : doc.labels[n].value \notin {None, Junk}
      /\ doc.rows[1] # None /\ doc.rows[1].volume_discounts # Junk
      /\ None # InvoiceFrom(text.above["invoice_id"], text.above["vendor"], text.above["date"],
                            text.above["currency"], text.written.rows)
      /\ None # ContractIn(doc, "INR")
  <2>1. PICK k \in DOMAIN BuiltinCases :
            BuiltinCases[k].invoice = text /\ BuiltinCases[k].contract = doc
    BY <1>0 DEF text, doc
  <2> QED
    BY <1>1, <1>2, <2>1, BuiltinAssumption
<1>4. RuleBased(text) = inv
  <2>1. \A k \in DOMAIN rows : RowParses(rows[k])
    BY <1>0, <1>3, BuiltinAssumption DEF RowParses, FiguresParse
  <2> QED
    BY <1>0, <1>3, <2>1, TextsAreInvoices DEF text, inv
<1>5. ContractFrom(doc) = ContractIn(doc, "INR") /\ ContractFrom(doc) = c
  BY <1>0, <1>3, TextsAreContracts DEF doc, c
<1>6. inv # None /\ c # None
  BY <1>1, <1>3, <1>5 DEF inv
<1>7. CaseInvoice(case) = inv /\ CaseContract(case) = c
  BY <1>0, <1>3, <1>4, <1>5 DEF CaseInvoice, CaseContract, text, doc
<1>8. IsReadable(case)
  BY <1>6, <1>7 DEF IsReadable
<1>9. Billed(inv) /\ Carded(c)
  BY <1>0, <1>7, <1>8, CasesAssumption DEF Billed, Carded
<1>10. EntryOf(sku, rate * Cent, tiers) # None
  <2>1. c.rate_cards = <<EntryOf(sku, rate * Cent, tiers)>>
    BY SMT DEF c, ContractOfCase, EntryOf
  <2>2. c.rate_cards[1] \in RateCardEntries
    <3>1. Len(c.rate_cards) = 1
      BY <2>1
    <3> QED
      BY <1>9, <3>1 DEF Carded
  <2>3. EntryOf(sku, rate * Cent, tiers) \in RateCardEntries
    BY <2>1, <2>2
  <2> QED
    BY <2>3, NoneAssumption
<1>11. IsMatched(Match(inv, <<c>>))
  <2>1. inv.vendor_name = vendor /\ c.vendor_name = vendor /\ c.contract_id = cid
    BY SMT DEF inv, c, InvoiceFrom, ContractOfCase
  <2> QED
    BY <1>2, <1>3, <2>1, NamesakesMatch
<1>12. FoundIn(case) = Evaluate(inv, c)
  BY <1>7, <1>11 DEF FoundIn
<1>13. CaseResult(case).detected = KeysOf(FoundIn(case))
  BY DEF CaseResult, KeysOf
<1> QED
  BY <1>8, <1>9, <1>10, <1>12, <1>13 DEF inv, c, IsEvaluated

\* The discount a line of a built-in case has earned.
LEMMA DiscountsOfTheCases ==
    ASSUME NEW sku, NEW rate, NEW n \in Int
    PROVE  LET Discounts(tiers) == ApplicableDiscount(EntryOf(sku, rate, tiers), n * Piece)
           IN /\ Discounts({}) = 0
              /\ n >= 100 => Discounts(TenPercentFrom100) = 10 * Percent
              /\ n < 100 => Discounts(TenPercentFrom100) = 0
<1> DEFINE q == n * Piece
           Earned(tiers) == {0} \cup {t.discount_pct : t \in
                                {u \in tiers : q >= u.min_quantity}}
           Applicable(tiers) == ApplicableDiscount(EntryOf(sku, rate, tiers), q)
<1>0. /\ q \in Int /\ Piece \in Nat /\ 10 * Percent \in Nat
      /\ n >= 100 => q >= 100 * Piece
      /\ n < 100 => q < 100 * Piece
  BY ScalesArePositive, InProportion
<1> HIDE DEF q
<1>1. ASSUME NEW tiers, NEW best \in Int, best \in Earned(tiers),
             \A e \in Earned(tiers) : e \in Int /\ e <= best
      PROVE  Applicable(tiers) = best
  <2> DEFINE earned == Earned(tiers)
  <2>1. Applicable(tiers) = CHOOSE d \in earned : \A e \in earned : e <= d
    BY DEF ApplicableDiscount, EntryOf
  <2> HIDE DEF Earned, Applicable, earned
  <2>2. best \in earned /\ \A e \in earned : e \in Int /\ e <= best
    BY <1>1 DEF earned
  <2>3. \E d \in earned : \A e \in earned : e <= d
    BY <2>2
  <2>4. Applicable(tiers) \in earned /\ \A e \in earned : e <= Applicable(tiers)
    BY <2>1, <2>3, Zenon
  <2>5. Applicable(tiers) \in Int /\ best <= Applicable(tiers) /\ Applicable(tiers) <= best
    BY <2>2, <2>4
  <2> QED
    BY <2>5
<1>2. Earned({}) = {0}
  OBVIOUS
<1>3. n >= 100 => Earned(TenPercentFrom100) = {0, 10 * Percent}
  <2> SUFFICES ASSUME n >= 100 PROVE Earned(TenPercentFrom100) = {0, 10 * Percent}
    OBVIOUS
  <2>1. {u \in TenPercentFrom100 : q >= u.min_quantity} = TenPercentFrom100
    BY <1>0, SMT DEF TenPercentFrom100
  <2>2. {t.discount_pct : t \in TenPercentFrom100} = {10 * Percent}
    BY SMT DEF TenPercentFrom100
  <2> QED
    BY <2>1, <2>2, SMT
<1>4. n < 100 => Earned(TenPercentFrom100) = {0}
  <2> SUFFICES ASSUME n < 100 PROVE Earned(TenPercentFrom100) = {0}
    OBVIOUS
  <2>1. {u \in TenPercentFrom100 : q >= u.min_quantity} = {}
    BY <1>0, SMT DEF TenPercentFrom100
  <2> QED
    BY <2>1, SMT
<1> HIDE DEF Earned
<1>5. Applicable({}) = 0
  <2> HIDE DEF Applicable
  <2> QED
    BY <1>1, <1>2
<1>6. n >= 100 => Applicable(TenPercentFrom100) = 10 * Percent
  <2> HIDE DEF Applicable
  <2> QED
    BY <1>0, <1>1, <1>3, SMT
<1>7. n < 100 => Applicable(TenPercentFrom100) = 0
  <2> HIDE DEF Applicable
  <2> QED
    BY <1>1, <1>4, SMT
<1> QED
  BY <1>5, <1>6, <1>7 DEF q

\* Rounding leaves a whole number of cents what it is.
LEMMA QuantizedExactly ==
    ASSUME NEW m \in Int, NEW d \in Nat \ {0}
    PROVE  Quantized(d * (m * Cent), d) = m * Cent
<1>1. d * (m * Cent) = (d * Cent) * m /\ m * Cent = Cent * m /\ d * Cent \in Nat \ {0}
  BY ScalesArePositive, ProductOfPositives
<1>2. HalfEven((d * Cent) * m, d * Cent) = m
  BY <1>1, HalfEvenIsExact
<1> QED
  BY <1>1, <1>2 DEF Quantized

\* An amount up to the limit can be quantized.
LEMMA WithinTheLimit ==
    ASSUME NEW m \in Nat, m <= QuantizeLimit
    PROVE  ~Overflows(m)
BY PlantedErrorsAssumption DEF Overflows

WholeCents(amount) == \E m \in Int : amount = m * Cent

\* The one line of the invoice is for the contracted item, at no more than its
\* rate and too few for a discount; e is what it comes to.
IsOneLine(inv, sku, rate, tiers, q, u, t, cur, e) ==
    /\ inv.line_items = <<LineOf(1, sku, q, u, t, cur)>>
    /\ ApplicableDiscount(EntryOf(sku, rate, tiers), q) = 0
    /\ rate \in Nat /\ q \in Int /\ u \in Int /\ t \in Int /\ e \in Nat
    /\ WholeCents(rate) /\ WholeCents(e)
    /\ q * u = Piece * e /\ u <= rate /\ rate <= QuantizeLimit /\ e <= QuantizeLimit

\* What is found on an invoice of one such line.
LEMMA OneLineCase ==
    ASSUME NEW inv, Billed(inv), NEW c, Carded(c), NEW sku, NEW rate, NEW tiers,
           HasRate(c, sku, rate, tiers), NEW q, NEW u, NEW t, NEW cur, NEW e,
           IsOneLine(inv, sku, rate, tiers, q, u, t, cur, e)
    PROVE  KeysOf(Evaluate(inv, c)) =
               (KeysOn("CURRENCY_MISMATCH", IF cur # "INR" THEN {1} ELSE {})
               \cup KeysOn("ARITHMETIC_ERROR",
                           IF t - e > ArithmeticTolerance \/ -(t - e) > ArithmeticTolerance
                           THEN {1} ELSE {}))
               \cup KeysOn("OUT_OF_TERM", Expired(inv, c))
<1>0. /\ inv.line_items = <<LineOf(1, sku, q, u, t, cur)>>
      /\ ApplicableDiscount(EntryOf(sku, rate, tiers), q) = 0
      /\ rate \in Nat /\ q \in Int /\ u \in Int /\ t \in Int /\ e \in Nat
      /\ WholeCents(rate) /\ WholeCents(e)
      /\ q * u = Piece * e /\ u <= rate /\ rate <= QuantizeLimit /\ e <= QuantizeLimit
  BY DEF IsOneLine
<1> DEFINE entry == EntryOf(sku, rate, tiers)
           line == inv.line_items[1]
<1>1. DOMAIN inv.line_items = {1} /\ line = LineOf(1, sku, q, u, t, cur)
  BY <1>0 DEF line
<1>2. Quantized(q * u, Piece) = e /\ Quantized(rate * (Whole - 0), Whole) = rate
  <2>1. rate * (Whole - 0) = Whole * rate
    BY <1>0, ScalesArePositive
  <2> QED
    BY <1>0, <2>1, ScalesArePositive, QuantizedExactly DEF WholeCents
<1>3. /\ 1 \in ElsewhereBilled(inv, c) <=> cur # "INR"
      /\ 1 \in MisTotalled(inv) <=> t - e > ArithmeticTolerance \/ -(t - e) > ArithmeticTolerance
      /\ 1 \notin Overcharged(inv, c) /\ 1 \notin Undiscounted(inv, c)
      /\ 1 \notin Uncontracted(inv, c)
      /\ ExpectedTotal(line) = e
      /\ Comparable(line, c) => RateFor(c, line.sku) = entry
      /\ ExpectedUnit(entry, q) = rate
  <2>1. HasLine(inv, 1, sku, q, u, t, cur)
    BY <1>1 DEF HasLine
  <2>2. IsJudged(inv, c, 1, sku, rate, tiers, sku, q, u, t, cur)
    BY <2>1, LinesJudged
  <2>3. ~(u > rate) /\ ~(0 > 0)
    BY <1>0
  <2> QED
    BY <1>0, <1>2, <2>2, <2>3 DEF IsJudged, entry
<1>4. /\ line.line_no = 1 /\ line.quantity = q /\ line.unit_rate.currency = line.line_total.currency
  BY <1>1 DEF LineOf
<1> HIDE DEF line, entry
<1>5. ~ArithmeticRule(inv, c).raised /\ ~MissedVolumeDiscountRule(inv, c).raised
  <2>1. ~Overflows(e) /\ ~Overflows(rate)
    BY <1>0, WithinTheLimit
  <2>2. ASSUME NEW k \in DOMAIN inv.line_items
        PROVE  LET bill == inv.line_items[k]
                   card == RateFor(c, bill.sku)
               IN /\ bill.unit_rate.currency = bill.line_total.currency
                  /\ ~Overflows(ExpectedTotal(bill))
                  /\ Comparable(bill, c) => ~Overflows(ExpectedUnit(card, bill.quantity))
    <3>1. inv.line_items[k] = line
      BY <1>1, <2>2 DEF line
    <3> QED
      BY <1>3, <1>4, <2>1, <3>1
  <2> QED
    BY <2>2, NoRuleRaises
<1>6. /\ ElsewhereBilled(inv, c) \subseteq {1} /\ MisTotalled(inv) \subseteq {1}
      /\ Overcharged(inv, c) \subseteq {1} /\ Undiscounted(inv, c) \subseteq {1}
      /\ Uncontracted(inv, c) \subseteq {1}
  BY <1>1 DEF ElsewhereBilled, MisTotalled, Overcharged, Undiscounted, Uncontracted
<1>7. /\ ElsewhereBilled(inv, c) = IF cur # "INR" THEN {1} ELSE {}
      /\ MisTotalled(inv) = IF t - e > ArithmeticTolerance \/ -(t - e) > ArithmeticTolerance
                            THEN {1} ELSE {}
      /\ Overcharged(inv, c) = {} /\ Undiscounted(inv, c) = {} /\ Uncontracted(inv, c) = {}
  BY <1>3, <1>6
<1>8. \A type : KeysOn(type, {}) = {}
  BY DEF KeysOn
<1>10. \A flagged : flagged \subseteq {1} => LineNos(inv, flagged) = flagged
  BY <1>1, <1>4, NumberedInOrder DEF line
<1>9. KeysOf(Evaluate(inv, c)) =
           ((((KeysOn("CURRENCY_MISMATCH", ElsewhereBilled(inv, c))
           \cup KeysOn("ARITHMETIC_ERROR", MisTotalled(inv))) \cup {}) \cup {})
           \cup KeysOn("OUT_OF_TERM", Expired(inv, c))) \cup {}
  <2> DEFINE KeysAt(type, lines) == KeysOn(type, LineNos(inv, lines))
  <2>1. /\ KeysAt("CURRENCY_MISMATCH", ElsewhereBilled(inv, c))
               = KeysOn("CURRENCY_MISMATCH", ElsewhereBilled(inv, c))
        /\ KeysAt("ARITHMETIC_ERROR", MisTotalled(inv))
               = KeysOn("ARITHMETIC_ERROR", MisTotalled(inv))
    BY <1>6, <1>10
  <2>2. /\ KeysAt("RATE_MISMATCH", Overcharged(inv, c)) = {}
        /\ KeysAt("MISSED_VOLUME_DISCOUNT", Undiscounted(inv, c)) = {}
        /\ KeysAt("UNCONTRACTED_ITEM", Uncontracted(inv, c)) = {}
    <3>1. LineNos(inv, {}) = {}
      BY <1>10
    <3> QED
      BY <1>7, <1>8, <3>1
  <2> QED
    BY <1>5, <2>1, <2>2, KeysOfAll, Zenon
<1>11. \A A, B, C : ((((A \cup B) \cup {}) \cup {}) \cup C) \cup {} = (A \cup B) \cup C
  OBVIOUS
<1>12. KeysOf(Evaluate(inv, c)) =
           (KeysOn("CURRENCY_MISMATCH", ElsewhereBilled(inv, c))
           \cup KeysOn("ARITHMETIC_ERROR", MisTotalled(inv)))
           \cup KeysOn("OUT_OF_TERM", Expired(inv, c))
  BY <1>9, <1>11
<1> QED
  BY <1>7, <1>12, Zenon

\* The row of the text is this one.
IsRow(rows, k, s, q, u, t) == k \in DOMAIN rows /\ rows[k] = Row(k, s, q, u, t)

\* The lines of a text in rupees or dollars.
LEMMA RowsAreLines ==
    ASSUME NEW id, NEW vendor, NEW day, NEW currency \in {"INR", "USD"}, NEW rows,
           NEW k, NEW s, NEW q, NEW u, NEW t, IsRow(rows, k, s, q, u, t)
    PROVE  LET inv == InvoiceFrom(id, vendor, day, currency, rows)
           IN /\ DOMAIN inv.line_items = DOMAIN rows
              /\ HasLine(inv, k, s, q * Piece, u * Cent, t * Cent, currency)
<1>1. Upper[currency] = currency
  BY PlantedErrorsAssumption
<1>2. /\ k \in DOMAIN rows
      /\ LineItem(rows[k], currency)
             = LineOf(k, s, q * Piece, u * Cent, t * Cent, currency)
  BY <1>1 DEF IsRow, LineItem, LineOf, Money, Row
<1>3. InvoiceFrom(id, vendor, day, currency, rows).line_items
          = [j \in DOMAIN rows |-> LineItem(rows[j], currency)]
  BY DEF InvoiceFrom
<1> QED
  BY <1>2, <1>3 DEF HasLine

\* The line, none, of the finding that the day is outside the term.
OutOfTerm(day) == IF 20260101 <= day /\ day <= 20261231 THEN {} ELSE {None}

\* The day decides whether the contract's term is a finding.
LEMMA TermOfTheCases ==
    ASSUME NEW id, NEW vendor, NEW day, NEW currency, NEW rows,
           NEW cid, NEW sku, NEW rate, NEW tiers
    PROVE  /\ Expired(InvoiceFrom(id, vendor, day, currency, rows),
                      ContractOfCase(cid, vendor, sku, rate, tiers)) = OutOfTerm(day)
           /\ EntryOf(sku, rate, tiers) # None
                  => HasRate(ContractOfCase(cid, vendor, sku, rate, tiers), sku, rate, tiers)
<1>1. InvoiceFrom(id, vendor, day, currency, rows).invoice_date = day
  BY DEF InvoiceFrom
<1>2. /\ ContractOfCase(cid, vendor, sku, rate, tiers).valid_from = 20260101
      /\ ContractOfCase(cid, vendor, sku, rate, tiers).valid_to = 20261231
      /\ ContractOfCase(cid, vendor, sku, rate, tiers).currency = "INR"
      /\ ContractOfCase(cid, vendor, sku, rate, tiers).rate_cards = <<EntryOf(sku, rate, tiers)>>
  BY SMT DEF ContractOfCase, EntryOf
<1> QED
  BY <1>1, <1>2, SMT DEF Expired, IsActiveOn, OutOfTerm, HasRate

\* Each of the built-in cases is read, and found in it is what is planted in it.
ScoresPerfectly(case) == IsReadable(case) /\ CaseResult(case).detected = case.seeded

\* The built-in cases in their order.
LEMMA BuiltinInOrder ==
    /\ DOMAIN BuiltinCases = 1 .. 4 /\ Len(BuiltinCases) = 4
    /\ BuiltinCases[1] = Overbilling /\ BuiltinCases[2] = ArithmeticAndTerm
    /\ BuiltinCases[3] = CurrencyMismatch /\ BuiltinCases[4] = Clean
    /\ \A case \in {Overbilling, ArithmeticAndTerm, CurrencyMismatch, Clean} :
           \E k \in DOMAIN BuiltinCases : BuiltinCases[k] = case
<1>1. /\ DOMAIN BuiltinCases = 1 .. 4 /\ Len(BuiltinCases) = 4
      /\ BuiltinCases[1] = Overbilling /\ BuiltinCases[2] = ArithmeticAndTerm
      /\ BuiltinCases[3] = CurrencyMismatch /\ BuiltinCases[4] = Clean
  BY DEF BuiltinCases
<1>2. 1 \in 1 .. 4 /\ 2 \in 1 .. 4 /\ 3 \in 1 .. 4 /\ 4 \in 1 .. 4
  OBVIOUS
<1> QED
  BY <1>1, <1>2

\* The case prints the one line of p for the contracted item, at no more than
\* its rate and too few for a discount; e is what the line comes to.
PrintsOneLine(case, p) ==
    /\ \E k \in DOMAIN BuiltinCases : BuiltinCases[k] = case
    /\ case.invoice = InvoiceText(p.id, p.vendor, p.day, p.currency,
                                  <<Row(1, p.sku, p.q, p.u, p.t)>>)
    /\ case.contract = ContractText(p.cid, p.vendor, p.sku, p.rate, p.tiers)
    /\ p.currency \in {"INR", "USD"}
    /\ p.rate \in Nat /\ p.q \in Int /\ p.u \in Int /\ p.t \in Int /\ p.e \in Nat
    /\ ApplicableDiscount(EntryOf(p.sku, p.rate * Cent, p.tiers), p.q * Piece) = 0
    /\ p.q * p.u = p.e /\ p.u <= p.rate
    /\ p.rate * Cent <= QuantizeLimit /\ p.e * Cent <= QuantizeLimit

\* The line, if it is in another currency than the contract.
Elsewhere(currency) == IF currency # "INR" THEN {1} ELSE {}

\* The line, if its total is beyond the tolerance of what is expected.
Off(total, expected) ==
    IF total - expected > ArithmeticTolerance \/ -(total - expected) > ArithmeticTolerance
    THEN {1} ELSE {}

\* What is found in a built-in case of one line.
LEMMA WhatOneLineShows ==
    ASSUME NEW case \in Cases, NEW p, PrintsOneLine(case, p)
    PROVE  /\ IsReadable(case)
           /\ CaseResult(case).detected =
                  (KeysOn("CURRENCY_MISMATCH", Elsewhere(p.currency))
                  \cup KeysOn("ARITHMETIC_ERROR", Off(p.t * Cent, p.e * Cent)))
                  \cup KeysOn("OUT_OF_TERM", OutOfTerm(p.day))
<1> DEFINE row == Row(1, p.sku, p.q, p.u, p.t)
           rows == <<row>>
           inv == InvoiceFrom(p.id, p.vendor, p.day, p.currency, rows)
           c == ContractOfCase(p.cid, p.vendor, p.sku, p.rate * Cent, p.tiers)
<1>1. /\ \E k \in DOMAIN BuiltinCases : BuiltinCases[k] = case
      /\ case.invoice = InvoiceText(p.id, p.vendor, p.day, p.currency, rows)
      /\ case.contract = ContractText(p.cid, p.vendor, p.sku, p.rate, p.tiers)
      /\ p.currency \in {"INR", "USD"}
      /\ p.rate \in Nat /\ p.q \in Int /\ p.u \in Int /\ p.t \in Int /\ p.e \in Nat
      /\ ApplicableDiscount(EntryOf(p.sku, p.rate * Cent, p.tiers), p.q * Piece) = 0
      /\ p.q * p.u = p.e /\ p.u <= p.rate
      /\ p.rate * Cent <= QuantizeLimit /\ p.e * Cent <= QuantizeLimit
  BY DEF PrintsOneLine
<1> HIDE DEF row
<1>2. rows # <<>> /\ DOMAIN rows = {1} /\ rows[1] = row /\ 1 \in DOMAIN rows
  OBVIOUS
<1> HIDE DEF rows
<1>3. \A k \in DOMAIN rows : /\ rows[k].line \in Int /\ rows[k].quantity \in Int
                             /\ rows[k].unit_rate \in Int /\ rows[k].line_total \in Int
  <2>1. \A n \in Int : n * Piece \in Int /\ n * Cent \in Int
    BY ScalesArePositive
  <2>2. /\ row.line = 1 /\ row.quantity = p.q * Piece
        /\ row.unit_rate = p.u * Cent /\ row.line_total = p.t * Cent
    BY DEF Row, row
  <2>3. /\ p.q * Piece \in Int /\ p.u * Cent \in Int /\ p.t * Cent \in Int
    BY <1>1, <2>1
  <2> QED
    BY <1>2, <2>2, <2>3
<1>4. IsBuiltin(case, p.id, p.vendor, p.day, p.currency, rows, p.cid, p.sku, p.rate, p.tiers)
  BY <1>1, <1>2, <1>3 DEF IsBuiltin
<1>5. IsEvaluated(case, inv, c) /\ EntryOf(p.sku, p.rate * Cent, p.tiers) # None
  BY <1>4, BuiltinCaseIsRead
<1>6. HasRate(c, p.sku, p.rate * Cent, p.tiers) /\ Expired(inv, c) = OutOfTerm(p.day)
  BY <1>5, TermOfTheCases
<1> DEFINE q == p.q * Piece
           u == p.u * Cent
           t == p.t * Cent
<1>7. inv.line_items = <<LineOf(1, p.sku, q, u, t, p.currency)>>
  <2>1. IsRow(rows, 1, p.sku, p.q, p.u, p.t)
    BY <1>2 DEF row, IsRow
  <2>2. DOMAIN inv.line_items = DOMAIN rows /\ HasLine(inv, 1, p.sku, q, u, t, p.currency)
    <3>1. p.currency \in {"INR", "USD"}
      BY <1>1
    <3> QED
      BY <2>1, <3>1, RowsAreLines, Zenon
  <2>3. inv.line_items = [j \in DOMAIN rows |-> LineItem(rows[j], p.currency)]
    BY DEF InvoiceFrom
  <2> HIDE DEF inv
  <2> QED
    BY <1>2, <2>2, <2>3 DEF HasLine
<1> HIDE DEF inv, c
<1> DEFINE rate == p.rate * Cent
           e == p.e * Cent
<1>8. IsOneLine(inv, p.sku, rate, p.tiers, q, u, t, p.currency, e)
  <2>1. /\ rate \in Nat /\ q \in Int /\ u \in Int /\ t \in Int /\ e \in Nat
        /\ WholeCents(rate) /\ WholeCents(e)
    <3>1. \A m \in Int : WholeCents(m * Cent)
      BY DEF WholeCents
    <3>2. \A m, n \in Nat : m * n \in Nat
      OBVIOUS
    <3>3. /\ p.rate * Cent \in Nat /\ p.e * Cent \in Nat
          /\ p.q * Piece \in Int /\ p.u * Cent \in Int /\ p.t * Cent \in Int
      BY <1>1, <3>2, ScalesArePositive
    <3> QED
      BY <1>1, <3>1, <3>3
  <2>2. q * u = Piece * e
    <3>1. (p.q * Piece) * (p.u * Cent) = Piece * ((p.q * p.u) * Cent)
      BY <1>1, ScalesArePositive
    <3> QED
      BY <1>1, <3>1
  <2>3. u <= rate
    BY <1>1, ScalesArePositive, InProportion
  <2> HIDE DEF q, u, t, rate, e
  <2>4. /\ ApplicableDiscount(EntryOf(p.sku, rate, p.tiers), q) = 0
        /\ rate <= QuantizeLimit /\ e <= QuantizeLimit
    BY <1>1 DEF rate, q, e
  <2> QED
    BY <1>7, <2>1, <2>2, <2>3, <2>4 DEF IsOneLine
<1>9. KeysOf(Evaluate(inv, c)) =
          (KeysOn("CURRENCY_MISMATCH", Elsewhere(p.currency))
          \cup KeysOn("ARITHMETIC_ERROR", Off(p.t * Cent, p.e * Cent)))
          \cup KeysOn("OUT_OF_TERM", Expired(inv, c))
  BY <1>5, <1>6, <1>8, OneLineCase DEF IsEvaluated, Elsewhere, Off
<1> QED
  BY <1>5, <1>6, <1>9 DEF IsEvaluated

\* What is printed in the clean case.
LEMMA CleanPrinted ==
    /\ Clean.seeded = {}
    /\ \E p : /\ PrintsOneLine(Clean, p) /\ p.currency = "INR"
              /\ Off(p.t * Cent, p.e * Cent) = {} /\ OutOfTerm(p.day) = {}
<1> DEFINE p == [id |-> "INV-903", vendor |-> "Delta Ltd", day |-> 20260501, currency |-> "INR",
                 sku |-> "NUT-9", q |-> 10, u |-> 2000, t |-> 20000, e |-> 20000,
                 cid |-> "C-004", rate |-> 2000, tiers |-> TenPercentFrom100]
<1>1. /\ Clean.invoice = InvoiceText(p.id, p.vendor, p.day, p.currency,
                                     <<Row(1, p.sku, p.q, p.u, p.t)>>)
      /\ Clean.contract = ContractText(p.cid, p.vendor, p.sku, p.rate, p.tiers)
      /\ Clean.seeded = {}
  BY SMT DEF Clean
<1>2. OutOfTerm(p.day) = {}
  BY SMT DEF OutOfTerm
<1>3. /\ p.q \in Int /\ p.rate \in Nat /\ p.u \in Int /\ p.t \in Int /\ p.e \in Nat
      /\ p.q < 100 /\ p.q * p.u = p.e /\ p.u <= p.rate
      /\ p.rate * Cent <= QuantizeLimit /\ p.e * Cent <= QuantizeLimit /\ p.t = p.e
  BY PlantedErrorsAssumption, ScalesArePositive, SMT
<1>4. p.tiers = TenPercentFrom100 /\ p.currency = "INR"
  BY SMT
<1> HIDE DEF p
<1>5. ApplicableDiscount(EntryOf(p.sku, p.rate * Cent, p.tiers), p.q * Piece) = 0
  BY <1>3, <1>4, DiscountsOfTheCases
<1>6. PrintsOneLine(Clean, p)
  BY <1>1, <1>3, <1>4, <1>5, BuiltinInOrder DEF PrintsOneLine
<1>7. Off(p.t * Cent, p.e * Cent) = {}
  <2>1. p.t = p.e /\ p.t * Cent \in Int
    BY <1>3, ScalesArePositive
  <2>2. p.t * Cent - p.e * Cent = 0 /\ -(p.t * Cent - p.e * Cent) = 0
    BY <2>1, SMT
  <2>3. ~(0 > ArithmeticTolerance)
    BY PlantedErrorsAssumption, ScalesArePositive, SMT
  <2> QED
    BY <2>2, <2>3 DEF Off
<1> QED
  BY <1>1, <1>2, <1>4, <1>6, <1>7

\* Nothing is found in the clean case.
LEMMA CleanIsFound ==
    ASSUME Clean \in Cases
    PROVE  ScoresPerfectly(Clean)
<1>1. PICK p : /\ PrintsOneLine(Clean, p) /\ p.currency = "INR"
               /\ Off(p.t * Cent, p.e * Cent) = {} /\ OutOfTerm(p.day) = {}
  BY CleanPrinted
<1>2. \A type : KeysOn(type, {}) = {}
  BY DEF KeysOn
<1>3. Elsewhere(p.currency) = {}
  BY <1>1 DEF Elsewhere
<1>4. IsReadable(Clean) /\ CaseResult(Clean).detected = {}
  BY <1>1, <1>2, <1>3, WhatOneLineShows
<1> QED
  BY <1>4, CleanPrinted DEF ScoresPerfectly

\* What is printed in the case of a wrong total outside the term.
LEMMA ArithmeticAndTermPrinted ==
    /\ ArithmeticAndTerm.seeded = {<<"ARITHMETIC_ERROR", 1>>, <<"OUT_OF_TERM", None>>}
    /\ \E p : /\ PrintsOneLine(ArithmeticAndTerm, p) /\ p.currency = "INR"
              /\ Off(p.t * Cent, p.e * Cent) = {1} /\ OutOfTerm(p.day) = {None}
<1> DEFINE p == [id |-> "INV-901", vendor |-> "Beta Traders", day |-> 20250601, currency |-> "INR",
                 sku |-> "BOLT-1", q |-> 2, u |-> 10000, t |-> 25000, e |-> 20000,
                 cid |-> "C-002", rate |-> 10000, tiers |-> {}]
<1>1. /\ ArithmeticAndTerm.invoice = InvoiceText(p.id, p.vendor, p.day, p.currency,
                                                 <<Row(1, p.sku, p.q, p.u, p.t)>>)
      /\ ArithmeticAndTerm.contract = ContractText(p.cid, p.vendor, p.sku, p.rate, p.tiers)
      /\ ArithmeticAndTerm.seeded = {<<"ARITHMETIC_ERROR", 1>>, <<"OUT_OF_TERM", None>>}
  BY SMT DEF ArithmeticAndTerm
<1>2. OutOfTerm(p.day) = {None}
  BY SMT DEF OutOfTerm
<1>3. /\ p.q \in Int /\ p.rate \in Nat /\ p.u \in Int /\ p.t \in Int /\ p.e \in Nat
      /\ p.q * p.u = p.e /\ p.u <= p.rate
      /\ p.rate * Cent <= QuantizeLimit /\ p.e * Cent <= QuantizeLimit
  BY PlantedErrorsAssumption, ScalesArePositive, SMT
<1>4. p.tiers = {} /\ p.currency = "INR"
  BY SMT
<1>5. p.t * Cent - p.e * Cent > ArithmeticTolerance
  BY PlantedErrorsAssumption, ScalesArePositive, SMT
<1> HIDE DEF p
<1>6. ApplicableDiscount(EntryOf(p.sku, p.rate * Cent, p.tiers), p.q * Piece) = 0
  BY <1>3, <1>4, DiscountsOfTheCases
<1>7. PrintsOneLine(ArithmeticAndTerm, p)
  BY <1>1, <1>3, <1>4, <1>6, BuiltinInOrder DEF PrintsOneLine
<1>8. Off(p.t * Cent, p.e * Cent) = {1}
  BY <1>5, Zenon DEF Off
<1> QED
  BY <1>1, <1>2, <1>4, <1>7, <1>8

\* The wrong total and the term are found, and nothing else.
LEMMA ArithmeticAndTermIsFound ==
    ASSUME ArithmeticAndTerm \in Cases
    PROVE  ScoresPerfectly(ArithmeticAndTerm)
<1>1. PICK p : /\ PrintsOneLine(ArithmeticAndTerm, p) /\ p.currency = "INR"
               /\ Off(p.t * Cent, p.e * Cent) = {1} /\ OutOfTerm(p.day) = {None}
  BY ArithmeticAndTermPrinted
<1>2. \A type, k : KeysOn(type, {}) = {} /\ KeysOn(type, {k}) = {<<type, k>>}
  BY DEF KeysOn
<1>3. Elsewhere(p.currency) = {}
  BY <1>1 DEF Elsewhere
<1>4. /\ IsReadable(ArithmeticAndTerm)
      /\ CaseResult(ArithmeticAndTerm).detected =
             (KeysOn("CURRENCY_MISMATCH", {}) \cup KeysOn("ARITHMETIC_ERROR", {1}))
             \cup KeysOn("OUT_OF_TERM", {None})
  BY <1>1, <1>3, WhatOneLineShows
<1>5. CaseResult(ArithmeticAndTerm).detected =
          {<<"ARITHMETIC_ERROR", 1>>, <<"OUT_OF_TERM", None>>}
  <2>1. /\ KeysOn("CURRENCY_MISMATCH", {}) = {}
        /\ KeysOn("ARITHMETIC_ERROR", {1}) = {<<"ARITHMETIC_ERROR", 1>>}
        /\ KeysOn("OUT_OF_TERM", {None}) = {<<"OUT_OF_TERM", None>>}
    BY <1>2
  <2> QED
    BY <1>4, <2>1, Zenon
<1> QED
  BY <1>4, <1>5, ArithmeticAndTermPrinted DEF ScoresPerfectly

\* What is printed in the case in dollars.
LEMMA CurrencyMismatchPrinted ==
    /\ CurrencyMismatch.seeded = {<<"CURRENCY_MISMATCH", 1>>}
    /\ \E p : /\ PrintsOneLine(CurrencyMismatch, p) /\ p.currency = "USD"
              /\ Off(p.t * Cent, p.e * Cent) = {} /\ OutOfTerm(p.day) = {}
<1> DEFINE p == [id |-> "INV-902", vendor |-> "Gamma Corp", day |-> 20260301, currency |-> "USD",
                 sku |-> "PART-X", q |-> 1, u |-> 10000, t |-> 10000, e |-> 10000,
                 cid |-> "C-003", rate |-> 10000, tiers |-> {}]
<1>1. /\ CurrencyMismatch.invoice = InvoiceText(p.id, p.vendor, p.day, p.currency,
                                                <<Row(1, p.sku, p.q, p.u, p.t)>>)
      /\ CurrencyMismatch.contract = ContractText(p.cid, p.vendor, p.sku, p.rate, p.tiers)
      /\ CurrencyMismatch.seeded = {<<"CURRENCY_MISMATCH", 1>>}
  BY SMT DEF CurrencyMismatch
<1>2. OutOfTerm(p.day) = {}
  BY SMT DEF OutOfTerm
<1>3. /\ p.q \in Int /\ p.rate \in Nat /\ p.u \in Int /\ p.t \in Int /\ p.e \in Nat
      /\ p.q * p.u = p.e /\ p.u <= p.rate
      /\ p.rate * Cent <= QuantizeLimit /\ p.e * Cent <= QuantizeLimit
  BY PlantedErrorsAssumption, ScalesArePositive, SMT
<1>4. p.tiers = {} /\ p.currency = "USD"
  BY SMT
<1>5. ~(p.t * Cent - p.e * Cent > ArithmeticTolerance) /\ ~(-(p.t * Cent - p.e * Cent) > ArithmeticTolerance)
  BY PlantedErrorsAssumption, ScalesArePositive, SMT
<1> HIDE DEF p
<1>6. ApplicableDiscount(EntryOf(p.sku, p.rate * Cent, p.tiers), p.q * Piece) = 0
  BY <1>3, <1>4, DiscountsOfTheCases
<1>7. PrintsOneLine(CurrencyMismatch, p)
  BY <1>1, <1>3, <1>4, <1>6, BuiltinInOrder DEF PrintsOneLine
<1>8. Off(p.t * Cent, p.e * Cent) = {}
  BY <1>5, Zenon DEF Off
<1> QED
  BY <1>1, <1>2, <1>4, <1>7, <1>8

\* The currency is found, and nothing else.
LEMMA CurrencyMismatchIsFound ==
    ASSUME CurrencyMismatch \in Cases
    PROVE  ScoresPerfectly(CurrencyMismatch)
<1>1. PICK p : /\ PrintsOneLine(CurrencyMismatch, p) /\ p.currency = "USD"
               /\ Off(p.t * Cent, p.e * Cent) = {} /\ OutOfTerm(p.day) = {}
  BY CurrencyMismatchPrinted
<1>2. \A type, k : KeysOn(type, {}) = {} /\ KeysOn(type, {k}) = {<<type, k>>}
  BY DEF KeysOn
<1>3. Elsewhere(p.currency) = {1}
  BY <1>1 DEF Elsewhere
<1>4. /\ IsReadable(CurrencyMismatch)
      /\ CaseResult(CurrencyMismatch).detected =
             (KeysOn("CURRENCY_MISMATCH", {1}) \cup KeysOn("ARITHMETIC_ERROR", {}))
             \cup KeysOn("OUT_OF_TERM", {})
  BY <1>1, <1>3, WhatOneLineShows
<1>5. CaseResult(CurrencyMismatch).detected = {<<"CURRENCY_MISMATCH", 1>>}
  BY <1>2, <1>4
<1> QED
  BY <1>4, <1>5, CurrencyMismatchPrinted DEF ScoresPerfectly

\* The case prints two lines, the first for the contracted item, above its rate
\* and enough for a discount on it that leaves the price at unit, the second
\* for another item; e and f are what the lines come to.
PrintsTwoLines(case, p) ==
    /\ \E k \in DOMAIN BuiltinCases : BuiltinCases[k] = case
    /\ case.invoice = InvoiceText(p.id, p.vendor, p.day, "INR",
                                  <<Row(1, p.sku, p.q, p.u, p.e), Row(2, p.other, p.r, p.v, p.f)>>)
    /\ case.contract = ContractText(p.cid, p.vendor, p.sku, p.rate, p.tiers)
    /\ p.other # p.sku /\ p.rate \in Nat /\ p.unit \in Nat
    /\ p.q \in Int /\ p.u \in Int /\ p.e \in Nat /\ p.r \in Int /\ p.v \in Int /\ p.f \in Nat
    /\ p.discount \in Nat /\ p.discount > 0 /\ p.rate * (100 - p.discount) = 100 * p.unit
    /\ ApplicableDiscount(EntryOf(p.sku, p.rate * Cent, p.tiers), p.q * Piece) = p.discount * Percent
    /\ p.q * p.u = p.e /\ p.r * p.v = p.f /\ p.u > p.rate /\ p.u > p.unit
    /\ p.unit * Cent <= QuantizeLimit
    /\ p.e * Cent <= QuantizeLimit /\ p.f * Cent <= QuantizeLimit

\* What is printed in the case of overbilling.
LEMMA OverbillingPrinted ==
    /\ Overbilling.seeded = {<<"RATE_MISMATCH", 1>>, <<"MISSED_VOLUME_DISCOUNT", 1>>,
                             <<"UNCONTRACTED_ITEM", 2>>}
    /\ \E p : PrintsTwoLines(Overbilling, p) /\ OutOfTerm(p.day) = {}
<1> DEFINE p == [id |-> "INV-900", vendor |-> "Acme Supplies Pvt Ltd", day |-> 20260601,
                 sku |-> "WIDGET-A", q |-> 150, u |-> 13000, e |-> 1950000,
                 other |-> "GADGET-Z", r |-> 5, v |-> 5000, f |-> 25000,
                 cid |-> "C-001", rate |-> 10000, tiers |-> TenPercentFrom100,
                 discount |-> 10, unit |-> 9000]
<1>1. /\ Overbilling.invoice =
             InvoiceText(p.id, p.vendor, p.day, "INR",
                         <<Row(1, p.sku, p.q, p.u, p.e), Row(2, p.other, p.r, p.v, p.f)>>)
      /\ Overbilling.contract = ContractText(p.cid, p.vendor, p.sku, p.rate, p.tiers)
      /\ Overbilling.seeded = {<<"RATE_MISMATCH", 1>>, <<"MISSED_VOLUME_DISCOUNT", 1>>,
                               <<"UNCONTRACTED_ITEM", 2>>}
  BY SMT DEF Overbilling
<1>2. OutOfTerm(p.day) = {}
  BY SMT DEF OutOfTerm
<1>3. /\ p.q \in Int /\ p.rate \in Nat /\ p.u \in Int /\ p.e \in Nat /\ p.unit \in Nat
      /\ p.r \in Int /\ p.v \in Int /\ p.f \in Nat /\ p.discount \in Nat /\ p.discount > 0
      /\ p.q >= 100 /\ p.q * p.u = p.e /\ p.r * p.v = p.f
      /\ p.u > p.rate /\ p.u > p.unit /\ p.rate * (100 - p.discount) = 100 * p.unit
      /\ p.unit * Cent <= QuantizeLimit
      /\ p.e * Cent <= QuantizeLimit /\ p.f * Cent <= QuantizeLimit
  BY PlantedErrorsAssumption, ScalesArePositive, SMT
<1>4. p.tiers = TenPercentFrom100 /\ p.discount = 10 /\ p.other # p.sku
  BY SMT
<1> HIDE DEF p
<1>5. ApplicableDiscount(EntryOf(p.sku, p.rate * Cent, p.tiers), p.q * Piece) = p.discount * Percent
  BY <1>3, <1>4, DiscountsOfTheCases
<1>6. PrintsTwoLines(Overbilling, p)
  BY <1>1, <1>3, <1>4, <1>5, BuiltinInOrder DEF PrintsTwoLines
<1> QED
  BY <1>1, <1>2, <1>6

\* The rate, the discount and the item are found, and nothing else.
LEMMA OverbillingIsFound ==
    ASSUME Overbilling \in Cases
    PROVE  ScoresPerfectly(Overbilling)
<1> DEFINE case == Overbilling
<1>0. PICK p : PrintsTwoLines(case, p) /\ OutOfTerm(p.day) = {}
  BY OverbillingPrinted
<1> DEFINE first == Row(1, p.sku, p.q, p.u, p.e)
           second == Row(2, p.other, p.r, p.v, p.f)
           rows == <<first, second>>
           inv == InvoiceFrom(p.id, p.vendor, p.day, "INR", rows)
           c == ContractOfCase(p.cid, p.vendor, p.sku, p.rate * Cent, p.tiers)
           entry == EntryOf(p.sku, p.rate * Cent, p.tiers)
<1>1. /\ case \in Cases /\ \E k \in DOMAIN BuiltinCases : BuiltinCases[k] = case
      /\ case.invoice = InvoiceText(p.id, p.vendor, p.day, "INR", rows)
      /\ case.contract = ContractText(p.cid, p.vendor, p.sku, p.rate, p.tiers)
      /\ p.other # p.sku /\ p.rate \in Nat /\ p.unit \in Nat
      /\ p.q \in Int /\ p.u \in Int /\ p.e \in Nat /\ p.r \in Int /\ p.v \in Int /\ p.f \in Nat
  BY <1>0 DEF PrintsTwoLines
<1>2. /\ p.discount \in Nat /\ p.discount > 0
      /\ p.rate * (100 - p.discount) = 100 * p.unit
      /\ ApplicableDiscount(entry, p.q * Piece) = p.discount * Percent
      /\ p.q * p.u = p.e /\ p.r * p.v = p.f /\ p.u > p.rate /\ p.u > p.unit
      /\ p.unit * Cent <= QuantizeLimit
      /\ p.e * Cent <= QuantizeLimit /\ p.f * Cent <= QuantizeLimit
  BY <1>0 DEF PrintsTwoLines
<1> HIDE DEF case, first, second
<1>3. /\ rows # <<>> /\ DOMAIN rows = {1, 2} /\ rows[1] = first /\ rows[2] = second
      /\ 1 \in DOMAIN rows /\ 2 \in DOMAIN rows
  OBVIOUS
<1> HIDE DEF rows
<1>4. /\ IsRow(rows, 1, p.sku, p.q, p.u, p.e)
      /\ IsRow(rows, 2, p.other, p.r, p.v, p.f)
  BY <1>3 DEF IsRow, first, second
<1>5. \A k \in DOMAIN rows : /\ rows[k].line \in Int /\ rows[k].quantity \in Int
                             /\ rows[k].unit_rate \in Int /\ rows[k].line_total \in Int
  <2>1. \A n \in Int : n * Piece \in Int /\ n * Cent \in Int
    BY ScalesArePositive
  <2>2. \A row \in {first, second} : /\ row.line \in Int /\ row.quantity \in Int
                                     /\ row.unit_rate \in Int /\ row.line_total \in Int
    BY <1>1, <2>1 DEF Row, first, second
  <2>3. \A k \in DOMAIN rows : rows[k] \in {first, second}
    BY <1>3
  <2> QED
    BY <2>2, <2>3
<1>6. IsBuiltin(case, p.id, p.vendor, p.day, "INR", rows, p.cid, p.sku, p.rate, p.tiers)
  BY <1>1, <1>3, <1>5 DEF IsBuiltin
<1>7. IsEvaluated(case, inv, c) /\ entry # None
  BY <1>6, BuiltinCaseIsRead
<1> DEFINE rate == p.rate * Cent
           discount == p.discount * Percent
           unit == p.unit * Cent
           q == p.q * Piece
           u == p.u * Cent
           e == p.e * Cent
           r == p.r * Piece
           v == p.v * Cent
           f == p.f * Cent
<1>8. HasRate(c, p.sku, rate, p.tiers) /\ Expired(inv, c) = {}
  BY <1>0, <1>7, TermOfTheCases
<1>9. /\ DOMAIN inv.line_items = DOMAIN rows
      /\ HasLine(inv, 1, p.sku, q, u, e, "INR")
      /\ HasLine(inv, 2, p.other, r, v, f, "INR")
  <2>1. "INR" \in {"INR", "USD"}
    OBVIOUS
  <2>2. IsRow(rows, 1, p.sku, p.q, p.u, p.e)
    BY <1>4
  <2>3. IsRow(rows, 2, p.other, p.r, p.v, p.f)
    BY <1>4
  <2>4. DOMAIN inv.line_items = DOMAIN rows /\ HasLine(inv, 1, p.sku, q, u, e, "INR")
    BY <2>1, <2>2, RowsAreLines, Zenon
  <2>5. HasLine(inv, 2, p.other, r, v, f, "INR")
    BY <2>1, <2>3, RowsAreLines, Zenon
  <2> QED
    BY <2>4, <2>5
<1> HIDE DEF inv, c
<1>10. /\ IsJudged(inv, c, 1, p.sku, rate, p.tiers, p.sku, q, u, e, "INR")
       /\ IsJudged(inv, c, 2, p.sku, rate, p.tiers, p.other, r, v, f, "INR")
  BY <1>8, <1>9, LinesJudged
<1>11. /\ Quantized(q * u, Piece) = e /\ Quantized(r * v, Piece) = f
       /\ Quantized(rate * (Whole - discount), Whole) = unit
  <2>1. /\ q * u = Piece * ((p.q * p.u) * Cent) /\ r * v = Piece * ((p.r * p.v) * Cent)
    BY <1>1, ScalesArePositive
  <2>2. rate * (Whole - discount) = Whole * unit
    <3>1. Whole - discount = (100 - p.discount) * Percent
      BY <1>2, ScalesArePositive DEF Whole
    <3>2. rate * ((100 - p.discount) * Percent)
              = (p.rate * (100 - p.discount)) * (Cent * Percent)
      BY <1>1, <1>2, ScalesArePositive
    <3>3. Whole * unit = (100 * p.unit) * (Cent * Percent)
      BY <1>1, ScalesArePositive DEF Whole
    <3> QED
      BY <1>2, <3>1, <3>2, <3>3
  <2>3. q * u = Piece * e /\ r * v = Piece * f
    BY <1>2, <2>1
  <2> HIDE DEF q, u, r, v, rate, discount
  <2> QED
    BY <1>1, <2>2, <2>3, ScalesArePositive, QuantizedExactly
<1>12. \A amount \in Nat : /\ ~(amount - amount > ArithmeticTolerance)
                           /\ ~(-(amount - amount) > ArithmeticTolerance)
  BY PlantedErrorsAssumption, SMT
<1>23. u > rate /\ u > unit /\ discount > 0
  BY <1>1, <1>2, ScalesArePositive, InProportion, ProductOfPositives
<1>24. /\ e \in Nat /\ f \in Nat /\ unit \in Nat
       /\ e <= QuantizeLimit /\ f <= QuantizeLimit /\ unit <= QuantizeLimit
  BY <1>1, <1>2, ScalesArePositive
<1>25. entry = EntryOf(p.sku, rate, p.tiers) /\ ApplicableDiscount(entry, q) = discount
  BY <1>2
<1> HIDE DEF rate, discount, unit, q, u, e, r, v, f, entry
<1>13. /\ 1 \notin ElsewhereBilled(inv, c) /\ 1 \notin MisTotalled(inv)
       /\ 1 \in Overcharged(inv, c) /\ 1 \in Undiscounted(inv, c)
       /\ 1 \notin Uncontracted(inv, c)
       /\ ExpectedTotal(inv.line_items[1]) = e
       /\ RateFor(c, inv.line_items[1].sku) = entry /\ ExpectedUnit(entry, q) = unit
  BY <1>10, <1>11, <1>12, <1>23, <1>24, <1>25 DEF IsJudged
<1>14. /\ 2 \notin ElsewhereBilled(inv, c) /\ 2 \notin MisTotalled(inv)
       /\ 2 \notin Overcharged(inv, c) /\ 2 \notin Undiscounted(inv, c)
       /\ 2 \in Uncontracted(inv, c)
       /\ ExpectedTotal(inv.line_items[2]) = f
       /\ ~Comparable(inv.line_items[2], c)
  BY <1>1, <1>10, <1>11, <1>12, <1>24 DEF IsJudged
<1>15. ~ArithmeticRule(inv, c).raised /\ ~MissedVolumeDiscountRule(inv, c).raised
  <2>1. ~Overflows(e) /\ ~Overflows(f) /\ ~Overflows(unit)
    BY <1>24, WithinTheLimit
  <2>2. /\ inv.line_items[1].quantity = q
        /\ \A k \in {1, 2} :
               inv.line_items[k].unit_rate.currency = inv.line_items[k].line_total.currency
    BY <1>9 DEF HasLine, LineOf
  <2>3. ASSUME NEW k \in DOMAIN inv.line_items
        PROVE  LET bill == inv.line_items[k]
                   card == RateFor(c, bill.sku)
               IN /\ bill.unit_rate.currency = bill.line_total.currency
                  /\ ~Overflows(ExpectedTotal(bill))
                  /\ Comparable(bill, c) => ~Overflows(ExpectedUnit(card, bill.quantity))
    <3>1. CASE k = 1
      BY <1>13, <2>1, <2>2, <3>1
    <3>2. CASE k = 2
      BY <1>14, <2>1, <2>2, <3>2
    <3> QED
      BY <1>3, <1>9, <3>1, <3>2
  <2> QED
    BY <2>3, NoRuleRaises
<1>16. /\ ElsewhereBilled(inv, c) \subseteq {1, 2} /\ MisTotalled(inv) \subseteq {1, 2}
       /\ Overcharged(inv, c) \subseteq {1, 2} /\ Undiscounted(inv, c) \subseteq {1, 2}
       /\ Uncontracted(inv, c) \subseteq {1, 2}
  BY <1>3, <1>9 DEF ElsewhereBilled, MisTotalled, Overcharged, Undiscounted, Uncontracted
<1>17. /\ ElsewhereBilled(inv, c) = {} /\ MisTotalled(inv) = {}
       /\ Overcharged(inv, c) = {1} /\ Undiscounted(inv, c) = {1} /\ Uncontracted(inv, c) = {2}
  BY <1>13, <1>14, <1>16
<1>18. \A type, k : KeysOn(type, {}) = {} /\ KeysOn(type, {k}) = {<<type, k>>}
  BY DEF KeysOn
<1>26. \A flagged : flagged \subseteq {1, 2} => LineNos(inv, flagged) = flagged
  <2>1. \A k \in DOMAIN inv.line_items : inv.line_items[k].line_no = k
    BY <1>3, <1>9 DEF HasLine, LineOf
  <2> QED
    BY <1>3, <1>9, <2>1, NumberedInOrder
<1>19. KeysOf(Evaluate(inv, c)) =
           (((({} \cup {}) \cup {<<"RATE_MISMATCH", 1>>})
           \cup {<<"MISSED_VOLUME_DISCOUNT", 1>>}) \cup {}) \cup {<<"UNCONTRACTED_ITEM", 2>>}
  <2> DEFINE KeysAt(type, lines) == KeysOn(type, LineNos(inv, lines))
  <2>1. /\ KeysAt("CURRENCY_MISMATCH", ElsewhereBilled(inv, c)) = {}
        /\ KeysAt("ARITHMETIC_ERROR", MisTotalled(inv)) = {}
        /\ KeysAt("RATE_MISMATCH", Overcharged(inv, c)) = {<<"RATE_MISMATCH", 1>>}
        /\ KeysAt("MISSED_VOLUME_DISCOUNT", Undiscounted(inv, c))
               = {<<"MISSED_VOLUME_DISCOUNT", 1>>}
        /\ KeysOn("OUT_OF_TERM", Expired(inv, c)) = {}
        /\ KeysAt("UNCONTRACTED_ITEM", Uncontracted(inv, c)) = {<<"UNCONTRACTED_ITEM", 2>>}
    BY <1>8, <1>16, <1>17, <1>18, <1>26
  <2>2. Billed(inv) /\ Carded(c)
    BY <1>7 DEF IsEvaluated
  <2> QED
    BY <1>15, <2>1, <2>2, KeysOfAll, Zenon
<1>20. CaseResult(case).detected = {<<"RATE_MISMATCH", 1>>, <<"MISSED_VOLUME_DISCOUNT", 1>>,
                                    <<"UNCONTRACTED_ITEM", 2>>}
  BY <1>7, <1>19, Zenon DEF IsEvaluated
<1> QED
  BY <1>7, <1>20, OverbillingPrinted DEF ScoresPerfectly, IsEvaluated, case

\* Among them the built-in cases have every type a rule reports.
LEMMA TypesSeeded ==
    UNION {TypesIn(BuiltinCases[k].seeded) : k \in 1 .. 4} = FindingTypes
<1>1. /\ TypesIn(Overbilling.seeded)
             = {"RATE_MISMATCH", "MISSED_VOLUME_DISCOUNT", "UNCONTRACTED_ITEM"}
      /\ TypesIn(ArithmeticAndTerm.seeded) = {"ARITHMETIC_ERROR", "OUT_OF_TERM"}
      /\ TypesIn(CurrencyMismatch.seeded) = {"CURRENCY_MISMATCH"}
      /\ TypesIn(Clean.seeded) = {}
  BY OverbillingPrinted, ArithmeticAndTermPrinted, CurrencyMismatchPrinted, CleanPrinted
     DEF TypesIn
<1>2. {TypesIn(BuiltinCases[k].seeded) : k \in 1 .. 4} =
          {TypesIn(Overbilling.seeded), TypesIn(ArithmeticAndTerm.seeded),
           TypesIn(CurrencyMismatch.seeded), TypesIn(Clean.seeded)}
  <2>1. 1 .. 4 = {1, 2, 3, 4}
    OBVIOUS
  <2> QED
    BY <2>1, BuiltinInOrder
<1> QED
  BY <1>1, <1>2, SMTT(30) DEF FindingTypes

\* The built-in cases, run as a suite, are all read, and the report on them has
\* precision and recall 1 and every type a rule can report, whatever the other
\* cases and settings are (cases.py:4-5, tests/test_eval_harness.py:10-15).
THEOREM BuiltinIsPerfect == SuiteSpec => []BuiltinScoresPerfectly
<1>1. ASSUME SuiteInv, cases = BuiltinCases
      PROVE  /\ ~raised
             /\ report # None => /\ IsOne(Precision(report)) /\ IsOne(Recall(report))
                                 /\ DOMAIN report.per_type = FindingTypes
  <2>1. /\ DOMAIN cases = 1 .. 4 /\ Len(cases) = 4
        /\ \A k \in 1 .. 4 : cases[k] \in Cases
    <3>1. cases \in Seq(Cases)
      BY <1>1, SuitesAssumption, Zenon DEF SuiteInv
    <3>2. \A k \in 1 .. Len(cases) : cases[k] \in Cases
      BY <3>1
    <3>3. DOMAIN cases = 1 .. 4 /\ Len(cases) = 4
      BY <1>1, BuiltinInOrder, Zenon
    <3> QED
      BY <3>2, <3>3
  <2>2. \A k \in 1 .. 4 : ScoresPerfectly(cases[k])
    <3>1. \A k \in 1 .. 4 : k = 1 \/ k = 2 \/ k = 3 \/ k = 4
      OBVIOUS
    <3>2. /\ cases[1] = Overbilling /\ cases[2] = ArithmeticAndTerm
          /\ cases[3] = CurrencyMismatch /\ cases[4] = Clean
      BY <1>1, BuiltinInOrder
    <3> TAKE k \in 1 .. 4
    <3> QED
      BY <2>1, <3>1, <3>2, OverbillingIsFound, ArithmeticAndTermIsFound,
         CurrencyMismatchIsFound, CleanIsFound
  <2>3. ~raised
    BY <1>1, <2>1, <2>2 DEF SuiteInv, ScoresPerfectly
  <2>4. ASSUME report # None
        PROVE  /\ IsOne(Precision(report)) /\ IsOne(Recall(report))
               /\ DOMAIN report.per_type = FindingTypes
    <3> DEFINE tp == InAll(Hits(results))
               fp == InAll(Alarms(results))
               fn == InAll(Misses(results))
    <3>1. FiniteOutcomes(results) /\ report = ComputeMetrics(results, Len(results))
      BY <1>1, <2>4, OutcomesOfTheSuite DEF SuiteInv
    <3>2. Len(results) = 4 /\ DOMAIN results = 1 .. 4
      BY <1>1, <2>1, <2>4, OutcomesOfTheSuite DEF SuiteInv
    <3>3. \A k \in 1 .. 4 : /\ results[k].detected = BuiltinCases[k].seeded
                            /\ results[k].seeded = BuiltinCases[k].seeded
      <4> TAKE k \in 1 .. 4
      <4>1. results[k] = CaseResult(cases[k])
        BY <1>1, <3>2 DEF SuiteInv
      <4>2. CaseResult(cases[k]).seeded = cases[k].seeded
        BY DEF CaseResult
      <4> QED
        BY <1>1, <2>2, <4>1, <4>2 DEF ScoresPerfectly
    <3>4. /\ Total(report, "true_positives") = tp
          /\ Total(report, "false_positives") = fp
          /\ Total(report, "false_negatives") = fn
      BY <3>1, TotalsCount
    <3>5. tp \in Nat /\ fp = 0 /\ fn = 0
      BY <3>1, <3>2, <3>3, OutcomesSplit
    <3> HIDE DEF tp, fp, fn
    <3>6. IsOne(Share(tp, 0))
      BY <3>5 DEF Share, IsOne
    <3>7. AllTypes(results) = FindingTypes
      <4>1. \A k \in 1 .. 4 :
                TypesIn(results[k].detected \cup results[k].seeded)
                    = TypesIn(BuiltinCases[k].seeded)
        BY <3>3
      <4> QED
        BY <3>2, <4>1, TypesSeeded DEF AllTypes
    <3>8. DOMAIN report.per_type = AllTypes(results)
      BY <3>1 DEF ComputeMetrics
    <3> QED
      BY <3>4, <3>5, <3>6, <3>7, <3>8 DEF Precision, Recall
  <2> QED
    BY <2>3, <2>4
<1>2. SuiteInv => BuiltinScoresPerfectly
  BY <1>1 DEF BuiltinScoresPerfectly
<1> QED
  BY <1>2, SuiteInvHolds, PTL
=============================================================================
