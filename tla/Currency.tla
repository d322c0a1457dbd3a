-------------------------------- MODULE Currency --------------------------------
(***************************************************************************)
(* Amounts of money and billed lines (domain/models.py), and the types of  *)
(* a discrepancy (domain/enums.py).  An amount carries its currency in     *)
(* upper case; contracts and invoices carry theirs as it was submitted.    *)
(*                                                                         *)
(* The program's numbers are decimals with any number of places.  Finitely *)
(* many of them are whole numbers of some small enough unit, so they are   *)
(* counted in units whose size is a parameter.  Products are exact: those  *)
(* of more than the 28 digits that Decimal keeps are not modelled.         *)
(***************************************************************************)
EXTENDS Values

CONSTANTS
    Upper,     \* currency code -> the code in upper case
    Cent,      \* how many of the units of an amount make a cent
    Piece,     \* how many of the units of a quantity make a quantity of one
    Percent    \* how many of the units of a discount make one percent

ASSUME ScalesAssumption ==
    Cent \in Nat \ {0} /\ Piece \in Nat \ {0} /\ Percent \in Nat \ {0}

ASSUME UpperAssumption ==
    \A c \in DOMAIN Upper : Upper[c] \in DOMAIN Upper /\ Upper[Upper[c]] = Upper[c]

\* What the validated models can hold.  An amount may be negative, and nothing
\* keeps the numbers of an invoice's lines in order or distinct.
Amounts == [amount : Int, currency : DOMAIN Upper]

LineItems ==
    [line_no : Nat \ {0}, sku : STRING, quantity : Nat \ {0},
     unit_rate : Amounts, line_total : Amounts]

DiscrepancyTypes ==
    {"RATE_MISMATCH", "CURRENCY_MISMATCH", "ARITHMETIC_ERROR", "OUT_OF_TERM",
     "MISSED_VOLUME_DISCOUNT", "DUPLICATE_INVOICE", "UNCONTRACTED_ITEM"}

Money(amount, currency) == [amount |-> amount, currency |-> Upper[currency]]
=============================================================================
