--------------------------------- MODULE Values ---------------------------------
(***************************************************************************)
(* How the modules write the program's numbers: a score or a confidence is *)
(* an integer number of ten-thousandths, and a division rounds half to     *)
(* even, the way Decimal.quantize and round() do.                          *)
(***************************************************************************)
EXTENDS Integers

CONSTANT None     \* Python's None

One == 10000      \* the score 1.0

\* n / d for d > 0, rounded to the nearest integer, ties to the even one.
HalfEven(n, d) ==
    LET quotient == n \div d
        twice == 2 * (n % d)
    IN IF twice > d \/ (twice = d /\ quotient % 2 = 1)
       THEN quotient + 1
       ELSE quotient
=============================================================================
