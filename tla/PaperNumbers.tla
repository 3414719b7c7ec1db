---------------------------- MODULE PaperNumbers ----------------------------
(***************************************************************************)
(* Decimal arithmetic on a grid.  Prices, quantities and amounts are        *)
(* integers, a rate is an integer over Scale; one unit stands for the last  *)
(* digit Decimal keeps, and what does not fit is rounded half to even, the  *)
(* default of Python's Decimal context.                                     *)
(***************************************************************************)
EXTENDS Integers

CONSTANT Scale  \* a rate r stands for r / Scale

ASSUME ScaleAssumption == Scale \in Nat \ {0}

Higher(a, b) == IF a > b THEN a ELSE b
Lower(a, b) == IF a < b THEN a ELSE b
Distance(a, b) == IF a > b THEN a - b ELSE b - a

\* a / b for b > 0
Quotient(a, b) ==
  LET floor == a \div b
      twice == 2 * (a % b)
  IN  IF twice > b \/ (twice = b /\ floor % 2 = 1) THEN floor + 1 ELSE floor

CeilingOf(a, b) == - ((- a) \div b)

Times(amount, ratio) == Quotient(amount * ratio, Scale)
=============================================================================
