------------------------------- MODULE Money -------------------------------
(***************************************************************************)
(* The arithmetic of the `double` balances and amounts of the account      *)
(* database (common/include/account.h).  A finite amount is an integer     *)
(* number of units: the sums stay far below 2^53, where doubles add        *)
(* integers exactly, and rounding of fractions is not modelled.  The three *)
(* values of IEEE 754 that are not numbers of units are constants of their *)
(* own, because the comparisons of account.c do something with them: every *)
(* comparison with a NaN is false, and Infinity - Infinity is a NaN.       *)
(***************************************************************************)
EXTENDS Integers

CONSTANTS NaN, Infinity, NegInfinity

Special == {NaN, Infinity, NegInfinity}

ASSUME MoneyAssumption ==
  /\ Special \cap Int = {}
  /\ NaN # Infinity /\ NaN # NegInfinity /\ Infinity # NegInfinity

Money == Int \cup Special

\* a < b, as the C operator on doubles
Lt(a, b) ==
  \/ a \in Int /\ b \in Int /\ a < b
  \/ a = NegInfinity /\ b \in Int \cup {Infinity}
  \/ a \in Int /\ b = Infinity

\* a <= b, as the C operator on doubles: not the negation of b < a
Le(a, b) == Lt(a, b) \/ (a = b /\ a # NaN)

Negate(a) ==
  IF a \in Int THEN -a
  ELSE IF a = NaN THEN NaN
  ELSE IF a = Infinity THEN NegInfinity ELSE Infinity

Add(a, b) ==
  IF a \in Int /\ b \in Int THEN a + b
  ELSE IF NaN \in {a, b} \/ {Infinity, NegInfinity} \subseteq {a, b} THEN NaN
  ELSE IF Infinity \in {a, b} THEN Infinity ELSE NegInfinity

Sub(a, b) == Add(a, Negate(b))
=============================================================================
