-------------------------------- MODULE Words --------------------------------
(***************************************************************************)
(* Machine words of Width bits.  An integer is its signed value.  A float  *)
(* is its signed bit pattern and stands for half of that number: what a    *)
(* float operation yields matters only in that it is a function of its     *)
(* operands, so the results are cut at the ends of the range.              *)
(***************************************************************************)
EXTENDS Integers

CONSTANT Width

ASSUME WidthAssumption == Width \in Nat /\ Width > 1

MinInt == -(2 ^ (Width - 1))
MaxInt == 2 ^ (Width - 1) - 1
Int32 == MinInt .. MaxInt

Unsigned(n, bits) == n % 2 ^ bits
Signed(n, bits) ==
  LET u == Unsigned(n, bits) IN IF u < 2 ^ (bits - 1) THEN u ELSE u - 2 ^ bits
Wrap(n) == Signed(n, Width)

(* Division of C: towards zero. *)
Abs(n) == IF n < 0 THEN -n ELSE n
TruncDiv(a, b) ==
  IF (a < 0) = (b < 0) THEN Abs(a) \div Abs(b) ELSE -(Abs(a) \div Abs(b))
TruncMod(a, b) == a - b * TruncDiv(a, b)

Cut(n) == IF n < MinInt THEN MinInt ELSE IF n > MaxInt THEN MaxInt ELSE n
ToFloat(i) == Cut(2 * i)
ToInt(f) == TruncDiv(f, 2)

(* Exact integer arithmetic; the word that holds the result is its Wrap. *)
IntArithmetic(op, a, b) ==
  CASE op = "Add" -> a + b
    [] op = "Sub" -> a - b
    [] op = "Mul" -> a * b
    [] op = "Div" -> TruncDiv(a, b)
    [] op = "Mod" -> TruncMod(a, b)

FloatArithmetic(op, a, b) ==
  CASE op = "Add" -> Cut(a + b)
    [] op = "Sub" -> Cut(a - b)
    [] op = "Mul" -> Cut((a * b) \div 2)
    [] op = "Div" -> IF b = 0 THEN MaxInt ELSE Cut(TruncDiv(2 * a, b))

Compare(op, a, b) ==
  CASE op = "Lt" -> a < b
    [] op = "Le" -> a <= b
    [] op = "Gt" -> a > b
    [] op = "Ge" -> a >= b
    [] op = "Eq" -> a = b
    [] op = "Ne" -> a # b

ArithmeticOps == {"Add", "Sub", "Mul", "Div", "Mod"}
EqualityOps == {"Eq", "Ne"}
RelationalOps == {"Lt", "Le", "Gt", "Ge"}
LogicalOps == {"And", "Or"}

Truth(b) == IF b THEN 1 ELSE 0
=============================================================================
