----------------------------- MODULE FixedPoint -----------------------------
(***************************************************************************)
(* The numbers of arithmetic_types.h as the type T a program computes      *)
(* with: rounding, fixed_decimal and fixed_binary, with either policy and  *)
(* over long or unsigned long.  A long has 2 * Half values; the arithmetic *)
(* of the build wraps around, and a division by zero traps.                *)
(***************************************************************************)
EXTENDS Integers

CONSTANTS
  Half,          \* 2^31 for the 32 bits of a long
  DecimalScale,  \* exp10<N>::value
  BinaryScale,   \* 1 << N
  FractionScale, \* exp10<(N > 3 ? 3 : N)>::value, in which its fraction is written
  MaxSum         \* bound of the sums that are followed

ASSUME NumberAssumption ==
  /\ Half \in Nat \ {0}
  /\ DecimalScale \in Nat \ {0} /\ 2 * DecimalScale <= Half
  /\ BinaryScale \in Nat \ {0} /\ 2 * BinaryScale <= Half
  /\ FractionScale \in Nat \ {0}
  /\ MaxSum \in Nat

VARIABLES
  type,  \* the instance of the template
  rep,   \* rep_
  sum    \* history: what was added and subtracted since rep was last exact

vars == <<type, rep, sum>>

(* rounding has no policy but the first.                                   *)
Types ==
  [class : {"rounding"}, policy : {"restrict_range"}, signed : BOOLEAN]
    \cup
  [class : {"fixed_decimal", "fixed_binary"},
   policy : {"restrict_range", "long_intermediate_result"}, signed : BOOLEAN]

scale == CASE type.class = "rounding" -> 1
           [] type.class = "fixed_decimal" -> DecimalScale
           [] type.class = "fixed_binary" -> BinaryScale

(* The values of rep_t.                                                    *)
Reps == IF type.signed THEN -Half .. Half - 1 ELSE 0 .. 2 * Half - 1

(* What an integer type of 2 * h values makes of x.                        *)
AsSigned(x, h) == ((x + h) % (2 * h)) - h
Wrapped(x, h) == IF type.signed THEN AsSigned(x, h) ELSE x % (2 * h)

(* Conversions to rep_t and to intermed_t, which is twice as wide under    *)
(* policy_long_intermediate_result.                                        *)
Narrow(x) == Wrapped(x, Half)
Widen(x) ==
  Wrapped(x, IF type.policy = "restrict_range" THEN Half ELSE 2 * Half * Half)

-----------------------------------------------------------------------------
Abs(x) == IF x < 0 THEN -x ELSE x

(* The operators / and %, which truncate.                                  *)
Quot(n, d) ==
  IF (n < 0) = (d < 0) THEN Abs(n) \div Abs(d) ELSE -(Abs(n) \div Abs(d))
Rem(n, d) == n - d * Quot(n, d)

(* neg(...) of rounded_division(): the remainder is half the divisor or    *)
(* more.  The double of the remainder has the width of rep_t.              *)
RoundsUp(n, d) ==
  LET r == Narrow(Rem(n, d))
  IN  IF type.signed
        THEN Widen(Widen(Abs(d)) - Narrow(2 * Narrow(Abs(r))) - 1) < 0
        ELSE AsSigned(Narrow(2 * r) - d, Half) >= 0

(* A mutant: the quotient is always rounded upwards.                       *)
RoundedAlwaysUpwards(n, d) ==
  Narrow(Narrow(Quot(n, d)) + IF RoundsUp(n, d) THEN 1 ELSE 0)

RoundedDivision(n, d) ==
  LET away == IF (n < 0) = (d < 0) THEN 1 ELSE -1
  IN  Narrow(Narrow(Quot(n, d)) + IF RoundsUp(n, d) THEN away ELSE 0)

(* The dividend of operator/=: fixed_decimal multiplies by its scale       *)
(* before the conversion to intermed_t, fixed_binary after it.             *)
Dividend(a) ==
  IF type.class = "fixed_decimal" THEN Narrow(a * scale) ELSE Widen(a * scale)

Quotient(a, b) == RoundedDivision(Dividend(a), b)

(* A mutant: the product is scaled back without rounding.                  *)
ProductTruncated(a, b) == Narrow(Quot(Widen(a * b), scale))

(* operator*=, which for rounding is the plain one.                        *)
Product(a, b) ==
  IF type.class = "rounding"
    THEN Narrow(a * b)
    ELSE RoundedDivision(Widen(a * b), scale)

(* The division instruction traps on zero and on the one quotient that the *)
(* intermediate type does not have.                                        *)
Traps(n, d) == d = 0 \/ Widen(Quot(n, d)) # Quot(n, d)

(* characteristic() and fraction(): fixed_decimal has / and %, fixed_binary*)
(* >> and &.                                                               *)
Parts ==
  IF type.class = "fixed_binary"
    THEN [characteristic |-> rep \div scale, fraction |-> rep % scale]
    ELSE [characteristic |-> Quot(rep, scale), fraction |-> Rem(rep, scale)]

(* The last digit that is written counts units of 1 / TextScale.           *)
TextScale == IF type.class = "fixed_binary" THEN FractionScale ELSE scale

(* A mutant: the fraction is cut off after its last digit.                 *)
WrittenTruncated ==
  IF type.class = "fixed_binary"
    THEN Quot(Narrow(Abs(Parts.fraction) * FractionScale), scale)
    ELSE Abs(Parts.fraction)

(* f of operator<<, the fraction as it is written: fixed_binary multiplies *)
(* at the width of rep_t and rounds.                                       *)
Written ==
  IF type.class = "fixed_binary"
    THEN RoundedDivision(Narrow(Abs(Parts.fraction) * FractionScale), scale)
    ELSE Abs(Parts.fraction)

(* The characters '0' + f / i of the loop are all digits: a whole one in f *)
(* is not carried over but makes the first of them ':'.                    *)
OnlyDigits == Written \in 0 .. TextScale - 1

(* The number that operator<< writes, in units of 1 / TextScale: the       *)
(* characteristic with its sign, then f; rounding writes get().            *)
Printed ==
  LET c == Parts.characteristic
  IN  IF type.class = "rounding"
        THEN RoundedDivision(rep, scale)
        ELSE c * TextScale + IF c < 0 THEN -Written ELSE Written

-----------------------------------------------------------------------------
(* The constructors from the two parts of a number.                        *)
Init ==
  /\ type \in Types
  /\ rep \in Reps
  /\ sum = rep

(* A mutant: a sum that is out of range is cut off.                        *)
AddSaturated(x) ==
  /\ Abs(sum + x) <= MaxSum
  /\ rep' = IF rep + x \in Reps THEN rep + x ELSE Narrow(-Half)
  /\ sum' = sum + x
  /\ UNCHANGED type

Add(x) ==
  /\ Abs(sum + x) <= MaxSum
  /\ rep' = Narrow(rep + x)
  /\ sum' = sum + x
  /\ UNCHANGED type

Subtract(x) ==
  /\ Abs(sum - x) <= MaxSum
  /\ rep' = Narrow(rep - x)
  /\ sum' = sum - x
  /\ UNCHANGED type

Multiply(x) ==
  /\ rep' = Product(rep, x)
  /\ sum' = rep'
  /\ UNCHANGED type

(* A mutant: the quotient is neither rounded nor narrowed.                 *)
DivideWide(x) ==
  /\ ~Traps(Dividend(rep), x)
  /\ rep' = Quot(Dividend(rep), x)
  /\ sum' = rep'
  /\ UNCHANGED type

Divide(x) ==
  /\ ~Traps(Dividend(rep), x)
  /\ rep' = Quotient(rep, x)
  /\ sum' = rep'
  /\ UNCHANGED type

Next == \E x \in Reps : Add(x) \/ Subtract(x) \/ Multiply(x) \/ Divide(x)

Spec == Init /\ [][Next]_vars

-----------------------------------------------------------------------------
(* Types: whatever is computed, what is kept is a rep_t.                   *)
TypeOK ==
  /\ type \in Types
  /\ rep \in Reps
  /\ sum \in Int

(* q is n / d rounded to the nearest integer, halves away from zero.       *)
IsNearest(q, n, d) ==
  LET error == Abs(n - q * d)
  IN  \/ 2 * error < Abs(d)
      \/ 2 * error = Abs(d) /\ Abs(q * d) > Abs(n)

Representable(n, d) == \E q \in Reps : IsNearest(q, n, d)

(* The doubled remainder, or its distance from the divisor, fits in a long.*)
DoubleFits(n, d) ==
  LET r == Rem(n, d)
  IN  IF type.signed
        THEN type.policy = "restrict_range" \/ 2 * Abs(r) < Half
        ELSE 2 * r - d >= -Half /\ 2 * r - d < Half

(* operator/= gives the nearest number where the dividend and the quotient *)
(* fit in their types, except exactly where the doubled remainder does     *)
(* not: never with policy_restrict_range<long>, where the overflow of the  *)
(* double is undone by the subtraction, but there are such remainders with *)
(* policy_long_intermediate_result and with unsigned long (lines 70-76,    *)
(* 90-96, 112-118, 132-138).                                               *)
QuotientsAreNearest ==
  \A x \in Reps \ {0} :
    LET n == rep * scale
    IN  ~Traps(n, x) /\ Dividend(rep) = n /\ Representable(n, x) =>
          (IsNearest(Quotient(rep, x), n, x) <=> DoubleFits(n, x))

(* operator*= gives the nearest number where the product before and after  *)
(* the scaling fits in its type (lines 54-58, 291-292, 364-365).           *)
ProductsAreNearest ==
  \A x \in Reps :
    LET n == rep * x
    IN  Widen(n) = n /\ Representable(n, scale) =>
          IsNearest(Product(rep, x), n, scale)

(* Division by a number of magnitude 1 or less and multiplication by it    *)
(* give the old number back, where nothing overflows: the two roundings    *)
(* cancel (operator/= and operator*=).                                     *)
DividingIsUndone ==
  \A x \in Reps \ {0} :
    LET n == rep * scale
        q == Quotient(rep, x)
    IN  /\ Abs(x) <= scale
        /\ ~Traps(n, x) /\ Dividend(rep) = n /\ Representable(n, x)
        /\ Widen(q * x) = q * x
        => Product(q, x) = rep

(* A sum whose intermediate results were out of range is right if it is    *)
(* in range itself (operator+= and operator-=, lines 228-229, 289-290).    *)
SumsHeal == sum \in Reps => rep = sum

(* What is written is the number, to the nearest unit of the last digit,   *)
(* except for what operator<< gets wrong: a fixed_decimal between -1 and 0, *)
(* whose sign is lost; and a fixed_binary with a fraction that overflows   *)
(* when it is scaled, or that rounds to a whole one, or that is not        *)
(* written as 0 behind a negative characteristic (lines 253-254, 317-324,  *)
(* 391-399).                                                               *)
PrintedIsNearest ==
  LET f == Parts.fraction
  IN  OnlyDigits /\ IsNearest(Printed, rep * TextScale, scale) <=>
        ~ \/ type.class = "fixed_decimal" /\ -scale < rep /\ rep < 0
          \/ /\ type.class = "fixed_binary"
             /\ \/ f * FractionScale \notin Reps
                \/ 2 * (scale - f) * FractionScale <= scale
                \/ rep < 0 /\ 2 * f * FractionScale >= scale
=============================================================================
