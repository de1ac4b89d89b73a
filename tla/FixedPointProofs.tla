-------------------------- MODULE FixedPointProofs --------------------------
(***************************************************************************)
(* Theorems about FixedPoint, for any width of a long and any scales.      *)
(*                                                                         *)
(* Arithmetic that wraps around is arithmetic up to multiples of           *)
(* 2 * Half: NarrowForm and NarrowIs are all the proofs use of it.         *)
(***************************************************************************)
EXTENDS FixedPoint, TLAPS

USE NumberAssumption

-----------------------------------------------------------------------------
(* Arithmetic. *)

LEMMA Modulus ==
  ASSUME NEW x \in Int, NEW m \in Nat \ {0}
  PROVE  /\ x % m \in 0 .. m - 1
         /\ \E k \in Int : x = k * m + (x % m)
<1>1. x % m \in 0 .. m - 1
  BY SMT
<1>2. m \in Int /\ m > 0
  OBVIOUS
<1>3. x \div m \in Int
  BY <1>2, SMT
<1>4. x = (x \div m) * m + (x % m)
  BY <1>2, SMT
<1> QED
  BY <1>1, <1>3, <1>4

LEMMA SmallMultiple ==
  ASSUME NEW k \in Int, NEW m \in Int, -Abs(m) < k * m, k * m < Abs(m)
  PROVE  k * m = 0
<1>1. CASE k = 0
  BY <1>1, SMT
<1>2. CASE k >= 1
  <2>1. PICK j \in Nat : k = j + 1
    BY <1>2, SMT
  <2>2. k * m = j * m + m
    BY <2>1, SMT
  <2>3. m >= 0 => j * m >= 0
    BY <2>1, SMT
  <2>4. m < 0 => j * m <= 0
    BY <2>1, SMT
  <2>5. j * m \in Int
    BY <2>1
  <2> QED
    BY <2>2, <2>3, <2>4, <2>5, SMT DEF Abs
<1>3. CASE k <= -1
  <2>1. PICK j \in Nat : k = -j - 1
    <3>1. -k - 1 \in Nat /\ k = -(-k - 1) - 1
      BY <1>3, SMT
    <3> QED
      BY <3>1
  <2>2. k * m = -(j * m) - m
    BY <2>1, SMT
  <2>3. m >= 0 => j * m >= 0
    BY <2>1, SMT
  <2>4. m < 0 => j * m <= 0
    BY <2>1, SMT
  <2>5. j * m \in Int
    BY <2>1
  <2> QED
    BY <2>2, <2>3, <2>4, <2>5, SMT DEF Abs
<1> QED
  BY <1>1, <1>2, <1>3, SMT

(* Two numbers of an interval shorter than m that differ by a multiple of  *)
(* m are equal.                                                            *)
LEMMA SameResidue ==
  ASSUME NEW x \in Int, NEW y \in Int, NEW k \in Int, NEW m \in Nat \ {0},
         x = y + k * m, x - y < m, y - x < m
  PROVE  x = y
<1>1. k * m \in Int /\ k * m = x - y /\ Abs(m) = m
  BY DEF Abs
<1>2. k * m = 0
  BY <1>1, SmallMultiple
<1> QED
  BY <1>1, <1>2, SMT

LEMMA SignedForm ==
  ASSUME NEW x \in Int, NEW h \in Nat \ {0}
  PROVE  /\ AsSigned(x, h) \in -h .. h - 1
         /\ \E k \in Int : x = AsSigned(x, h) + k * (2 * h)
<1>1. 2 * h \in Nat \ {0} /\ x + h \in Int
  OBVIOUS
<1>2. (x + h) % (2 * h) \in 0 .. 2 * h - 1
  BY <1>1, Modulus
<1>3. PICK k \in Int : x + h = k * (2 * h) + ((x + h) % (2 * h))
  BY <1>1, Modulus
<1>4. k * (2 * h) \in Int
  BY <1>1, SMT
<1>5. AsSigned(x, h) = ((x + h) % (2 * h)) - h
  BY DEF AsSigned
<1> DEFINE w == (x + h) % (2 * h)
           t == k * (2 * h)
<1> HIDE DEF w, t
<1>6. w \in 0 .. 2 * h - 1 /\ t \in Int /\ x + h = t + w /\ AsSigned(x, h) = w - h
  BY <1>2, <1>3, <1>4, <1>5 DEF w, t
<1>7. AsSigned(x, h) \in -h .. h - 1 /\ x = AsSigned(x, h) + t
  BY <1>6, SMT
<1> QED
  BY <1>7 DEF t

LEMMA SignedIs ==
  ASSUME NEW x \in Int, NEW h \in Nat \ {0}, NEW y \in -h .. h - 1, NEW k \in Int,
         x = y + k * (2 * h)
  PROVE  AsSigned(x, h) = y
<1>1. AsSigned(x, h) \in -h .. h - 1
  BY SignedForm
<1>2. PICK j \in Int : x = AsSigned(x, h) + j * (2 * h)
  BY SignedForm
<1> DEFINE s == AsSigned(x, h)
           m == 2 * h
<1> HIDE DEF s, m
<1>3. s \in -h .. h - 1 /\ m = 2 * h /\ m \in Nat \ {0} /\ x = s + j * m /\ x = y + k * m
  BY <1>1, <1>2 DEF s, m
<1>4. k * m \in Int /\ j * m \in Int /\ (k - j) * m = k * m - j * m
  BY <1>3, SMT
<1>5. s = y + (k - j) * m
  BY <1>3, <1>4, SMT
<1>6. s = y
  <2>1. s \in Int /\ y \in Int /\ k - j \in Int /\ s - y < m /\ y - s < m
    BY <1>3, SMT
  <2> QED
    BY <1>3, <1>5, <2>1, SameResidue
<1> QED
  BY <1>6 DEF s

LEMMA WrappedForm ==
  ASSUME type \in Types, NEW x \in Int, NEW h \in Nat \ {0}
  PROVE  /\ Wrapped(x, h) \in IF type.signed THEN -h .. h - 1 ELSE 0 .. 2 * h - 1
         /\ \E k \in Int : x = Wrapped(x, h) + k * (2 * h)
<1>1. CASE type.signed
  BY <1>1, SignedForm DEF Wrapped
<1>2. CASE ~type.signed
  <2>1. 2 * h \in Nat \ {0}
    OBVIOUS
  <2>2. x % (2 * h) \in 0 .. 2 * h - 1
    BY <2>1, Modulus
  <2>3. PICK k \in Int : x = k * (2 * h) + (x % (2 * h))
    BY <2>1, Modulus
  <2>4. x = (x % (2 * h)) + k * (2 * h)
    <3> DEFINE w == x % (2 * h)
               t == k * (2 * h)
    <3>1. w \in Int /\ t \in Int /\ x = t + w
      BY <2>1, <2>2, <2>3, SMT
    <3> HIDE DEF w, t
    <3>2. x = w + t
      BY <3>1, SMT
    <3> QED
      BY <3>2 DEF w, t
  <2> QED
    BY <1>2, <2>2, <2>4 DEF Wrapped
<1> QED
  BY <1>1, <1>2

LEMMA WrappedIs ==
  ASSUME type \in Types, NEW x \in Int, NEW h \in Nat \ {0},
         NEW y \in IF type.signed THEN -h .. h - 1 ELSE 0 .. 2 * h - 1,
         NEW k \in Int, x = y + k * (2 * h)
  PROVE  Wrapped(x, h) = y
<1>1. CASE type.signed
  BY <1>1, SignedIs DEF Wrapped
<1>2. CASE ~type.signed
  <2>1. Wrapped(x, h) \in 0 .. 2 * h - 1
    BY <1>2, WrappedForm
  <2>2. PICK j \in Int : x = Wrapped(x, h) + j * (2 * h)
    BY WrappedForm
  <2> DEFINE s == Wrapped(x, h)
             m == 2 * h
  <2> HIDE DEF s, m
  <2>3. s \in 0 .. m - 1 /\ y \in 0 .. m - 1 /\ m \in Nat \ {0} /\ x = s + j * m /\ x = y + k * m
    BY <1>2, <2>1, <2>2 DEF s, m
  <2>4. k * m \in Int /\ j * m \in Int /\ (k - j) * m = k * m - j * m
    BY <2>3, SMT
  <2>5. s = y + (k - j) * m
    BY <2>3, <2>4, SMT
  <2>6. s = y
    <3>1. s \in Int /\ y \in Int /\ k - j \in Int /\ s - y < m /\ y - s < m
      BY <2>3, SMT
    <3> QED
      BY <2>3, <2>5, <3>1, SameResidue
  <2> QED
    BY <2>6 DEF s
<1> QED
  BY <1>1, <1>2

LEMMA WrappedKeeps ==
  ASSUME type \in Types, NEW h \in Nat \ {0},
         NEW x \in IF type.signed THEN -h .. h - 1 ELSE 0 .. 2 * h - 1
  PROVE  Wrapped(x, h) = x
<1> DEFINE k == 0
<1>1. x \in Int
  OBVIOUS
<1>2. k \in Int /\ x = x + k * (2 * h)
  BY <1>1, SMT
<1> HIDE DEF k
<1> QED
  BY <1>1, <1>2, WrappedIs

LEMMA NarrowForm ==
  ASSUME type \in Types, NEW x \in Int
  PROVE  /\ Narrow(x) \in Reps
         /\ Narrow(x) \in Int
         /\ \E k \in Int : x = Narrow(x) + k * (2 * Half)
<1>1. /\ Wrapped(x, Half) \in IF type.signed THEN -Half .. Half - 1 ELSE 0 .. 2 * Half - 1
      /\ \E k \in Int : x = Wrapped(x, Half) + k * (2 * Half)
  BY WrappedForm
<1>2. Narrow(x) \in Reps
  BY <1>1 DEF Narrow, Reps
<1>3. Reps \subseteq Int
  BY DEF Reps
<1> QED
  BY <1>1, <1>2, <1>3 DEF Narrow

LEMMA NarrowIs ==
  ASSUME type \in Types, NEW x \in Int, NEW y \in Reps, NEW k \in Int, x = y + k * (2 * Half)
  PROVE  Narrow(x) = y
<1>1. y \in IF type.signed THEN -Half .. Half - 1 ELSE 0 .. 2 * Half - 1
  BY DEF Reps
<1> QED
  BY <1>1, WrappedIs DEF Narrow

LEMMA NarrowKeeps ==
  ASSUME type \in Types, NEW x \in Reps
  PROVE  Narrow(x) = x
<1>1. x \in Int /\ x = x + 0 * (2 * Half)
  BY DEF Reps
<1> QED
  BY <1>1, NarrowIs

(* To narrow a summand first makes no difference. *)
LEMMA NarrowSum ==
  ASSUME type \in Types, NEW x \in Int, NEW y \in Int
  PROVE  Narrow(Narrow(x) + y) = Narrow(x + y)
<1> DEFINE s == Narrow(x)
           t == Narrow(x + y)
           m == 2 * Half
<1>1. PICK j \in Int : x = s + j * m
  BY NarrowForm
<1>2. PICK k \in Int : x + y = t + k * m
  <2>1. x + y \in Int
    OBVIOUS
  <2> QED
    BY <2>1, NarrowForm
<1>3. s \in Int /\ t \in Reps /\ t \in Int /\ m \in Nat \ {0}
  BY NarrowForm
<1> HIDE DEF s, t, m
<1>4. k * m \in Int /\ j * m \in Int /\ (k - j) * m = k * m - j * m
  BY <1>3, SMT
<1>5. s + y = t + (k - j) * m
  BY <1>1, <1>2, <1>3, <1>4, SMT
<1>6. Narrow(s + y) = t
  BY <1>3, <1>5, NarrowIs DEF m
<1> QED
  BY <1>6 DEF s, t

-----------------------------------------------------------------------------
(* Division. *)

(* The operators / and %. *)
LEMMA Truncation ==
  ASSUME NEW n \in Int, NEW d \in Int, d # 0
  PROVE  /\ Quot(n, d) \in Int
         /\ Rem(n, d) \in Int
         /\ n = Quot(n, d) * d + Rem(n, d)
         /\ Quot(n, d) * d \in Int
         /\ Abs(Rem(n, d)) < Abs(d)
         /\ Abs(Rem(n, d)) <= Abs(n)
         /\ Rem(n, d) > 0 => n > 0
         /\ Rem(n, d) < 0 => n < 0
<1> DEFINE a == Abs(n)
           b == Abs(d)
           e == a \div b
           c == a % b
           p == e * b
           q == Quot(n, d)
           r == Rem(n, d)
<1>1. a \in Nat /\ b \in Int /\ b > 0
  BY DEF Abs
<1> HIDE DEF a, b
<1>2. e \in Nat
  BY <1>1, SMT
<1>3. a = e * b + c
  BY <1>1, SMT
<1>4. c \in 0 .. b - 1
  BY <1>1, SMT
<1>5. p \in Int /\ e * d = IF d < 0 THEN -p ELSE p
  <2>1. b = IF d < 0 THEN -d ELSE d
    BY DEF b, Abs
  <2>2. CASE d < 0
    <3>1. d = -b
      BY <2>1, <2>2
    <3>2. e * (-b) = -(e * b)
      BY <1>1, <1>2, SMT
    <3> QED
      BY <1>1, <1>2, <2>2, <3>1, <3>2
  <2>3. CASE d > 0
    BY <1>2, <2>1, <2>3, SMT
  <2> QED
    BY <2>2, <2>3
<1>6. q = IF (n < 0) = (d < 0) THEN e ELSE -e
  BY DEF Quot, a, b
<1> HIDE DEF e, c, q
<1>7. q \in Int
  BY <1>2, <1>6
<1>8. q * d = (IF n < 0 THEN -p ELSE p) /\ d * q = q * d
  <2>1. (-e) * d = -(e * d)
    BY <1>2, SMT
  <2>2. d * q = q * d
    BY <1>7, SMT
  <2>3. CASE (n < 0) = (d < 0)
    BY <1>5, <1>6, <2>2, <2>3
  <2>4. CASE (n < 0) # (d < 0)
    BY <1>5, <1>6, <2>1, <2>2, <2>4, SMT
  <2> QED
    BY <2>3, <2>4
<1>9. r = n - q * d
  BY <1>8 DEF Rem, q
<1> HIDE DEF r
<1>10. a = p + c /\ p \in Int /\ a = IF n < 0 THEN -n ELSE n
  BY <1>3, <1>5 DEF a, Abs
<1>11. p >= 0
  BY <1>1, <1>2, SMT
<1> HIDE DEF p
<1>12. r = IF n < 0 THEN -c ELSE c
  BY <1>4, <1>8, <1>9, <1>10, SMT
<1>13. /\ r \in Int /\ q * d \in Int /\ n = q * d + r
       /\ Abs(r) = c /\ c <= a /\ c < b
       /\ r > 0 => n > 0
       /\ r < 0 => n < 0
  BY <1>1, <1>4, <1>8, <1>9, <1>10, <1>11, <1>12, SMT DEF Abs
<1> QED
  BY <1>7, <1>13 DEF q, r, a, b

(* The truncated quotient, and the one next to it that is further from     *)
(* zero: one of them is nearest, by the size of the remainder.             *)
Away(n, d) == IF (n < 0) = (d < 0) THEN 1 ELSE -1

LEMMA RoundingRule ==
  ASSUME NEW n \in Int, NEW d \in Int, d # 0
  PROVE  LET q == Quot(n, d)
             r == Rem(n, d)
         IN  /\ IsNearest(q, n, d) <=> 2 * Abs(r) < Abs(d)
             /\ IsNearest(q + Away(n, d), n, d) <=> 2 * Abs(r) >= Abs(d)
<1> DEFINE q == Quot(n, d)
           r == Rem(n, d)
           p == q * d
           s == Away(n, d)
<1>1. /\ q \in Int /\ r \in Int /\ p \in Int
      /\ n = p + r
      /\ Abs(r) < Abs(d) /\ Abs(r) <= Abs(n)
      /\ r > 0 => n > 0
      /\ r < 0 => n < 0
  BY Truncation
<1>2. s \in {1, -1} /\ s * d = IF n < 0 THEN -Abs(d) ELSE Abs(d)
  <2>1. CASE n < 0
    BY <2>1, SMT DEF Away, Abs
  <2>2. CASE ~(n < 0)
    BY <2>2, SMT DEF Away, Abs
  <2> QED
    BY <2>1, <2>2
<1> HIDE DEF q, r, s
<1>3. (q + s) * d = p + s * d
  BY <1>1, <1>2, SMT
<1> HIDE DEF p
<1>4. IsNearest(q, n, d) <=> 2 * Abs(r) < Abs(d)
  <2>1. IsNearest(q, n, d) <=> \/ 2 * Abs(n - p) < Abs(d)
                               \/ 2 * Abs(n - p) = Abs(d) /\ Abs(p) > Abs(n)
    BY DEF IsNearest, p
  <2>2. n - p = r /\ Abs(p) <= Abs(n)
    BY <1>1, SMT DEF Abs
  <2> QED
    BY <1>1, <2>1, <2>2, SMT DEF Abs
<1>5. IsNearest(q + s, n, d) <=> 2 * Abs(r) >= Abs(d)
  <2> DEFINE t == p + s * d
  <2>1. IsNearest(q + s, n, d) <=> \/ 2 * Abs(n - t) < Abs(d)
                                   \/ 2 * Abs(n - t) = Abs(d) /\ Abs(t) > Abs(n)
    BY <1>3 DEF IsNearest
  <2>2. t \in Int /\ t = IF n < 0 THEN p - Abs(d) ELSE p + Abs(d)
    BY <1>1, <1>2, SMT DEF Abs
  <2> HIDE DEF t
  <2>3. Abs(n - t) = Abs(d) - Abs(r) /\ Abs(t) > Abs(n)
    BY <1>1, <2>2, SMT DEF Abs
  <2> QED
    BY <1>1, <2>1, <2>3, SMT DEF Abs
<1> QED
  BY <1>4, <1>5 DEF q, r, s

(* There is one nearest number. *)
LEMMA NearestUnique ==
  ASSUME NEW n \in Int, NEW d \in Int, d # 0, NEW q \in Int, NEW s \in Int,
         IsNearest(q, n, d), IsNearest(s, n, d)
  PROVE  q = s
<1> DEFINE a == q * d
           b == s * d
<1>1. a \in Int /\ b \in Int /\ (q - s) * d = a - b
  BY SMT
<1>2. /\ \/ 2 * Abs(n - a) < Abs(d)
         \/ 2 * Abs(n - a) = Abs(d) /\ Abs(a) > Abs(n)
      /\ \/ 2 * Abs(n - b) < Abs(d)
         \/ 2 * Abs(n - b) = Abs(d) /\ Abs(b) > Abs(n)
  BY DEF IsNearest
<1>3. ASSUME NEW k \in Int, -Abs(d) < k * d, k * d < Abs(d) PROVE k * d = 0
  BY <1>3, SmallMultiple
<1> HIDE DEF a, b
<1>4. a = b
  <2>1. CASE -Abs(d) < a - b /\ a - b < Abs(d)
    <3>1. (q - s) * d = 0
      BY <1>1, <1>3, <2>1
    <3> QED
      BY <1>1, <3>1
  <2>2. CASE ~(-Abs(d) < a - b /\ a - b < Abs(d))
    <3>1. /\ 2 * Abs(n - a) = Abs(d) /\ Abs(a) > Abs(n)
          /\ 2 * Abs(n - b) = Abs(d) /\ Abs(b) > Abs(n)
      BY <1>1, <1>2, <2>2, SMT DEF Abs
    <3>2. \/ -Abs(d) < a /\ a < Abs(d) /\ a # 0
          \/ -Abs(d) < b /\ b < Abs(d) /\ b # 0
      BY <1>1, <2>2, <3>1, SMT DEF Abs
    <3> QED
      BY <1>3, <3>2 DEF a, b
  <2> QED
    BY <2>1, <2>2
<1>5. (q - s) * d = 0
  BY <1>1, <1>4
<1>6. q - s = 0
  BY <1>5, SMT
<1> QED
  BY <1>6

-----------------------------------------------------------------------------
(* rounded_division(). *)

(* Where the doubled remainder fits, and only there, it is compared with    *)
(* the divisor rightly.                                                     *)
LEMMA Comparison ==
  ASSUME type \in Types, NEW n \in Int, NEW d \in Reps \ {0}, ~type.signed => n >= 0
  PROVE  RoundsUp(n, d) <=> (DoubleFits(n, d) <=> 2 * Abs(Rem(n, d)) >= Abs(d))
<1> DEFINE r == Rem(n, d)
<1>1. d \in Int /\ d # 0
  BY DEF Reps
<1>2. /\ r \in Int
      /\ Abs(r) < Abs(d)
      /\ r < 0 => n < 0
  BY <1>1, Truncation
<1>3. r \in Reps
  BY <1>1, <1>2, SMT DEF Reps, Abs
<1>4. Narrow(r) = r
  BY <1>3, NarrowKeeps
<1> HIDE DEF r
<1>5. CASE type.signed
  <2>1. Abs(r) \in Nat /\ Abs(d) \in Nat /\ Abs(d) <= Half /\ Abs(d) > Abs(r)
    BY <1>1, <1>2, <1>5, SMT DEF Reps, Abs
  <2> DEFINE a == Abs(r)
             b == Abs(d)
             D == Narrow(2 * a)
  <2>2. Narrow(a) = a
    <3>1. a \in Reps
      BY <1>5, <2>1 DEF Reps
    <3> QED
      BY <3>1, NarrowKeeps
  <2>3. RoundsUp(n, d) <=> Widen(Widen(b) - D - 1) < 0
    BY <1>4, <1>5, <2>2 DEF RoundsUp, r
  <2> HIDE DEF a, b
  <2>4. a \in Nat /\ b \in Nat /\ b <= Half /\ a < b
    BY <2>1 DEF a, b
  <2>5. CASE type.policy = "restrict_range"
    <3>1. \A x : Widen(x) = Narrow(x)
      BY <2>5 DEF Widen, Narrow
    <3> b \in Int /\ 2 * a \in Int
      BY <2>4
    <3>2. PICK j \in Int : b = Narrow(b) + j * (2 * Half)
      BY NarrowForm
    <3>3. PICK k \in Int : 2 * a = D + k * (2 * Half)
      BY NarrowForm
    <3>4. D \in Int /\ Narrow(b) \in Int
      BY <2>4, NarrowForm
    <3>5. b - 2 * a - 1 \in Reps
      BY <1>5, <2>4, SMT DEF Reps
    <3>6. Narrow(b) - D - 1 = (b - 2 * a - 1) + (k - j) * (2 * Half)
      <4> DEFINE m == 2 * Half
                 B == Narrow(b)
      <4>1. m \in Int /\ B \in Int /\ D \in Int /\ b = B + j * m /\ 2 * a = D + k * m
        BY <3>2, <3>3, <3>4
      <4> HIDE DEF m, B, D
      <4>2. (k - j) * m = k * m - j * m /\ k * m \in Int /\ j * m \in Int
        BY <4>1, SMT
      <4>3. B - D - 1 = (b - 2 * a - 1) + (k - j) * m
        BY <2>4, <4>1, <4>2, SMT
      <4> QED
        BY <4>3 DEF m, B
    <3>7. Narrow(Narrow(b) - D - 1) = b - 2 * a - 1
      <4> DEFINE x == Narrow(b) - D - 1
                 y == b - 2 * a - 1
                 i == k - j
      <4>1. x \in Int /\ y \in Reps /\ i \in Int /\ x = y + i * (2 * Half)
        BY <3>4, <3>5, <3>6
      <4> HIDE DEF x, y, i
      <4>2. Narrow(x) = y
        BY <4>1, NarrowIs
      <4> QED
        BY <4>2 DEF x, y
    <3>8. RoundsUp(n, d) <=> b - 2 * a - 1 < 0
      BY <2>3, <3>1, <3>7
    <3>9. DoubleFits(n, d)
      BY <1>5, <2>5 DEF DoubleFits
    <3> QED
      BY <2>4, <3>8, <3>9 DEF a, b, r
  <2>6. CASE type.policy # "restrict_range"
    <3> DEFINE H == 2 * Half * Half
    <3>1. H \in Nat \ {0} /\ H >= 2 * Half
      BY SMT
    <3>2. ASSUME NEW x \in Int, -H <= x, x < H PROVE Widen(x) = x
      <4> HIDE DEF H
      <4>1. x \in IF type.signed THEN -H .. H - 1 ELSE 0 .. 2 * H - 1
        BY <1>5, <3>1, <3>2
      <4>2. Wrapped(x, H) = x
        BY <3>1, <4>1, WrappedKeeps
      <4> QED
        BY <2>6, <4>2 DEF Widen, H
    <3>3. D = IF 2 * a < Half THEN 2 * a ELSE 2 * a - 2 * Half
      <4>1. CASE 2 * a < Half
        <5>1. 2 * a \in Reps
          BY <1>5, <2>4, <4>1 DEF Reps
        <5> QED
          BY <4>1, <5>1, NarrowKeeps
      <4>2. CASE 2 * a >= Half
        <5>1. 2 * a - 2 * Half \in Reps
          BY <1>5, <2>4, <4>2, SMT DEF Reps
        <5>2. 2 * a \in Int /\ 2 * a = (2 * a - 2 * Half) + 1 * (2 * Half)
          BY <2>4, SMT
        <5>3. Narrow(2 * a) = 2 * a - 2 * Half
          <6> DEFINE y == 2 * a - 2 * Half
                     k == 1
          <6>1. y \in Reps /\ 2 * a \in Int /\ k \in Int /\ 2 * a = y + k * (2 * Half)
            BY <5>1, <5>2
          <6> HIDE DEF y, k
          <6>2. Narrow(2 * a) = y
            BY <6>1, NarrowIs
          <6> QED
            BY <6>2 DEF y
        <5> QED
          BY <2>4, <4>2, <5>3
      <4> QED
        BY <2>4, <4>1, <4>2
    <3> HIDE DEF D, H
    <3>4. D \in Int /\ -H <= b - D - 1 /\ b - D - 1 < H
      BY <2>4, <3>1, <3>3, SMT
    <3>5. Widen(b) = b
      <4>1. -H <= b /\ b < H
        BY <2>4, <3>1, SMT
      <4> QED
        BY <2>4, <3>2, <4>1
    <3>6. Widen(Widen(b) - D - 1) = b - D - 1
      BY <2>4, <3>2, <3>4, <3>5
    <3>7. RoundsUp(n, d) <=> b - D - 1 < 0
      BY <2>3, <3>6 DEF D
    <3>8. DoubleFits(n, d) <=> 2 * a < Half
      BY <1>5, <2>6 DEF DoubleFits, a, r
    <3>9. RoundsUp(n, d) <=> (2 * a < Half <=> 2 * a >= b)
      BY <2>4, <3>3, <3>4, <3>7, SMT
    <3> QED
      BY <3>8, <3>9 DEF a, b, r
  <2> QED
    BY <2>5, <2>6
<1>6. CASE ~type.signed
  <2>1. r >= 0 /\ d > 0 /\ d < 2 * Half /\ r < d
    BY <1>1, <1>2, <1>6, SMT DEF Reps, Abs
  <2> DEFINE D == Narrow(2 * r)
             c == 2 * r - d
  <2>2. RoundsUp(n, d) <=> AsSigned(D - d, Half) >= 0
    BY <1>4, <1>6 DEF RoundsUp, r
  <2>3. PICK k \in Int : 2 * r = D + k * (2 * Half)
    <3>1. 2 * r \in Int
      BY <1>2
    <3> QED
      BY <3>1, NarrowForm
  <2>4. D \in Int
    BY <1>2, NarrowForm
  <2> HIDE DEF D
  <2>5. c \in Int /\ -2 * Half < c /\ c < 2 * Half
    BY <1>1, <1>2, <2>1, SMT
  <2>6. D - d = c + (-k) * (2 * Half)
    <3> DEFINE m == 2 * Half
    <3>1. m \in Int /\ 2 * r = D + k * m
      BY <2>3
    <3> HIDE DEF m
    <3>2. (-k) * m = -(k * m) /\ k * m \in Int
      BY <3>1, SMT
    <3>3. D - d = c + (-k) * m
      BY <1>1, <1>2, <2>4, <3>1, <3>2, SMT
    <3> QED
      BY <3>3 DEF m
  <2> HIDE DEF c
  <2>7. ASSUME NEW y \in -Half .. Half - 1, NEW j \in Int, c = y + j * (2 * Half)
        PROVE  AsSigned(D - d, Half) = y
    <3> DEFINE m == 2 * Half
    <3>1. m \in Int /\ c = y + j * m /\ D - d = c + (-k) * m
      BY <2>6, <2>7
    <3> HIDE DEF m
    <3>2. (j - k) * m = j * m + (-k) * m /\ j * m \in Int /\ (-k) * m \in Int
      BY <3>1, SMT
    <3>3. D - d = y + (j - k) * m
      BY <3>1, <3>2, SMT
    <3>4. D - d \in Int /\ j - k \in Int
      BY <1>1, <2>4
    <3> QED
      BY <3>3, <3>4, SignedIs DEF m
  <2>8. DoubleFits(n, d) <=> c >= -Half /\ c < Half
    BY <1>6 DEF DoubleFits, c, r
  <2>9. RoundsUp(n, d) <=> (DoubleFits(n, d) <=> c >= 0)
    <3>1. CASE c >= -Half /\ c < Half
      <4>1. c \in -Half .. Half - 1 /\ 0 \in Int /\ c = c + 0 * (2 * Half)
        BY <2>5, <3>1, SMT
      <4>2. AsSigned(D - d, Half) = c
        BY <2>7, <4>1
      <4> QED
        BY <2>2, <2>8, <3>1, <4>2
    <3>2. CASE c < -Half
      <4>1. c + 2 * Half \in -Half .. Half - 1 /\ c = (c + 2 * Half) + (-1) * (2 * Half)
        BY <2>5, <3>2, SMT
      <4>2. AsSigned(D - d, Half) = c + 2 * Half
        BY <2>7, <4>1
      <4> QED
        BY <2>2, <2>5, <2>8, <3>2, <4>2, SMT
    <3>3. CASE c >= Half
      <4>1. c - 2 * Half \in -Half .. Half - 1 /\ c = (c - 2 * Half) + 1 * (2 * Half)
        BY <2>5, <3>3, SMT
      <4>2. AsSigned(D - d, Half) = c - 2 * Half
        <5> DEFINE y == c - 2 * Half
                   j == 1
        <5>1. y \in -Half .. Half - 1 /\ j \in Int /\ c = y + j * (2 * Half)
          BY <4>1
        <5> HIDE DEF y, j
        <5>2. AsSigned(D - d, Half) = y
          BY <2>7, <5>1
        <5> QED
          BY <5>2 DEF y
      <4> QED
        BY <2>2, <2>5, <2>8, <3>3, <4>2, SMT
    <3> QED
      BY <2>5, <3>1, <3>2, <3>3
  <2>10. c >= 0 <=> 2 * Abs(r) >= Abs(d)
    BY <1>1, <1>2, <2>1, SMT DEF Abs, c
  <2> QED
    BY <2>9, <2>10 DEF r
<1> QED
  BY <1>5, <1>6

(* rounded_division() is right where the comparison is, and nowhere else:   *)
(* an error of one is not undone by the wrap.                               *)
LEMMA RoundedIsNearest ==
  ASSUME type \in Types, NEW n \in Int, NEW d \in Reps \ {0}, ~type.signed => n >= 0,
         Representable(n, d)
  PROVE  /\ RoundedDivision(n, d) \in Reps
         /\ IsNearest(RoundedDivision(n, d), n, d) <=> DoubleFits(n, d)
<1> DEFINE q == Quot(n, d)
           s == Away(n, d)
           up == RoundsUp(n, d)
           big == 2 * Abs(Rem(n, d)) >= Abs(d)
           R == RoundedDivision(n, d)
           t == q + IF up THEN s ELSE 0
<1>1. d \in Int /\ d # 0 /\ Reps \subseteq Int
  BY DEF Reps
<1>2. q \in Int /\ s \in {1, -1}
  BY <1>1, Truncation DEF Away
<1>3. R = Narrow(t)
  <2>1. R = Narrow(Narrow(q) + IF up THEN s ELSE 0)
    BY DEF RoundedDivision, Away
  <2>2. (IF up THEN s ELSE 0) \in Int
    BY <1>2
  <2> HIDE DEF q, s, up, R
  <2> QED
    BY <1>2, <2>1, <2>2, NarrowSum
<1>4. up <=> (DoubleFits(n, d) <=> big)
  BY Comparison
<1>5. PICK z \in Reps : IsNearest(z, n, d)
  BY DEF Representable
<1>6. z = q + IF big THEN s ELSE 0
  <2>1. /\ IsNearest(q, n, d) <=> 2 * Abs(Rem(n, d)) < Abs(d)
        /\ IsNearest(q + s, n, d) <=> big
    BY <1>1, RoundingRule
  <2>2. Abs(Rem(n, d)) \in Int /\ Abs(d) \in Int
    BY <1>1, Truncation DEF Abs
  <2>3. \A y \in Int : IsNearest(y, n, d) => y = z
    BY <1>1, <1>5, NearestUnique
  <2>4. ~big <=> 2 * Abs(Rem(n, d)) < Abs(d)
    BY <2>2
  <2> HIDE DEF q, s, big
  <2>5. CASE big
    BY <1>2, <2>1, <2>3, <2>5
  <2>6. CASE ~big
    BY <1>2, <2>1, <2>3, <2>4, <2>6
  <2> QED
    BY <2>5, <2>6
<1> HIDE DEF q, s, up, big, R
<1>7. t \in Int /\ R \in Reps /\ z \in Int
  BY <1>1, <1>2, <1>3, NarrowForm
<1>8. CASE DoubleFits(n, d)
  <2>1. t = z
    BY <1>4, <1>6, <1>8
  <2>2. R = z
    BY <1>3, <2>1, NarrowKeeps
  <2> QED
    BY <1>5, <1>7, <1>8, <2>2 DEF R
<1>9. CASE ~DoubleFits(n, d)
  <2>1. t - z \in {1, -1}
    BY <1>2, <1>4, <1>6, <1>7, <1>9
  <2>2. ASSUME R = z PROVE FALSE
    <3> DEFINE m == 2 * Half
    <3>1. PICK k \in Int : t = R + k * m
      BY <1>3, <1>7, NarrowForm
    <3>2. m \in Int /\ m >= 2
      OBVIOUS
    <3> HIDE DEF m, t
    <3>3. k * m \in Int /\ k * m = t - z
      BY <1>7, <2>2, <3>1, <3>2, SMT
    <3>4. k * m = 0
      <4>1. -Abs(m) < k * m /\ k * m < Abs(m)
        BY <2>1, <3>2, <3>3, SMT DEF Abs
      <4> QED
        BY <3>2, <4>1, SmallMultiple
    <3> QED
      BY <2>1, <3>3, <3>4
  <2>3. ~IsNearest(R, n, d)
    <3>1. R \in Int
      BY <1>1, <1>7
    <3> QED
      BY <1>1, <1>5, <1>7, <2>2, <3>1, NearestUnique
  <2> QED
    BY <1>7, <1>9, <2>3 DEF R
<1> QED
  BY <1>8, <1>9

LEMMA Scale ==
  ASSUME type \in Types
  PROVE  /\ scale \in Nat \ {0}
         /\ type.class = "rounding" => scale = 1
         /\ type.class # "rounding" => 2 * scale <= Half
         /\ scale \in Reps \ {0} \/ type.class = "rounding"
<1>1. type.class \in {"rounding", "fixed_decimal", "fixed_binary"}
  BY DEF Types
<1>2. /\ scale \in Nat \ {0}
      /\ type.class = "rounding" => scale = 1
      /\ type.class # "rounding" => 2 * scale <= Half
  BY <1>1 DEF scale
<1> QED
  BY <1>2, SMT DEF Reps

LEMMA RepProducts ==
  ASSUME type \in Types, NEW a \in Reps, NEW b \in Reps \cup {scale}
  PROVE  a * b \in Int /\ (~type.signed => a * b >= 0)
<1>1. a \in Int /\ b \in Int
  BY Scale DEF Reps
<1>2. ~type.signed => a \in Nat /\ b \in Nat
  BY Scale DEF Reps
<1> HIDE DEF scale
<1>3. a * b \in Int
  BY <1>1
<1>4. ~type.signed => a * b \in Nat
  BY <1>2
<1> QED
  BY <1>3, <1>4

-----------------------------------------------------------------------------
(* The invariant: rep is the sum, but for the wrap. *)
SumInv == rep = Narrow(sum)

Inv == TypeOK /\ SumInv

LEMMA RoundedType ==
  ASSUME type \in Types, NEW n \in Int, NEW d \in Int, d # 0
  PROVE  RoundedDivision(n, d) \in Reps
<1> DEFINE y == Narrow(Quot(n, d)) + IF RoundsUp(n, d) THEN Away(n, d) ELSE 0
<1>1. Quot(n, d) \in Int
  BY Truncation
<1>2. Narrow(Quot(n, d)) \in Int
  BY <1>1, NarrowForm
<1>3. y \in Int
  BY <1>2 DEF Away
<1>4. RoundedDivision(n, d) = Narrow(y)
  BY DEF RoundedDivision, Away
<1> HIDE DEF y
<1> QED
  BY <1>3, <1>4, NarrowForm

LEMMA WidenType ==
  ASSUME type \in Types, NEW x \in Int
  PROVE  Widen(x) \in Int
<1>1. 2 * Half * Half \in Nat \ {0}
  BY SMT
<1> DEFINE h == IF type.policy = "restrict_range" THEN Half ELSE 2 * Half * Half
<1>2. h \in Nat \ {0}
  BY <1>1
<1>3. Widen(x) = Wrapped(x, h)
  BY DEF Widen
<1> HIDE DEF h
<1>4. Wrapped(x, h) \in IF type.signed THEN -h .. h - 1 ELSE 0 .. 2 * h - 1
  BY <1>2, WrappedForm
<1> QED
  BY <1>2, <1>3, <1>4

LEMMA InvStep == Inv /\ [Next]_vars => Inv'
<1> SUFFICES ASSUME Inv, [Next]_vars PROVE Inv'
  OBVIOUS
<1>1. type \in Types /\ rep \in Reps /\ rep \in Int /\ sum \in Int /\ rep = Narrow(sum)
  BY DEF Inv, TypeOK, SumInv, Reps
<1>2. Reps \subseteq Int
  BY DEF Reps
<1>3. ASSUME UNCHANGED type, rep' \in Reps, sum' \in Int, rep' = Narrow(sum') PROVE Inv'
  <2>1. Reps' = Reps /\ (Narrow(sum))' = Narrow(sum')
    BY <1>3 DEF Reps, Narrow, Wrapped
  <2> QED
    BY <1>1, <1>3, <2>1 DEF Inv, TypeOK, SumInv
<1>4. ASSUME NEW x \in Reps, Add(x) PROVE Inv'
  <2>1. rep' = Narrow(rep + x) /\ sum' = sum + x /\ UNCHANGED type
    BY <1>4 DEF Add
  <2>2. x \in Int /\ sum + x \in Int
    BY <1>1, <1>2
  <2>3. rep' = Narrow(sum + x)
    BY <1>1, <2>1, <2>2, NarrowSum
  <2> QED
    BY <1>1, <1>3, <2>1, <2>2, <2>3, NarrowForm
<1>5. ASSUME NEW x \in Reps, Subtract(x) PROVE Inv'
  <2>1. rep' = Narrow(rep - x) /\ sum' = sum - x /\ UNCHANGED type
    BY <1>5 DEF Subtract
  <2>2. x \in Int /\ -x \in Int /\ sum - x \in Int /\ rep - x = rep + (-x) /\ sum - x = sum + (-x)
    BY <1>1, <1>2
  <2>3. rep' = Narrow(sum - x)
    BY <1>1, <2>1, <2>2, NarrowSum
  <2> QED
    BY <1>1, <1>3, <2>1, <2>2, <2>3, NarrowForm
<1>6. ASSUME UNCHANGED type, rep' \in Reps, sum' = rep' PROVE Inv'
  <2>1. Narrow(rep') = rep'
    BY <1>1, <1>6, NarrowKeeps
  <2> QED
    BY <1>2, <1>3, <1>6, <2>1
<1>7. ASSUME NEW x \in Reps, Multiply(x) PROVE Inv'
  <2>1. rep * x \in Int
    BY <1>1, RepProducts
  <2>2. Product(rep, x) \in Reps
    <3>1. CASE type.class = "rounding"
      BY <1>1, <2>1, <3>1, NarrowForm DEF Product
    <3>2. CASE type.class # "rounding"
      <4>1. Widen(rep * x) \in Int /\ scale \in Int /\ scale # 0
        BY <1>1, <2>1, WidenType, Scale
      <4>2. RoundedDivision(Widen(rep * x), scale) \in Reps
        BY <1>1, <4>1, RoundedType
      <4> QED
        BY <3>2, <4>2 DEF Product
    <3> QED
      BY <3>1, <3>2
  <2> QED
    BY <1>6, <1>7, <2>2 DEF Multiply
<1>8. ASSUME NEW x \in Reps, Divide(x) PROVE Inv'
  <2>1. rep * scale \in Int
    BY <1>1, RepProducts
  <2>2. Dividend(rep) \in Int
    BY <1>1, <2>1, NarrowForm, WidenType DEF Dividend
  <2>3. x \in Int /\ x # 0
    BY <1>2, <1>8 DEF Divide, Traps
  <2>4. Quotient(rep, x) \in Reps
    BY <1>1, <2>2, <2>3, RoundedType DEF Quotient
  <2> QED
    BY <1>6, <1>8, <2>4 DEF Divide
<1>9. CASE UNCHANGED vars
  BY <1>1, <1>3, <1>9 DEF vars
<1> QED
  BY <1>4, <1>5, <1>7, <1>8, <1>9 DEF Next

LEMMA Invariance == Spec => []Inv
<1>1. Init => Inv
  BY NarrowKeeps DEF Init, Inv, TypeOK, SumInv, Reps
<1> QED
  BY <1>1, InvStep, PTL DEF Spec

-----------------------------------------------------------------------------
(* What every operation leaves in rep_ is a rep_t. *)
THEOREM TypeCorrect == Spec => []TypeOK
BY Invariance, PTL DEF Inv

(* A sum or difference is right if it is in range, whatever its             *)
(* intermediate results were.                                               *)
THEOREM SumsAreRight == Spec => []SumsHeal
<1>1. Inv => SumsHeal
  BY NarrowKeeps DEF Inv, TypeOK, SumInv, SumsHeal
<1> QED
  BY Invariance, <1>1, PTL

(* operator/= rounds to the nearest number, for every width, scale and      *)
(* policy, except where the doubled remainder does not fit; there it never  *)
(* does.                                                                    *)
THEOREM QuotientsRounded == Spec => []QuotientsAreNearest
<1>1. Inv => QuotientsAreNearest
  <2> SUFFICES ASSUME type \in Types, rep \in Reps, NEW x \in Reps \ {0},
                      Dividend(rep) = rep * scale, Representable(rep * scale, x)
               PROVE  IsNearest(Quotient(rep, x), rep * scale, x) <=> DoubleFits(rep * scale, x)
    BY DEF Inv, TypeOK, QuotientsAreNearest
  <2>1. rep * scale \in Int /\ (~type.signed => rep * scale >= 0)
    BY RepProducts
  <2>2. Quotient(rep, x) = RoundedDivision(rep * scale, x)
    BY DEF Quotient
  <2> QED
    BY <2>1, <2>2, RoundedIsNearest
<1> QED
  BY Invariance, <1>1, PTL

(* The remainder of a division by the scale, or by less, is small.          *)
LEMMA SmallDivisorFits ==
  ASSUME type \in Types, NEW n \in Int, ~type.signed => n >= 0,
         NEW d \in Int, d # 0, ~type.signed => d > 0, 2 * Abs(d) <= Half
  PROVE  DoubleFits(n, d)
<1> DEFINE r == Rem(n, d)
<1>1. /\ r \in Int
      /\ Abs(r) < Abs(d)
      /\ r < 0 => n < 0
  BY Truncation
<1> HIDE DEF r
<1>2. 2 * Abs(r) < Half
  BY <1>1, SMT DEF Abs
<1>3. ~type.signed => 2 * r - d >= -Half /\ 2 * r - d < Half
  BY <1>1, SMT DEF Abs
<1> QED
  BY <1>2, <1>3 DEF DoubleFits, r

(* operator*= rounds to the nearest number wherever the products fit.       *)
THEOREM ProductsRounded == Spec => []ProductsAreNearest
<1>1. Inv => ProductsAreNearest
  <2> SUFFICES ASSUME type \in Types, rep \in Reps, NEW x \in Reps,
                      Widen(rep * x) = rep * x, Representable(rep * x, scale)
               PROVE  IsNearest(Product(rep, x), rep * x, scale)
    BY DEF Inv, TypeOK, ProductsAreNearest
  <2>1. rep * x \in Int /\ (~type.signed => rep * x >= 0)
    BY RepProducts
  <2> DEFINE n == rep * x
  <2> HIDE DEF n
  <2>2. n \in Int /\ (~type.signed => n >= 0) /\ Widen(n) = n /\ Representable(n, scale)
    BY <2>1 DEF n
  <2>3. CASE type.class = "rounding"
    <3>1. PICK z \in Reps : IsNearest(z, n, 1)
      BY <2>2, <2>3, Scale DEF Representable
    <3>2. z \in Int
      BY DEF Reps
    <3>3. z = n
      BY <2>2, <3>1, <3>2, SMT DEF IsNearest, Abs
    <3>4. Product(rep, x) = n
      BY <2>3, <3>3, NarrowKeeps DEF Product, n
    <3> QED
      BY <2>3, <3>1, <3>3, <3>4, Scale DEF n
  <2>4. CASE type.class # "rounding"
    <3>1. scale \in Reps \ {0} /\ scale \in Int /\ scale > 0 /\ 2 * Abs(scale) <= Half
      BY <2>4, Scale DEF Abs
    <3>2. DoubleFits(n, scale)
      BY <2>2, <3>1, SmallDivisorFits
    <3>3. Product(rep, x) = RoundedDivision(n, scale)
      BY <2>2, <2>4 DEF Product, n
    <3> QED
      BY <2>2, <3>1, <3>2, <3>3, RoundedIsNearest DEF n
  <2> QED
    BY <2>3, <2>4
<1> QED
  BY Invariance, <1>1, PTL

(* Division by a number of magnitude 1 or less is undone by multiplication. *)
THEOREM DivisionsUndone == Spec => []DividingIsUndone
<1>1. Inv => DividingIsUndone
  <2> DEFINE n == rep * scale
  <2> SUFFICES ASSUME type \in Types, rep \in Reps, NEW x \in Reps \ {0}, Abs(x) <= scale,
                      Dividend(rep) = n, Representable(n, x),
                      Widen(Quotient(rep, x) * x) = Quotient(rep, x) * x
               PROVE  Product(Quotient(rep, x), x) = rep
    BY DEF Inv, TypeOK, DividingIsUndone
  <2>1. n \in Int /\ (~type.signed => n >= 0)
    BY RepProducts
  <2>2. /\ rep \in Int /\ x \in Int /\ x # 0
        /\ scale \in Nat \ {0} /\ scale \in Int
        /\ ~type.signed => x > 0
    BY Scale DEF Reps
  <2> DEFINE q == Quotient(rep, x)
  <2>3. q = RoundedDivision(n, x)
    BY DEF Quotient
  <2> HIDE DEF scale
  <2>4. DoubleFits(n, x)
    <3>1. CASE type.class = "rounding"
      <4>1. scale = 1
        BY <3>1, Scale
      <4>2. Abs(x) = 1
        BY <2>2, <4>1, SMT DEF Abs
      <4>3. Rem(n, x) = 0 /\ (~type.signed => x = 1)
        <5>1. Rem(n, x) \in Int /\ Abs(Rem(n, x)) < Abs(x)
          BY <2>1, <2>2, Truncation
        <5> QED
          BY <2>2, <4>2, <5>1, SMT DEF Abs
      <4> QED
        BY <4>3 DEF DoubleFits, Abs
    <3>2. CASE type.class # "rounding"
      <4>1. 2 * Abs(x) <= Half
        <5>1. 2 * scale <= Half
          BY <3>2, Scale
        <5> QED
          BY <2>2, <5>1, SMT DEF Abs
      <4> QED
        BY <2>1, <2>2, <4>1, SmallDivisorFits
    <3> QED
      BY <3>1, <3>2
  <2>5. q \in Reps /\ IsNearest(q, n, x)
    BY <2>1, <2>3, <2>4, RoundedIsNearest
  <2> HIDE DEF q
  <2>6. q \in Int
    BY <2>5 DEF Reps
  <2> DEFINE p == q * x
  <2>7. p \in Int /\ (~type.signed => p >= 0)
    BY <2>5, RepProducts
  <2>8. \/ 2 * Abs(n - p) < Abs(x)
        \/ 2 * Abs(n - p) = Abs(x) /\ Abs(p) > Abs(n)
    BY <2>5 DEF IsNearest
  <2>9. ASSUME Abs(x) = scale PROVE n = p
    <3>1. x = scale \/ x = -scale
      BY <2>2, <2>9, SMT DEF Abs
    <3>2. PICK k \in Int : n = k * x
      <4>1. CASE x = scale
        BY <2>2, <4>1
      <4>2. CASE x = -scale
        <5>1. -rep \in Int /\ n = (-rep) * x
          BY <2>2, <4>2, SMT
        <5> QED
          BY <5>1
      <4> QED
        BY <3>1, <4>1, <4>2
    <3>3. (k - q) * x = n - p /\ k - q \in Int
      BY <2>2, <2>6, <3>2, SMT
    <3> HIDE DEF n, p
    <3>4. -Abs(x) < n - p /\ n - p < Abs(x)
      BY <2>1, <2>2, <2>7, <2>8, SMT DEF Abs
    <3>5. (k - q) * x = 0
      BY <2>2, <3>3, <3>4, SmallMultiple
    <3> QED
      BY <2>1, <2>7, <3>3, <3>5
  <2>10. IsNearest(rep, p, scale)
    <3>1. IsNearest(rep, p, scale) <=> \/ 2 * Abs(p - n) < Abs(scale)
                                       \/ 2 * Abs(p - n) = Abs(scale) /\ Abs(n) > Abs(p)
      BY DEF IsNearest
    <3> HIDE DEF n, p
    <3>2. 2 * Abs(p - n) < Abs(scale)
      BY <2>1, <2>2, <2>7, <2>8, <2>9, SMT DEF Abs
    <3> QED
      BY <3>1, <3>2
  <2>11. Widen(p) = p
    BY DEF q
  <2>12. CASE type.class = "rounding"
    <3>1. scale = 1 /\ Abs(x) = 1
      <4>1. scale = 1
        BY <2>12, Scale
      <4> QED
        BY <2>2, <4>1, SMT DEF Abs
    <3>2. n = p /\ n = rep
      BY <2>2, <2>9, <3>1
    <3>3. Product(q, x) = Narrow(p)
      BY <2>12 DEF Product
    <3> QED
      BY <3>2, <3>3, NarrowKeeps DEF q
  <2>13. CASE type.class # "rounding"
    <3>1. scale \in Reps \ {0} /\ 2 * Abs(scale) <= Half /\ scale > 0
      BY <2>2, <2>13, Scale DEF Abs
    <3>2. DoubleFits(p, scale) /\ Representable(p, scale)
      BY <2>2, <2>7, <2>10, <3>1, SmallDivisorFits DEF Representable
    <3>3. Product(q, x) = RoundedDivision(p, scale)
      BY <2>11, <2>13 DEF Product
    <3> HIDE DEF p
    <3>4. RoundedDivision(p, scale) \in Reps /\ IsNearest(RoundedDivision(p, scale), p, scale)
      BY <2>7, <3>1, <3>2, RoundedIsNearest
    <3>5. Reps \subseteq Int
      BY DEF Reps
    <3>6. RoundedDivision(p, scale) = rep
      BY <2>2, <2>7, <2>10, <3>4, <3>5, NearestUnique
    <3> QED
      BY <3>3, <3>6 DEF q
  <2> QED
    BY <2>12, <2>13
<1> QED
  BY Invariance, <1>1, PTL

(* Every rep_t divided by a scale has a nearest rep_t. *)
LEMMA NearestExists ==
  ASSUME type \in Types, NEW n \in Reps, NEW d \in Nat \ {0}, 2 * d <= Half
  PROVE  Representable(n, d)
<1> DEFINE t == Quot(n, d) + IF 2 * Abs(Rem(n, d)) >= Abs(d) THEN Away(n, d) ELSE 0
           e == t * d
<1>1. n \in Int /\ d \in Int /\ d # 0
  BY DEF Reps
<1>2. Quot(n, d) \in Int /\ Rem(n, d) \in Int
  BY <1>1, Truncation
<1>3. t \in Int /\ IsNearest(t, n, d)
  <2>1. Abs(d) \in Int /\ Abs(Rem(n, d)) \in Int
    BY <1>1, <1>2 DEF Abs
  <2>2. CASE 2 * Abs(Rem(n, d)) >= Abs(d)
    BY <1>1, <1>2, <2>2, RoundingRule DEF Away
  <2>3. CASE ~(2 * Abs(Rem(n, d)) >= Abs(d))
    <3>1. 2 * Abs(Rem(n, d)) < Abs(d) /\ t = Quot(n, d)
      BY <1>2, <2>1, <2>3
    <3> QED
      BY <1>1, <1>2, <3>1, RoundingRule
  <2> QED
    BY <2>2, <2>3
<1> HIDE DEF t
<1>4. e \in Int /\ 2 * Abs(n - e) <= d
  <2>1. e \in Int
    BY <1>1, <1>3
  <2> QED
    BY <1>1, <1>3, <2>1, SMT DEF IsNearest, Abs
<1>5. /\ t >= 0 => e >= t /\ (d >= 2 => e >= 2 * t)
      /\ t < 0 => e <= -d /\ (d >= 2 => e <= 2 * t)
  <2>1. CASE t >= 0
    BY <1>1, <1>3, <2>1, SMT
  <2>2. CASE t < 0
    <3>1. -t - 1 \in Nat /\ (-t - 1) * d = -e - d
      BY <1>1, <1>3, <2>2, SMT
    <3>2. (-t - 1) * d >= 0
      BY <1>1, <3>1, SMT
    <3>3. d >= 2 => (-t) * (d - 2) >= 0 /\ (-t) * (d - 2) = 2 * t - e
      BY <1>1, <1>3, <2>2, SMT
    <3> QED
      BY <1>1, <1>3, <1>4, <2>2, <3>1, <3>2, <3>3, SMT
  <2> QED
    BY <1>3, <2>1, <2>2
<1>6. d = 1 => e = t
  BY <1>3
<1> HIDE DEF e
<1>7. t \in Reps
  <2>1. CASE d = 1
    <3>1. t = n
      BY <1>1, <1>3, <1>4, <1>6, <2>1, SMT DEF Abs
    <3> QED
      BY <3>1
  <2>2. CASE d >= 2
    BY <1>1, <1>3, <1>4, <1>5, <2>2, SMT DEF Abs, Reps
  <2> QED
    BY <2>1, <2>2
<1> QED
  BY <1>3, <1>7 DEF Representable

(* The nearest number of a multiple is the exact one. *)
LEMMA ExactIsNearest ==
  ASSUME NEW n \in Int, NEW q \in Int, NEW d \in Nat \ {0}
  PROVE  IsNearest(q, n * d, d) <=> q = n
<1> DEFINE a == (n - q) * d
<1>1. n * d - q * d = a /\ a \in Int /\ Abs(d) = d /\ d > 0
  BY SMT DEF Abs
<1>2. CASE q = n
  <2>1. a = 0
    BY <1>2, SMT
  <2> QED
    BY <1>1, <1>2, <2>1, SMT DEF IsNearest, Abs
<1>3. CASE q # n
  <2>1. a >= d \/ a <= -d
    <3>1. n - q >= 1 => (n - q - 1) * d >= 0 /\ (n - q - 1) * d = a - d
      BY <1>1, SMT
    <3>2. n - q <= -1 => (q - n - 1) * d >= 0 /\ (q - n - 1) * d = -a - d
      BY <1>1, SMT
    <3> QED
      BY <1>1, <1>3, <3>1, <3>2, SMT
  <2> HIDE DEF a
  <2>2. 2 * Abs(n * d - q * d) > Abs(d)
    BY <1>1, <2>1, SMT DEF Abs
  <2>3. Abs(n * d - q * d) \in Int
    BY <1>1 DEF Abs
  <2> QED
    BY <1>1, <1>3, <2>2, <2>3 DEF IsNearest
<1> QED
  BY <1>2, <1>3

(* The fraction of a fixed_binary, scaled to x and rounded to z: where x    *)
(* is a rep_t, z is a whole one or nothing when the distance to it is half  *)
(* a unit; where it is not, the wrap makes it less.                         *)
LEMMA Fractions ==
  ASSUME type \in Types, type.class = "fixed_binary",
         NEW f \in 0 .. scale - 1, NEW x \in Int, x = f * FractionScale,
         NEW z, z = RoundedDivision(Narrow(x), scale)
  PROVE  /\ z \in Int /\ x >= 0
         /\ Narrow(x) \in Int /\ IsNearest(z, Narrow(x), scale)
         /\ x \in Reps =>
              /\ Narrow(x) = x
              /\ z >= 0
              /\ z < FractionScale <=> 2 * (scale * FractionScale - x) > scale
              /\ z = 0 <=> 2 * x < scale
         /\ x \notin Reps => x >= Half /\ x - Narrow(x) >= 2 * Half
<1> DEFINE n == Narrow(x)
           S == scale
           W == FractionScale
<1>1. /\ S \in Nat \ {0} /\ S \in Int /\ S > 0 /\ 2 * S <= Half /\ S \in Reps \ {0} /\ S # 0
      /\ W \in Nat \ {0} /\ W \in Int /\ W > 0
      /\ Half \in Int /\ Half > 0
  BY Scale, NumberAssumption
<1>2. Reps \subseteq Int /\ (~type.signed => \A v \in Reps : v >= 0)
  BY DEF Reps
<1>3. n \in Reps /\ n \in Int
  BY NarrowForm
<1>4. x >= 0 /\ x <= S * W - W
  <2>1. f \in Int /\ f >= 0 /\ S - 1 - f >= 0
    BY <1>1
  <2>2. (S - 1 - f) * W >= 0 /\ f * W >= 0
    BY <1>1, <2>1, SMT
  <2>3. (S - 1 - f) * W = S * W - W - f * W
    BY <1>1, <2>1, SMT
  <2>4. S * W \in Int
    BY <1>1
  <2> QED
    BY <1>1, <2>2, <2>3, <2>4
<1> HIDE DEF S, W
<1>5. z \in Reps /\ IsNearest(z, n, S)
  <2>1. Representable(n, S)
    BY <1>1, <1>3, NearestExists
  <2>2. DoubleFits(n, S)
    BY <1>1, <1>2, <1>3, SmallDivisorFits DEF Abs
  <2>3. z = RoundedDivision(n, S)
    BY DEF S
  <2> HIDE DEF n
  <2> QED
    BY <1>1, <1>2, <1>3, <2>1, <2>2, <2>3, RoundedIsNearest
<1>6. z \in Int
  BY <1>2, <1>5
<1>7. ASSUME x \in Reps
      PROVE  /\ n = x
             /\ z >= 0
             /\ z < W <=> 2 * (S * W - x) > S
             /\ z = 0 <=> 2 * x < S
  <2>1. n = x
    BY <1>7, NarrowKeeps
  <2> DEFINE zs == z * S
             ws == W * S
  <2>2. zs \in Int /\ ws \in Int /\ S * W = ws /\ ws > 0
    BY <1>1, <1>6, SMT
  <2>3. 2 * Abs(x - zs) <= S
    BY <1>1, <1>5, <2>1, <2>2, SMT DEF IsNearest, Abs
  <2>4. z >= 0
    <3>1. z <= -1 => (-1 - z) * S >= 0 /\ (-1 - z) * S = -zs - S
      BY <1>1, <1>6, SMT
    <3> HIDE DEF zs, ws
    <3> QED
      BY <1>1, <1>4, <1>6, <2>2, <2>3, <3>1, SMT DEF Abs
  <2>5. z <= W
    <3>1. z >= W + 1 => (z - W - 1) * S >= 0 /\ (z - W - 1) * S = zs - ws - S
      BY <1>1, <1>6, SMT
    <3> HIDE DEF zs, ws
    <3> QED
      BY <1>1, <1>4, <1>6, <2>2, <2>3, <3>1, SMT DEF Abs
  <2>6. IsNearest(W, x, S) <=> 2 * (ws - x) <= S
    <3> HIDE DEF zs
    <3> SUFFICES \/ 2 * Abs(x - ws) < Abs(S)
                 \/ 2 * Abs(x - ws) = Abs(S) /\ Abs(ws) > Abs(x)
                 <=> 2 * (ws - x) <= S
      BY DEF IsNearest
    <3> HIDE DEF ws
    <3> QED
      BY <1>1, <1>4, <2>2, SMT DEF Abs
  <2>7. IsNearest(0, x, S) <=> 2 * x < S
    <3>1. 0 * S = 0
      BY <1>1
    <3> QED
      BY <1>1, <1>4, <3>1, SMT DEF IsNearest, Abs
  <2>8. z = W <=> 2 * (ws - x) <= S
    BY <1>1, <1>5, <1>6, <2>1, <2>6, NearestUnique
  <2>9. z = 0 <=> 2 * x < S
    BY <1>1, <1>5, <1>6, <2>1, <2>7, NearestUnique
  <2> HIDE DEF zs, ws
  <2>10. z < W <=> 2 * (S * W - x) > S
    BY <1>1, <1>6, <2>2, <2>5, <2>8, SMT
  <2> QED
    BY <2>1, <2>4, <2>9, <2>10
<1>8. ASSUME x \notin Reps
      PROVE  x >= Half /\ x - n >= 2 * Half
  <2>1. x >= Half /\ n < x
    BY <1>1, <1>3, <1>4, <1>8, SMT DEF Reps
  <2>2. PICK k \in Int : x = n + k * (2 * Half)
    BY NarrowForm
  <2> HIDE DEF n
  <2>3. k >= 1
    <3>1. k <= 0 => k * (2 * Half) <= 0
      BY <1>1, SMT
    <3>2. k * (2 * Half) \in Int
      BY <1>1
    <3> QED
      BY <1>3, <2>1, <2>2, <3>1, <3>2
  <2>4. (k - 1) * (2 * Half) >= 0 /\ (k - 1) * (2 * Half) = k * (2 * Half) - 2 * Half
    BY <1>1, <2>3, SMT
  <2>5. k * (2 * Half) \in Int
    BY <1>1
  <2> QED
    BY <1>1, <1>3, <2>1, <2>2, <2>4, <2>5
<1> QED
  BY <1>3, <1>4, <1>5, <1>6, <1>7, <1>8 DEF S, W, n

(* operator<< writes the nearest number, but for the kinds it gets wrong.   *)
THEOREM PrintsRightly == Spec => []PrintedIsNearest
<1>1. Inv => PrintedIsNearest
  <2> SUFFICES ASSUME type \in Types, rep \in Reps PROVE PrintedIsNearest
    BY DEF Inv, TypeOK
  <2>1. rep \in Int /\ scale \in Nat \ {0} /\ scale \in Int /\ scale > 0
    BY Scale DEF Reps
  <2> DEFINE c == Parts.characteristic
             f == Parts.fraction
             p == c * scale
  <2>2. /\ type.class # "fixed_binary" => TextScale = scale /\ Written = Abs(f)
        /\ type.class = "fixed_binary" =>
             /\ TextScale = FractionScale
             /\ Written = RoundedDivision(Narrow(Abs(f) * FractionScale), scale)
        /\ type.class # "rounding" =>
             Printed = c * TextScale + IF c < 0 THEN -Written ELSE Written
        /\ type.class = "rounding" => Printed = RoundedDivision(rep, scale)
    BY DEF TextScale, Written, Printed
  <2> HIDE DEF scale
  <2>3. CASE type.class # "fixed_binary"
    <3>1. c = Quot(rep, scale) /\ f = Rem(rep, scale)
      BY <2>3 DEF Parts
    <3>2. /\ c \in Int /\ f \in Int /\ p \in Int
          /\ rep = p + f
          /\ Abs(f) < scale /\ Abs(f) <= Abs(rep)
          /\ f > 0 => rep > 0
          /\ f < 0 => rep < 0
      <4>1. Abs(scale) = scale
        BY <2>1 DEF Abs
      <4>2. scale # 0
        BY <2>1
      <4>3. /\ Quot(rep, scale) \in Int /\ Rem(rep, scale) \in Int
            /\ Quot(rep, scale) * scale \in Int
            /\ rep = Quot(rep, scale) * scale + Rem(rep, scale)
            /\ Abs(Rem(rep, scale)) < scale /\ Abs(Rem(rep, scale)) <= Abs(rep)
            /\ Rem(rep, scale) > 0 => rep > 0
            /\ Rem(rep, scale) < 0 => rep < 0
        BY <2>1, <4>1, <4>2, Truncation
      <4> QED
        BY <3>1, <4>3
    <3> HIDE DEF c, f
    <3>3. OnlyDigits
      BY <2>1, <2>2, <2>3, <3>2, SMT DEF OnlyDigits, Abs
    <3>4. CASE type.class = "fixed_decimal"
      <4>1. (c < 0 <=> p < 0) /\ (-scale < p /\ p < scale => p = 0)
        <5>1. c < 0 => p < 0
          BY <2>1, <3>2, SMT
        <5>2. c >= 0 => p >= 0
          BY <2>1, <3>2, SMT
        <5>3. -scale < p /\ p < scale => p = 0
          BY <2>1, <3>2, SmallMultiple DEF Abs
        <5> QED
          BY <3>2, <5>1, <5>2, <5>3
      <4>2. Printed = IF c < 0 THEN p - Abs(f) ELSE p + Abs(f)
        BY <2>2, <3>2, <3>4, SMT DEF Abs
      <4> HIDE DEF p
      <4>3. Printed = rep <=> ~(-scale < rep /\ rep < 0)
        BY <2>1, <3>2, <4>1, <4>2, SMT DEF Abs
      <4>4. Printed \in Int
        BY <3>2, <4>2 DEF Abs
      <4>5. IsNearest(Printed, rep * TextScale, scale) <=> Printed = rep
        BY <2>1, <2>2, <2>3, <4>4, ExactIsNearest
      <4> QED
        BY <3>3, <3>4, <4>3, <4>5 DEF PrintedIsNearest
    <3>5. CASE type.class = "rounding"
      <4>1. scale = 1
        BY <3>5, Scale
      <4>2. 1 \in Reps \ {0} /\ 2 * 1 <= Half
        BY NumberAssumption, SMT DEF Reps
      <4>3. Representable(rep, 1) /\ DoubleFits(rep, 1)
        <5>1. ~type.signed => rep >= 0
          BY DEF Reps
        <5> QED
          BY <2>1, <4>2, <5>1, NearestExists, SmallDivisorFits DEF Abs
      <4>4. Printed \in Reps /\ IsNearest(Printed, rep, 1)
        <5>1. ~type.signed => rep >= 0
          BY DEF Reps
        <5> QED
          BY <2>1, <2>2, <3>5, <4>1, <4>2, <4>3, <5>1, RoundedIsNearest
      <4>5. rep * TextScale = rep
        BY <2>1, <2>2, <2>3, <4>1
      <4> QED
        BY <3>3, <3>5, <4>1, <4>4, <4>5 DEF PrintedIsNearest
    <3> QED
      BY <2>3, <3>4, <3>5 DEF Types
  <2>4. CASE type.class = "fixed_binary"
    <3>1. c = rep \div scale /\ f = rep % scale
      BY <2>4 DEF Parts
    <3>2. c \in Int /\ f \in 0 .. scale - 1
      <4>1. rep \div scale \in Int
        BY <2>1, SMT
      <4>2. rep % scale \in 0 .. scale - 1
        BY <2>1, SMT
      <4> QED
        BY <3>1, <4>1, <4>2
    <3>3. rep = p + f
      <4>1. rep = (rep \div scale) * scale + (rep % scale)
        BY <2>1, SMT
      <4> QED
        BY <3>1, <4>1
    <3>4. rep < 0 <=> c < 0
      <4>1. c >= 0 => p >= 0
        BY <2>1, <3>2, SMT
      <4>2. c < 0 => (-c - 1) * scale >= 0 /\ (-c - 1) * scale = -p - scale
        BY <2>1, <3>2, SMT
      <4>3. p \in Int
        BY <2>1, <3>2
      <4> HIDE DEF c, f, p
      <4> QED
        BY <2>1, <3>2, <3>3, <4>1, <4>2, <4>3, SMT
    <3> DEFINE W == FractionScale
               x == f * W
               n == Narrow(x)
               z == Written
               m == (c * W) * scale
               zs == z * scale
    <3>5. W \in Nat \ {0} /\ W \in Int /\ Half \in Int /\ 2 * scale <= Half
      BY <2>4, Scale, NumberAssumption
    <3>6. x \in Int /\ f \in Int /\ f >= 0
      BY <3>2, <3>5, <2>1
    <3>7. z = RoundedDivision(n, scale)
      <4>1. Abs(f) = f
        BY <3>6 DEF Abs
      <4> QED
        BY <2>2, <2>4, <4>1
    <3>8. TextScale = W
      BY <2>2, <2>4
    <3> HIDE DEF c, f, W, z
    <3>9. /\ z \in Int /\ x >= 0
          /\ n \in Int /\ IsNearest(z, n, scale)
          /\ x \in Reps =>
               /\ n = x
               /\ z >= 0
               /\ z < W <=> 2 * (scale * W - x) > scale
               /\ z = 0 <=> 2 * x < scale
          /\ x \notin Reps => x >= Half /\ x - n >= 2 * Half
      BY <2>4, <3>2, <3>6, <3>7, Fractions DEF W
    <3>10. OnlyDigits <=> z >= 0 /\ z < W
      BY <3>5, <3>8, <3>9 DEF OnlyDigits, z
    <3>11. m \in Int /\ zs \in Int /\ rep * W = m + x
      <4>1. c * W \in Int /\ m \in Int /\ zs \in Int
        BY <2>1, <3>2, <3>5, <3>9
      <4>2. rep * W = p * W + f * W
        BY <2>1, <3>2, <3>3, <3>5, <3>6, SMT
      <4>3. p * W = m
        BY <2>1, <3>2, <3>5, SMT
      <4> QED
        BY <4>1, <4>2, <4>3
    <3>12. Printed * scale = IF c < 0 THEN m - zs ELSE m + zs
      <4>1. Printed = c * W + IF c < 0 THEN -z ELSE z
        BY <2>2, <2>4, <3>8 DEF c, z
      <4>2. CASE c < 0
        BY <2>1, <3>2, <3>5, <3>9, <4>1, <4>2, SMT
      <4>3. CASE ~(c < 0)
        BY <2>1, <3>2, <3>5, <3>9, <4>1, <4>3, SMT
      <4> QED
        BY <4>2, <4>3
    <3>13. 2 * (scale - f) * W = 2 * (scale * W - x) /\ 2 * f * W = 2 * x
      BY <2>1, <3>5, <3>6, SMT
    <3>14. PrintedIsNearest <=>
             (OnlyDigits /\ IsNearest(Printed, m + x, scale)
                <=> /\ x \in Reps
                    /\ ~(2 * (scale * W - x) <= scale)
                    /\ ~(c < 0 /\ 2 * x >= scale))
      BY <2>4, <3>4, <3>8, <3>11, <3>13 DEF PrintedIsNearest, f, W
    <3>15. c < 0 => m <= -scale
      <4>1. c < 0 => (-(c * W) - 1) * scale >= 0 /\ (-(c * W) - 1) * scale = -m - scale
        <5>1. c < 0 => c * W <= -1
          BY <3>2, <3>5, SMT
        <5>2. c * W \in Int
          BY <3>2, <3>5
        <5> QED
          BY <2>1, <5>1, <5>2, SMT
      <4> QED
        BY <2>1, <3>11, <4>1, SMT
    <3>16. c >= 0 => m >= 0
      <4>1. c >= 0 => c * W >= 0 /\ c * W \in Int
        BY <3>2, <3>5, SMT
      <4> QED
        BY <2>1, <4>1, SMT
    <3>17. (z = 0 => zs = 0) /\ (z >= 0 => zs >= 0) /\ (z >= 1 => zs >= scale)
      <4>1. z >= 1 => (z - 1) * scale >= 0 /\ (z - 1) * scale = zs - scale
        BY <2>1, <3>9, SMT
      <4> QED
        BY <2>1, <3>9, <4>1, SMT
    <3>18. \/ 2 * Abs(n - zs) < scale
           \/ 2 * Abs(n - zs) = scale /\ Abs(zs) > Abs(n)
      BY <2>1, <3>9 DEF IsNearest, Abs
    <3> HIDE DEF x, n, m, zs
    <3>19. /\ c < 0 /\ IsNearest(Printed, m + x, scale) => 2 * Abs(x + zs) <= scale
           /\ c >= 0 /\ IsNearest(Printed, m + x, scale) => 2 * Abs(x - zs) <= scale
           /\ c < 0 /\ 2 * Abs(x + zs) < scale => IsNearest(Printed, m + x, scale)
           /\ c >= 0 /\ 2 * Abs(x - zs) < scale => IsNearest(Printed, m + x, scale)
           /\ c >= 0 /\ 2 * Abs(x - zs) = scale /\ Abs(m + zs) > Abs(m + x)
                => IsNearest(Printed, m + x, scale)
      <4> DEFINE q == Printed * scale
      <4>1. IsNearest(Printed, m + x, scale) <=>
              \/ 2 * Abs((m + x) - q) < Abs(scale)
              \/ 2 * Abs((m + x) - q) = Abs(scale) /\ Abs(q) > Abs(m + x)
        BY DEF IsNearest
      <4>2. Abs(scale) = scale
        BY <2>1 DEF Abs
      <4>3. q = IF c < 0 THEN m - zs ELSE m + zs
        BY <3>12
      <4> HIDE DEF q
      <4>4. c < 0 => q = m - zs /\ (m + x) - q = x + zs
        BY <3>6, <3>11, <4>3
      <4>5. c >= 0 => q = m + zs /\ (m + x) - q = x - zs
        BY <3>2, <3>6, <3>11, <4>3
      <4>6. Abs(x + zs) \in Int /\ Abs(x - zs) \in Int
        BY <3>6, <3>11 DEF Abs
      <4> QED
        BY <2>1, <4>1, <4>2, <4>4, <4>5, <4>6
    <3>20. CASE x \in Reps
      <4>1. CASE c < 0
        <5>1. IsNearest(Printed, m + x, scale) <=> z = 0
          BY <2>1, <3>6, <3>9, <3>11, <3>15, <3>17, <3>19, <3>20, <4>1, SMT DEF Abs
        <5> QED
          BY <2>1, <3>5, <3>6, <3>9, <3>10, <3>11, <3>14, <3>20, <4>1, <5>1, SMT
      <4>2. CASE c >= 0
        <5>1. \/ 2 * Abs(x - zs) < scale
              \/ 2 * Abs(x - zs) = scale /\ Abs(m + zs) > Abs(m + x)
          <6>1. n = x
            BY <3>9, <3>20
          <6>2. zs >= 0 /\ m >= 0
            BY <3>9, <3>16, <3>17, <3>20, <4>2
          <6>3. Abs(zs) > Abs(x) => Abs(m + zs) > Abs(m + x)
            BY <3>6, <3>9, <3>11, <6>2, SMT DEF Abs
          <6> QED
            BY <3>18, <6>1, <6>3
        <5>2. IsNearest(Printed, m + x, scale)
          BY <3>19, <4>2, <5>1
        <5>3. scale * W \in Int
          BY <2>1, <3>5
        <5> QED
          BY <2>1, <3>2, <3>5, <3>6, <3>9, <3>10, <3>14, <3>20, <4>2, <5>2, <5>3, SMT
      <4> QED
        BY <3>2, <4>1, <4>2
    <3>21. CASE x \notin Reps
      <4>1. ASSUME z >= 0 PROVE ~IsNearest(Printed, m + x, scale)
        BY <2>1, <3>2, <3>5, <3>6, <3>9, <3>11, <3>17, <3>18, <3>19, <3>21, <4>1, SMT DEF Abs
      <4> QED
        BY <3>9, <3>10, <3>14, <3>21, <4>1
    <3> QED
      BY <3>20, <3>21
  <2> QED
    BY <2>3, <2>4
<1> QED
  BY Invariance, <1>1, PTL
=============================================================================
