----------------------------- MODULE FixedPoint -----------------------------
(***************************************************************************)
(* types/fixed_point.rs: numbers v / 10^s as pairs <<v, s>> of a machine   *)
(* integer and a scale, in a build without overflow checks.  Only the last *)
(* operation of each function is checked; the products and the powers of   *)
(* ten that align two scales wrap.  (A build with overflow checks panics   *)
(* exactly where AlignmentFits or Fits(10^s) below is false.)              *)
(***************************************************************************)
EXTENDS Integers

CONSTANT MaxInt   \* i64::MAX, scaled down

ASSUME MaxIntAssumption == MaxInt \in Nat \ {0}

MinInt  == -MaxInt - 1
Fits(x) == x \in MinInt..MaxInt

\* Two's complement of the low bits.
Wrap(x) == ((x - MinInt) % (2 * (MaxInt + 1))) + MinInt

\* i64::saturating_mul, of two numbers that are not negative.
SaturatingMul(x, y) == IF x * y > MaxInt THEN MaxInt ELSE x * y

Larger(m, n) == IF m > n THEN m ELSE n
Abs(x) == IF x < 0 THEN -x ELSE x

\* Integer division of the machine: towards zero.
Truncated(x, y) ==
  LET q == Abs(x) \div Abs(y) IN IF (x < 0) = (y < 0) THEN q ELSE -q

Ok(v, s) == [tag |-> "ok", value |-> v, scale |-> s]
Err(e)   == [tag |-> e]
Checked(x, s, e) == IF Fits(x) THEN Ok(x, s) ELSE Err(e)

-----------------------------------------------------------------------------
\* normalize_scales, one side of it: v at scale s, moved to scale t >= s.
Aligned(v, s, t) == IF t > s THEN Wrap(v * Wrap(10^(t - s))) ELSE v

AlignmentFits(v, s, t) == Fits(10^(t - s)) /\ Fits(v * 10^(t - s))

\* Mutant: the sum keeps the first operand's scale.
AddKeepsFirstScale(a, b) ==
  LET t == Larger(a[2], b[2])
  IN  Checked(Aligned(a[1], a[2], t) + Aligned(b[1], b[2], t), a[2], "overflow")

AddScaled(a, b) ==
  LET t == Larger(a[2], b[2])
  IN  Checked(Aligned(a[1], a[2], t) + Aligned(b[1], b[2], t), t, "overflow")

\* Every failure is called an underflow, one above MaxInt too.
SubtractScaled(a, b) ==
  LET t == Larger(a[2], b[2])
  IN  Checked(Aligned(a[1], a[2], t) - Aligned(b[1], b[2], t), t, "underflow")

MultiplyScaled(a, b) == Checked(a[1] * b[1], a[2] + b[2], "overflow")

\* The numerator is multiplied by 10^(larger scale), whatever the difference
\* of the scales is.
DivideScaled(a, b) ==
  LET s == Larger(a[2], b[2])
      n == a[1] * Wrap(10^s)
  IN  IF b[1] = 0 THEN Err("division by zero")
      ELSE IF ~Fits(n) THEN Err("overflow")
      ELSE Checked(Truncated(n, b[1]), s, "overflow")

\* The sign of a - b.
CompareScaled(a, b) ==
  LET t == Larger(a[2], b[2])
      x == Aligned(a[1], a[2], t)
      y == Aligned(b[1], b[2], t)
  IN  IF x < y THEN -1 ELSE IF x = y THEN 0 ELSE 1

-----------------------------------------------------------------------------
(***************************************************************************)
(* The reference: integers without bounds.  a and b at their common scale. *)
(***************************************************************************)
Exact(a, t) == a[1] * 10^(t - a[2])

\* r is the number x / 10^t, or fails because x does not fit.
Represents(r, x, t) ==
  IF Fits(x) THEN r = Ok(x, t) ELSE r.tag \notin {"ok", "division by zero"}

\* r fails, or has the value x.
Returns(r, x) == r.tag = "ok" => r.value = x

ExactFor(a, b) ==
  LET t == Larger(a[2], b[2])
      d == Exact(a, t) - Exact(b, t)
  IN  /\ AlignmentFits(a[1], a[2], t) /\ AlignmentFits(b[1], b[2], t) =>
           /\ Represents(AddScaled(a, b), Exact(a, t) + Exact(b, t), t)
           /\ Represents(SubtractScaled(a, b), d, t)
           /\ CompareScaled(a, b) = IF d < 0 THEN -1 ELSE IF d = 0 THEN 0 ELSE 1
      \* Whether aligning wraps or not, what is returned has the sum's low bits.
      /\ Returns(AddScaled(a, b), Wrap(Exact(a, t) + Exact(b, t)))
      /\ Returns(SubtractScaled(a, b), Wrap(d))
      /\ Represents(MultiplyScaled(a, b), a[1] * b[1], a[2] + b[2])
      /\ b[1] = 0 => DivideScaled(a, b) = Err("division by zero")
      \* The quotient of the integers a[1] and b[1], which is a/b for equal scales
      \* only: but for less than one unit of its last digit, and nearer to zero.
      /\ b[1] # 0 /\ Fits(a[1] * 10^t) /\ Fits(10^t) =>
           LET r == DivideScaled(a, b)
               n == a[1] * 10^t
           IN  \/ r.tag = "overflow" /\ n = MinInt /\ b[1] = -1
               \/ /\ r.tag = "ok" /\ r.scale = t
                  /\ Abs(n - r.value * b[1]) < Abs(b[1])
                  /\ Abs(r.value * b[1]) <= Abs(n)

=============================================================================
