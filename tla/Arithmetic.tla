----------------------------- MODULE Arithmetic -----------------------------
(***************************************************************************)
(* Facts about the integer arithmetic the programs share: a fixed-point    *)
(* conversion multiplies by one scale and divides by another, rounding     *)
(* down.                                                                   *)
(***************************************************************************)
EXTENDS Integers, TLAPS

\* Integer division returns the largest quotient that does not exceed the
\* exact one: the rounding of every checked_div.
LEMMA DivBounds ==
  ASSUME NEW n \in Nat, NEW d \in Nat, d > 0
  PROVE  /\ n \div d \in Nat
         /\ (n \div d) * d <= n
         /\ n < (n \div d + 1) * d
  OBVIOUS

\* Any number whose product with the divisor fits is at most the quotient.
LEMMA DivGreatest ==
  ASSUME NEW n \in Nat, NEW d \in Nat, d > 0, NEW q \in Nat, q * d <= n
  PROVE  q <= n \div d
  OBVIOUS

\* A multiple of the divisor is its quotient times the divisor.
LEMMA NoRemainder ==
  ASSUME NEW n \in Nat, NEW d \in Nat, d > 0, n % d = 0
  PROVE  n - (n \div d) * d = 0
  OBVIOUS

\* Multiplication by a natural number is monotone.
LEMMA MulMono ==
  ASSUME NEW a \in Nat, NEW b \in Nat, NEW c \in Nat, a <= b
  PROVE  a * c <= b * c
  OBVIOUS

\* ... and can be cancelled when the factor is positive.
LEMMA MulCancel ==
  ASSUME NEW a \in Nat, NEW b \in Nat, NEW c \in Nat, c > 0, a * c <= b * c
  PROVE  a <= b
  OBVIOUS

\* Products are natural and distribute over sums and differences.
LEMMA MulDistributes ==
  ASSUME NEW a \in Nat, NEW b \in Nat, NEW c \in Nat
  PROVE  /\ a * c \in Nat
         /\ (a + b) * c = a * c + b * c
         /\ (a - b) * c = a * c - b * c
  OBVIOUS

\* A fraction part / whole of a quantity, rounded down, is at most the quantity.
LEMMA FractionBound ==
  ASSUME NEW n \in Nat, NEW part \in Nat, NEW whole \in Nat,
         whole > 0, part <= whole
  PROVE  /\ (n * part) \div whole \in Nat
         /\ (n * part) \div whole <= n
<1>1. n * part \in Nat /\ n * part <= n * whole
  BY MulMono
<1>2. /\ (n * part) \div whole \in Nat
      /\ ((n * part) \div whole) * whole <= n * part
  BY <1>1, DivBounds
<1>3. ((n * part) \div whole) * whole <= n * whole
  BY <1>1, <1>2
<1>4. QED BY <1>2, <1>3, MulCancel

\* A fixed-point conversion of natural numbers is a natural number.
LEMMA ScaledType ==
  ASSUME NEW a \in Nat, NEW b \in Nat, NEW d \in Nat, d > 0
  PROVE  (a * b) \div d \in Nat
<1>1. a * b \in Nat
  BY MulDistributes
<1>2. QED BY <1>1, DivBounds

\* ... that grows with its second factor,
LEMMA ScaledMono ==
  ASSUME NEW a \in Nat, NEW b \in Nat, NEW c \in Nat, NEW d \in Nat, d > 0, b <= c
  PROVE  (a * b) \div d <= (a * c) \div d
<1>1. a * b \in Nat /\ a * c \in Nat /\ b * a <= c * a
  BY MulDistributes, MulMono
<1>2. a * b <= a * c
  BY <1>1
<1>3. (a * b) \div d \in Nat /\ ((a * b) \div d) * d <= a * b
  BY <1>1, DivBounds
<1> DEFINE q == (a * b) \div d
<1>4. q * d \in Nat
  BY <1>3, MulDistributes
<1> HIDE DEF q
<1>5. q * d <= a * c
  BY <1>1, <1>2, <1>3, <1>4 DEF q
<1>6. q <= (a * c) \div d
  BY <1>1, <1>3, <1>5, DivGreatest DEF q
<1>7. QED BY <1>6 DEF q

\* ... and is zero for a zero factor.
LEMMA ScaledZero ==
  ASSUME NEW b \in Nat, NEW d \in Nat, d > 0
  PROVE  (0 * b) \div d = 0 /\ (b * 0) \div d = 0
  OBVIOUS

\* A product divided by its factor is the other one.
LEMMA MultipleDiv ==
  ASSUME NEW n \in Nat, NEW d \in Nat, d > 0
  PROVE  (n * d) \div d = n
  OBVIOUS

\* Division is monotone, and a whole divisor more is one more.
LEMMA DivMono ==
  ASSUME NEW a \in Nat, NEW b \in Nat, NEW d \in Nat, d > 0, a <= b
  PROVE  a \div d <= b \div d
<1>1. a \div d \in Nat /\ (a \div d) * d <= a
  BY DivBounds
<1>2. (a \div d) * d \in Nat /\ (a \div d) * d <= b
  BY <1>1
<1>3. QED BY <1>1, <1>2, DivGreatest

LEMMA DivShift ==
  ASSUME NEW n \in Nat, NEW d \in Nat, d > 0
  PROVE  (n + d) \div d = n \div d + 1
  OBVIOUS

\* Books kept in units of 1 / s: what was paid and the credits c stay within the
\* budget when the credits grow by no more than k s, less the payment a, and the
\* budget by k.
LEMMA BudgetStep ==
  ASSUME NEW s \in Nat,
         NEW paid \in Nat, NEW c \in Nat, NEW budget \in Nat,
         NEW new_paid \in Nat, NEW new_c \in Nat, NEW new_budget \in Nat,
         NEW a \in Nat, NEW k \in Nat,
         paid * s + c <= budget * s,
         new_paid = paid + a,
         new_c + a * s <= c + k * s,
         budget + k <= new_budget
  PROVE  new_paid * s + new_c <= new_budget * s
<1>1. /\ paid * s \in Nat /\ a * s \in Nat /\ k * s \in Nat /\ budget * s \in Nat
      /\ new_paid * s = paid * s + a * s
      /\ (budget + k) * s = budget * s + k * s
  BY MulDistributes
<1>2. (budget + k) * s <= new_budget * s
  <2>1. budget + k \in Nat
    OBVIOUS
  <2>2. QED BY <2>1, MulMono
<1>3. new_budget * s \in Nat
  BY MulDistributes
<1> DEFINE x == paid * s
           y == a * s
           z == k * s
           b == budget * s
           nb == new_budget * s
<1>4. /\ x \in Nat /\ y \in Nat /\ z \in Nat /\ b \in Nat /\ nb \in Nat
      /\ x + c <= b /\ new_c + y <= c + z /\ b + z <= nb
  BY <1>1, <1>2, <1>3
<1> HIDE DEF x, y, z, b, nb
<1>5. (x + y) + new_c <= nb
  BY <1>4
<1>6. QED BY <1>1, <1>5 DEF x, y, nb

\* ... so that what is owed, each unit of it backed by s credits, fits as well.
LEMMA BudgetCovers ==
  ASSUME NEW s \in Nat, s > 0, NEW paid \in Nat, NEW c \in Nat, NEW budget \in Nat,
         NEW owed \in Nat, paid * s + c <= budget * s, owed * s <= c
  PROVE  paid + owed <= budget
<1>1. (paid + owed) * s = paid * s + owed * s /\ paid * s \in Nat /\ owed * s \in Nat
  BY MulDistributes
<1>2. budget * s \in Nat
  BY MulDistributes
<1> DEFINE x == paid * s
           y == owed * s
           b == budget * s
<1>3. x \in Nat /\ y \in Nat /\ b \in Nat /\ x + c <= b /\ y <= c
  BY <1>1, <1>2
<1> HIDE DEF x, y, b
<1>4. x + y <= b
  BY <1>3
<1>5. (paid + owed) * s <= budget * s
  BY <1>1, <1>4 DEF x, y, b
<1>6. paid + owed \in Nat
  OBVIOUS
<1>7. QED BY <1>5, <1>6, MulCancel

\* Settling a stake of n / s units of reward at a debt, and restarting it with m / s
\* and the debt that goes with it, rounds down twice: s credits more at most.
LEMMA RoundedCredit ==
  ASSUME NEW s \in Nat, s > 0, NEW pending \in Nat, NEW debt \in Nat,
         NEW n \in Nat, NEW m \in Nat, debt <= n \div s
  PROVE  /\ (pending + (n \div s - debt)) * s <= pending * s + (n - debt * s)
         /\ (pending + (n \div s - debt)) * s + (m - (m \div s) * s)
              <= pending * s + (n - debt * s) + s
         /\ (pending + (n \div s - debt)) * s + (n - (n \div s) * s)
              = pending * s + (n - debt * s)
         /\ m - (m \div s) * s \in Nat
         /\ n - debt * s \in Nat
<1> DEFINE f == n \div s
           e == m \div s
<1>1. /\ f \in Nat /\ f * s <= n
      /\ e \in Nat /\ e * s <= m /\ m < (e + 1) * s
  BY DivBounds
<1> HIDE DEF f, e
<1>2. /\ pending * s \in Nat /\ debt * s \in Nat /\ f * s \in Nat /\ e * s \in Nat
      /\ (e + 1) * s = e * s + 1 * s /\ 1 * s = s
      /\ debt * s <= f * s
  BY <1>1, MulDistributes, MulMono DEF f
<1>3. (pending + (f - debt)) * s = pending * s + (f * s - debt * s)
  <2>1. f - debt \in Nat
    BY <1>1 DEF f
  <2>2. (pending + (f - debt)) * s = pending * s + (f - debt) * s
    BY <2>1, MulDistributes
  <2>3. (f - debt) * s = f * s - debt * s
    BY <1>1, MulDistributes
  <2>4. QED BY <2>2, <2>3
<1> DEFINE p == pending * s
           b == debt * s
           fs == f * s
           es == e * s
<1>4. /\ p \in Nat /\ b \in Nat /\ fs \in Nat /\ es \in Nat
      /\ b <= fs /\ fs <= n /\ es <= m /\ m < es + s
  BY <1>1, <1>2
<1> HIDE DEF p, b, fs, es
<1>5. /\ p + (fs - b) <= p + (n - b)
      /\ p + (fs - b) + (m - es) <= p + (n - b) + s
      /\ p + (fs - b) + (n - fs) = p + (n - b)
      /\ m - es \in Nat /\ n - b \in Nat
  BY <1>4
<1>6. QED BY <1>3, <1>5 DEF p, b, fs, es, f, e

\* A quotient does not fall when its dividend grows, and rises by less than one
\* unit more than the dividend does.
LEMMA RoundedRise ==
  ASSUME NEW s \in Nat, s > 0, NEW n \in Nat, NEW m \in Nat
  PROVE  /\ (n + m) \div s - n \div s \in Nat
         /\ ((n + m) \div s - n \div s) * s <= m + s
<1> DEFINE q == n \div s
           r == (n + m) \div s
<1>1. /\ q \in Nat /\ n < (q + 1) * s
      /\ r \in Nat /\ r * s <= n + m
  BY DivBounds
<1>2. q <= r
  BY DivMono
<1> HIDE DEF q, r
<1>3. /\ (q + 1) * s = q * s + s /\ q * s \in Nat
      /\ (r - q) * s = r * s - q * s /\ r * s \in Nat
  <2>1. (q + 1) * s = q * s + 1 * s
    BY <1>1, MulDistributes
  <2>2. QED BY <1>1, <2>1, MulDistributes
<1> DEFINE x == q * s
           y == r * s
<1>4. /\ x \in Nat /\ y \in Nat /\ y <= n + m /\ n < x + s
  BY <1>1, <1>3
<1> HIDE DEF x, y
<1>5. y - x <= m + s
  BY <1>4
<1>6. r - q \in Nat
  BY <1>1, <1>2
<1>7. QED BY <1>3, <1>5, <1>6 DEF x, y, q, r

\* A share of v out of t, taken in units of 1 / b and rounded down twice, is v / t
\* rounded down.
LEMMA TwiceRounded ==
  ASSUME NEW v \in Nat, NEW t \in Nat, t > 0, NEW b \in Nat, b > 0
  PROVE  LET q == ((v * b) \div t) \div b IN
         q \in Nat /\ q * t <= v /\ v < (q + 1) * t
<1> DEFINE m == (v * b) \div t
           q == m \div b
<1>1. v * b \in Nat
  BY MulDistributes
<1>2. m \in Nat /\ m * t <= v * b /\ v * b < (m + 1) * t
  BY <1>1, DivBounds
<1> HIDE DEF m
<1>3. q \in Nat /\ q * b <= m /\ m < (q + 1) * b
  BY <1>2, DivBounds
<1> HIDE DEF q
<1>4. q * t <= v
  <2>1. q * b \in Nat /\ q * t \in Nat
    BY <1>3, MulDistributes
  <2>2. (q * b) * t <= m * t
    BY <1>2, <1>3, <2>1, MulMono
  <2>3. (q * b) * t = (q * t) * b
    BY <1>3
  <2>4. (q * t) * b <= v * b
    BY <1>1, <1>2, <1>3, <2>1, <2>2, <2>3
  <2>5. QED BY <2>1, <2>4, MulCancel
<1>5. v < (q + 1) * t
  <2>1. (q + 1) * b \in Nat /\ (q + 1) * t \in Nat /\ m + 1 \in Nat
    BY <1>2, <1>3, MulDistributes
  <2>2. m + 1 <= (q + 1) * b
    BY <1>2, <1>3, <2>1
  <2>3. (m + 1) * t <= ((q + 1) * b) * t
    BY <2>1, <2>2, MulMono
  <2>4. ((q + 1) * b) * t = ((q + 1) * t) * b
    BY <1>3
  <2>5. SUFFICES ASSUME (q + 1) * t <= v PROVE FALSE
    BY <2>1
  <2>6. ((q + 1) * t) * b <= v * b
    BY <2>1, <2>5, MulMono
  <2>7. QED BY <1>1, <1>2, <2>1, <2>3, <2>4, <2>6
<1>6. QED BY <1>3, <1>4, <1>5 DEF q, m
=============================================================================
