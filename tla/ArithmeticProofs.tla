-------------------------- MODULE ArithmeticProofs --------------------------
(***************************************************************************)
(* Facts about the fixed-point arithmetic, for every scale, amount and     *)
(* index, which rest on ScaleAssumption alone; and sums of numbers over    *)
(* finite sets: what is needed of MapThenSumSet to reason about the        *)
(* balances of all accounts, stated for functions so that the provers can  *)
(* use it.  Induction over the subsets of a finite set is derived from the *)
(* fact that the order of the naturals is well founded.                    *)
(***************************************************************************)
EXTENDS WadRayMath, FiniteSetsExt, FiniteSetTheorems, WellFoundedInduction, TLAPS

\* The scales of WadRayMath and PercentageMath are positive, and a ray is even.
LEMMA ScalePositive ==
    /\ RAY \in Nat \ {0} /\ RAY >= 2 /\ RAY = 2 * (RAY \div 2) /\ RAY \div 2 \in Nat \ {0}
    /\ PERCENTAGE_FACTOR \in Nat \ {0} /\ PERCENTAGE_FACTOR \div 2 \in Nat
    /\ SECONDS_PER_YEAR \in Nat \ {0} /\ WAD \in Nat \ {0} /\ WAD_RAY_RATIO \in Nat \ {0}
<1>1. RAY \in Nat /\ RAY # 0
    BY ScaleAssumption DEF RAY
<1>2. RAY % 2 = 0
    BY ScaleAssumption
<1> QED BY <1>1, <1>2, ScaleAssumption

-----------------------------------------------------------------------------
(* Division *)

\* Integer division rounds down: the quotient fits and the next one does not.
LEMMA DivProp ==
    ASSUME NEW a \in Nat, NEW b \in Nat \ {0}
    PROVE  a \div b \in Nat /\ b * (a \div b) <= a /\ a < b * (a \div b) + b
OBVIOUS

\* Only one number has that property, so it identifies the quotient.
LEMMA DivUnique ==
    ASSUME NEW a \in Nat, NEW b \in Nat \ {0}, NEW q \in Nat, b * q <= a, a < b * q + b
    PROVE  a \div b = q
<1> DEFINE d == a \div b
<1>1. d \in Nat /\ b * d <= a /\ a < b * d + b
    BY DivProp
<1>2. CASE d < q
  <2>1. b * (d + 1) <= b * q
    BY <1>1, <1>2
  <2> QED BY <1>1, <2>1
<1>3. CASE q < d
  <2>1. b * (q + 1) <= b * d
    BY <1>1, <1>3
  <2> QED BY <1>1, <2>1
<1> QED BY <1>1, <1>2, <1>3

\* A larger dividend never has a smaller quotient.
LEMMA DivMonotone ==
    ASSUME NEW a \in Nat, NEW c \in Nat, NEW b \in Nat \ {0}, a <= c
    PROVE  a \div b <= c \div b
<1> DEFINE d == a \div b
           e == c \div b
<1>1. d \in Nat /\ b * d <= a /\ e \in Nat /\ c < b * e + b
    BY DivProp
<1>2. CASE e < d
  <2>1. b * (e + 1) <= b * d
    BY <1>1, <1>2
  <2> QED BY <1>1, <2>1
<1> QED BY <1>1, <1>2

\* A quotient is at least q as soon as the dividend is.
LEMMA DivAtLeast ==
    ASSUME NEW a \in Nat, NEW b \in Nat \ {0}, NEW q \in Nat, b * q <= a
    PROVE  q <= a \div b
<1>1. (b * q) \div b = q
    BY DivUnique
<1>2. b * q \in Nat
    OBVIOUS
<1> QED BY <1>1, <1>2, DivMonotone

\* Products of naturals are naturals and grow with a factor.
LEMMA ProductMonotone ==
    ASSUME NEW a \in Nat, NEW b \in Nat, NEW c \in Nat, a <= b
    PROVE  a * c \in Nat /\ b * c \in Nat /\ a * c <= b * c
OBVIOUS

-----------------------------------------------------------------------------
(* Products and quotients rounded half up *)

\* Every rounded operation of the two libraries returns an unsigned number.
LEMMA RoundedInNat ==
    /\ \A a, b \in Nat : rayMul(a, b) \in Nat
    /\ \A a \in Nat, b \in Nat \ {0} : rayDiv(a, b) \in Nat
    /\ \A a \in Nat, b \in Nat \ {0} : wadDiv(a, b) \in Nat
    /\ \A a \in Nat : wadToRay(a) \in Nat
    /\ \A a \in Nat \ {0} : wadToRay(a) \in Nat \ {0}
    /\ \A a, b \in Nat : percentMul(a, b) \in Nat
    /\ \A a \in Nat, b \in Nat \ {0} : percentDiv(a, b) \in Nat
<1>1. ASSUME NEW a \in Nat, NEW b \in Nat PROVE rayMul(a, b) \in Nat
  <2>1. a * b + RAY \div 2 \in Nat
    BY ScalePositive
  <2> QED BY <2>1, DivProp, ScalePositive DEF rayMul
<1>2. ASSUME NEW a \in Nat, NEW b \in Nat \ {0} PROVE rayDiv(a, b) \in Nat
  <2>1. a * RAY + b \div 2 \in Nat
    BY ScalePositive
  <2> QED BY <2>1, DivProp DEF rayDiv
<1>3. ASSUME NEW a \in Nat, NEW b \in Nat \ {0} PROVE wadDiv(a, b) \in Nat
  <2>1. a * WAD + b \div 2 \in Nat
    BY ScalePositive
  <2> QED BY <2>1, DivProp DEF wadDiv
<1>4. ASSUME NEW a \in Nat PROVE wadToRay(a) \in Nat
    BY ScalePositive DEF wadToRay
<1>5. ASSUME NEW a \in Nat \ {0} PROVE wadToRay(a) \in Nat \ {0}
    BY ScalePositive DEF wadToRay
<1>6. ASSUME NEW a \in Nat, NEW b \in Nat PROVE percentMul(a, b) \in Nat
  <2>1. a * b + PERCENTAGE_FACTOR \div 2 \in Nat
    BY ScalePositive
  <2> QED BY <2>1, DivProp, ScalePositive DEF percentMul
<1>7. ASSUME NEW a \in Nat, NEW b \in Nat \ {0} PROVE percentDiv(a, b) \in Nat
  <2>1. a * PERCENTAGE_FACTOR + b \div 2 \in Nat
    BY ScalePositive
  <2> QED BY <2>1, DivProp DEF percentDiv
<1> QED BY <1>1, <1>2, <1>3, <1>4, <1>5, <1>6, <1>7

\* A zero scaled balance is worth nothing at any index.
LEMMA RayMulZero == ASSUME NEW i \in Nat PROVE rayMul(0, i) = 0
<1>1. 0 * i + RAY \div 2 = RAY \div 2
    BY ScalePositive
<1>2. (RAY \div 2) \div RAY = 0
    BY ScalePositive, DivUnique
<1> QED BY <1>1, <1>2 DEF rayMul

\* One ray is the unit of rayMul.
LEMMA RayMulOne == ASSUME NEW i \in Nat PROVE rayMul(RAY, i) = i
<1> DEFINE n == RAY * i + RAY \div 2
<1>1. n \in Nat /\ RAY * i <= n /\ n < RAY * i + RAY
    BY ScalePositive
<1>2. n \div RAY = i
    BY <1>1, ScalePositive, DivUnique
<1> QED BY <1>2 DEF rayMul

\* rayMul grows with either operand.
LEMMA RayMulMonotone ==
    ASSUME NEW a \in Nat, NEW b \in Nat, NEW i \in Nat, a <= b
    PROVE  rayMul(a, i) <= rayMul(b, i) /\ rayMul(i, a) <= rayMul(i, b)
<1>1. a * i <= b * i /\ a * i \in Nat /\ b * i \in Nat /\ i * a = a * i /\ i * b = b * i
    BY ProductMonotone
<1>2. a * i + RAY \div 2 <= b * i + RAY \div 2
    BY <1>1, ScalePositive
<1>3. a * i + RAY \div 2 \in Nat /\ b * i + RAY \div 2 \in Nat
    BY <1>1, ScalePositive
<1> QED BY <1>1, <1>2, <1>3, DivMonotone, ScalePositive DEF rayMul

\* rayDiv grows with the amount divided.
LEMMA RayDivMonotone ==
    ASSUME NEW a \in Nat, NEW b \in Nat, NEW i \in Nat \ {0}, a <= b
    PROVE  rayDiv(a, i) <= rayDiv(b, i)
<1>1. a * RAY <= b * RAY /\ a * RAY \in Nat /\ b * RAY \in Nat
    BY ProductMonotone, ScalePositive
<1>2. a * RAY + i \div 2 \in Nat /\ b * RAY + i \div 2 \in Nat
    BY <1>1
<1>3. a * RAY + i \div 2 <= b * RAY + i \div 2
    BY <1>1
<1> QED BY <1>2, <1>3, DivMonotone DEF rayDiv

\* Interest factors and indexes are at least one ray: nothing multiplied by one
\* shrinks.
LEMMA RayMulGrows ==
    ASSUME NEW a \in Nat, NEW i \in Nat, i >= RAY
    PROVE  rayMul(a, i) >= a /\ rayMul(i, a) >= a
<1>1. rayMul(RAY, a) = a /\ rayMul(a, RAY) = a
  <2>1. RAY * a = a * RAY
    BY ScalePositive
  <2> QED BY <2>1, RayMulOne DEF rayMul
<1>2. rayMul(a, RAY) <= rayMul(a, i) /\ rayMul(RAY, a) <= rayMul(i, a)
    BY RayMulMonotone, ScalePositive
<1> QED BY <1>1, <1>2, RoundedInNat, ScalePositive

\* Whoever burns all he owns, or repays all he owes, burns exactly the scaled
\* tokens he has: rayDiv of AToken.burn and VariableDebtToken.burn undoes rayMul
\* of balanceOf, at every index the protocol can have.
THEOREM RoundTrip ==
    ASSUME NEW a \in Nat, NEW i \in Nat, i >= RAY
    PROVE  rayDiv(rayMul(a, i), i) = a
<1> DEFINE h == RAY \div 2
           m == rayMul(a, i)
           p == a * i
<1>1. m \in Nat /\ p \in Nat /\ h \in Nat /\ i \in Nat \ {0} /\ RAY \in Nat \ {0} /\ RAY = 2 * h
    BY RoundedInNat, ScalePositive
<1>2. RAY * m <= p + h /\ p + h < RAY * m + RAY
    BY <1>1, DivProp DEF rayMul
<1>3. m * RAY = RAY * m /\ m * RAY \in Nat /\ i * a = p
    BY <1>1
<1> HIDE DEF m, h, p
<1>4. p <= m * RAY + i \div 2
    BY <1>1, <1>2, <1>3
<1>5. m * RAY + i \div 2 < p + i
  <2>1. CASE i > RAY
    BY <2>1, <1>1, <1>2, <1>3
  <2>2. CASE i = RAY
    <3>1. m = a
      <4>1. a * RAY = RAY * a
        BY <1>1
      <4> QED BY <4>1, <2>2, RayMulOne DEF m, rayMul
    <3>2. m * RAY = p
      BY <3>1, <2>2 DEF p
    <3> QED BY <3>2, <1>1
  <2> QED BY <2>1, <2>2, <1>1
<1>6. (m * RAY + i \div 2) \div i = a
  <2>1. m * RAY + i \div 2 \in Nat
    BY <1>1, <1>3
  <2> QED BY <2>1, <1>1, <1>3, <1>4, <1>5, DivUnique
<1> QED BY <1>6 DEF rayDiv, m

\* An amount rounded to tokens at an index below the one it was computed with is
\* worth no fewer tokens than it was.
LEMMA RoundTripAtLeast ==
    ASSUME NEW a \in Nat, NEW i \in Nat, NEW j \in Nat, i >= RAY, i <= j
    PROVE  rayDiv(rayMul(a, j), i) >= a
<1>1. rayMul(a, i) <= rayMul(a, j) /\ rayMul(a, i) \in Nat /\ rayMul(a, j) \in Nat
    BY RayMulMonotone, RoundedInNat
<1>2. i \in Nat \ {0}
    BY ScalePositive
<1>3. rayDiv(rayMul(a, i), i) <= rayDiv(rayMul(a, j), i)
    BY <1>1, <1>2, RayDivMonotone
<1> QED BY <1>3, RoundTrip

\* A part of a whole is at most one ray of it.
LEMMA RayDivOfPart ==
    ASSUME NEW part \in Nat, NEW whole \in Nat \ {0}, part <= whole
    PROVE  rayDiv(part, whole) \in 0 .. RAY
<1> DEFINE q == rayDiv(part, whole)
<1>1. part * RAY <= whole * RAY /\ part * RAY \in Nat /\ whole * RAY \in Nat
    BY ProductMonotone, ScalePositive
<1>2. q \in Nat /\ whole * q <= part * RAY + whole \div 2
  <2>1. part * RAY + whole \div 2 \in Nat
    BY <1>1
  <2> QED BY <2>1, DivProp DEF rayDiv
<1> HIDE DEF q
<1>3. CASE q > RAY
  <2>1. whole * (RAY + 1) <= whole * q
    BY <1>2, <1>3, ScalePositive
  <2>2. whole * (RAY + 1) = whole * RAY + whole
    BY ScalePositive
  <2> QED BY <2>1, <2>2, <1>1, <1>2
<1> QED BY <1>2, <1>3, ScalePositive DEF q

\* Half up, a product is at most half a unit too high or too low ...
LEMMA RoundedProduct ==
    ASSUME NEW a \in Nat, NEW b \in Nat
    PROVE  /\ 2 * RAY * rayMul(a, b) <= 2 * (a * b) + RAY
           /\ 2 * (a * b) <= 2 * RAY * rayMul(a, b) + RAY
<1> DEFINE p == a * b
           q == rayMul(a, b)
<1>1. p \in Nat /\ p + RAY \div 2 \in Nat
    BY ScalePositive
<1>2. RAY * q <= p + RAY \div 2 /\ p + RAY \div 2 < RAY * q + RAY /\ q \in Nat
    BY <1>1, DivProp, ScalePositive DEF rayMul
<1> HIDE DEF p, q
<1>3. RAY * q \in Nat /\ 2 * RAY * q = 2 * (RAY * q)
    BY <1>2, ScalePositive
<1> QED BY <1>1, <1>2, <1>3, ScalePositive DEF p, q

\* ... a quotient at most half a unit too high ...
LEMMA RoundedQuotient ==
    ASSUME NEW a \in Nat, NEW b \in Nat \ {0}
    PROVE  2 * (b * rayDiv(a, b)) <= 2 * (a * RAY) + b
<1> DEFINE p == a * RAY
           q == rayDiv(a, b)
<1>1. p \in Nat /\ p + b \div 2 \in Nat /\ b \div 2 \in Nat /\ 2 * (b \div 2) <= b
    BY ScalePositive
<1>2. b * q <= p + b \div 2 /\ q \in Nat
    BY <1>1, DivProp DEF rayDiv
<1> HIDE DEF p, q
<1>3. b * q \in Nat
    BY <1>2
<1> QED BY <1>1, <1>2, <1>3 DEF p, q

\* ... and so is a percentage.
LEMMA RoundedPercentage ==
    ASSUME NEW a \in Nat, NEW b \in Nat
    PROVE  2 * (PERCENTAGE_FACTOR * percentMul(a, b)) <= 2 * (a * b) + PERCENTAGE_FACTOR
<1> DEFINE p == a * b
           q == percentMul(a, b)
           h == PERCENTAGE_FACTOR \div 2
<1>1. p \in Nat /\ p + h \in Nat /\ h \in Nat /\ 2 * h <= PERCENTAGE_FACTOR
    BY ScalePositive
<1>2. PERCENTAGE_FACTOR * q <= p + h /\ q \in Nat
    BY <1>1, DivProp, ScalePositive DEF percentMul
<1> HIDE DEF p, q, h
<1>3. PERCENTAGE_FACTOR * q \in Nat
    BY <1>2, ScalePositive
<1> QED BY <1>1, <1>2, <1>3, ScalePositive DEF p, q

\* What both sides are multiplied by may be left out.
LEMMA CancelFactor ==
    ASSUME NEW k \in Nat \ {0}, NEW a \in Int, NEW b \in Int, k * a <= k * b
    PROVE  a <= b
<1>1. CASE b < a
  <2>1. k * (b + 1) <= k * a
    <3>1. a = (b + 1) + (a - b - 1) /\ a - b - 1 \in Nat
      BY <1>1
    <3>2. k * (a - b - 1) >= 0
      BY <3>1
    <3>3. k * a = k * (b + 1) + k * (a - b - 1)
      OBVIOUS
    <3> QED BY <3>2, <3>3
  <2> QED BY <2>1
<1> QED BY <1>1

-----------------------------------------------------------------------------
(* Interest *)

\* Linear interest is a factor of at least one, and exactly one for no time or no rate.
LEMMA LinearInterest ==
    ASSUME NEW rate \in Nat, NEW from \in Nat, NEW to \in Nat, from <= to
    PROVE  /\ calculateLinearInterest(rate, from, to) \in Nat
           /\ calculateLinearInterest(rate, from, to) >= RAY
           /\ from = to => calculateLinearInterest(rate, from, to) = RAY
           /\ rate = 0 => calculateLinearInterest(rate, from, to) = RAY
<1> DEFINE earned == rate * (to - from)
<1>1. earned \in Nat /\ (from = to => earned = 0) /\ (rate = 0 => earned = 0)
    OBVIOUS
<1>2. earned \div SECONDS_PER_YEAR \in Nat
    BY <1>1, DivProp, ScalePositive
<1>3. 0 \div SECONDS_PER_YEAR = 0
    BY DivUnique, ScalePositive
<1> QED BY <1>1, <1>2, <1>3, ScalePositive DEF calculateLinearInterest

\* Linear interest grows with the time elapsed.
LEMMA LinearInterestGrows ==
    ASSUME NEW rate \in Nat, NEW from \in Nat, NEW to \in Nat, NEW later \in Nat,
           from <= to, to <= later
    PROVE  calculateLinearInterest(rate, from, to) <= calculateLinearInterest(rate, from, later)
<1> DEFINE earned == rate * (to - from)
           more   == rate * (later - from)
<1>1. (to - from) \in Nat /\ (later - from) \in Nat /\ to - from <= later - from
    OBVIOUS
<1>2. earned \in Nat /\ more \in Nat /\ earned <= more
    BY <1>1
<1>3. earned \div SECONDS_PER_YEAR <= more \div SECONDS_PER_YEAR
    BY <1>2, DivMonotone, ScalePositive
<1>4. earned \div SECONDS_PER_YEAR \in Nat /\ more \div SECONDS_PER_YEAR \in Nat
    BY <1>2, DivProp, ScalePositive
<1> QED BY <1>3, <1>4, ScalePositive DEF calculateLinearInterest

\* Compounded interest is a factor of at least one, and exactly one for no time.
LEMMA CompoundedInterest ==
    ASSUME NEW rate \in Nat, NEW from \in Nat, NEW to \in Nat, from <= to
    PROVE  /\ calculateCompoundedInterest(rate, from, to) \in Nat
           /\ calculateCompoundedInterest(rate, from, to) >= RAY
           /\ from = to => calculateCompoundedInterest(rate, from, to) = RAY
<1> DEFINE exp   == to - from
           two   == IF exp > 2 THEN exp - 2 ELSE 0
           r     == rate \div SECONDS_PER_YEAR
           sq    == rayMul(r, r)
           cube  == rayMul(sq, r)
           term2 == exp * (exp - 1) * sq
           term3 == exp * (exp - 1) * two * cube
<1>1. exp \in Nat /\ two \in Nat /\ (exp # 0 => exp - 1 \in Nat) /\ (from = to <=> exp = 0)
    OBVIOUS
<1>2. r \in Nat /\ sq \in Nat /\ cube \in Nat
    BY DivProp, RoundedInNat, ScalePositive
<1>3. ASSUME exp # 0
      PROVE  r * exp \in Nat /\ term2 \div 2 \in Nat /\ term3 \div 6 \in Nat
  <2>1. exp * (exp - 1) \in Nat
    BY <1>1, <1>3
  <2>2. exp * (exp - 1) * two \in Nat
    BY <1>1, <2>1
  <2>3. term2 \in Nat /\ term3 \in Nat
    BY <1>2, <2>1, <2>2
  <2>4. r * exp \in Nat
    BY <1>1, <1>2
  <2> HIDE DEF term2, term3, r, exp
  <2> QED BY <2>3, <2>4, DivProp
<1>4. calculateCompoundedInterest(rate, from, to)
        = IF exp = 0 THEN RAY ELSE RAY + r * exp + term2 \div 2 + term3 \div 6
    BY DEF calculateCompoundedInterest
<1> HIDE DEF exp, two, r, sq, cube, term2, term3
<1> QED BY <1>1, <1>3, <1>4, ScalePositive

\* A multiple of the divisor goes into the quotient whole.
LEMMA DivOfSum ==
    \A x, y, a \in Nat, s \in Nat \ {0} : a = s * x + y => a \div s = x + y \div s
<1> SUFFICES ASSUME NEW x \in Nat, NEW y \in Nat, NEW a \in Nat, NEW s \in Nat \ {0},
                    a = s * x + y
             PROVE  a \div s = x + y \div s
    OBVIOUS
<1> DEFINE e == y \div s
<1>1. e \in Nat /\ s * e <= y /\ y < s * e + s
    BY DivProp
<1>2. s * x + y \in Nat /\ x + e \in Nat /\ s * (x + e) = s * x + s * e /\ s * e \in Nat
    BY <1>1
<1>3. s * (x + e) <= s * x + y /\ s * x + y < s * (x + e) + s
    BY <1>1, <1>2
<1> HIDE DEF e
<1>4. (s * x + y) \div s = x + e
    BY <1>2, <1>3, DivUnique
<1> QED BY <1>4, Zenon DEF e

\* At the same rate compounding never earns less than linear interest, but for what
\* the division of the rate by the seconds of a year drops.
LEMMA CompoundedAtLeastLinear ==
    ASSUME NEW rate \in Nat, NEW from \in Nat, NEW to \in Nat, from <= to
    PROVE  calculateCompoundedInterest(rate, from, to)
             + ((rate % SECONDS_PER_YEAR) * (to - from)) \div SECONDS_PER_YEAR
           >= calculateLinearInterest(rate, from, to)
<1> DEFINE s     == SECONDS_PER_YEAR
           exp   == to - from
           two   == IF exp > 2 THEN exp - 2 ELSE 0
           r     == rate \div s
           m     == rate % s
           sq    == rayMul(r, r)
           cube  == rayMul(sq, r)
           term2 == exp * (exp - 1) * sq
           term3 == exp * (exp - 1) * two * cube
           left  == (m * exp) \div s
<1>1. exp \in Nat /\ two \in Nat /\ (exp # 0 => exp - 1 \in Nat) /\ s \in Nat \ {0}
    BY ScalePositive
<1>2. r \in Nat /\ sq \in Nat /\ cube \in Nat
    BY DivProp, RoundedInNat, ScalePositive
<1>3. m \in Nat /\ rate = s * r + m
  <2> HIDE DEF s
  <2> QED BY <1>1
<1>4. ASSUME exp # 0 PROVE term2 \div 2 \in Nat /\ term3 \div 6 \in Nat
  <2>1. exp * (exp - 1) \in Nat
    BY <1>1, <1>4
  <2>2. exp * (exp - 1) * two \in Nat
    BY <1>1, <2>1
  <2>3. term2 \in Nat /\ term3 \in Nat
    BY <1>2, <2>1, <2>2
  <2> HIDE DEF term2, term3
  <2> QED BY <2>3, DivProp
<1>5. calculateCompoundedInterest(rate, from, to)
        = IF exp = 0 THEN RAY ELSE RAY + r * exp + term2 \div 2 + term3 \div 6
    BY DEF calculateCompoundedInterest
<1>6. calculateLinearInterest(rate, from, to) = RAY + (rate * exp) \div s
    BY DEF calculateLinearInterest
<1> HIDE DEF exp, two, r, m, sq, cube, term2, term3, s
<1>7. (rate * exp) \div s = r * exp + left
  <2> DEFINE x == r * exp
             y == m * exp
             a == rate * exp
  <2>1. a = s * x + y /\ x \in Nat /\ y \in Nat /\ a \in Nat /\ s \in Nat \ {0}
    BY <1>1, <1>2, <1>3
  <2> HIDE DEF x, y, a
  <2>2. a \div s = x + y \div s
    BY <2>1, DivOfSum
  <2> QED BY <2>2 DEF x, y, a, left
<1>8. left \in Nat /\ r * exp \in Nat
  <2>1. m * exp \in Nat /\ r * exp \in Nat
    BY <1>1, <1>2, <1>3
  <2> QED BY <1>1, <2>1, DivProp
<1> HIDE DEF left
<1>9. calculateCompoundedInterest(rate, from, to) + left >= RAY + (r * exp + left)
  <2>1. CASE exp = 0
    <3>1. r * exp = 0
      BY <1>2, <2>1
    <3> QED BY <1>5, <1>8, <2>1, <3>1, ScalePositive
  <2>2. CASE exp # 0
    BY <1>4, <1>5, <1>8, <2>2, ScalePositive
  <2> QED BY <2>1, <2>2
<1> QED BY <1>6, <1>7, <1>9 DEF exp, m, s, left

\* Products of naturals grow with both factors.
LEMMA ProductsMonotone ==
    ASSUME NEW a \in Nat, NEW b \in Nat, NEW c \in Nat, NEW d \in Nat, a <= b, c <= d
    PROVE  a * c \in Nat /\ b * d \in Nat /\ a * c <= b * d
<1>1. a * c \in Nat /\ b * c \in Nat /\ a * c <= b * c
    BY ProductMonotone
<1>2. c * b \in Nat /\ d * b \in Nat /\ c * b <= d * b
    BY ProductMonotone
<1>3. c * b = b * c /\ d * b = b * d
    OBVIOUS
<1> QED BY <1>1, <1>2, <1>3

\* Compounded interest grows with the time elapsed.
LEMMA CompoundedInterestGrows ==
    ASSUME NEW rate \in Nat, NEW from \in Nat, NEW to \in Nat, NEW later \in Nat,
           from <= to, to <= later
    PROVE  calculateCompoundedInterest(rate, from, to)
             <= calculateCompoundedInterest(rate, from, later)
<1> DEFINE two(e)   == IF e > 2 THEN e - 2 ELSE 0
           r        == rate \div SECONDS_PER_YEAR
           sq       == rayMul(r, r)
           cube     == rayMul(sq, r)
           pairs(e) == e * (e - 1)
           trios(e) == e * (e - 1) * two(e)
           first(e)  == r * e
           second(e) == (pairs(e) * sq) \div 2
           third(e)  == (trios(e) * cube) \div 6
           e1 == to - from
           e2 == later - from
<1>1. CASE e1 = 0
  <2>1. to = from
    BY <1>1
  <2> QED BY <2>1, CompoundedInterest, ScalePositive
<1>2. CASE e1 # 0
  <2>1. e1 \in Nat \ {0} /\ e2 \in Nat \ {0} /\ e1 <= e2
    BY <1>2
  <2>2. r \in Nat /\ sq \in Nat /\ cube \in Nat
    BY DivProp, RoundedInNat, ScalePositive
  <2>3. \A e \in {e1, e2} :
          calculateCompoundedInterest(rate, from, from + e)
            = RAY + first(e) + second(e) + third(e)
    BY <2>1 DEF calculateCompoundedInterest
  <2>4. from + e1 = to /\ from + e2 = later
    OBVIOUS
  <2> HIDE DEF e1, e2, r, sq, cube
  <2>5. /\ e1 - 1 \in Nat /\ e2 - 1 \in Nat /\ e1 - 1 <= e2 - 1
        /\ two(e1) \in Nat /\ two(e2) \in Nat /\ two(e1) <= two(e2)
    BY <2>1
  <2> HIDE DEF two
  <2>6. first(e1) \in Nat /\ first(e2) \in Nat /\ first(e1) <= first(e2)
    BY <2>1, <2>2, ProductsMonotone
  <2>7. pairs(e1) \in Nat /\ pairs(e2) \in Nat /\ pairs(e1) <= pairs(e2)
    BY <2>1, <2>5, ProductsMonotone
  <2>8. trios(e1) \in Nat /\ trios(e2) \in Nat /\ trios(e1) <= trios(e2)
    BY <2>5, <2>7, ProductsMonotone
  <2> HIDE DEF first, pairs, trios
  <2>9. second(e1) \in Nat /\ second(e2) \in Nat /\ second(e1) <= second(e2)
    <3>1. pairs(e1) * sq \in Nat /\ pairs(e2) * sq \in Nat /\ pairs(e1) * sq <= pairs(e2) * sq
      BY <2>2, <2>7, ProductMonotone
    <3> QED BY <3>1, DivProp, DivMonotone
  <2>10. third(e1) \in Nat /\ third(e2) \in Nat /\ third(e1) <= third(e2)
    <3>1. /\ trios(e1) * cube \in Nat /\ trios(e2) * cube \in Nat
          /\ trios(e1) * cube <= trios(e2) * cube
      BY <2>2, <2>8, ProductMonotone
    <3> QED BY <3>1, DivProp, DivMonotone
  <2> HIDE DEF second, third
  <2> QED BY <2>3, <2>4, <2>6, <2>9, <2>10, ScalePositive
<1> QED BY <1>1, <1>2

-----------------------------------------------------------------------------
(* Sums *)

\* The sum of f over S.
Total(f, S) == MapThenSumSet(LAMBDA u : f[u], S)

-----------------------------------------------------------------------------
(* Induction *)

\* A set of naturals with zero and the successor of each of its members has them all.
LEMMA SetOfNaturals ==
    ASSUME NEW T \in SUBSET Nat, 0 \in T, \A n \in T : n + 1 \in T
    PROVE  T = Nat
<1> SUFFICES ASSUME Nat \ T # {} PROVE FALSE
    OBVIOUS
<1> DEFINE R == {p \in Nat \X Nat : p[1] < p[2]}
           U == Nat \ T
<1>1. IsWellFoundedOn(R, Nat)
  <2>1. OpToRel(<, Nat) = R
    BY DEF OpToRel
  <2> QED BY <2>1, NatLessThanWellFounded
<1>2. \E n \in U : \A m \in U : ~(<<m, n>> \in R)
  <2>1. U \subseteq Nat /\ U # {}
    OBVIOUS
  <2> HIDE DEF R, U
  <2> QED BY <1>1, <2>1, WFMin
<1>3. PICK n \in U : \A m \in U : ~(<<m, n>> \in R)
    BY <1>2
<1>4. n # 0 /\ n - 1 \in Nat /\ n - 1 < n /\ n = (n - 1) + 1
    BY <1>3
<1>5. n - 1 \in T
    BY <1>3, <1>4
<1> QED BY <1>3, <1>4, <1>5

\* A family of subsets of a finite set has them all if it has each subset whose
\* proper parts, by one element, it has.
LEMMA SubsetsByRemoval ==
    ASSUME NEW S, IsFiniteSet(S), NEW C,
           \A s \in SUBSET S : (\A x \in s : s \ {x} \in C) => s \in C
    PROVE  SUBSET S \subseteq C
<1> DEFINE T == {n \in Nat : \A s \in SUBSET S : Cardinality(s) = n => s \in C}
<1>1. ASSUME NEW s \in SUBSET S
      PROVE  /\ IsFiniteSet(s) /\ Cardinality(s) \in Nat
             /\ (Cardinality(s) = 0 <=> s = {})
             /\ \A x \in s : Cardinality(s \ {x}) = Cardinality(s) - 1
  <2>1. IsFiniteSet(s)
    BY FS_Subset
  <2> QED BY <2>1, FS_CardinalityType, FS_EmptySet, FS_RemoveElement
<1>2. 0 \in T
  <2>1. {} \in C
    OBVIOUS
  <2> QED BY <1>1, <2>1
<1>3. ASSUME NEW n \in T PROVE n + 1 \in T
  <2> SUFFICES ASSUME NEW s \in SUBSET S, Cardinality(s) = n + 1 PROVE s \in C
    OBVIOUS
  <2>1. ASSUME NEW x \in s PROVE s \ {x} \in C
    <3>1. s \ {x} \in SUBSET S /\ Cardinality(s \ {x}) = n
      BY <1>1
    <3> QED BY <3>1
  <2> QED BY <2>1
<1>4. T = Nat
  <2> HIDE DEF T
  <2>1. T \in SUBSET Nat
    BY DEF T
  <2> QED BY <1>2, <1>3, <2>1, SetOfNaturals
<1> QED BY <1>1, <1>4

\* A family of subsets of a finite set that has the empty one, and each of its
\* members with one more element, has the whole set.
LEMMA SubsetsByAddition ==
    ASSUME NEW S, IsFiniteSet(S), NEW C, {} \in C,
           \A s \in SUBSET S : \A x \in S \ s : s \in C => s \cup {x} \in C
    PROVE  S \in C
<1>1. ASSUME NEW s \in SUBSET S, \A x \in s : s \ {x} \in C PROVE s \in C
  <2>1. CASE s = {}
    BY <2>1
  <2>2. CASE s # {}
    <3>1. PICK x \in s : TRUE
      BY <2>2
    <3>2. s \ {x} \in SUBSET S /\ x \in S \ (s \ {x}) /\ (s \ {x}) \cup {x} = s
      BY <3>1
    <3> QED BY <1>1, <3>2
  <2> QED BY <2>1, <2>2
<1> QED BY <1>1, SubsetsByRemoval

-----------------------------------------------------------------------------
(* The recursion behind MapThenSumSet *)

anyOf(s) == CHOOSE x \in s : TRUE

\* One step of the recursion of MapThenFoldSet, at s.
summed(g, f, s) == IF s = {} THEN 0 ELSE f[anyOf(s)] + g[s \ {anyOf(s)}]

\* g sums f over the subsets of S.
Sums(g, f, S) == g = [s \in SUBSET S |-> summed(g, f, s)]

\* ... over those of at most n elements.
SumsUpTo(g, f, S, n) ==
    \A s \in SUBSET S : Cardinality(s) <= n => g[s] = summed(g, f, s)

\* Over a finite set the recursion has a solution.
LEMMA SumExists ==
    ASSUME NEW f, NEW S, IsFiniteSet(S)
    PROVE  \E g : Sums(g, f, S)
<1> DEFINE T == {n \in Nat : \E g : SumsUpTo(g, f, S, n)}
<1>1. ASSUME NEW s \in SUBSET S
      PROVE  /\ IsFiniteSet(s) /\ Cardinality(s) \in Nat
             /\ (Cardinality(s) = 0 <=> s = {})
             /\ Cardinality(s) <= Cardinality(S)
             /\ s # {} => anyOf(s) \in s /\ Cardinality(s \ {anyOf(s)}) = Cardinality(s) - 1
  <2>1. IsFiniteSet(s) /\ Cardinality(s) <= Cardinality(S)
    BY FS_Subset
  <2>2. s # {} => anyOf(s) \in s
    BY DEF anyOf
  <2> QED BY <2>1, <2>2, FS_CardinalityType, FS_EmptySet, FS_RemoveElement
<1>2. 0 \in T
  <2> DEFINE g == [s \in SUBSET S |-> 0]
  <2>1. ASSUME NEW s \in SUBSET S, Cardinality(s) <= 0 PROVE g[s] = summed(g, f, s)
    <3>1. Cardinality(s) \in Nat /\ (Cardinality(s) = 0 <=> s = {})
      BY <1>1
    <3>2. s = {}
      BY <2>1, <3>1
    <3> QED BY <3>2 DEF summed
  <2>2. SumsUpTo(g, f, S, 0)
    BY <2>1 DEF SumsUpTo
  <2> HIDE DEF g
  <2> QED BY <2>2
<1>3. ASSUME NEW n \in T PROVE n + 1 \in T
  <2>1. PICK g : SumsUpTo(g, f, S, n)
    OBVIOUS
  <2> DEFINE h == [s \in SUBSET S |-> summed(g, f, s)]
  <2>2. ASSUME NEW s \in SUBSET S, Cardinality(s) <= n + 1 PROVE h[s] = summed(h, f, s)
    <3>1. CASE s = {}
      BY <3>1 DEF summed
    <3>2. CASE s # {}
      <4> DEFINE rest == s \ {anyOf(s)}
      <4>1. rest \in SUBSET S /\ Cardinality(rest) <= n
        BY <1>1, <2>2, <3>2
      <4>2. h[rest] = g[rest]
        BY <2>1, <4>1 DEF SumsUpTo
      <4> QED BY <3>2, <4>2 DEF summed
    <3> QED BY <3>1, <3>2
  <2>3. SumsUpTo(h, f, S, n + 1)
    BY <2>2 DEF SumsUpTo
  <2> HIDE DEF h
  <2> QED BY <2>3
<1>4. Cardinality(S) \in T
  <2>1. T \in SUBSET Nat
    OBVIOUS
  <2> HIDE DEF T
  <2>2. T = Nat
    BY <1>2, <1>3, <2>1, SetOfNaturals
  <2> QED BY <2>2, FS_CardinalityType
<1>5. PICK g : SumsUpTo(g, f, S, Cardinality(S))
    BY <1>4
<1> DEFINE h == [s \in SUBSET S |-> g[s]]
<1>6. ASSUME NEW s \in SUBSET S PROVE summed(h, f, s) = g[s]
  <2>1. g[s] = summed(g, f, s)
    BY <1>1, <1>5 DEF SumsUpTo
  <2>2. CASE s # {}
    <3>1. s \ {anyOf(s)} \in SUBSET S
      BY <2>2
    <3> QED BY <2>1, <3>1 DEF summed
  <2> QED BY <2>1, <2>2 DEF summed
<1>7. Sums(h, f, S)
  <2>1. [s \in SUBSET S |-> summed(h, f, s)] = [s \in SUBSET S |-> g[s]]
    BY <1>6
  <2> QED BY <2>1 DEF Sums
<1> QED BY <1>7

\* Two solutions agree wherever both are defined.
LEMMA SumsAgree ==
    ASSUME NEW f, NEW S, NEW R \in SUBSET S, IsFiniteSet(S), NEW g, NEW h,
           Sums(g, f, S), Sums(h, f, R)
    PROVE  g[R] = h[R]
<1> DEFINE C == {s \in SUBSET R : g[s] = h[s]}
<1>1. IsFiniteSet(R)
    BY FS_Subset
<1>2. ASSUME NEW s \in SUBSET R, \A x \in s : s \ {x} \in C PROVE s \in C
  <2>1. g[s] = summed(g, f, s) /\ h[s] = summed(h, f, s)
    <3>1. s \in SUBSET S
      OBVIOUS
    <3> QED BY <3>1 DEF Sums
  <2>2. CASE s = {}
    BY <2>1, <2>2 DEF summed
  <2>3. CASE s # {}
    <3>1. anyOf(s) \in s
      BY <2>3 DEF anyOf
    <3>2. g[s \ {anyOf(s)}] = h[s \ {anyOf(s)}]
      BY <1>2, <3>1
    <3> QED BY <2>1, <2>3, <3>2 DEF summed
  <2> QED BY <2>2, <2>3
<1>3. SUBSET R \subseteq C
  <2> HIDE DEF C
  <2> QED BY <1>1, <1>2, SubsetsByRemoval
<1> QED BY <1>3

\* The sum is the value of any solution.
LEMMA TotalIsTheSum ==
    ASSUME NEW f, NEW S, IsFiniteSet(S), NEW h, Sums(h, f, S)
    PROVE  Total(f, S) = h[S]
<1> DEFINE iter == CHOOSE g : Sums(g, f, S)
<1>1. Sums(iter, f, S)
    OBVIOUS
<1>2. Total(f, S) = iter[S]
    BY DEF Total, MapThenSumSet, MapThenFoldSet, Sums, summed, anyOf
<1> HIDE DEF iter
<1> QED BY <1>1, <1>2, SumsAgree

\* The sum takes one element at a time, the one MapThenSumSet chooses.
LEMMA TotalUnfolds ==
    ASSUME NEW f, NEW S, IsFiniteSet(S)
    PROVE  /\ S = {} => Total(f, S) = 0
           /\ S # {} => Total(f, S) = f[anyOf(S)] + Total(f, S \ {anyOf(S)})
<1> DEFINE R == S \ {anyOf(S)}
<1>1. IsFiniteSet(R) /\ R \in SUBSET S
    BY FS_Subset
<1>2. PICK g : Sums(g, f, S)
    BY SumExists
<1>3. PICK h : Sums(h, f, R)
    BY <1>1, SumExists
<1>4. Total(f, S) = g[S] /\ Total(f, R) = h[R] /\ g[R] = h[R]
    BY <1>1, <1>2, <1>3, TotalIsTheSum, SumsAgree
<1>5. g[S] = summed(g, f, S)
    BY <1>2 DEF Sums
<1> QED BY <1>4, <1>5 DEF summed

-----------------------------------------------------------------------------
(* Facts about sums *)

\* Every part of a finite set is finite.
LEMMA PartsAreFinite ==
    ASSUME NEW S, IsFiniteSet(S), NEW R \in SUBSET S
    PROVE  IsFiniteSet(R)
BY FS_Subset

\* A sum of integers is an integer, and a sum of naturals a natural.
LEMMA TotalType ==
    ASSUME NEW S, IsFiniteSet(S), NEW N \in {Nat, Int}, NEW f, \A x \in S : f[x] \in N
    PROVE  \A s \in SUBSET S : Total(f, s) \in N
<1> DEFINE C == {s \in SUBSET S : Total(f, s) \in N}
<1>1. ASSUME NEW s \in SUBSET S, \A x \in s : s \ {x} \in C PROVE s \in C
  <2>1. IsFiniteSet(s)
    BY PartsAreFinite
  <2>2. CASE s = {}
    <3>1. Total(f, s) = 0
      BY <2>1, <2>2, TotalUnfolds
    <3>2. 0 \in N
      OBVIOUS
    <3> QED BY <3>1, <3>2
  <2>3. CASE s # {}
    <3>1. anyOf(s) \in s
      BY <2>3 DEF anyOf
    <3>2. Total(f, s) = f[anyOf(s)] + Total(f, s \ {anyOf(s)})
      BY <2>1, <2>3, TotalUnfolds
    <3>3. f[anyOf(s)] \in N /\ Total(f, s \ {anyOf(s)}) \in N
      BY <1>1, <3>1
    <3>4. \A i, j \in N : i + j \in N
      OBVIOUS
    <3> QED BY <3>2, <3>3, <3>4
  <2> QED BY <2>2, <2>3
<1>2. SUBSET S \subseteq C
  <2> HIDE DEF C
  <2> QED BY <1>1, SubsetsByRemoval
<1> QED BY <1>2

\* The elements may be summed in any order.
LEMMA TotalRemove ==
    ASSUME NEW S, IsFiniteSet(S), NEW f, \A x \in S : f[x] \in Int
    PROVE  \A s \in SUBSET S : \A x \in s : Total(f, s) = f[x] + Total(f, s \ {x})
<1> DEFINE C == {s \in SUBSET S : \A x \in s : Total(f, s) = f[x] + Total(f, s \ {x})}
<1>1. \A s \in SUBSET S : Total(f, s) \in Int
    BY TotalType
<1>2. ASSUME NEW s \in SUBSET S, \A x \in s : s \ {x} \in C PROVE s \in C
  <2> SUFFICES ASSUME NEW x \in s PROVE Total(f, s) = f[x] + Total(f, s \ {x})
    OBVIOUS
  <2> DEFINE a == anyOf(s)
             rest == s \ {a, x}
  <2>1. a \in s
    BY DEF anyOf
  <2>2. IsFiniteSet(s)
    BY PartsAreFinite
  <2>3. Total(f, s) = f[a] + Total(f, s \ {a})
    BY <2>2, TotalUnfolds
  <2> HIDE DEF a
  <2>4. CASE x = a
    BY <2>3, <2>4
  <2>5. CASE x # a
    <3>1. x \in s \ {a} /\ a \in s \ {x} /\ f[x] \in Int /\ f[a] \in Int
      BY <2>1, <2>5
    <3>2. (s \ {a}) \ {x} = rest /\ (s \ {x}) \ {a} = rest
      OBVIOUS
    <3>3. Total(f, s \ {a}) = f[x] + Total(f, rest)
      BY <1>2, <2>1, <3>1, <3>2
    <3>4. Total(f, s \ {x}) = f[a] + Total(f, rest)
      BY <1>2, <3>1, <3>2
    <3>5. Total(f, rest) \in Int
      BY <1>1
    <3> QED BY <2>3, <3>1, <3>3, <3>4, <3>5
  <2> QED BY <2>4, <2>5
<1>3. SUBSET S \subseteq C
  <2> HIDE DEF C
  <2> QED BY <1>2, SubsetsByRemoval
<1> QED BY <1>3

\* An element adds what it is mapped to.
LEMMA TotalAdd ==
    ASSUME NEW S, IsFiniteSet(S), NEW f, \A x \in S : f[x] \in Int
    PROVE  /\ Total(f, {}) = 0
           /\ \A s \in SUBSET S : \A x \in S \ s : Total(f, s \cup {x}) = Total(f, s) + f[x]
<1>1. Total(f, {}) = 0
    BY FS_EmptySet, TotalUnfolds
<1>2. ASSUME NEW s \in SUBSET S, NEW x \in S \ s PROVE Total(f, s \cup {x}) = Total(f, s) + f[x]
  <2>1. s \cup {x} \in SUBSET S /\ x \in s \cup {x} /\ (s \cup {x}) \ {x} = s
    OBVIOUS
  <2>2. Total(f, s \cup {x}) = f[x] + Total(f, s)
    BY <2>1, TotalRemove
  <2>3. Total(f, s) \in Int /\ f[x] \in Int
    BY TotalType
  <2> QED BY <2>2, <2>3
<1> QED BY <1>1, <1>2

\* No natural is more than a sum of naturals that it takes part in.
LEMMA TotalAtLeast ==
    ASSUME NEW S, IsFiniteSet(S), NEW f, \A x \in S : f[x] \in Nat, NEW x \in S
    PROVE  f[x] <= Total(f, S)
<1>1. Total(f, S) = f[x] + Total(f, S \ {x})
    BY TotalRemove
<1>2. Total(f, S \ {x}) \in Nat
    BY TotalType
<1> QED BY <1>1, <1>2

\* Sums compare as their terms do.
LEMMA TotalMonotone ==
    ASSUME NEW S, IsFiniteSet(S), NEW f, \A x \in S : f[x] \in Int,
           NEW g, \A x \in S : g[x] \in Int, \A x \in S : f[x] <= g[x]
    PROVE  Total(f, S) <= Total(g, S)
<1> DEFINE C == {s \in SUBSET S : Total(f, s) <= Total(g, s)}
<1>1. {} \in C
    BY TotalAdd
<1>2. ASSUME NEW s \in SUBSET S, NEW x \in S \ s, s \in C PROVE s \cup {x} \in C
  <2>1. Total(f, s \cup {x}) = Total(f, s) + f[x] /\ Total(g, s \cup {x}) = Total(g, s) + g[x]
    BY TotalAdd
  <2>2. Total(f, s) \in Int /\ Total(g, s) \in Int /\ Total(f, s) <= Total(g, s)
    BY <1>2, TotalType
  <2> QED BY <2>1, <2>2
<1>3. S \in C
  <2> HIDE DEF C
  <2> QED BY <1>1, <1>2, SubsetsByAddition
<1> QED BY <1>3

\* A sum depends on the values of its terms alone.
LEMMA TotalSame ==
    ASSUME NEW S, IsFiniteSet(S), NEW f, \A x \in S : f[x] \in Int,
           NEW g, \A x \in S : g[x] = f[x]
    PROVE  Total(g, S) = Total(f, S)
<1>1. \A x \in S : g[x] \in Int /\ f[x] <= g[x] /\ g[x] <= f[x]
    OBVIOUS
<1>2. Total(f, S) <= Total(g, S) /\ Total(g, S) <= Total(f, S)
    BY <1>1, TotalMonotone
<1>3. Total(f, S) \in Int /\ Total(g, S) \in Int
    BY <1>1, TotalType
<1> QED BY <1>2, <1>3

\* When one term changes, the sum changes by the difference.
LEMMA TotalChange ==
    ASSUME NEW S, IsFiniteSet(S), NEW f, \A x \in S : f[x] \in Int,
           NEW g, \A x \in S : g[x] \in Int, NEW x \in S, \A y \in S \ {x} : g[y] = f[y]
    PROVE  Total(g, S) = Total(f, S) + g[x] - f[x]
<1>1. Total(f, S) = f[x] + Total(f, S \ {x}) /\ Total(g, S) = g[x] + Total(g, S \ {x})
    BY TotalRemove
<1>2. IsFiniteSet(S \ {x})
    BY PartsAreFinite
<1>3. Total(g, S \ {x}) = Total(f, S \ {x})
    BY <1>2, TotalSame
<1>4. Total(f, S \ {x}) \in Int
    BY TotalType
<1> QED BY <1>1, <1>3, <1>4

\* The sum of sums, term by term.
LEMMA TotalOfSums ==
    ASSUME NEW S, IsFiniteSet(S), NEW f, \A x \in S : f[x] \in Int,
           NEW g, \A x \in S : g[x] \in Int, NEW h, \A x \in S : h[x] = f[x] + g[x]
    PROVE  Total(h, S) = Total(f, S) + Total(g, S)
<1> DEFINE C == {s \in SUBSET S : Total(h, s) = Total(f, s) + Total(g, s)}
<1>0. \A x \in S : h[x] \in Int
    OBVIOUS
<1>1. {} \in C
    BY <1>0, TotalAdd
<1>2. ASSUME NEW s \in SUBSET S, NEW x \in S \ s, s \in C PROVE s \cup {x} \in C
  <2>1. /\ Total(f, s \cup {x}) = Total(f, s) + f[x] /\ Total(g, s \cup {x}) = Total(g, s) + g[x]
        /\ Total(h, s \cup {x}) = Total(h, s) + h[x]
    BY <1>0, TotalAdd
  <2>2. Total(f, s) \in Int /\ Total(g, s) \in Int /\ Total(h, s) = Total(f, s) + Total(g, s)
    BY <1>2, TotalType
  <2>3. f[x] \in Int /\ g[x] \in Int /\ h[x] = f[x] + g[x]
    OBVIOUS
  <2> QED BY <2>1, <2>2, <2>3
<1>3. S \in C
  <2> HIDE DEF C
  <2> QED BY <1>1, <1>2, SubsetsByAddition
<1> QED BY <1>3

\* The sum of a constant is a multiple of it.
LEMMA TotalOfConstant ==
    ASSUME NEW S, IsFiniteSet(S), NEW c \in Int, NEW f, \A x \in S : f[x] = c
    PROVE  Total(f, S) = c * Cardinality(S)
<1> DEFINE C == {s \in SUBSET S : Total(f, s) = c * Cardinality(s)}
<1>0. \A x \in S : f[x] \in Int
    OBVIOUS
<1>1. {} \in C
  <2>1. Total(f, {}) = 0 /\ Cardinality({}) = 0
    BY <1>0, TotalAdd, FS_EmptySet
  <2> QED BY <2>1
<1>2. ASSUME NEW s \in SUBSET S, NEW x \in S \ s, s \in C PROVE s \cup {x} \in C
  <2>1. Total(f, s \cup {x}) = Total(f, s) + c
    BY <1>0, TotalAdd
  <2>2. IsFiniteSet(s)
    BY PartsAreFinite
  <2>3. Cardinality(s) \in Nat /\ Cardinality(s \cup {x}) = Cardinality(s) + 1
    BY <2>2, FS_CardinalityType, FS_AddElement
  <2>4. Total(f, s) = c * Cardinality(s)
    BY <1>2
  <2>5. \A n \in Nat : c * n + c = c * (n + 1)
    OBVIOUS
  <2> QED BY <2>1, <2>3, <2>4, <2>5
<1>3. S \in C
  <2> HIDE DEF C
  <2> QED BY <1>1, <1>2, SubsetsByAddition
<1> QED BY <1>3

\* A common factor may be taken out of a sum.
LEMMA TotalOfMultiples ==
    ASSUME NEW S, IsFiniteSet(S), NEW c \in Int, NEW f, \A x \in S : f[x] \in Int,
           NEW g, \A x \in S : g[x] = c * f[x]
    PROVE  Total(g, S) = c * Total(f, S)
<1> DEFINE C == {s \in SUBSET S : Total(g, s) = c * Total(f, s)}
<1>0. \A x \in S : g[x] \in Int
  <2>1. \A i \in Int : c * i \in Int
    OBVIOUS
  <2> QED BY <2>1
<1>1. {} \in C
  <2>1. Total(f, {}) = 0 /\ Total(g, {}) = 0
    BY <1>0, TotalAdd
  <2> QED BY <2>1
<1>2. ASSUME NEW s \in SUBSET S, NEW x \in S \ s, s \in C PROVE s \cup {x} \in C
  <2>1. Total(g, s \cup {x}) = Total(g, s) + g[x] /\ Total(f, s \cup {x}) = Total(f, s) + f[x]
    BY <1>0, TotalAdd
  <2>2. Total(f, s) \in Int /\ f[x] \in Int /\ g[x] = c * f[x] /\ Total(g, s) = c * Total(f, s)
    BY <1>2, TotalType
  <2>3. \A i, j \in Int : c * i + c * j = c * (i + j)
    OBVIOUS
  <2> QED BY <2>1, <2>2, <2>3
<1>3. S \in C
  <2> HIDE DEF C
  <2> QED BY <1>1, <1>2, SubsetsByAddition
<1> QED BY <1>3

\* A part is summed by leaving out the rest.
LEMMA TotalOfSome ==
    ASSUME NEW S, IsFiniteSet(S), NEW R \in SUBSET S, NEW f, \A x \in R : f[x] \in Int,
           NEW g, \A x \in S : g[x] = IF x \in R THEN f[x] ELSE 0
    PROVE  Total(g, S) = Total(f, R)
<1> DEFINE C == {s \in SUBSET S : Total(g, s) = Total(f, s \cap R)}
<1>0. /\ \A x \in S : g[x] \in Int
      /\ IsFiniteSet(R)
    BY PartsAreFinite
<1>1. {} \in C
  <2>1. {} \cap R = {} /\ Total(f, {}) = 0
    BY <1>0, TotalAdd
  <2> QED BY <1>0, <2>1, TotalAdd
<1>2. ASSUME NEW s \in SUBSET S, NEW x \in S \ s, s \in C PROVE s \cup {x} \in C
  <2>1. Total(g, s \cup {x}) = Total(g, s) + g[x] /\ Total(g, s) \in Int
    BY <1>0, TotalAdd, TotalType
  <2>2. Total(g, s) = Total(f, s \cap R)
    BY <1>2
  <2>3. CASE x \in R
    <3>1. (s \cup {x}) \cap R = (s \cap R) \cup {x} /\ s \cap R \in SUBSET R
          /\ x \in R \ (s \cap R)
      BY <2>3
    <3>2. Total(f, (s \cap R) \cup {x}) = Total(f, s \cap R) + f[x]
      BY <1>0, <3>1, TotalAdd
    <3>3. Total(f, (s \cup {x}) \cap R) = Total(f, s \cap R) + f[x]
      BY <3>1, <3>2
    <3> QED BY <2>1, <2>2, <2>3, <3>3
  <2>4. CASE x \notin R
    <3>1. (s \cup {x}) \cap R = s \cap R /\ g[x] = 0
      BY <2>4
    <3>2. Total(f, (s \cup {x}) \cap R) = Total(f, s \cap R)
      BY <3>1
    <3> QED BY <2>1, <2>2, <3>1, <3>2
  <2> QED BY <2>3, <2>4
<1>3. S \in C
  <2> HIDE DEF C
  <2> QED BY <1>1, <1>2, SubsetsByAddition
<1>4. S \cap R = R
    OBVIOUS
<1> QED BY <1>3, <1>4

\* A table may be summed by rows or by columns.
LEMMA TotalOfTable ==
    ASSUME NEW A, IsFiniteSet(A), NEW B, IsFiniteSet(B),
           NEW F, \A x \in A, y \in B : F[x][y] \in Int
    PROVE  Total([x \in A |-> Total(F[x], B)], A)
             = Total([y \in B |-> Total([x \in A |-> F[x][y]], A)], B)
<1> DEFINE row(s) == [x \in A |-> Total(F[x], s)]
           col(y) == [x \in A |-> F[x][y]]
           cols   == [y \in B |-> Total(col(y), A)]
           C == {s \in SUBSET B : Total(row(s), A) = Total(cols, s)}
<1>1. \A x \in A : \A s \in SUBSET B : Total(F[x], s) \in Int
    BY TotalType
<1>2. \A y \in B : Total(col(y), A) \in Int
  <2> TAKE y \in B
  <2>1. \A x \in A : col(y)[x] \in Int
    OBVIOUS
  <2> HIDE DEF col
  <2> QED BY <2>1, TotalType
<1>3. {} \in C
  <2>1. \A x \in A : row({})[x] = 0
    BY TotalAdd
  <2>2. Total(row({}), A) = 0 * Cardinality(A)
    <3> HIDE DEF row
    <3> QED BY <2>1, TotalOfConstant
  <2>3. Total(cols, {}) = 0
    BY FS_EmptySet, TotalUnfolds
  <2> QED BY <2>2, <2>3, FS_CardinalityType
<1>4. ASSUME NEW s \in SUBSET B, NEW y \in B \ s, s \in C PROVE s \cup {y} \in C
  <2>1. \A x \in A : row(s)[x] \in Int /\ col(y)[x] \in Int
    BY <1>1
  <2>2. \A x \in A : row(s \cup {y})[x] = row(s)[x] + col(y)[x]
    <3> TAKE x \in A
    <3>1. \A z \in B : F[x][z] \in Int
      OBVIOUS
    <3>2. Total(F[x], s \cup {y}) = Total(F[x], s) + F[x][y]
      BY <3>1, TotalAdd
    <3> QED BY <3>2
  <2>3. Total(row(s \cup {y}), A) = Total(row(s), A) + Total(col(y), A)
    <3> HIDE DEF row, col
    <3> QED BY <2>1, <2>2, TotalOfSums
  <2>4. Total(cols, s \cup {y}) = Total(cols, s) + Total(col(y), A)
    <3>1. \A z \in B : cols[z] = Total(col(z), A)
      OBVIOUS
    <3> HIDE DEF cols
    <3>2. \A z \in B : cols[z] \in Int
      BY <1>2, <3>1
    <3> QED BY <3>1, <3>2, TotalAdd
  <2>5. Total(row(s), A) = Total(cols, s)
    BY <1>4
  <2> HIDE DEF row, col, cols
  <2> QED BY <2>3, <2>4, <2>5
<1>5. B \in C
  <2> HIDE DEF C
  <2> QED BY <1>3, <1>4, SubsetsByAddition
<1> QED BY <1>5
=============================================================================
