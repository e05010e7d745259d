----------------------------- MODULE CurveProofs -----------------------------
(***************************************************************************)
(* The arithmetic and the curve that MCArithmetic walks on one instance,   *)
(* for every scale, every strategy that can be deployed and every split of *)
(* the debts.  What rounding costs is counted exactly: the statements hold *)
(* to the unit and are those of the run.                                   *)
(***************************************************************************)
EXTENDS MCArithmetic, ReserveProofs

\* The facts of ArithmeticProofs at the scale of the run's powers.
CoarseFacts == INSTANCE ArithmeticProofs WITH WAD <- CoarseWAD, WAD_RAY_RATIO <- CoarseRatio

-----------------------------------------------------------------------------
(* The states of the run *)

InputOK ==
    /\ amount \in Nat /\ index \in Nat /\ index >= Coarse!RAY
    /\ rate \in Nat /\ delay \in Nat
    /\ liquidity \in Nat /\ stableDebt \in Nat /\ variableDebt \in Nat

\* The coarse scale is a scale.
LEMMA CoarseScale ==
    /\ Coarse!RAY \in Nat \ {0} /\ CoarseFacts!RAY = Coarse!RAY
    /\ CoarseWAD \in Nat \ {0} /\ CoarseRatio \in Nat \ {0} /\ CoarseFacts!RAY % 2 = 0
BY InstanceAssumption DEF Coarse!RAY, CoarseFacts!RAY

LEMMA InputsHold == Spec => []InputOK
<1>1. Init => InputOK
    BY CoarseScale DEF Init, noRounding, noGrowth, noLending, InputOK
<1>2. InputOK /\ [Next]_vars => InputOK'
  <2> SUFFICES ASSUME InputOK, [Next]_vars PROVE InputOK'
    OBVIOUS
  <2>1. CASE Round
    BY <2>1, CoarseScale DEF Round, InputOK, growth, lending
  <2>2. CASE Grow
    BY <2>2 DEF Grow, InputOK, rounding, lending
  <2>3. CASE Deposit
    BY <2>3, InstanceAssumption DEF Deposit, InputOK, rounding, growth
  <2>4. CASE Lend
    BY <2>4, InstanceAssumption DEF Lend, InputOK, rounding, growth
  <2>5. CASE UNCHANGED vars
    BY <2>5 DEF vars, InputOK, rounding, growth, lending
  <2> QED BY <2>1, <2>2, <2>3, <2>4, <2>5 DEF Next
<1> QED BY <1>1, <1>2, PTL DEF Spec

\* Whoever burns all he owns, or repays all he owes, burns the scaled tokens he has,
\* to the unit: rayDiv of the tokens' burn undoes rayMul of their balanceOf.
THEOREM RoundTripNeverSlips == Spec => []RoundTripIsExact
<1>1. InputOK => RoundTripIsExact
  <2> SUFFICES ASSUME InputOK PROVE RoundTripIsExact
    OBVIOUS
  <2>1. CoarseFacts!rayDiv(CoarseFacts!rayMul(amount, index), index) = amount
    BY CoarseScale, ScaleAssumption, CoarseFacts!RoundTrip DEF InputOK
  <2> QED BY <2>1, CoarseScale
          DEF RoundTripIsExact, CoarseFacts!rayDiv, CoarseFacts!rayMul, Coarse!rayDiv, Coarse!rayMul
<1> QED BY <1>1, InputsHold, PTL

\* At the same rate and over the same time calculateCompoundedInterest charges the
\* borrowers no less than calculateLinearInterest promises the depositors, but for
\* what rate \div SECONDS_PER_YEAR drops, whatever the rate, the time and the scale.
THEOREM CompoundingCoversLinear == Spec => []CompoundedCoversLinear
<1>1. InputOK => CompoundedCoversLinear
  <2> SUFFICES ASSUME InputOK PROVE CompoundedCoversLinear
    OBVIOUS
  <2> DEFINE to == 1 + delay
  <2>1. 1 \in Nat /\ to \in Nat /\ 1 <= to /\ to - 1 = delay /\ rate \in Nat
    BY DEF InputOK
  <2> HIDE DEF to
  <2>2. CoarseFacts!calculateCompoundedInterest(rate, 1, to)
          + ((rate % SECONDS_PER_YEAR) * (to - 1)) \div SECONDS_PER_YEAR
        >= CoarseFacts!calculateLinearInterest(rate, 1, to)
    BY <2>1, CoarseScale, ScaleAssumption, CoarseFacts!CompoundedAtLeastLinear
  <2>3. /\ CoarseFacts!calculateCompoundedInterest(rate, 1, to) = Coarse!calculateCompoundedInterest(rate, 1, to)
        /\ CoarseFacts!calculateLinearInterest(rate, 1, to) = Coarse!calculateLinearInterest(rate, 1, to)
    BY CoarseScale
       DEF CoarseFacts!calculateCompoundedInterest, Coarse!calculateCompoundedInterest,
           CoarseFacts!calculateLinearInterest, Coarse!calculateLinearInterest,
           CoarseFacts!rayMul, Coarse!rayMul
  <2> QED BY <2>1, <2>2, <2>3 DEF CompoundedCoversLinear, approximation, to
<1> QED BY <1>1, InputsHold, PTL

-----------------------------------------------------------------------------
(* Exact growth *)

\* f is the first powers of base.
PowersUpTo(f, base, n) ==
    /\ f \in [0 .. n -> Nat]
    /\ \A k \in 0 .. n : f[k] = IF k = 0 THEN 1 ELSE base * f[k - 1]

\* There are first powers, any number of them ...
LEMMA PowersExist ==
    ASSUME NEW base \in Nat
    PROVE  \A n \in Nat : \E f : PowersUpTo(f, base, n)
<1> DEFINE T == {n \in Nat : \E f : PowersUpTo(f, base, n)}
<1>1. 0 \in T
  <2>1. PowersUpTo([k \in 0 .. 0 |-> 1], base, 0)
    BY DEF PowersUpTo
  <2> QED BY <2>1
<1>2. ASSUME NEW n \in T PROVE n + 1 \in T
  <2>1. PICK f : PowersUpTo(f, base, n)
    OBVIOUS
  <2> DEFINE g == [k \in 0 .. n + 1 |-> IF k = n + 1 THEN base * f[n] ELSE f[k]]
  <2>2. f[n] \in Nat /\ base * f[n] \in Nat
    BY <2>1 DEF PowersUpTo
  <2>3. g \in [0 .. n + 1 -> Nat]
    BY <2>1, <2>2 DEF PowersUpTo
  <2>4. ASSUME NEW k \in 0 .. n + 1 PROVE g[k] = IF k = 0 THEN 1 ELSE base * g[k - 1]
    <3>1. CASE k = n + 1
      BY <3>1
    <3>2. CASE k # n + 1
      <4>1. k \in 0 .. n /\ g[k] = f[k] /\ (k # 0 => g[k - 1] = f[k - 1])
        BY <3>2
      <4>2. f[k] = IF k = 0 THEN 1 ELSE base * f[k - 1]
        BY <2>1, <4>1 DEF PowersUpTo
      <4> QED BY <4>1, <4>2
    <3> QED BY <3>1, <3>2
  <2>5. PowersUpTo(g, base, n + 1)
    BY <2>3, <2>4 DEF PowersUpTo
  <2> QED BY <2>5
<1>3. T = Nat
  <2>1. T \in SUBSET Nat
    OBVIOUS
  <2> HIDE DEF T
  <2> QED BY <1>1, <1>2, <2>1, SetOfNaturals
<1> QED BY <1>3

\* ... and they do not depend on the number.
LEMMA PowersAgree ==
    ASSUME NEW base \in Nat, NEW m \in Nat, NEW n \in Nat, m <= n, NEW f, NEW g,
           PowersUpTo(f, base, m), PowersUpTo(g, base, n)
    PROVE  f[m] = g[m]
<1> DEFINE T == {k \in Nat : k <= m => f[k] = g[k]}
<1>1. /\ \A k \in 0 .. m : f[k] = IF k = 0 THEN 1 ELSE base * f[k - 1]
      /\ \A k \in 0 .. n : g[k] = IF k = 0 THEN 1 ELSE base * g[k - 1]
    BY DEF PowersUpTo
<1>2. 0 \in T
    BY <1>1
<1>3. ASSUME NEW k \in T PROVE k + 1 \in T
  <2> SUFFICES ASSUME k + 1 <= m PROVE f[k + 1] = g[k + 1]
    OBVIOUS
  <2>1. f[k] = g[k]
    OBVIOUS
  <2>2. k + 1 \in 0 .. m /\ k + 1 \in 0 .. n /\ k + 1 # 0 /\ (k + 1) - 1 = k
    OBVIOUS
  <2>3. f[k + 1] = base * f[k] /\ g[k + 1] = base * g[k]
    BY <1>1, <2>2
  <2> QED BY <2>1, <2>3
<1>4. T = Nat
  <2>1. T \in SUBSET Nat
    OBVIOUS
  <2> HIDE DEF T
  <2> QED BY <1>2, <1>3, <2>1, SetOfNaturals
<1> QED BY <1>4

\* A power is the base times the one before.
LEMMA PowerUnfolds ==
    ASSUME NEW base \in Nat
    PROVE  /\ power(base, 0) = 1
           /\ \A n \in Nat : power(base, n) \in Nat /\ power(base, n + 1) = base * power(base, n)
<1> DEFINE Rec(f) == f = [k \in Nat |-> IF k = 0 THEN 1 ELSE base * f[k - 1]]
           first(n) == CHOOSE f : PowersUpTo(f, base, n)
           h == [n \in Nat |-> first(n)[n]]
           p == CHOOSE f : Rec(f)
<1>1. \A n \in Nat : PowersUpTo(first(n), base, n)
    BY PowersExist
<1>2. \A n \in Nat : \A k \in 0 .. n : first(n)[k] = h[k]
  <2> SUFFICES ASSUME NEW n \in Nat, NEW k \in 0 .. n PROVE first(n)[k] = first(k)[k]
    OBVIOUS
  <2>1. PowersUpTo(first(n), base, n) /\ PowersUpTo(first(k), base, k)
    BY <1>1
  <2> HIDE DEF first
  <2>2. k \in Nat /\ k <= n
    OBVIOUS
  <2> QED BY <2>1, <2>2, PowersAgree
<1>3. \A n \in Nat : h[n] \in Nat /\ h[n] = IF n = 0 THEN 1 ELSE base * h[n - 1]
  <2> TAKE n \in Nat
  <2>1. PowersUpTo(first(n), base, n)
    BY <1>1
  <2>2. n \in 0 .. n /\ (n # 0 => n - 1 \in 0 .. n)
    OBVIOUS
  <2>3. first(n)[n] = h[n] /\ (n # 0 => first(n)[n - 1] = h[n - 1])
    BY <1>2, <2>2
  <2> HIDE DEF first, h
  <2> QED BY <2>1, <2>2, <2>3 DEF PowersUpTo
<1>4. h = [n \in Nat |-> h[n]]
    OBVIOUS
<1> HIDE DEF h
<1>5. Rec(h)
    BY <1>3, <1>4
<1>6. Rec(p)
    BY <1>5
<1>7. \A n : power(base, n) = p[n]
    BY DEF power
<1> HIDE DEF p
<1>8. p[0] = 1 /\ \A n \in Nat : p[n + 1] = base * p[n]
    BY <1>6
<1>9. \A n \in Nat : p[n] \in Nat
  <2> DEFINE T == {n \in Nat : p[n] \in Nat}
  <2>1. 0 \in T
    BY <1>8
  <2>2. ASSUME NEW n \in T PROVE n + 1 \in T
    BY <1>8
  <2>3. T = Nat
    <3>1. T \in SUBSET Nat
      OBVIOUS
    <3> HIDE DEF T
    <3> QED BY <2>1, <2>2, <3>1, SetOfNaturals
  <2> QED BY <2>3
<1> QED BY <1>7, <1>8, <1>9

\* Three terms of the binomial (R + x)^n, six times, in units of R^(n - 3).
threeTerms(R, x, n) ==
    6 * (R * R * R) + 6 * (n * x * (R * R)) + 3 * (n * (n - 1) * (x * x) * R)
      + n * (n - 1) * (n - 2) * (x * x * x)

\* Nothing can be chosen from too few.
LEMMA NoNegativeChoice ==
    ASSUME NEW n \in Nat
    PROVE  n * (n - 1) \in Nat /\ n * (n - 1) * (n - 2) \in Nat
<1>1. CASE n = 0
    BY <1>1
<1>2. CASE n = 1
    BY <1>2
<1>3. CASE n >= 2
  <2>1. n - 1 \in Nat /\ n - 2 \in Nat
    BY <1>3
  <2>2. n * (n - 1) \in Nat
    BY <2>1
  <2> QED BY <2>1, <2>2
<1> QED BY <1>1, <1>2, <1>3

\* One more factor adds the terms of the next power, and a fourth term.
LEMMA NextTerms ==
    ASSUME NEW R \in Nat, NEW x \in Nat, NEW n \in Nat
    PROVE  R * threeTerms(R, x, n + 1) <= (R + x) * threeTerms(R, x, n)
<1> DEFINE c == n * (n - 1) * (n - 2)
           f == x * x * x * x
<1>1. (R + x) * threeTerms(R, x, n) = R * threeTerms(R, x, n + 1) + c * f
    BY DEF threeTerms
<1>2. c \in Nat /\ f \in Nat
    BY NoNegativeChoice
<1>3. c * f \in Nat
  <2> HIDE DEF c, f
  <2> QED BY <1>2
<1>4. R * threeTerms(R, x, n + 1) \in Int
    BY DEF threeTerms
<1> HIDE DEF c, f
<1> QED BY <1>1, <1>3, <1>4

\* The terms are natural numbers.
LEMMA TermsInNat ==
    ASSUME NEW R \in Nat, NEW x \in Nat, NEW n \in Nat
    PROVE  threeTerms(R, x, n) \in Nat
<1> DEFINE a == R * R * R
           b == n * x * (R * R)
           c == n * (n - 1)
           d == c * (n - 2)
<1>1. a \in Nat /\ b \in Nat /\ c \in Nat /\ d \in Nat /\ x * x \in Nat /\ x * x * x \in Nat
    BY NoNegativeChoice
<1>2. threeTerms(R, x, n) = 6 * a + 6 * b + 3 * (c * (x * x) * R) + d * (x * x * x)
    BY DEF threeTerms
<1> HIDE DEF a, b, c, d
<1>3. c * (x * x) * R \in Nat /\ d * (x * x * x) \in Nat
    BY <1>1
<1> QED BY <1>1, <1>2, <1>3

\* The rest of the binomial is not negative.
LEMMA BinomialIsMore ==
    ASSUME NEW R \in Nat, NEW x \in Nat
    PROVE  \A n \in Nat : power(R, n) * threeTerms(R, x, n) <= 6 * (R * R * R) * power(R + x, n)
<1> DEFINE k == 6 * (R * R * R)
           T == {n \in Nat : power(R, n) * threeTerms(R, x, n) <= k * power(R + x, n)}
<1>0. k \in Nat /\ R + x \in Nat
    OBVIOUS
<1>1. 0 \in T
  <2>1. threeTerms(R, x, 0) = k
    BY DEF threeTerms
  <2>2. power(R, 0) = 1 /\ power(R + x, 0) = 1
    BY <1>0, PowerUnfolds
  <2> HIDE DEF k
  <2>3. 1 * k <= k * 1
    BY <1>0
  <2> QED BY <2>1, <2>2, <2>3
<1>2. ASSUME NEW n \in T PROVE n + 1 \in T
  <2> DEFINE P == power(R + x, n)
             Q == power(R, n)
             t == threeTerms(R, x, n)
             u == threeTerms(R, x, n + 1)
  <2>1. P \in Nat /\ Q \in Nat /\ power(R + x, n + 1) = (R + x) * P /\ power(R, n + 1) = R * Q
    BY <1>0, PowerUnfolds
  <2>2. t \in Nat /\ u \in Nat /\ R * u <= (R + x) * t
    BY TermsInNat, NextTerms
  <2>3. Q * t <= k * P
    OBVIOUS
  <2> HIDE DEF P, Q, t, u, k
  <2>4. Q * (R * u) <= Q * ((R + x) * t)
    BY <2>1, <2>2
  <2>5. (R + x) * (Q * t) <= (R + x) * (k * P)
    <3>1. Q * t \in Nat /\ k * P \in Nat
      BY <1>0, <2>1, <2>2
    <3> QED BY <1>0, <2>3, <3>1
  <2>6. /\ Q * (R * u) = (R * Q) * u /\ Q * ((R + x) * t) = (R + x) * (Q * t)
        /\ (R + x) * (k * P) = k * ((R + x) * P)
    BY <1>0, <2>1, <2>2
  <2>7. (R * Q) * u \in Nat /\ (R + x) * (Q * t) \in Nat /\ k * ((R + x) * P) \in Nat
    BY <1>0, <2>1, <2>2
  <2>8. (R * Q) * u <= k * ((R + x) * P)
    BY <2>4, <2>5, <2>6, <2>7
  <2> QED BY <2>1, <2>8 DEF u
<1>3. T = Nat
  <2>1. T \in SUBSET Nat
    OBVIOUS
  <2> HIDE DEF T
  <2> QED BY <1>1, <1>2, <2>1, SetOfNaturals
<1> QED BY <1>3

\* There is no rest up to the third power.
LEMMA BinomialUpToThree ==
    ASSUME NEW R \in Nat, NEW x \in Nat
    PROVE  \A n \in 1 .. 3 :
              power(R, n) * threeTerms(R, x, n) = 6 * (R * R * R) * power(R + x, n)
<1> TAKE n \in 1 .. 3
<1>1. /\ power(R, 1) = R /\ power(R + x, 1) = R + x
      /\ power(R, 2) = R * R /\ power(R + x, 2) = (R + x) * (R + x)
      /\ power(R, 3) = R * (R * R) /\ power(R + x, 3) = (R + x) * ((R + x) * (R + x))
  <2>1. ASSUME NEW b \in Nat
        PROVE  power(b, 1) = b /\ power(b, 2) = b * b /\ power(b, 3) = b * (b * b)
    <3>1. power(b, 0) = 1 /\ power(b, 0 + 1) = b * power(b, 0) /\ power(b, 1 + 1) = b * power(b, 1)
          /\ power(b, 2 + 1) = b * power(b, 2)
      BY PowerUnfolds
    <3> QED BY <3>1
  <2>2. R + x \in Nat
    OBVIOUS
  <2> QED BY <2>1, <2>2
<1>2. CASE n = 1
    BY <1>1, <1>2 DEF threeTerms
<1>3. CASE n = 2
    BY <1>1, <1>3 DEF threeTerms
<1>4. CASE n = 3
    BY <1>1, <1>4 DEF threeTerms
<1> QED BY <1>2, <1>3, <1>4

\* Twice what rounding a square and a cube half up may add to three terms, in units of R.
powersRounded(R, x, n) == 3 * (n * (n - 1) * R) + n * (n - 1) * (n - 2) * (x + R)

\* A cube made of a rounded square: half a unit of its own and the square's half unit.
LEMMA CubeRounded ==
    ASSUME NEW R \in Nat, NEW x \in Nat, NEW s \in Nat, NEW q \in Nat,
           2 * R * s <= 2 * (x * x) + R, 2 * (x * x) <= 2 * R * s + R,
           2 * R * q <= 2 * (s * x) + R, 2 * (s * x) <= 2 * R * q + R
    PROVE  /\ 2 * (R * R * q) <= 2 * (x * x * x) + R * (x + R)
           /\ 2 * (x * x * x) <= 2 * (R * R * q) + R * (x + R)
<1> DEFINE a == x * x * x
           b == R * R * q
           c == R * (s * x)
           y == R * x
           r == R * R
<1>1. a \in Nat /\ b \in Nat /\ c \in Nat /\ y \in Nat /\ r \in Nat
  <2>1. x * x \in Nat /\ R * R \in Nat /\ s * x \in Nat
    OBVIOUS
  <2> QED BY <2>1
<1>2. 2 * c <= 2 * a + y /\ 2 * a <= 2 * c + y
  <2>1. x * (2 * R * s) <= x * (2 * (x * x) + R) /\ x * (2 * (x * x)) <= x * (2 * R * s + R)
    <3>1. 2 * R * s \in Nat /\ 2 * (x * x) + R \in Nat /\ 2 * (x * x) \in Nat /\ 2 * R * s + R \in Nat
      OBVIOUS
    <3> QED BY <3>1
  <2>2. /\ x * (2 * R * s) = 2 * c /\ x * (2 * (x * x) + R) = 2 * a + y
        /\ x * (2 * (x * x)) = 2 * a /\ x * (2 * R * s + R) = 2 * c + y
    OBVIOUS
  <2> QED BY <2>1, <2>2
<1>3. 2 * b <= 2 * c + r /\ 2 * c <= 2 * b + r
  <2>1. R * (2 * R * q) <= R * (2 * (s * x) + R) /\ R * (2 * (s * x)) <= R * (2 * R * q + R)
    <3>1. 2 * R * q \in Nat /\ 2 * (s * x) + R \in Nat /\ 2 * (s * x) \in Nat /\ 2 * R * q + R \in Nat
      OBVIOUS
    <3> QED BY <3>1
  <2>2. /\ R * (2 * R * q) = 2 * b /\ R * (2 * (s * x) + R) = 2 * c + r
        /\ R * (2 * (s * x)) = 2 * c /\ R * (2 * R * q + R) = 2 * b + r
    OBVIOUS
  <2> QED BY <2>1, <2>2
<1>4. R * (x + R) = y + r
    OBVIOUS
<1> HIDE DEF a, b, c, y, r
<1>5. 2 * b <= 2 * a + (y + r) /\ 2 * a <= 2 * b + (y + r)
    BY <1>1, <1>2, <1>3
<1> QED BY <1>4, <1>5 DEF a, b

\* The three terms as the code has them, with rounded powers and halves and sixths of
\* their multiples, against the exact ones.
LEMMA TermsRounded ==
    ASSUME NEW R \in Nat, NEW x \in Nat, NEW n \in Nat, NEW s \in Nat, NEW q \in Nat,
           2 * R * s <= 2 * (x * x) + R, 2 * (x * x) <= 2 * R * s + R,
           2 * R * q <= 2 * (s * x) + R, 2 * (s * x) <= 2 * R * q + R,
           NEW A \in Nat,
           A = R + x * n + (n * (n - 1) * s) \div 2 + (n * (n - 1) * (n - 2) * q) \div 6
    PROVE  /\ 12 * (R * R * A) <= 2 * threeTerms(R, x, n) + R * powersRounded(R, x, n)
           /\ 2 * threeTerms(R, x, n)
                <= 12 * (R * R * A) + R * powersRounded(R, x, n) + 16 * (R * R)
<1> DEFINE c == n * (n - 1)
           d == n * (n - 1) * (n - 2)
           h == (c * s) \div 2
           i == (d * q) \div 6
<1>1. c \in Nat /\ d \in Nat
    BY NoNegativeChoice
<1>2. /\ h \in Nat /\ 2 * h <= c * s /\ c * s <= 2 * h + 1
      /\ i \in Nat /\ 6 * i <= d * q /\ d * q <= 6 * i + 5
  <2>1. c * s \in Nat /\ d * q \in Nat
    <3> HIDE DEF c, d
    <3> QED BY <1>1
  <2> QED BY <2>1, DivProp
<1>3. A = R + x * n + h + i
    OBVIOUS
<1>4. /\ threeTerms(R, x, n)
           = 6 * (R * R * R) + 6 * (R * R * (x * n)) + 3 * (c * (R * (x * x))) + d * (x * x * x)
      /\ R * powersRounded(R, x, n) = 3 * (c * (R * R)) + d * (R * (x + R))
    BY DEF threeTerms, powersRounded
<1> HIDE DEF c, d, h, i
<1> DEFINE r == R * R
           e == R * R * R
           g == R * R * (x * n)
           j == c * (R * (x * x))
           k == d * (x * x * x)
           l == c * (R * R)
           m == d * (R * (x + R))
           u == R * R * (c * s)
           v == R * R * (d * q)
<1>5. /\ r \in Nat /\ e \in Nat /\ g \in Nat /\ j \in Nat /\ k \in Nat /\ l \in Nat /\ m \in Nat
      /\ u \in Nat /\ v \in Nat /\ r * h \in Nat /\ r * i \in Nat
  <2>1. R * R \in Nat /\ x * n \in Nat /\ x * x \in Nat /\ x * x * x \in Nat /\ x + R \in Nat
        /\ c * s \in Nat /\ d * q \in Nat
    BY <1>1
  <2>2. R * (x * x) \in Nat /\ R * (x + R) \in Nat
    BY <2>1
  <2> QED BY <1>1, <1>2, <2>1, <2>2
<1>6. r * A = e + g + r * h + r * i
    BY <1>2, <1>3
<1>7. 2 * (r * h) <= u /\ u <= 2 * (r * h) + r /\ 6 * (r * i) <= v /\ v <= 6 * (r * i) + 5 * r
  <2>1. r * (2 * h) <= r * (c * s) /\ r * (c * s) <= r * (2 * h + 1)
        /\ r * (6 * i) <= r * (d * q) /\ r * (d * q) <= r * (6 * i + 5)
    <3>1. c * s \in Nat /\ d * q \in Nat
      BY <1>1
    <3> HIDE DEF r
    <3> QED BY <1>2, <1>5, <3>1
  <2>2. /\ r * (2 * h) = 2 * (r * h) /\ r * (2 * h + 1) = 2 * (r * h) + r
        /\ r * (6 * i) = 6 * (r * i) /\ r * (6 * i + 5) = 6 * (r * i) + 5 * r
    <3> HIDE DEF r
    <3> QED BY <1>2, <1>5
  <2> QED BY <2>1, <2>2
<1>8. 2 * u <= 2 * j + l /\ 2 * j <= 2 * u + l
  <2> DEFINE w == c * R
  <2>1. w \in Nat
    BY <1>1
  <2>2. w * (2 * R * s) <= w * (2 * (x * x) + R) /\ w * (2 * (x * x)) <= w * (2 * R * s + R)
    <3>1. 2 * R * s \in Nat /\ 2 * (x * x) + R \in Nat /\ 2 * (x * x) \in Nat /\ 2 * R * s + R \in Nat
      OBVIOUS
    <3> HIDE DEF w
    <3> QED BY <2>1, <3>1
  <2>3. /\ w * (2 * R * s) = 2 * u /\ w * (2 * (x * x) + R) = 2 * j + l
        /\ w * (2 * (x * x)) = 2 * j /\ w * (2 * R * s + R) = 2 * u + l
    BY <1>1
  <2> QED BY <2>2, <2>3
<1>9. 2 * v <= 2 * k + m /\ 2 * k <= 2 * v + m
  <2>1. /\ 2 * (R * R * q) <= 2 * (x * x * x) + R * (x + R)
        /\ 2 * (x * x * x) <= 2 * (R * R * q) + R * (x + R)
    BY CubeRounded
  <2>2. /\ 2 * (R * R * q) \in Nat /\ 2 * (x * x * x) + R * (x + R) \in Nat
        /\ 2 * (x * x * x) \in Nat /\ 2 * (R * R * q) + R * (x + R) \in Nat
    <3>1. R * R \in Nat /\ x * x \in Nat /\ x + R \in Nat
      OBVIOUS
    <3>2. R * R * q \in Nat /\ x * x * x \in Nat /\ R * (x + R) \in Nat
      BY <3>1
    <3> QED BY <3>2
  <2>3. /\ d * (2 * (R * R * q)) <= d * (2 * (x * x * x) + R * (x + R))
        /\ d * (2 * (x * x * x)) <= d * (2 * (R * R * q) + R * (x + R))
    BY <1>1, <2>1, <2>2
  <2>4. /\ d * (2 * (R * R * q)) = 2 * v /\ d * (2 * (x * x * x) + R * (x + R)) = 2 * k + m
        /\ d * (2 * (x * x * x)) = 2 * k /\ d * (2 * (R * R * q) + R * (x + R)) = 2 * v + m
    BY <1>1
  <2> QED BY <2>3, <2>4
<1>10. threeTerms(R, x, n) = 6 * e + 6 * g + 3 * j + k /\ R * powersRounded(R, x, n) = 3 * l + m
    BY <1>4
<1>11. R * R * A = r * A /\ R * R = r
    OBVIOUS
<1> DEFINE y == r * h
           z == r * i
<1> HIDE DEF r, e, g, j, k, l, m, u, v
<1>12. /\ 12 * (e + g + y + z) <= 2 * (6 * e + 6 * g + 3 * j + k) + (3 * l + m)
       /\ 2 * (6 * e + 6 * g + 3 * j + k) <= 12 * (e + g + y + z) + (3 * l + m) + 16 * r
  <2>1. y \in Nat /\ z \in Nat /\ 2 * y <= u /\ u <= 2 * y + r /\ 6 * z <= v /\ v <= 6 * z + 5 * r
    BY <1>5, <1>7
  <2> HIDE DEF y, z
  <2> QED BY <1>5, <1>8, <1>9, <2>1
<1> QED BY <1>6, <1>10, <1>11, <1>12

\* Both sides of a comparison may be given in units of 12 * R * R.
LEMMA InUnits ==
    ASSUME NEW r \in Nat \ {0}, NEW W \in Nat, NEW t \in Nat, NEW b \in Nat, NEW P \in Nat,
           NEW A \in Nat, NEW rho \in Nat
    PROVE  /\ 12 * (r * A) <= 2 * t + 12 * (r * rho) /\ W * t <= 6 * (r * P)
                => A * W <= P + rho * W
           /\ 2 * t <= 12 * (r * A) + 12 * (r * rho) /\ 6 * (r * P) <= W * t
                => P <= A * W + rho * W
<1> DEFINE k == 12 * r
<1>0. k \in Nat \ {0} /\ r * A \in Nat /\ r * rho \in Nat /\ r * P \in Nat /\ W * t \in Nat
      /\ W * (r * A) \in Nat /\ W * (r * rho) \in Nat
  <2>1. r * A \in Nat /\ r * rho \in Nat /\ r * P \in Nat /\ W * t \in Nat
    OBVIOUS
  <2> QED BY <2>1
<1>1. ASSUME 12 * (r * A) <= 2 * t + 12 * (r * rho), W * t <= 6 * (r * P)
      PROVE  A * W <= P + rho * W
  <2>1. W * (12 * (r * A)) <= W * (2 * t + 12 * (r * rho))
    <3>1. 12 * (r * A) \in Nat /\ 2 * t + 12 * (r * rho) \in Nat
      BY <1>0
    <3> QED BY <1>1, <3>1
  <2>2. /\ W * (12 * (r * A)) = k * (A * W)
        /\ W * (2 * t + 12 * (r * rho)) = 2 * (W * t) + 12 * (W * (r * rho))
        /\ k * (P + rho * W) = 2 * (6 * (r * P)) + 12 * (W * (r * rho))
    OBVIOUS
  <2>3. k * (A * W) <= k * (P + rho * W)
    BY <1>0, <1>1, <2>1, <2>2
  <2>4. A * W \in Int /\ P + rho * W \in Int
    OBVIOUS
  <2> HIDE DEF k
  <2> QED BY <1>0, <2>3, <2>4, CancelFactor
<1>2. ASSUME 2 * t <= 12 * (r * A) + 12 * (r * rho), 6 * (r * P) <= W * t
      PROVE  P <= A * W + rho * W
  <2>1. W * (2 * t) <= W * (12 * (r * A) + 12 * (r * rho))
    <3>1. 12 * (r * A) + 12 * (r * rho) \in Nat /\ 2 * t \in Nat
      BY <1>0
    <3> QED BY <1>2, <3>1
  <2>2. /\ W * (2 * t) = 2 * (W * t)
        /\ W * (12 * (r * A) + 12 * (r * rho)) = k * (A * W + rho * W)
        /\ k * P = 2 * (6 * (r * P))
    OBVIOUS
  <2>3. k * P <= k * (A * W + rho * W)
    BY <1>0, <1>2, <2>1, <2>2
  <2>4. P \in Int /\ A * W + rho * W \in Int
    OBVIOUS
  <2> HIDE DEF k
  <2> QED BY <1>0, <2>3, <2>4, CancelFactor
<1> QED BY <1>1, <1>2

\* The approximated growth of n units of time, in units of R, against the exact one.
LEMMA GrowthApproximated ==
    ASSUME NEW R \in Nat \ {0}, NEW x \in Nat, NEW n \in Nat \ {0}, NEW s \in Nat, NEW q \in Nat,
           2 * R * s <= 2 * (x * x) + R, 2 * (x * x) <= 2 * R * s + R,
           2 * R * q <= 2 * (s * x) + R, 2 * (s * x) <= 2 * R * q + R,
           NEW A \in Nat, NEW W \in Nat, NEW P \in Nat, NEW rho \in Nat,
           A = R + x * n + (n * (n - 1) * s) \div 2 + (n * (n - 1) * (n - 2) * q) \div 6,
           rho = 1 + powersRounded(R, x, n) \div (12 * R),
           W = power(R, n - 1), P = power(R + x, n)
    PROVE  /\ A * W <= P + rho * W
           /\ n <= 3 => P <= A * W + (rho + 2) * W
<1> DEFINE r == R * R
           t == threeTerms(R, x, n)
           N == powersRounded(R, x, n)
<1>1. r \in Nat \ {0} /\ t \in Nat /\ R + x \in Nat /\ n - 1 \in Nat
    BY TermsInNat
<1>2. N \in Nat
  <2>1. n * (n - 1) \in Nat /\ n * (n - 1) * (n - 2) \in Nat
    BY NoNegativeChoice
  <2>2. n * (n - 1) * R \in Nat /\ n * (n - 1) * (n - 2) * (x + R) \in Nat
    BY <2>1
  <2> QED BY <2>2 DEF powersRounded
<1>3. 12 * (r * A) <= 2 * t + R * N /\ 2 * t <= 12 * (r * A) + R * N + 16 * r
  <2>1. /\ 12 * (R * R * A) <= 2 * threeTerms(R, x, n) + R * powersRounded(R, x, n)
        /\ 2 * threeTerms(R, x, n)
             <= 12 * (R * R * A) + R * powersRounded(R, x, n) + 16 * (R * R)
    <3>1. R \in Nat /\ n \in Nat
      OBVIOUS
    <3> QED BY <3>1, TermsRounded
  <2> QED BY <2>1
<1> HIDE DEF t, N
<1>4. R * N <= 12 * (r * rho)
  <2> DEFINE d == N \div (12 * R)
  <2>1. d \in Nat /\ N < (12 * R) * d + 12 * R
    <3>1. 12 * R \in Nat \ {0}
      OBVIOUS
    <3> QED BY <1>2, <3>1, DivProp
  <2>2. rho = 1 + d
    BY DEF N
  <2> HIDE DEF d
  <2>3. N <= 12 * R * rho
    BY <1>2, <2>1, <2>2
  <2>4. R * N <= R * (12 * R * rho)
    <3> DEFINE y == 12 * R * rho
    <3>1. y \in Nat
      OBVIOUS
    <3>2. N <= y
      BY <2>3
    <3> HIDE DEF y
    <3>3. N * R <= y * R
      BY <1>2, <3>1, <3>2, ProductMonotone
    <3>4. R * N <= R * y
      BY <1>2, <3>1, <3>3
    <3> QED BY <3>4 DEF y
  <2>5. R * (12 * R * rho) = 12 * (r * rho)
    OBVIOUS
  <2> QED BY <2>4, <2>5
<1>5. W * R = power(R, n)
    BY <1>1, PowerUnfolds
<1>6. W * t <= 6 * (r * P)
  <2>1. power(R, n) * t <= 6 * (R * R * R) * P
    BY BinomialIsMore DEF t
  <2>2. power(R, n) * t = R * (W * t) /\ 6 * (R * R * R) * P = R * (6 * (r * P))
    BY <1>1, <1>5
  <2>3. W * t \in Int /\ 6 * (r * P) \in Int
    BY <1>1
  <2> QED BY <2>1, <2>2, <2>3, CancelFactor
<1>7. ASSUME n <= 3 PROVE 6 * (r * P) <= W * t
  <2>1. power(R, n) * t = 6 * (R * R * R) * P
    <3>1. n \in 1 .. 3 /\ R \in Nat
      BY <1>7
    <3>2. power(R, n) * threeTerms(R, x, n) = 6 * (R * R * R) * power(R + x, n)
      <4>1. \A k \in 1 .. 3 : power(R, k) * threeTerms(R, x, k) = 6 * (R * R * R) * power(R + x, k)
        BY <3>1, BinomialUpToThree, ZenonT(60)
      <4> QED BY <3>1, <4>1, Zenon
    <3>3. P = power(R + x, n)
      OBVIOUS
    <3> QED BY <3>2, <3>3, Zenon DEF t
  <2>2. power(R, n) * t = R * (W * t) /\ 6 * (R * R * R) * P = R * (6 * (r * P))
    BY <1>1, <1>5
  <2>3. W * t \in Int /\ 6 * (r * P) \in Int
    BY <1>1
  <2>4. R * (6 * (r * P)) <= R * (W * t)
    BY <2>1, <2>2, <2>3
  <2> QED BY <2>3, <2>4, CancelFactor
<1> HIDE DEF r
<1>8. A * W <= P + rho * W
  <2>1. 12 * (r * A) <= 2 * t + 12 * (r * rho)
    BY <1>1, <1>2, <1>3, <1>4
  <2> QED BY <1>1, <1>6, <2>1, InUnits
<1>9. ASSUME n <= 3 PROVE P <= A * W + (rho + 2) * W
  <2>1. 2 * t <= 12 * (r * A) + 12 * (r * (rho + 2))
    <3>1. 12 * (r * (rho + 2)) = 12 * (r * rho) + 24 * r
      BY <1>1
    <3>2. r * A \in Nat /\ r * rho \in Nat /\ R * N \in Nat
      BY <1>1, <1>2
    <3> QED BY <1>1, <1>2, <1>3, <1>4, <3>1, <3>2
  <2>2. rho + 2 \in Nat
    OBVIOUS
  <2> QED BY <1>1, <1>7, <1>9, <2>1, <2>2, InUnits
<1> QED BY <1>8, <1>9

\* What the run compares, of the state.
LEMMA ApproximationOfTheRun ==
    ASSUME InputOK, delay > 0
    PROVE  /\ approximation \in Nat /\ unit \in Nat /\ exactGrowth \in Nat /\ powerRounding \in Nat
           /\ approximation * unit <= exactGrowth + powerRounding * unit
           /\ delay <= 3 => exactGrowth <= approximation * unit + (powerRounding + 2) * unit
<1>1. PICK R \in Nat \ {0} : R = Coarse!RAY
    BY CoarseScale
<1>2. PICK n \in Nat \ {0} : n = delay
    BY DEF InputOK
<1>3. PICK x \in Nat : x = ratePerSecond
  <2>1. rate \div SECONDS_PER_YEAR \in Nat
    BY DivProp, ScalePositive DEF InputOK
  <2> QED BY <2>1 DEF ratePerSecond
<1>4. PICK s \in Nat : s = CoarseFacts!rayMul(x, x)
    BY CoarseScale, ScaleAssumption, CoarseFacts!RoundedInNat
<1>5. PICK q \in Nat : q = CoarseFacts!rayMul(s, x)
    BY CoarseScale, ScaleAssumption, CoarseFacts!RoundedInNat
<1>6. /\ 2 * R * s <= 2 * (x * x) + R /\ 2 * (x * x) <= 2 * R * s + R
      /\ 2 * R * q <= 2 * (s * x) + R /\ 2 * (s * x) <= 2 * R * q + R
    BY <1>1, <1>4, <1>5, CoarseScale, ScaleAssumption, CoarseFacts!RoundedProduct
<1> DEFINE A == R + x * n + (n * (n - 1) * s) \div 2 + (n * (n - 1) * (n - 2) * q) \div 6
           rho == 1 + powersRounded(R, x, n) \div (12 * R)
<1>7. approximation = A
  <2> DEFINE two == IF n > 2 THEN n - 2 ELSE 0
  <2>1. n * (n - 1) * two = n * (n - 1) * (n - 2)
    <3>1. CASE n = 1
      BY <3>1
    <3>2. CASE n = 2
      BY <3>2
    <3>3. CASE n > 2
      BY <3>3
    <3> QED BY <3>1, <3>2, <3>3
  <2>2. (1 + n) - 1 = n /\ n # 0
    OBVIOUS
  <2>3. Coarse!rayMul(x, x) = s /\ Coarse!rayMul(s, x) = q
    BY <1>4, <1>5, CoarseScale DEF Coarse!rayMul, CoarseFacts!rayMul
  <2>4. approximation = R + x * n + (n * (n - 1) * s) \div 2 + (n * (n - 1) * two * q) \div 6
    BY <1>1, <1>2, <1>3, <2>2, <2>3
       DEF approximation, Coarse!calculateCompoundedInterest, ratePerSecond
  <2> HIDE DEF two
  <2> QED BY <2>1, <2>4
<1>8. powerRounding = rho
  <2>1. 3 * n * (n - 1) * R + n * (n - 1) * (n - 2) * (x + R) = powersRounded(R, x, n)
    BY DEF powersRounded
  <2>2. powerRounding
          = 1 + (3 * n * (n - 1) * R + n * (n - 1) * (n - 2) * (x + R)) \div (12 * R)
    BY <1>1, <1>2, <1>3 DEF powerRounding
  <2> QED BY <2>1, <2>2
<1>9. PICK W \in Nat : W = power(R, n - 1)
  <2>1. n - 1 \in Nat
    OBVIOUS
  <2> QED BY <2>1, PowerUnfolds
<1>10. PICK P \in Nat : P = power(R + x, n)
  <2>1. R + x \in Nat /\ n \in Nat
    OBVIOUS
  <2> QED BY <2>1, PowerUnfolds
<1>11. unit = W /\ exactGrowth = P
    BY <1>1, <1>2, <1>3, <1>9, <1>10 DEF unit, exactGrowth
<1>12. A \in Nat
  <2>1. n * (n - 1) \in Nat /\ n * (n - 1) * (n - 2) \in Nat
    BY NoNegativeChoice
  <2>2. n * (n - 1) * s \in Nat /\ n * (n - 1) * (n - 2) * q \in Nat /\ x * n \in Nat
    BY <2>1
  <2>3. (n * (n - 1) * s) \div 2 \in Nat /\ (n * (n - 1) * (n - 2) * q) \div 6 \in Nat
    BY <2>2, DivProp
  <2> QED BY <2>2, <2>3
<1>13. rho \in Nat
  <2>1. n * (n - 1) \in Nat /\ n * (n - 1) * (n - 2) \in Nat
    BY NoNegativeChoice
  <2>2. n * (n - 1) * R \in Nat /\ n * (n - 1) * (n - 2) * (x + R) \in Nat
    BY <2>1
  <2>3. powersRounded(R, x, n) \in Nat /\ 12 * R \in Nat \ {0}
    BY <2>2 DEF powersRounded
  <2>4. powersRounded(R, x, n) \div (12 * R) \in Nat
    BY <2>3, DivProp
  <2> QED BY <2>4
<1>14. PICK a \in Nat : a = A
    BY <1>12
<1>15. PICK o \in Nat : o = rho
    BY <1>13
<1>16. a * W <= P + o * W /\ (n <= 3 => P <= a * W + (o + 2) * W)
    BY <1>6, <1>9, <1>10, <1>14, <1>15, GrowthApproximated, ZenonT(60)
<1> HIDE DEF A, rho
<1> QED BY <1>2, <1>7, <1>8, <1>11, <1>14, <1>15, <1>16

\* Compounded interest is never more than exact growth, for any rate, time and scale,
\* but for the rounding of the powers of the rate: the terms that are left out are all
\* to the debtor's advantage.
THEOREM BorrowersAreNotOvercharged == Spec => []CompoundedNeverOvercharges
<1>1. InputOK => CompoundedNeverOvercharges
    BY ApproximationOfTheRun DEF CompoundedNeverOvercharges
<1> QED BY <1>1, InputsHold, PTL

\* ... and it is exact growth up to three units of time.
THEOREM ThreeTermsAreExact == Spec => []CompoundedIsExactUpToThree
<1>1. InputOK => CompoundedIsExactUpToThree
  <2> SUFFICES ASSUME InputOK, delay \in 1 .. 3
               PROVE  distance(approximation * unit, exactGrowth) <= (powerRounding + 2) * unit
    BY DEF CompoundedIsExactUpToThree
  <2> DEFINE a == approximation * unit
             b == powerRounding * unit
             c == (powerRounding + 2) * unit
  <2>1. /\ approximation \in Nat /\ unit \in Nat /\ exactGrowth \in Nat /\ powerRounding \in Nat
        /\ a <= exactGrowth + b /\ exactGrowth <= a + c
    BY ApproximationOfTheRun
  <2>2. a \in Nat /\ b \in Nat /\ c \in Nat /\ b <= c
    BY <2>1
  <2> HIDE DEF a, b, c
  <2>3. distance(a, exactGrowth) <= c
    BY <2>1, <2>2 DEF distance
  <2> QED BY <2>3 DEF a, c
<1> QED BY <1>1, InputsHold, PTL

-----------------------------------------------------------------------------
(* The curve *)

\* What a strategy's parameters are.
LEMMA StrategyFields ==
    ASSUME NEW s \in Strategy
    PROVE  /\ s.optimalUtilizationRate \in Nat \ {0} /\ s.optimalUtilizationRate <= RAY
           /\ s.baseVariableBorrowRate \in Nat /\ s.variableRateSlope1 \in Nat
           /\ s.variableRateSlope2 \in Nat /\ s.stableRateSlope1 \in Nat
           /\ s.stableRateSlope2 \in Nat /\ s.marketBorrowRate \in Nat
BY ScalePositive DEF Strategy

\* The utilization rate grows with the debt, of the same total.
LEMMA UtilizationGrows ==
    ASSUME NEW d \in Nat, NEW e \in Nat, NEW l \in Nat, NEW m \in Nat, d <= e, l + d = m + e
    PROVE  utilizationRate(d, l) <= utilizationRate(e, m)
<1>1. utilizationRate(d, l) \in 0 .. RAY /\ utilizationRate(e, m) \in 0 .. RAY /\ RAY \in Nat
    BY UtilizationRange, ScalePositive
<1>2. CASE d = 0
    BY <1>1, <1>2 DEF utilizationRate
<1>3. CASE d # 0
  <2>1. l + d \in Nat \ {0} /\ e # 0
    BY <1>3
  <2>2. rayDiv(d, l + d) <= rayDiv(e, l + d)
    BY <2>1, RayDivMonotone
  <2> QED BY <1>3, <2>1, <2>2 DEF utilizationRate
<1> QED BY <1>2, <1>3

\* Above the optimal utilization both rates add a share of the second slope, which
\* grows.
LEMMA ExcessGrows ==
    ASSUME NEW s \in Strategy, NEW u \in Nat, NEW w \in Nat, NEW slope \in Nat,
           s.optimalUtilizationRate < u, u <= w, w <= RAY
    PROVE  /\ rayMul(slope, excessUtilizationRateRatio(s, u)) \in Nat
           /\ rayMul(slope, excessUtilizationRateRatio(s, w)) \in Nat
           /\ rayMul(slope, excessUtilizationRateRatio(s, u))
                <= rayMul(slope, excessUtilizationRateRatio(s, w))
<1> DEFINE a == u - s.optimalUtilizationRate
           b == w - s.optimalUtilizationRate
           c == RAY - s.optimalUtilizationRate
<1>1. a \in Nat /\ b \in Nat /\ a <= b /\ c \in Nat \ {0}
    BY StrategyFields, ScalePositive
<1>2. excessUtilizationRateRatio(s, u) = rayDiv(a, c) /\ excessUtilizationRateRatio(s, w) = rayDiv(b, c)
    BY DEF excessUtilizationRateRatio
<1> HIDE DEF a, b, c
<1>3. rayDiv(a, c) \in Nat /\ rayDiv(b, c) \in Nat /\ rayDiv(a, c) <= rayDiv(b, c)
    BY <1>1, RayDivMonotone, RoundedInNat
<1> QED BY <1>2, <1>3, RayMulMonotone, RoundedInNat

\* The stable rate never falls as utilization rises, the bend included.
LEMMA StableRateRises ==
    ASSUME NEW s \in Strategy, NEW u \in Nat, NEW w \in Nat, u <= w, w <= RAY
    PROVE  stableBorrowRate(s, u) <= stableBorrowRate(s, w)
<1> DEFINE o == s.optimalUtilizationRate
           slope == s.stableRateSlope1
           below(x) == rayMul(slope, rayDiv(x, o))
           above(x) == rayMul(s.stableRateSlope2, excessUtilizationRateRatio(s, x))
<1>1. o \in Nat \ {0} /\ slope \in Nat /\ s.stableRateSlope2 \in Nat /\ s.marketBorrowRate \in Nat
    BY StrategyFields
<1>2. /\ aboveOptimal(s, u) <=> o < u
      /\ aboveOptimal(s, w) <=> o < w
    BY <1>1 DEF aboveOptimal
<1>3. /\ rayDiv(u, o) \in Nat /\ rayDiv(w, o) \in Nat /\ rayDiv(u, o) <= rayDiv(w, o)
      /\ below(u) \in Nat /\ below(w) \in Nat /\ below(u) <= below(w)
  <2>1. rayDiv(u, o) \in Nat /\ rayDiv(w, o) \in Nat /\ rayDiv(u, o) <= rayDiv(w, o)
    BY <1>1, RayDivMonotone, RoundedInNat
  <2> QED BY <1>1, <2>1, RayMulMonotone, RoundedInNat
<1>4. ASSUME o < u
      PROVE  above(u) \in Nat /\ above(w) \in Nat /\ above(u) <= above(w)
    BY <1>1, <1>4, ExcessGrows
<1>5. ASSUME u <= o, o < w
      PROVE  below(u) <= slope /\ above(w) \in Nat
  <2>1. rayDiv(u, o) \in 0 .. RAY
    BY <1>1, <1>5, RayDivOfPart
  <2>2. rayMul(slope, RAY) = slope
    <3>1. slope * RAY = RAY * slope
      BY <1>1, ScalePositive
    <3> QED BY <1>1, <3>1, RayMulOne DEF rayMul
  <2>3. below(u) <= slope
    BY <1>1, <2>1, <2>2, RayMulMonotone, ScalePositive
  <2>4. above(w) \in Nat
    BY <1>1, <1>5, ExcessGrows
  <2> QED BY <2>3, <2>4
<1>6. /\ stableBorrowRate(s, u) = s.marketBorrowRate + IF o < u THEN slope + above(u) ELSE below(u)
      /\ stableBorrowRate(s, w) = s.marketBorrowRate + IF o < w THEN slope + above(w) ELSE below(w)
    BY <1>2 DEF stableBorrowRate
<1> HIDE DEF o, slope, below, above
<1> QED BY <1>1, <1>3, <1>4, <1>5, <1>6

\* Nor does the variable rate, but for what the first slope paid in full is rounded
\* up to below the bend.
LEMMA VariableRateRises ==
    ASSUME NEW s \in Strategy, NEW u \in Nat, NEW w \in Nat, u <= w, w <= RAY, NEW k \in Nat,
           rayDiv(rayMul(s.optimalUtilizationRate, s.variableRateSlope1), s.optimalUtilizationRate)
             <= s.variableRateSlope1 + k
    PROVE  variableBorrowRate(s, u) <= variableBorrowRate(s, w) + k
<1> DEFINE o == s.optimalUtilizationRate
           slope == s.variableRateSlope1
           below(x) == rayDiv(rayMul(x, slope), o)
           above(x) == rayMul(s.variableRateSlope2, excessUtilizationRateRatio(s, x))
<1>1. o \in Nat \ {0} /\ slope \in Nat /\ s.variableRateSlope2 \in Nat
      /\ s.baseVariableBorrowRate \in Nat
    BY StrategyFields
<1>2. /\ aboveOptimal(s, u) <=> o < u
      /\ aboveOptimal(s, w) <=> o < w
    BY <1>1 DEF aboveOptimal
<1>3. \A x, y \in Nat : x <= y => below(x) \in Nat /\ below(y) \in Nat /\ below(x) <= below(y)
  <2> SUFFICES ASSUME NEW x \in Nat, NEW y \in Nat, x <= y
               PROVE  below(x) \in Nat /\ below(y) \in Nat /\ below(x) <= below(y)
    OBVIOUS
  <2>1. rayMul(x, slope) \in Nat /\ rayMul(y, slope) \in Nat /\ rayMul(x, slope) <= rayMul(y, slope)
    BY <1>1, RayMulMonotone, RoundedInNat
  <2> QED BY <1>1, <2>1, RayDivMonotone, RoundedInNat
<1>4. ASSUME o < u
      PROVE  above(u) \in Nat /\ above(w) \in Nat /\ above(u) <= above(w)
    BY <1>1, <1>4, ExcessGrows
<1>5. ASSUME o < w
      PROVE  above(w) \in Nat
    BY <1>1, <1>5, ExcessGrows
<1>6. below(o) <= slope + k
    OBVIOUS
<1>7. /\ variableBorrowRate(s, u)
           = s.baseVariableBorrowRate + IF o < u THEN slope + above(u) ELSE below(u)
      /\ variableBorrowRate(s, w)
           = s.baseVariableBorrowRate + IF o < w THEN slope + above(w) ELSE below(w)
    BY <1>2 DEF variableBorrowRate
<1> HIDE DEF o, slope, below, above
<1>8. CASE o < u
    BY <1>1, <1>4, <1>7, <1>8
<1>9. CASE u <= o /\ o < w
  <2>1. below(u) \in Nat /\ below(o) \in Nat /\ below(u) <= below(o)
    BY <1>1, <1>3, <1>9
  <2> QED BY <1>1, <1>5, <1>6, <1>7, <1>9, <2>1
<1>10. CASE w <= o
    BY <1>1, <1>3, <1>7, <1>10
<1> QED BY <1>1, <1>8, <1>9, <1>10

\* The two rates of new debts in terms of the utilization.
LEMMA QuotedForUtilization ==
    /\ rates.stable = stableBorrowRate(strategy, utilizationRate(stableDebt + variableDebt, liquidity))
    /\ rates.variable = variableBorrowRate(strategy, utilizationRate(stableDebt + variableDebt, liquidity))
BY DEF rates, calculateInterestRates

\* Lending more of the same deposits never makes a new debt cheaper: the curve rises
\* below, at and above the optimal utilization, for every strategy that can be
\* deployed, but for the rounding at the bend that kinkRounding counts.
THEOREM CurveNeverFalls == Spec => RatesRiseWithUtilization
<1>1. InputOK /\ [Next]_vars =>
        [Lend => /\ rates'.variable + kinkRounding >= rates.variable
                 /\ rates'.stable >= rates.stable]_vars
  <2> SUFFICES ASSUME InputOK, Lend
               PROVE  /\ rates'.variable + kinkRounding >= rates.variable
                      /\ rates'.stable >= rates.stable
    OBVIOUS
  <2>1. PICK d \in Nat : d = stableDebt + variableDebt
    BY DEF InputOK
  <2>2. PICK e \in Nat : e = stableDebt' + variableDebt'
    BY InstanceAssumption DEF Lend, InputOK
  <2>3. PICK l \in Nat : l = liquidity
    BY DEF InputOK
  <2>4. PICK m \in Nat : m = liquidity'
    BY InstanceAssumption DEF Lend, InputOK
  <2>5. d <= e /\ l + d = m + e
    BY <2>1, <2>2, <2>3, <2>4, InstanceAssumption DEF Lend, InputOK
  <2>6. PICK u \in Nat : u = utilizationRate(d, l) /\ u <= RAY
    BY UtilizationRange, ScalePositive
  <2>7. PICK w \in Nat : w = utilizationRate(e, m) /\ w <= RAY
    BY UtilizationRange, ScalePositive
  <2>8. u <= w
    BY <2>5, <2>6, <2>7, UtilizationGrows
  <2>9. rates.stable = stableBorrowRate(strategy, u) /\ rates.variable = variableBorrowRate(strategy, u)
    BY <2>1, <2>3, <2>6, QuotedForUtilization
  <2>10. rates'.stable = stableBorrowRate(strategy, w) /\ rates'.variable = variableBorrowRate(strategy, w)
    BY <2>2, <2>4, <2>7 DEF rates, calculateInterestRates
  <2>11. strategy \in Strategy /\ u \in 0 .. RAY /\ w \in 0 .. RAY
    BY <2>6, <2>7, InstanceAssumption, ScalePositive
  <2>12. stableBorrowRate(strategy, u) <= stableBorrowRate(strategy, w)
    BY <2>6, <2>7, <2>8, <2>11, StableRateRises
  <2>13. kinkRounding \in Nat
         /\ rayDiv(rayMul(strategy.optimalUtilizationRate, strategy.variableRateSlope1),
                   strategy.optimalUtilizationRate)
              <= strategy.variableRateSlope1 + kinkRounding
    <3> DEFINE below == rayDiv(rayMul(Optimal, Slope1), Optimal)
    <3>1. strategy.optimalUtilizationRate = Optimal /\ strategy.variableRateSlope1 = Slope1
      BY DEF strategy
    <3>2. Optimal \in Nat \ {0} /\ Slope1 \in Nat
      BY <3>1, <2>11, StrategyFields
    <3>3. below \in Nat
      BY <3>2, RoundedInNat
    <3>4. kinkRounding = IF below > Slope1 THEN below - Slope1 ELSE 0
      BY DEF kinkRounding
    <3> HIDE DEF below
    <3>5. kinkRounding \in Nat /\ below <= Slope1 + kinkRounding
      BY <3>2, <3>3, <3>4
    <3> QED BY <3>1, <3>5 DEF below
  <2>14. variableBorrowRate(strategy, u) <= variableBorrowRate(strategy, w) + kinkRounding
    <3>1. PICK k \in Nat : k = kinkRounding
      BY <2>13
    <3>2. variableBorrowRate(strategy, u) <= variableBorrowRate(strategy, w) + k
      BY <2>6, <2>7, <2>8, <2>11, <2>13, <3>1, VariableRateRises
    <3> QED BY <3>1, <3>2
  <2>15. /\ stableBorrowRate(strategy, u) \in Nat /\ stableBorrowRate(strategy, w) \in Nat
         /\ variableBorrowRate(strategy, u) \in Nat /\ variableBorrowRate(strategy, w) \in Nat
    BY <2>11, CurveType
  <2> QED BY <2>9, <2>10, <2>12, <2>13, <2>14, <2>15
<1> QED BY <1>1, InputsHold, PTL DEF Spec, RatesRiseWithUtilization

-----------------------------------------------------------------------------
(* What depositors earn *)

\* The overall rate, charged on all debts, is what the debts are charged each at its
\* own rate, but for the rounding.
LEMMA OverallRateIsTheAverage ==
    ASSUME NEW S \in Nat, NEW V \in Nat, NEW v \in Nat, NEW avg \in Nat
    PROVE  2 * ((S + V) * getOverallBorrowRate(S, V, v, avg))
             <= 2 * (S * avg + V * v) + 2 * WAD + (S + V)
<1>1. CASE S + V = 0
  <2>1. S = 0 /\ V = 0 /\ getOverallBorrowRate(S, V, v, avg) = 0
    BY <1>1 DEF getOverallBorrowRate
  <2> QED BY <2>1, ScalePositive
<1>2. CASE S + V # 0
  <2> DEFINE k  == WAD_RAY_RATIO
             D  == S + V
             m1 == rayMul(V * k, v)
             m2 == rayMul(S * k, avg)
             q  == rayDiv(m1 + m2, D * k)
             x1 == V * v
             x2 == S * avg
  <2>1. k \in Nat \ {0} /\ D \in Nat \ {0} /\ V * k \in Nat /\ S * k \in Nat /\ D * k \in Nat \ {0}
        /\ WAD \in Nat /\ RAY \in Nat /\ RAY = k * WAD
    BY <1>2, ScalePositive DEF RAY
  <2>2. getOverallBorrowRate(S, V, v, avg) = q
    BY <1>2 DEF getOverallBorrowRate, wadToRay
  <2>3. /\ m1 \in Nat /\ m2 \in Nat /\ m1 + m2 \in Nat
        /\ x1 \in Nat /\ x2 \in Nat
    BY <2>1, RoundedInNat
  <2>4. q \in Nat
    BY <2>1, <2>3, RoundedInNat
  <2>5. 2 * RAY * m1 <= 2 * ((V * k) * v) + RAY
    BY <2>1, RoundedProduct
  <2>6. 2 * RAY * m2 <= 2 * ((S * k) * avg) + RAY
    BY <2>1, RoundedProduct
  <2>7. 2 * ((D * k) * q) <= 2 * ((m1 + m2) * RAY) + D * k
    BY <2>1, <2>3, RoundedQuotient
  <2>8. (V * k) * v = k * x1 /\ (S * k) * avg = k * x2
    BY <2>1
  <2> HIDE DEF k, D, m1, m2, q, x1, x2
  <2>9. /\ 2 * ((m1 + m2) * RAY) = 2 * RAY * m1 + 2 * RAY * m2
        /\ 2 * ((D * k) * q) = k * (2 * (D * q))
        /\ D * k = k * D /\ D * q \in Nat
    BY <2>1, <2>3, <2>4
  <2>10. /\ k * (2 * (x2 + x1) + 2 * WAD + D)
              = 2 * (k * x1) + 2 * (k * x2) + 2 * (k * WAD) + k * D
         /\ k * x1 \in Nat /\ k * x2 \in Nat /\ k * WAD \in Nat /\ k * D \in Nat
         /\ 2 * RAY * m1 \in Nat /\ 2 * RAY * m2 \in Nat
    BY <2>1, <2>3
  <2>11. k * (2 * (D * q)) <= 2 * RAY * m1 + 2 * RAY * m2 + k * D
    BY <2>7, <2>9, Zenon
  <2>12. k * (2 * (D * q)) <= k * (2 * (x2 + x1) + 2 * WAD + D)
    <3>1. k * (2 * (D * q)) \in Nat
      BY <2>1, <2>9
    <3> DEFINE lhs == k * (2 * (D * q))
               rhs == k * (2 * (x2 + x1) + 2 * WAD + D)
               a1 == 2 * RAY * m1
               a2 == 2 * RAY * m2
               y1 == k * x1
               y2 == k * x2
               z == k * D
    <3>2. /\ lhs \in Nat /\ a1 \in Nat /\ a2 \in Nat /\ y1 \in Nat /\ y2 \in Nat /\ z \in Nat
          /\ a1 <= 2 * y1 + RAY /\ a2 <= 2 * y2 + RAY
          /\ rhs = 2 * y1 + 2 * y2 + 2 * RAY + z
          /\ lhs <= a1 + a2 + z /\ RAY \in Nat
      BY <2>1, <2>5, <2>6, <2>8, <2>10, <2>11, <3>1
    <3> HIDE DEF lhs, rhs, a1, a2, y1, y2, z
    <3>3. lhs <= rhs
      BY <3>2
    <3> QED BY <3>3 DEF lhs, rhs
  <2>13. 2 * (D * q) \in Int /\ 2 * (x2 + x1) + 2 * WAD + D \in Int
    BY <2>1, <2>3, <2>9
  <2>14. 2 * (D * q) <= 2 * (x2 + x1) + 2 * WAD + D
    BY <2>1, <2>12, <2>13, CancelFactor
  <2> QED BY <2>2, <2>14 DEF D, x1, x2
<1> QED BY <1>1, <1>2

\* What a unit of deposits earns in the aggregate: the utilization times the overall
\* rate, on all deposits, is what is charged on the debts, but for the rounding of
\* both rates.
LEMMA UtilizationSharesTheRate ==
    ASSUME NEW D \in Nat, NEW L \in Nat, NEW O \in Nat, NEW X \in Nat,
           X = rayMul(O, utilizationRate(D, L))
    PROVE  2 * (X * (L + D)) <= 2 * (D * O) + ((L + D) * O) \div RAY + 1 + (L + D)
<1> DEFINE T == L + D
           U == utilizationRate(D, L)
           w == (T * O) \div RAY
<1>1. T \in Nat /\ U \in Nat /\ RAY \in Nat \ {0}
    BY UtilizationRange, ScalePositive
<1>2. 2 * (T * U) <= 2 * (D * RAY) + T
  <2>1. CASE D = 0
    <3>1. U = 0
      BY <2>1 DEF utilizationRate
    <3> HIDE DEF U, T
    <3> QED BY <1>1, <2>1, <3>1
  <2>2. CASE D # 0
    <3>1. U = rayDiv(D, T) /\ T \in Nat \ {0}
      BY <2>2 DEF utilizationRate
    <3> HIDE DEF U, T
    <3> QED BY <3>1, RoundedQuotient
  <2> QED BY <2>1, <2>2
<1>3. 2 * RAY * X <= 2 * (O * U) + RAY
    BY <1>1, RoundedProduct
<1>4. T * O \in Nat /\ w \in Nat /\ T * O < RAY * w + RAY
  <2>1. T * O \in Nat
    BY <1>1
  <2> QED BY <1>1, <2>1, DivProp
<1> HIDE DEF T, U, w
<1>5. T * (2 * RAY * X) <= T * (2 * (O * U) + RAY)
  <2>1. 2 * RAY * X \in Nat /\ 2 * (O * U) + RAY \in Nat
    BY <1>1
  <2> QED BY <1>1, <1>3, <2>1
<1>6. O * (2 * (T * U)) <= O * (2 * (D * RAY) + T)
  <2>1. 2 * (T * U) \in Nat /\ 2 * (D * RAY) + T \in Nat
    BY <1>1
  <2> QED BY <1>1, <1>2, <2>1
<1>7. /\ T * (2 * RAY * X) = RAY * (2 * (X * T))
      /\ T * (2 * (O * U) + RAY) = O * (2 * (T * U)) + RAY * T
      /\ O * (2 * (D * RAY) + T) = RAY * (2 * (D * O)) + T * O
  <2>1. T * (2 * RAY * X) = RAY * (2 * (X * T))
    BY <1>1
  <2>2. T * (2 * (O * U) + RAY) = O * (2 * (T * U)) + RAY * T
    BY <1>1
  <2>3. O * (2 * (D * RAY) + T) = RAY * (2 * (D * O)) + T * O
    BY <1>1
  <2> QED BY <2>1, <2>2, <2>3
<1>8. RAY * (2 * (D * O) + w + 1 + T) = RAY * (2 * (D * O)) + RAY * w + RAY + RAY * T
    BY <1>1, <1>4
<1>9. RAY * (2 * (X * T)) <= RAY * (2 * (D * O) + w + 1 + T)
  <2> DEFINE a == RAY * (2 * (X * T))
             b == O * (2 * (T * U))
             c == RAY * T
             d == RAY * (2 * (D * O))
             e == T * O
             f == RAY * w
  <2>1. a \in Nat /\ b \in Nat /\ c \in Nat /\ d \in Nat /\ e \in Nat /\ f \in Nat
    BY <1>1, <1>4
  <2>2. a <= b + c /\ b <= d + e /\ e < f + RAY
        /\ RAY * (2 * (D * O) + w + 1 + T) = d + f + RAY + c
    BY <1>4, <1>5, <1>6, <1>7, <1>8, Zenon
  <2> HIDE DEF a, b, c, d, e, f
  <2>3. a <= d + f + RAY + c
    BY <1>1, <2>1, <2>2
  <2> QED BY <2>2, <2>3 DEF a
<1>10. 2 * (X * T) \in Int /\ 2 * (D * O) + w + 1 + T \in Int
    BY <1>1, <1>4
<1>11. 2 * (X * T) <= 2 * (D * O) + w + 1 + T
    BY <1>1, <1>9, <1>10, CancelFactor
<1> QED BY <1>11 DEF T, w

\* What is left of it after the reserve factor, against what the debts are charged
\* each at its own rate.
LEMMA DepositorsShare ==
    ASSUME NEW S \in Nat, NEW V \in Nat, NEW L \in Nat, NEW v \in Nat, NEW avg \in Nat,
           NEW g \in 0 .. PERCENTAGE_FACTOR, NEW O \in Nat, NEW lr \in Nat, NEW w \in Nat,
           O = getOverallBorrowRate(S, V, v, avg),
           lr = percentMul(rayMul(O, utilizationRate(S + V, L)), g),
           w = ((L + (S + V)) * O) \div RAY
    PROVE  2 * (lr * (L + (S + V)) * PERCENTAGE_FACTOR)
             <= 2 * ((S * avg + V * v) * g)
                  + (2 * WAD + (S + V) + 2 * (L + (S + V)) + w + 1) * PERCENTAGE_FACTOR
<1> DEFINE D == S + V
           T == L + D
           X == rayMul(O, utilizationRate(D, L))
           B == S * avg + V * v
           F == PERCENTAGE_FACTOR
           K == 2 * WAD + D + w + 1 + T
<1>1. /\ D \in Nat /\ T \in Nat /\ B \in Nat /\ F \in Nat \ {0} /\ K \in Nat /\ g \in Nat /\ g <= F
      /\ RAY \in Nat /\ WAD \in Nat
  <2>1. S * avg \in Nat /\ V * v \in Nat
    OBVIOUS
  <2> QED BY <2>1, ScalePositive
<1>2. X \in Nat
  <2>1. utilizationRate(D, L) \in Nat
    BY <1>1, UtilizationRange, ScalePositive
  <2> QED BY <2>1, RoundedInNat
<1>3. 2 * (D * O) <= 2 * B + 2 * WAD + D
    BY OverallRateIsTheAverage
<1>4. 2 * (X * T) <= 2 * (D * O) + w + 1 + T
  <2>1. 2 * (X * T) <= 2 * (D * O) + ((L + D) * O) \div RAY + 1 + T
    BY <1>1, <1>2, UtilizationSharesTheRate
  <2> QED BY <2>1
<1>5. 2 * (F * lr) <= 2 * (X * g) + F
    BY <1>1, <1>2, RoundedPercentage
<1> HIDE DEF D, T, X, B, F, K
<1>6. 2 * (X * T) \in Nat /\ 2 * (D * O) \in Nat /\ 2 * B + K \in Nat
    BY <1>1, <1>2
<1>7. 2 * (X * T) <= 2 * B + K
    BY <1>1, <1>3, <1>4, <1>6 DEF K
<1>8. g * (2 * (X * T)) <= g * (2 * B + K)
    BY <1>1, <1>6, <1>7
<1>9. T * (2 * (F * lr)) <= T * (2 * (X * g) + F)
  <2>1. 2 * (F * lr) \in Nat /\ 2 * (X * g) + F \in Nat
    BY <1>1, <1>2
  <2> QED BY <1>1, <1>5, <2>1
<1>10. g * K <= K * F
  <2>1. g * K <= F * K
    BY <1>1, ProductMonotone
  <2> QED BY <1>1, <2>1
<1>11. T * (2 * (F * lr)) = 2 * (lr * T * F)
    BY <1>1
<1>12. T * (2 * (X * g) + F) = g * (2 * (X * T)) + T * F
    BY <1>1, <1>2
<1>13. g * (2 * B + K) = 2 * (B * g) + g * K
    BY <1>1
<1>14. (2 * WAD + D + 2 * T + w + 1) * F = K * F + T * F
  <2>1. 2 * WAD + D + 2 * T + w + 1 = K + T
    BY <1>1 DEF K
  <2> QED BY <1>1, <2>1
<1>15. 2 * (lr * T * F) <= 2 * (B * g) + (2 * WAD + D + 2 * T + w + 1) * F
  <2> DEFINE a == 2 * (lr * T * F)
             b == g * (2 * (X * T))
             c == T * F
             d == 2 * (B * g)
             e == g * K
             f == K * F
  <2>1. a \in Nat /\ b \in Nat /\ c \in Nat /\ d \in Nat /\ e \in Nat /\ f \in Nat
    BY <1>1, <1>2
  <2>2. a <= b + c /\ b <= d + e /\ e <= f
    BY <1>8, <1>9, <1>10, <1>11, <1>12, <1>13, Zenon
  <2> HIDE DEF a, b, c, d, e, f
  <2>3. a <= d + (f + c)
    BY <2>1, <2>2
  <2> QED BY <1>14, <2>3 DEF a, c, d, f
<1> QED BY <1>15 DEF D, T, B, F

\* In one unit of time depositors and the treasury are promised no more than the
\* borrowers are charged, but for the rounding, whatever the scale, the strategy,
\* the reserve factor and the split of the debts between the two rates.
THEOREM DepositorsArePaidByBorrowers == Spec => []DepositorsEarnWhatBorrowersPay
<1>1. InputOK => DepositorsEarnWhatBorrowersPay
  <2> SUFFICES ASSUME InputOK PROVE DepositorsEarnWhatBorrowersPay
    OBVIOUS
  <2>1. PICK S \in Nat : S = stableDebt
    BY DEF InputOK
  <2>2. PICK V \in Nat : V = variableDebt
    BY DEF InputOK
  <2>3. PICK L \in Nat : L = liquidity
    BY DEF InputOK
  <2>4. strategy \in Strategy /\ AverageStableRate \in Nat
        /\ PERCENTAGE_FACTOR - ReserveFactor \in 0 .. PERCENTAGE_FACTOR
    BY InstanceAssumption, ScalePositive
  <2>5. PICK u \in 0 .. RAY : u = utilizationRate(S + V, L)
    <3>1. S + V \in Nat
      OBVIOUS
    <3> QED BY <3>1, UtilizationRange
  <2>6. PICK v \in Nat : v = variableBorrowRate(strategy, u)
    BY <2>4, CurveType
  <2>7. PICK O \in Nat : O = getOverallBorrowRate(S, V, v, AverageStableRate)
    BY <2>4, OverallRateType
  <2>8. PICK g \in 0 .. PERCENTAGE_FACTOR : g = PERCENTAGE_FACTOR - ReserveFactor
    BY <2>4
  <2>9. PICK lr \in Nat : lr = percentMul(rayMul(O, u), g)
    <3>1. u \in Nat /\ g \in Nat
      BY ScalePositive
    <3>2. rayMul(O, u) \in Nat
      BY <3>1, RoundedInNat
    <3>3. percentMul(rayMul(O, u), g) \in Nat
      BY <3>1, <3>2, RoundedInNat
    <3> QED BY <3>3
  <2>10. PICK w \in Nat : w = ((L + (S + V)) * O) \div RAY
    <3>1. (L + (S + V)) * O \in Nat
      OBVIOUS
    <3> QED BY <3>1, DivProp, ScalePositive
  <2>11. rates.variable = v /\ rates.liquidity = lr
    BY <2>1, <2>2, <2>3, <2>5, <2>6, <2>7, <2>8, <2>9 DEF rates, calculateInterestRates
  <2>12. 2 * (lr * (L + (S + V)) * PERCENTAGE_FACTOR)
           <= 2 * ((S * AverageStableRate + V * v) * g)
                + (2 * WAD + (S + V) + 2 * (L + (S + V)) + w + 1) * PERCENTAGE_FACTOR
    BY <2>4, <2>5, <2>7, <2>9, <2>10, DepositorsShare
  <2> QED BY <2>1, <2>2, <2>3, <2>7, <2>8, <2>10, <2>11, <2>12 DEF DepositorsEarnWhatBorrowersPay
<1> QED BY <1>1, InputsHold, PTL

=============================================================================
