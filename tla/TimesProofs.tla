---------------------------- MODULE TimesProofs ----------------------------
(***************************************************************************)
(* What Times says of the conversions of timestamps, proved for integers   *)
(* of any width and for any number of nanoseconds in a second. Products    *)
(* with NANOS_PER_SECOND are not linear: MultiplesAreApart is the one fact *)
(* about them, everything after it adds and compares.                      *)
(***************************************************************************)
EXTENDS Times, TLAPS

LEMMA MultiplesAreApart ==
    ASSUME NEW a \in Int, NEW b \in Int
    PROVE  /\ a * NANOS_PER_SECOND \in Int /\ b * NANOS_PER_SECOND \in Int
           /\ a < b => a * NANOS_PER_SECOND + NANOS_PER_SECOND <= b * NANOS_PER_SECOND
           /\ (-a) * NANOS_PER_SECOND = -(a * NANOS_PER_SECOND)
           /\ (a - 1) * NANOS_PER_SECOND = a * NANOS_PER_SECOND - NANOS_PER_SECOND
<1>1. NANOS_PER_SECOND \in Nat \ {0}
  BY TimesAssumption
<1>2. ASSUME a < b
      PROVE  a * NANOS_PER_SECOND + NANOS_PER_SECOND <= b * NANOS_PER_SECOND
  <2>1. b - a - 1 \in Nat
    BY <1>2
  <2>2. \A k \in Nat : k * NANOS_PER_SECOND \in Nat
    BY <1>1, SMT
  <2>3. (b - a - 1) * NANOS_PER_SECOND
            = b * NANOS_PER_SECOND - a * NANOS_PER_SECOND - NANOS_PER_SECOND
    BY <1>1, SMT
  <2>4. (b - a - 1) * NANOS_PER_SECOND \in Nat
    BY <2>1, <2>2
  <2> QED BY <1>1, <2>3, <2>4, SMT
<1> QED BY <1>1, <1>2, SMT

LEMMA DivisionIsEuclid ==
    ASSUME NEW x \in Int
    PROVE  /\ x \div NANOS_PER_SECOND \in Int
           /\ (x \div NANOS_PER_SECOND) * NANOS_PER_SECOND <= x
           /\ x < (x \div NANOS_PER_SECOND) * NANOS_PER_SECOND + NANOS_PER_SECOND
  BY TimesAssumption, SMT

LEMMA QuotientIsTruncation ==
    ASSUME NEW x \in Int
    PROVE  /\ Quotient(x) \in Int
           /\ Quotient(x) * NANOS_PER_SECOND \in Int
           /\ x >= 0 => /\ Quotient(x) * NANOS_PER_SECOND <= x
                        /\ x < Quotient(x) * NANOS_PER_SECOND + NANOS_PER_SECOND
           /\ x < 0 =>  /\ x <= Quotient(x) * NANOS_PER_SECOND
                        /\ Quotient(x) * NANOS_PER_SECOND - NANOS_PER_SECOND < x
<1>1. NANOS_PER_SECOND \in Int
  BY TimesAssumption
<1>2. CASE x >= 0
  <2>1. Quotient(x) = x \div NANOS_PER_SECOND
    BY <1>2 DEF Quotient
  <2> QED BY <1>1, <1>2, <2>1, DivisionIsEuclid, MultiplesAreApart
<1>3. CASE x < 0
  <2> DEFINE q == (-x) \div NANOS_PER_SECOND
  <2>1. /\ q \in Int
        /\ q * NANOS_PER_SECOND <= -x
        /\ -x < q * NANOS_PER_SECOND + NANOS_PER_SECOND
    BY <1>3, DivisionIsEuclid
  <2>2. Quotient(x) = -q
    BY <1>3 DEF Quotient
  <2> HIDE DEF q
  <2>3. Quotient(x) * NANOS_PER_SECOND = -(q * NANOS_PER_SECOND)
    BY <2>1, <2>2, MultiplesAreApart
  <2>4. q * NANOS_PER_SECOND \in Int
    BY <2>1, MultiplesAreApart
  <2> QED BY <1>1, <1>3, <2>1, <2>2, <2>3, <2>4
<1> QED BY <1>2, <1>3

\* The last whole second that can be stored, on both sides.
LEMMA Limits ==
    /\ INT64_MAX \in Nat /\ INT64_MIN \in Int /\ INT64_MIN = -INT64_MAX - 1
    /\ Quotient(INT64_MAX) \in Nat
    /\ Quotient(INT64_MIN) = -Quotient(INT64_MAX)
    /\ Quotient(INT64_MAX) * NANOS_PER_SECOND <= INT64_MAX
    /\ INT64_MAX + 1 < Quotient(INT64_MAX) * NANOS_PER_SECOND + NANOS_PER_SECOND
    /\ Quotient(INT64_MIN) * NANOS_PER_SECOND = -(Quotient(INT64_MAX) * NANOS_PER_SECOND)
    /\ Quotient(INT64_MAX) * NANOS_PER_SECOND \in Nat
<1> DEFINE q == INT64_MAX \div NANOS_PER_SECOND
<1>1. NANOS_PER_SECOND \in Nat \ {0} /\ INT64_MAX \in Nat
  BY TimesAssumption
<1>2. q \in Nat /\ q * NANOS_PER_SECOND \in Nat
  BY <1>1, SMT
<1>3. q * NANOS_PER_SECOND <= INT64_MAX /\ INT64_MAX < q * NANOS_PER_SECOND + NANOS_PER_SECOND
  BY <1>1, DivisionIsEuclid
<1>4. INT64_MAX + 1 # q * NANOS_PER_SECOND + NANOS_PER_SECOND
  <2>1. SUFFICES ASSUME INT64_MAX + 1 = q * NANOS_PER_SECOND + NANOS_PER_SECOND
                 PROVE  FALSE
    OBVIOUS
  <2>2. INT64_MAX + 1 = (q + 1) * NANOS_PER_SECOND
    BY <1>1, <1>2, <2>1, SMT
  <2>3. \A k \in Nat : (k * NANOS_PER_SECOND) % NANOS_PER_SECOND = 0
    BY <1>1, SMT
  <2>4. q + 1 \in Nat
    BY <1>2
  <2>5. ((q + 1) * NANOS_PER_SECOND) % NANOS_PER_SECOND = 0
    BY <2>3, <2>4
  <2> QED BY <2>2, <2>5, TimesAssumption
<1>5. (INT64_MAX + 1) \div NANOS_PER_SECOND = q
  <2> DEFINE p == (INT64_MAX + 1) \div NANOS_PER_SECOND
  <2>1. /\ p \in Int
        /\ p * NANOS_PER_SECOND <= INT64_MAX + 1
        /\ INT64_MAX + 1 < p * NANOS_PER_SECOND + NANOS_PER_SECOND
    BY <1>1, DivisionIsEuclid
  <2> HIDE DEF p, q
  <2>2. INT64_MAX + 1 < q * NANOS_PER_SECOND + NANOS_PER_SECOND
    BY <1>1, <1>2, <1>3, <1>4
  <2>3. ~(p < q)
    BY <1>1, <1>2, <1>3, <2>1, MultiplesAreApart
  <2>4. ~(q < p)
    BY <1>1, <1>2, <2>1, <2>2, MultiplesAreApart
  <2>5. p = q
    BY <1>2, <2>1, <2>3, <2>4
  <2> QED BY <2>5 DEF p
<1>6. Quotient(INT64_MAX) = q
  BY <1>1 DEF Quotient
<1>7. Quotient(INT64_MIN) = -q
  <2>1. INT64_MIN = -INT64_MAX - 1 /\ ~(INT64_MIN >= 0) /\ -INT64_MIN = INT64_MAX + 1
    BY <1>1 DEF INT64_MIN
  <2> QED BY <1>5, <2>1 DEF Quotient
<1> HIDE DEF q
<1>8. INT64_MIN \in Int /\ INT64_MIN = -INT64_MAX - 1
  BY <1>1 DEF INT64_MIN
<1>9. (-q) * NANOS_PER_SECOND = -(q * NANOS_PER_SECOND)
  BY <1>2, MultiplesAreApart
<1> QED BY <1>1, <1>2, <1>3, <1>4, <1>6, <1>7, <1>8, <1>9

\* The inputs, for the leaves below: each conversion as sums and comparisons.
LEMMA TimespecParts ==
    ASSUME NEW tp \in Timespec
    PROVE  /\ tp.sec \in Int /\ tp.nsec \in Nat /\ tp.nsec < NANOS_PER_SECOND
           /\ NANOS_PER_SECOND \in Nat
           /\ tp.sec * NANOS_PER_SECOND \in Int
           /\ tp.sec < Quotient(INT64_MAX) =>
                 tp.sec * NANOS_PER_SECOND + NANOS_PER_SECOND
                     <= Quotient(INT64_MAX) * NANOS_PER_SECOND
           /\ tp.sec > Quotient(INT64_MIN) =>
                 Quotient(INT64_MIN) * NANOS_PER_SECOND + NANOS_PER_SECOND
                     <= tp.sec * NANOS_PER_SECOND
           /\ tp.sec >= 0 => tp.sec * NANOS_PER_SECOND >= 0
           /\ tp.sec < 0 => tp.sec * NANOS_PER_SECOND + NANOS_PER_SECOND <= 0
<1>1. /\ NANOS_PER_SECOND \in Nat /\ tp.sec \in Int
      /\ tp.nsec \in Nat /\ tp.nsec < NANOS_PER_SECOND
  BY TimesAssumption, Limits DEF Timespec, Int64
<1>2. tp.sec >= 0 => tp.sec * NANOS_PER_SECOND >= 0
  BY <1>1, SMT
<1>3. tp.sec < 0 => tp.sec * NANOS_PER_SECOND + NANOS_PER_SECOND <= 0
  <2>1. 0 * NANOS_PER_SECOND = 0
    BY <1>1
  <2> QED BY <1>1, <2>1, MultiplesAreApart
<1> QED BY <1>1, <1>2, <1>3, Limits, MultiplesAreApart

\* No number that timespec_to_nanos() computes after the tests that guard it leaves
\* the range of int64_t, and nor does what it returns. (sqlfs.c:411)
THEOREM ConversionNeverOverflows == NoOverflow
<1>1. SUFFICES ASSUME NEW tp \in Timespec
               PROVE  LET product == tp.sec * NANOS_PER_SECOND
                      IN  /\ tp.sec >= 0 /\ tp.sec <= Quotient(INT64_MAX) =>
                               product \in Int64 /\ INT64_MAX - product \in Int64
                          /\ tp.sec < 0 /\ tp.sec >= Quotient(INT64_MIN) =>
                               product \in Int64 /\ INT64_MIN - product \in Int64
                          /\ TimespecToNanos(tp) \in Int64
  BY DEF NoOverflow
<1> DEFINE product == tp.sec * NANOS_PER_SECOND
<1> DEFINE most == Quotient(INT64_MAX) * NANOS_PER_SECOND
<1>2. /\ product \in Int /\ most \in Nat /\ tp.nsec \in Nat
      /\ NANOS_PER_SECOND \in Nat /\ tp.nsec < NANOS_PER_SECOND
      /\ tp.sec >= 0 => product >= 0
      /\ tp.sec < 0 => product + NANOS_PER_SECOND <= 0
      /\ INT64_MIN = -INT64_MAX - 1 /\ INT64_MAX \in Nat /\ most <= INT64_MAX
  BY Limits, TimespecParts
<1>3. tp.sec <= Quotient(INT64_MAX) => product <= most
  BY Limits, TimespecParts
<1>4. tp.sec >= Quotient(INT64_MIN) => product >= -most
  BY Limits, TimespecParts
<1>5. tp.sec \in Int /\ Quotient(INT64_MAX) \in Int /\ Quotient(INT64_MIN) \in Int
  BY Limits, TimespecParts
<1>6. TimespecToNanos(tp) \in Int64
  <2>1. INT64_MAX \in Int64 /\ INT64_MIN \in Int64
    BY <1>2 DEF Int64
  <2>2. CASE tp.sec >= 0 /\ ~TooLate(tp)
    <3>1. TimespecToNanos(tp) = product + tp.nsec
      BY <1>5, <2>2 DEF TimespecToNanos
    <3>2. product + tp.nsec <= INT64_MAX
      BY <1>2, <2>2 DEF TooLate
    <3> HIDE DEF product
    <3> QED BY <1>2, <2>2, <3>1, <3>2 DEF Int64
  <2>3. CASE tp.sec < 0 /\ ~TooEarly(tp)
    <3>1. TimespecToNanos(tp) = product + tp.nsec
      BY <1>5, <2>3 DEF TimespecToNanos
    <3>2. product + tp.nsec >= INT64_MIN
      BY <1>2, <2>3 DEF TooEarly
    <3> HIDE DEF product
    <3> QED BY <1>2, <2>3, <3>1, <3>2 DEF Int64
  <2>4. CASE tp.sec >= 0 /\ TooLate(tp)
    BY <2>1, <2>4 DEF TimespecToNanos
  <2>5. CASE tp.sec < 0 /\ TooEarly(tp)
    BY <1>5, <2>1, <2>5 DEF TimespecToNanos
  <2> QED BY <1>5, <2>2, <2>3, <2>4, <2>5
<1> HIDE DEF product, most
<1>7. tp.sec >= 0 /\ tp.sec <= Quotient(INT64_MAX) =>
          product \in Int64 /\ INT64_MAX - product \in Int64
  BY <1>2, <1>3 DEF Int64
<1>8. tp.sec < 0 /\ tp.sec >= Quotient(INT64_MIN) =>
          product \in Int64 /\ INT64_MIN - product \in Int64
  BY <1>2, <1>4 DEF Int64
<1> QED BY <1>6, <1>7, <1>8 DEF product

\* nanos_to_timespec() keeps the value, and tv_nsec is never negative or a whole
\* second, for times before 1970 either. (sqlfs.c:430)
THEOREM TimesAreNormal == TimespecIsNormal
<1>1. SUFFICES ASSUME NEW n \in Int64
               PROVE  LET tp == NanosToTimespec(n)
                      IN  /\ tp \in Timespec
                          /\ tp.sec * NANOS_PER_SECOND + tp.nsec = n
  BY DEF TimespecIsNormal
<1> DEFINE q == Quotient(n)
<1> DEFINE r == n - q * NANOS_PER_SECOND
<1>2. /\ q \in Int /\ r \in Int /\ n \in Int
      /\ n >= 0 => r >= 0 /\ r < NANOS_PER_SECOND
      /\ n < 0 => r <= 0 /\ r + NANOS_PER_SECOND > 0
      /\ n = q * NANOS_PER_SECOND + r
      /\ (q - 1) * NANOS_PER_SECOND = q * NANOS_PER_SECOND - NANOS_PER_SECOND
      /\ q * NANOS_PER_SECOND \in Int
      /\ NANOS_PER_SECOND \in Nat \ {0}
      /\ Remainder(n) = r
  <2>1. n \in Int
    BY Limits DEF Int64
  <2> QED BY <2>1, QuotientIsTruncation, MultiplesAreApart, TimesAssumption DEF Remainder
<1>3. q \in Int64 /\ (r < 0 => q - 1 \in Int64)
  <2>1. INT64_MIN <= n /\ n <= INT64_MAX /\ INT64_MAX \in Nat /\ INT64_MIN = -INT64_MAX - 1
    BY Limits DEF Int64
  <2>2. q >= 0 => q * NANOS_PER_SECOND >= q
    <3>1. \A k \in Nat : k * NANOS_PER_SECOND >= k
      BY <1>2, SMT
    <3> QED BY <1>2, <3>1
  <2>3. q < 0 => q * NANOS_PER_SECOND <= q
    <3>1. \A k \in Nat : k * NANOS_PER_SECOND >= k
      BY <1>2, SMT
    <3>2. (-q) * NANOS_PER_SECOND = -(q * NANOS_PER_SECOND)
      BY <1>2, MultiplesAreApart
    <3>3. q < 0 => (-q) * NANOS_PER_SECOND >= -q
      BY <1>2, <3>1
    <3> HIDE DEF q
    <3> QED BY <1>2, <3>2, <3>3
  <2> HIDE DEF q, r
  <2>4. q >= 0 => q <= INT64_MAX
    BY <1>2, <2>1, <2>2
  <2>5. q < 0 => q >= INT64_MIN
    BY <1>2, <2>1, <2>3
  <2>6. r < 0 => q - 1 >= INT64_MIN
    <3>1. CASE q >= 0
      BY <1>2, <2>1, <3>1
    <3>2. CASE q < 0
      BY <1>2, <2>1, <2>3, <3>2
    <3> QED BY <1>2, <3>1, <3>2
  <2> QED BY <1>2, <2>1, <2>4, <2>5, <2>6 DEF Int64
<1> HIDE DEF q, r
<1>4. CASE r < 0
  <2>1. NanosToTimespec(n) = [sec |-> q - 1, nsec |-> r + NANOS_PER_SECOND]
    BY <1>2, <1>4 DEF NanosToTimespec, q
  <2>2. r + NANOS_PER_SECOND \in 0..(NANOS_PER_SECOND - 1)
    BY <1>2, <1>4
  <2>3. (q - 1) * NANOS_PER_SECOND + (r + NANOS_PER_SECOND) = n
    BY <1>2
  <2> QED BY <1>3, <1>4, <2>1, <2>2, <2>3 DEF Timespec
<1>5. CASE r >= 0
  <2>1. NanosToTimespec(n) = [sec |-> q, nsec |-> r]
    BY <1>2, <1>5 DEF NanosToTimespec, q
  <2>2. r \in 0..(NANOS_PER_SECOND - 1)
    BY <1>2, <1>5
  <2> QED BY <1>2, <1>3, <2>1, <2>2 DEF Timespec
<1> QED BY <1>2, <1>4, <1>5

\* The tests of timespec_to_nanos(), in terms of the exact number of nanoseconds.
LEMMA WhatIsTooLate ==
    ASSUME NEW tp \in Timespec, tp.sec >= 0
    PROVE  TooLate(tp) <=> tp.sec * NANOS_PER_SECOND + tp.nsec > INT64_MAX
<1>1. tp.sec > Quotient(INT64_MAX) => tp.sec * NANOS_PER_SECOND > INT64_MAX
  <2>1. tp.sec > Quotient(INT64_MAX) =>
          Quotient(INT64_MAX) * NANOS_PER_SECOND + NANOS_PER_SECOND
              <= tp.sec * NANOS_PER_SECOND
    <3>1. tp.sec \in Int /\ Quotient(INT64_MAX) \in Int
      BY Limits, TimespecParts
    <3> QED BY <3>1, MultiplesAreApart
  <2> QED BY <2>1, Limits, TimespecParts
<1> QED BY <1>1, Limits, TimespecParts DEF TooLate

LEMMA WhatIsTooEarly ==
    ASSUME NEW tp \in Timespec, tp.sec < 0
    PROVE  /\ TooEarly(tp) <=> tp.sec < Quotient(INT64_MIN)
           /\ tp.sec < Quotient(INT64_MIN) <=>
                  tp.sec * NANOS_PER_SECOND + tp.nsec
                      < Quotient(INT64_MIN) * NANOS_PER_SECOND
<1>1. tp.sec < Quotient(INT64_MIN) =>
          tp.sec * NANOS_PER_SECOND + NANOS_PER_SECOND
              <= Quotient(INT64_MIN) * NANOS_PER_SECOND
  <2>1. tp.sec \in Int /\ Quotient(INT64_MIN) \in Int
    BY Limits, TimespecParts
  <2> QED BY <2>1, MultiplesAreApart
<1>2. tp.sec >= Quotient(INT64_MIN) =>
          tp.sec * NANOS_PER_SECOND >= Quotient(INT64_MIN) * NANOS_PER_SECOND
  BY Limits, TimespecParts
<1>3. INT64_MIN <= Quotient(INT64_MIN) * NANOS_PER_SECOND
  BY Limits
<1>4. /\ tp.sec \in Int /\ Quotient(INT64_MIN) \in Int /\ INT64_MIN \in Int
      /\ tp.nsec \in Nat /\ tp.nsec < NANOS_PER_SECOND /\ NANOS_PER_SECOND \in Nat
      /\ tp.sec * NANOS_PER_SECOND \in Int
      /\ Quotient(INT64_MIN) * NANOS_PER_SECOND \in Int
  BY Limits, TimespecParts
<1> QED BY <1>1, <1>2, <1>3, <1>4 DEF TooEarly

\* What timespec_to_nanos() returns, by cases that exclude each other.
LEMMA WhatIsStored ==
    ASSUME NEW tp \in Timespec
    PROVE  LET exact == tp.sec * NANOS_PER_SECOND + tp.nsec
               first == Quotient(INT64_MIN) * NANOS_PER_SECOND
           IN  /\ exact \in Int /\ first \in Int
               /\ INT64_MIN <= first /\ first <= 0
               /\ exact < first => TimespecToNanos(tp) = INT64_MIN
               /\ exact > INT64_MAX => TimespecToNanos(tp) = INT64_MAX
               /\ exact >= first /\ exact <= INT64_MAX => TimespecToNanos(tp) = exact
<1> DEFINE exact == tp.sec * NANOS_PER_SECOND + tp.nsec
<1> DEFINE first == Quotient(INT64_MIN) * NANOS_PER_SECOND
<1>1. /\ exact \in Int /\ first \in Int /\ INT64_MIN <= first /\ first <= 0
      /\ tp.sec \in Int /\ INT64_MAX \in Nat
  BY Limits, TimespecParts
<1>2. CASE tp.sec >= 0
  <2>1. exact >= 0
    BY <1>2, TimespecParts
  <2>2. TooLate(tp) <=> exact > INT64_MAX
    BY <1>2, WhatIsTooLate
  <2>3. TimespecToNanos(tp) = IF TooLate(tp) THEN INT64_MAX ELSE exact
    BY <1>1, <1>2 DEF TimespecToNanos
  <2> HIDE DEF exact, first
  <2> QED BY <1>1, <2>1, <2>2, <2>3 DEF exact, first
<1>3. CASE tp.sec < 0
  <2>1. exact < 0
    BY <1>3, TimespecParts
  <2>2. TooEarly(tp) <=> exact < first
    BY <1>3, WhatIsTooEarly
  <2>3. TimespecToNanos(tp) = IF TooEarly(tp) THEN INT64_MIN ELSE exact
    BY <1>1, <1>3 DEF TimespecToNanos
  <2> HIDE DEF exact, first
  <2> QED BY <1>1, <2>1, <2>2, <2>3 DEF exact, first
<1> QED BY <1>1, <1>2, <1>3

\* Clamping keeps the order of times: of two files, the one that was changed later
\* is never shown as the older one. (sqlfs.c:411)
THEOREM OrderIsPreserved == OrderIsKept
<1>1. SUFFICES ASSUME NEW t \in Timespec, NEW u \in Timespec,
                      t.sec < u.sec \/ (t.sec = u.sec /\ t.nsec <= u.nsec)
               PROVE  TimespecToNanos(t) <= TimespecToNanos(u)
  BY DEF OrderIsKept
<1> DEFINE a == t.sec * NANOS_PER_SECOND + t.nsec
<1> DEFINE b == u.sec * NANOS_PER_SECOND + u.nsec
<1> DEFINE first == Quotient(INT64_MIN) * NANOS_PER_SECOND
<1>2. a <= b
  <2>1. t.sec \in Int /\ u.sec \in Int
    BY TimespecParts
  <2>2. t.sec < u.sec =>
          t.sec * NANOS_PER_SECOND + NANOS_PER_SECOND <= u.sec * NANOS_PER_SECOND
    BY <2>1, MultiplesAreApart
  <2>3. /\ t.sec * NANOS_PER_SECOND \in Int /\ u.sec * NANOS_PER_SECOND \in Int
        /\ t.nsec \in Nat /\ u.nsec \in Nat
        /\ t.nsec < NANOS_PER_SECOND /\ NANOS_PER_SECOND \in Nat
    BY TimespecParts
  <2> QED BY <1>1, <2>1, <2>2, <2>3
<1>3. /\ a \in Int /\ b \in Int /\ first \in Int
      /\ INT64_MIN \in Int /\ INT64_MAX \in Int
      /\ INT64_MIN <= first /\ first <= INT64_MAX
  BY Limits, WhatIsStored
<1>4. /\ a < first => TimespecToNanos(t) = INT64_MIN
      /\ a > INT64_MAX => TimespecToNanos(t) = INT64_MAX
      /\ a >= first /\ a <= INT64_MAX => TimespecToNanos(t) = a
  BY WhatIsStored
<1>5. /\ b < first => TimespecToNanos(u) = INT64_MIN
      /\ b > INT64_MAX => TimespecToNanos(u) = INT64_MAX
      /\ b >= first /\ b <= INT64_MAX => TimespecToNanos(u) = b
  BY WhatIsStored
<1> HIDE DEF a, b, first
<1> QED BY <1>2, <1>3, <1>4, <1>5

\* A stored time comes back as it was, except in the last part of a second before the
\* beginning of the range: there it comes back as the beginning. (sqlfs.c:418, 430)
THEOREM RoundTripIsExact == ExactFromLastWholeSecond
<1>1. SUFFICES ASSUME NEW n \in Int64
               PROVE  TimespecToNanos(NanosToTimespec(n)) =
                          IF n >= Quotient(INT64_MIN) * NANOS_PER_SECOND
                          THEN n ELSE INT64_MIN
  BY DEF ExactFromLastWholeSecond
<1> DEFINE tp == NanosToTimespec(n)
<1>2. tp \in Timespec /\ tp.sec * NANOS_PER_SECOND + tp.nsec = n
  BY TimesAreNormal DEF TimespecIsNormal
<1>3. n \in Int /\ n <= INT64_MAX /\ INT64_MAX \in Int
  BY Limits DEF Int64
<1> HIDE DEF tp
<1>4. LET first == Quotient(INT64_MIN) * NANOS_PER_SECOND
      IN  /\ first \in Int
          /\ n < first => TimespecToNanos(tp) = INT64_MIN
          /\ n >= first /\ n <= INT64_MAX => TimespecToNanos(tp) = n
  BY <1>2, WhatIsStored
<1> QED BY <1>3, <1>4 DEF tp

\* sqlfs_set_attr() writes back the time it has read when it is not asked to change
\* it: chmod and chown never move a time that was stored before, however early or
\* late. (sqlfs.c:1777, 589)
THEOREM StoredTimesStay == TimesAreKept
<1>1. SUFFICES ASSUME NEW tp \in Timespec
               PROVE  Stored(Stored(tp)) = Stored(tp)
  BY DEF TimesAreKept
<1> DEFINE n == TimespecToNanos(tp)
<1> DEFINE first == Quotient(INT64_MIN) * NANOS_PER_SECOND
<1>2. n \in Int64
  BY ConversionNeverOverflows DEF NoOverflow
<1>3. /\ first \in Int /\ n \in Int
      /\ n < first => n = INT64_MIN
  BY <1>2, Limits, WhatIsStored DEF Int64
<1>4. TimespecToNanos(NanosToTimespec(n)) = IF n >= first THEN n ELSE INT64_MIN
  BY <1>2, RoundTripIsExact DEF ExactFromLastWholeSecond
<1>5. TimespecToNanos(NanosToTimespec(n)) = n
  BY <1>3, <1>4
<1> QED BY <1>5 DEF Stored
=============================================================================
