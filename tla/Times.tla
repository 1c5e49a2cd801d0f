------------------------------- MODULE Times -------------------------------
(***************************************************************************)
(* The timestamps of sqlfs.c: a struct timespec, and the 64-bit number of  *)
(* nanoseconds that is stored for it. There is no state: the module holds  *)
(* the two conversions and what is expected of them, for a number of any   *)
(* width and a second of any number of parts.                              *)
(***************************************************************************)
EXTENDS Integers

CONSTANTS NANOS_PER_SECOND, INT64_MAX

\* The range of the integers does not end with a whole second: in the code,
\* 2^63 - 1 is 9223372036 seconds and 854775807 nanoseconds.
ASSUME TimesAssumption ==
    /\ NANOS_PER_SECOND \in Nat \ {0}
    /\ INT64_MAX \in Nat
    /\ (INT64_MAX + 1) % NANOS_PER_SECOND # 0

INT64_MIN == -INT64_MAX - 1
Int64 == INT64_MIN .. INT64_MAX
Timespec == [sec : Int64, nsec : 0..(NANOS_PER_SECOND - 1)]

\* C's / and % by NANOS_PER_SECOND, which round towards zero.
Quotient(x) == IF x >= 0 THEN x \div NANOS_PER_SECOND
               ELSE -((-x) \div NANOS_PER_SECOND)
Remainder(x) == x - Quotient(x) * NANOS_PER_SECOND

\* The tests of timespec_to_nanos() for a time that cannot be stored.
TooLate(tp) == \/ tp.sec > Quotient(INT64_MAX)
               \/ INT64_MAX - tp.sec * NANOS_PER_SECOND < tp.nsec
TooEarly(tp) == \/ tp.sec < Quotient(INT64_MIN)
                \/ INT64_MIN - tp.sec * NANOS_PER_SECOND > tp.nsec

TimespecToNanos(tp) ==
    IF tp.sec >= 0 /\ TooLate(tp) THEN INT64_MAX
    ELSE IF tp.sec < 0 /\ TooEarly(tp) THEN INT64_MIN
    ELSE tp.sec * NANOS_PER_SECOND + tp.nsec

NanosToTimespec(n) ==
    IF Remainder(n) < 0
    THEN [sec |-> Quotient(n) - 1, nsec |-> Remainder(n) + NANOS_PER_SECOND]
    ELSE [sec |-> Quotient(n), nsec |-> Remainder(n)]

\* A time that is stored and read back.
Stored(tp) == NanosToTimespec(TimespecToNanos(tp))

-----------------------------------------------------------------------------

\* No number that timespec_to_nanos() computes after the tests that guard it leaves
\* the range of int64_t (signed overflow is undefined); nor does its result.
NoOverflow ==
    \A tp \in Timespec :
        LET product == tp.sec * NANOS_PER_SECOND
        IN  /\ tp.sec >= 0 /\ tp.sec <= Quotient(INT64_MAX) =>
                 product \in Int64 /\ INT64_MAX - product \in Int64
            /\ tp.sec < 0 /\ tp.sec >= Quotient(INT64_MIN) =>
                 product \in Int64 /\ INT64_MIN - product \in Int64
            /\ TimespecToNanos(tp) \in Int64

\* nanos_to_timespec() keeps the value, and tv_nsec is never negative or a whole
\* second, for times before 1970 either.
TimespecIsNormal ==
    \A n \in Int64 :
        LET tp == NanosToTimespec(n)
        IN  /\ tp \in Timespec
            /\ tp.sec * NANOS_PER_SECOND + tp.nsec = n

\* Clamping keeps the order of times: of two files, the one that was changed later
\* is never shown as the older one.
OrderIsKept ==
    \A t \in Timespec, u \in Timespec :
        t.sec < u.sec \/ (t.sec = u.sec /\ t.nsec <= u.nsec) =>
            TimespecToNanos(t) <= TimespecToNanos(u)

\* The stored times that come back as they were. Those of the last part of a second
\* that int64_t can hold do not: C rounds INT64_MIN/NANOS_PER_SECOND towards zero, and
\* the test on tv_sec in timespec_to_nanos() takes them all for too early.
ExactFromLastWholeSecond ==
    \A n \in Int64 :
        TimespecToNanos(NanosToTimespec(n)) =
            IF n >= Quotient(INT64_MIN) * NANOS_PER_SECOND THEN n ELSE INT64_MIN

\* sqlfs_set_attr() writes back the time it has read when it is not asked to change
\* it: chmod and chown never move a time that was stored before, however early or late.
TimesAreKept ==
    \A tp \in Timespec : Stored(Stored(tp)) = Stored(tp)
=============================================================================
