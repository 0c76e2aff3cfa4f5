------------------------------- MODULE Times -------------------------------
(***************************************************************************)
(* The conversions of data/time.rs between durations, the timestamps of a  *)
(* stream and numbers of samples: products and quotients of 64-bit         *)
(* integers, which wrap as in a release build.  A duration is a number of  *)
(* microseconds; the reader seeks to, and the view's cache is made for,    *)
(* what they return.                                                       *)
(***************************************************************************)
EXTENDS Integers

CONSTANTS
    Second,      \* microseconds of a second
    Half,        \* 2^63: the integers of 64 bits are modulo its double
    TimeBases,   \* AVStream::time_base
    Timestamps,  \* AVStream::duration, and the timestamps of its frames
    Durations,   \* what is asked for
    Rates        \* sample rates

ASSUME WidthAssumption == Second \in Nat \ {0} /\ Half \in Nat \ {0}
ASSUME TimeAssumption ==
    /\ TimeBases \subseteq [num : Nat \ {0}, den : Nat \ {0}]
    /\ Timestamps \subseteq Nat /\ Durations \subseteq Nat /\ Rates \subseteq Nat \ {0}

VARIABLE last  \* the last of these calls: its arguments and what came of it

U64(x) == x % (2 * Half)
I64(x) == IF U64(x) < Half THEN U64(x) ELSE U64(x) - 2 * Half

\* Mutated form of ts_to_duration: whole seconds only.
ts_to_duration_seconds(base, timestamp) ==
    U64((U64(U64(timestamp) * base.num) \div base.den) * Second)

ts_to_duration(base, timestamp) ==
    U64(U64(timestamp) * base.num * Second) \div base.den

\* A quotient of signed integers is rounded toward zero.
Quotient(a, b) == IF a >= 0 THEN a \div b ELSE -((-a) \div b)

duration_to_ts(base, duration) ==
    Quotient(I64(I64(duration) * base.den), base.num * Second)

\* Mutated form of ts_to_samples: rounded up.
ts_to_samples_up(duration, rate) == (U64(U64(duration) * rate) \div Second) + 1

ts_to_samples(duration, rate) == U64(U64(duration) * rate) \div Second

samples_to_ts(n_samples, rate) == U64(n_samples * Second) \div rate

TimesInit == last = [of |-> "nothing"]

\* Reader::seek, to the time of a frame as its stream tells it.
Seek(base, timestamp) ==
    LET time == ts_to_duration(base, timestamp)
    IN  last' = [of |-> "seek", base |-> base, frame |-> timestamp,
                 found |-> duration_to_ts(base, time)]

\* MediaView::new: the samples of each of two channels.
MakeCache(duration, rate) ==
    last' = [of |-> "cache", duration |-> duration, rate |-> rate,
             samples |-> ts_to_samples(duration, rate)]

TimesNext ==
    \/ \E base \in TimeBases, timestamp \in Timestamps : Seek(base, timestamp)
    \/ \E duration \in Durations, rate \in Rates : MakeCache(duration, rate)

TimesSpec == TimesInit /\ [][TimesNext]_last

-----------------------------------------------------------------------------
(***************************************************************************)
(* Correctness                                                             *)
(***************************************************************************)
\* How a seek to the time of a frame may go: to the frame or less than a tick
\* and a microsecond before it.
Close(base, frame, found) ==
    /\ found <= frame
    /\ (frame - found - 1) * base.num * Second < base.den

\* A seek to the time of a frame, as the stream's time base gives it, goes to
\* the frame and never behind it: both conversions round down, so that what is
\* missed is less than a tick and a microsecond (Stream::duration,
\* Reader::seek), as long as the products fit.
SeeksBack ==
    last.of = "seek" /\ last.frame * last.base.num * Second < Half =>
        Close(last.base, last.frame, last.found)

\* How long a cache may last: as long as asked for, less by less than a sample
\* and a microsecond.
Lasts(duration, rate, samples) ==
    LET lasts == samples_to_ts(samples, rate)
    IN  lasts <= duration /\ (duration - lasts - 1) * rate < Second

\* A cache made for a duration never lasts longer, nor less by more than a
\* sample and a microsecond (MediaView::new, ts_to_samples).
CacheLasts ==
    last.of = "cache" /\ last.duration * last.rate < 2 * Half =>
        Lasts(last.duration, last.rate, last.samples)
=============================================================================
