---------------------------- MODULE TimesProofs ----------------------------
(***************************************************************************)
(* Proofs about Times, for every time base and rate: as long as a product  *)
(* fits, what two roundings lose is bounded.                               *)
(***************************************************************************)
EXTENDS Times, TLAPS

\* What a quotient is.
LEMMA DivBounds ==
    ASSUME NEW a \in Nat, NEW b \in Nat \ {0}
    PROVE  /\ a \div b \in Nat
           /\ b * (a \div b) <= a /\ a < b * (a \div b) + b
BY Z3

\* What fits is not changed.
LEMMA Fits ==
    ASSUME NEW x \in Nat, NEW w \in Nat \ {0}, x < w
    PROVE  x % w = x
BY Z3

LEMMA FitsU64 == ASSUME NEW x \in Nat, x < 2 * Half PROVE U64(x) = x
<1>1. 2 * Half \in Nat \ {0}
  BY WidthAssumption
<1> QED BY <1>1, Fits DEF U64

LEMMA FitsI64 == ASSUME NEW x \in Nat, x < Half PROVE I64(x) = x
<1>1. x < 2 * Half
  BY WidthAssumption
<1> QED BY <1>1, FitsU64 DEF I64

LEMMA Product == ASSUME NEW a \in Nat, NEW b \in Nat PROVE a * b \in Nat
BY Z3

\* A factor is not larger than the product.
LEMMA Factor == ASSUME NEW a \in Nat, NEW b \in Nat \ {0} PROVE a <= a * b
BY Z3

\* Converted there and back, rounding down: x \div a, in units of b, is at most
\* one and a unit of a below.
LEMMA ThereAndBack ==
    ASSUME NEW x \in Nat, NEW a \in Nat \ {0}, NEW b \in Nat \ {0}
    PROVE  LET there == (x * b) \div a
               back == (there * a) \div b
           IN  /\ there \in Nat /\ back \in Nat /\ there * a <= x * b
               /\ back <= x /\ (x - back - 1) * b < a
<1> DEFINE there == (x * b) \div a
           back == (there * a) \div b
<1>1. there \in Nat /\ there * a <= x * b /\ x * b < there * a + a
  <2>1. x * b \in Nat
    BY Product
  <2>2. there \in Nat /\ a * there <= x * b /\ x * b < a * there + a
    BY <2>1, DivBounds
  <2> HIDE DEF there
  <2>3. a * there = there * a
    BY <2>2, Z3
  <2> QED BY <2>2, <2>3
<1> HIDE DEF there
<1>2. back \in Nat /\ b * back <= there * a /\ there * a < b * back + b
  <2>1. there * a \in Nat
    BY <1>1, Product
  <2> QED BY <2>1, DivBounds
<1> HIDE DEF back
<1>3. b * back <= b * x /\ b * x < b * back + b + a
  <2>1. x * b = b * x
    BY Z3
  <2>2. there * a \in Nat /\ x * b \in Nat /\ b * back \in Nat
    BY <1>1, <1>2, Product
  <2> QED BY <1>1, <1>2, <2>1, <2>2, Z3
<1>4. back <= x
  BY <1>2, <1>3, Z3
<1>5. (x - back - 1) * b < a
  <2>1. (x - back - 1) * b = b * x - b * back - b
    BY <1>2, Z3
  <2> QED BY <1>2, <1>3, <2>1, Product, Z3
<1> QED BY <1>1, <1>2, <1>4, <1>5 DEF there, back

\* Microseconds of a tick, times the denominator of the time base.
Unit(base) == base.num * Second

LEMMA UnitType ==
    ASSUME NEW base \in TimeBases
    PROVE  Unit(base) \in Nat \ {0} /\ base.den \in Nat \ {0}
<1>1. \A a, b \in Nat \ {0} : a * b \in Nat \ {0}
  BY Z3
<1> QED BY <1>1, TimeAssumption, WidthAssumption DEF Unit

LEMMA UnitTimes ==
    ASSUME NEW base \in TimeBases, NEW n \in Int PROVE n * base.num * Second = n * Unit(base)
<1>1. \A a \in Int, b, c \in Nat : a * b * c = a * (b * c)
  BY Z3
<1> QED BY <1>1, TimeAssumption, WidthAssumption DEF Unit

\* What a seek does when the product fits: one quotient, and another back.
LEMMA SeekIs ==
    ASSUME NEW base \in TimeBases, NEW ts \in Timestamps, ts * base.num * Second < Half
    PROVE  duration_to_ts(base, ts_to_duration(base, ts)) =
               (((ts * Unit(base)) \div base.den) * base.den) \div Unit(base)
<1> DEFINE time == (ts * Unit(base)) \div base.den
           back == (time * base.den) \div Unit(base)
<1>1. /\ base.num \in Nat \ {0} /\ base.den \in Nat \ {0} /\ ts \in Nat
      /\ Second \in Nat \ {0} /\ Half \in Nat \ {0} /\ Unit(base) \in Nat \ {0}
  BY TimeAssumption, WidthAssumption, UnitType
<1>2. ts * base.num * Second = ts * Unit(base)
  BY <1>1, UnitTimes
<1>3. ts * Unit(base) \in Nat /\ ts <= ts * Unit(base)
  BY <1>1, Product, Factor
<1>4. time \in Nat /\ time * base.den <= ts * Unit(base)
  BY <1>1, ThereAndBack
<1>5. ts_to_duration(base, ts) = time
  <2>1. ts < 2 * Half /\ ts * Unit(base) < 2 * Half
    BY <1>1, <1>2, <1>3
  <2>2. U64(ts) = ts /\ U64(ts * base.num * Second) = ts * Unit(base)
    BY <1>1, <1>2, <1>3, <2>1, FitsU64
  <2> QED BY <2>2 DEF ts_to_duration
<1> HIDE DEF time
<1>6. duration_to_ts(base, time) = back
  <2>1. time * base.den \in Nat /\ time <= time * base.den
    BY <1>1, <1>4, Product, Factor
  <2>2. I64(time) = time /\ I64(time * base.den) = time * base.den
    BY <1>1, <1>2, <1>3, <1>4, <2>1, FitsI64
  <2> QED BY <2>1, <2>2 DEF duration_to_ts, Quotient, Unit
<1> QED BY <1>5, <1>6 DEF time

\* A seek to the time of a frame goes close to it, as long as the product fits.
LEMMA SeekClose ==
    ASSUME NEW base \in TimeBases, NEW ts \in Timestamps, ts * base.num * Second < Half
    PROVE  Close(base, ts, duration_to_ts(base, ts_to_duration(base, ts)))
<1> DEFINE back == (((ts * Unit(base)) \div base.den) * base.den) \div Unit(base)
<1>1. back \in Nat /\ back <= ts /\ (ts - back - 1) * Unit(base) < base.den
  BY ThereAndBack, UnitType, TimeAssumption
<1>2. ts \in Nat /\ duration_to_ts(base, ts_to_duration(base, ts)) = back
  BY SeekIs, TimeAssumption
<1> HIDE DEF back
<1>3. (ts - back - 1) * base.num * Second = (ts - back - 1) * Unit(base)
  BY <1>1, <1>2, UnitTimes
<1> QED BY <1>1, <1>2, <1>3 DEF Close

\* Where ticks are no shorter than a microsecond a seek to the time of a frame
\* goes to it or one tick before, and to it where a tick is a whole number of
\* microseconds, as with the time bases of milliseconds (Reader::seek).
THEOREM SeekOnTicks ==
    ASSUME NEW base \in TimeBases, NEW ts \in Timestamps, ts * base.num * Second < Half,
           base.den <= base.num * Second
    PROVE  LET found == duration_to_ts(base, ts_to_duration(base, ts))
           IN  found \in {ts - 1, ts} /\ ((base.num * Second) % base.den = 0 => found = ts)
<1> DEFINE back == (((ts * Unit(base)) \div base.den) * base.den) \div Unit(base)
<1>1. /\ Unit(base) \in Nat \ {0} /\ base.den \in Nat \ {0} /\ base.den <= Unit(base)
      /\ ts \in Nat /\ Unit(base) = base.num * Second
  BY UnitType, TimeAssumption DEF Unit
<1>2. back \in Nat /\ back <= ts /\ (ts - back - 1) * Unit(base) < base.den
  BY <1>1, ThereAndBack
<1>3. back >= ts - 1
  <2>1. \A n \in Int, u \in Nat \ {0} : n * u < u => n < 1
    BY Z3
  <2>2. (ts - back - 1) * Unit(base) < Unit(base)
    BY <1>1, <1>2
  <2> HIDE DEF back
  <2> QED BY <1>1, <1>2, <2>1, <2>2
<1>4. ASSUME Unit(base) % base.den = 0 PROVE back = ts
  <2>1. \A u \in Nat, d \in Nat \ {0} : u % d = 0 => \E k \in Nat : u = k * d
    BY Z3
  <2>2. PICK k \in Nat : Unit(base) = k * base.den
    BY <1>1, <1>4, <2>1
  <2>3. \A x \in Nat, d \in Nat \ {0} : (x * d) \div d = x
    BY Z3
  <2>4. ts * Unit(base) = (ts * k) * base.den /\ ts * k \in Nat
    BY <1>1, <2>2, Z3
  <2>5. (ts * Unit(base)) \div base.den = ts * k
    BY <1>1, <2>3, <2>4
  <2> QED BY <1>1, <2>3, <2>4, <2>5
<1>5. duration_to_ts(base, ts_to_duration(base, ts)) = back
  BY SeekIs
<1> HIDE DEF back
<1> QED BY <1>1, <1>2, <1>3, <1>4, <1>5

\* A cache lasts what it was made for, as long as the product fits.
LEMMA CacheClose ==
    ASSUME NEW duration \in Durations, NEW rate \in Rates, duration * rate < 2 * Half
    PROVE  Lasts(duration, rate, ts_to_samples(duration, rate))
<1> DEFINE samples == (duration * rate) \div Second
           lasts == (samples * Second) \div rate
<1>1. /\ duration \in Nat /\ rate \in Nat \ {0}
      /\ Second \in Nat \ {0} /\ Half \in Nat \ {0}
  BY TimeAssumption, WidthAssumption
<1>2. /\ samples \in Nat /\ samples * Second <= duration * rate
      /\ lasts <= duration /\ (duration - lasts - 1) * rate < Second
  BY <1>1, ThereAndBack
<1>3. ts_to_samples(duration, rate) = samples
  <2>1. duration * rate \in Nat /\ duration <= duration * rate
    BY <1>1, Product, Factor
  <2>2. U64(duration) = duration /\ U64(duration * rate) = duration * rate
    BY <1>1, <2>1, FitsU64
  <2> QED BY <2>2 DEF ts_to_samples
<1> HIDE DEF samples
<1>4. samples_to_ts(samples, rate) = lasts
  <2>1. samples * Second \in Nat /\ samples * Second < 2 * Half
    BY <1>1, <1>2, Product
  <2> QED BY <2>1, FitsU64 DEF samples_to_ts
<1> QED BY <1>2, <1>3, <1>4 DEF Lasts

\* A seek to the time of a frame never goes behind it, and misses it by less
\* than a tick and a microsecond, for every time base.
THEOREM SeekExact == TimesSpec => []SeeksBack
<1>1. TimesInit => SeeksBack
  BY DEF TimesInit, SeeksBack
<1>2. SeeksBack /\ [TimesNext]_last => SeeksBack'
  <2> SUFFICES ASSUME SeeksBack, [TimesNext]_last PROVE SeeksBack'
    OBVIOUS
  <2>1. ASSUME NEW base \in TimeBases, NEW ts \in Timestamps, Seek(base, ts)
        PROVE  SeeksBack'
    BY <2>1, SeekClose DEF Seek, SeeksBack
  <2>2. ASSUME NEW duration \in Durations, NEW rate \in Rates, MakeCache(duration, rate)
        PROVE  SeeksBack'
    BY <2>2 DEF MakeCache, SeeksBack
  <2>3. CASE UNCHANGED last
    BY <2>3 DEF SeeksBack
  <2> QED BY <2>1, <2>2, <2>3 DEF TimesNext
<1> QED BY <1>1, <1>2, PTL DEF TimesSpec

\* A cache lasts what it was made for but for a sample and a microsecond, for
\* every rate.
THEOREM CacheExact == TimesSpec => []CacheLasts
<1>1. TimesInit => CacheLasts
  BY DEF TimesInit, CacheLasts
<1>2. CacheLasts /\ [TimesNext]_last => CacheLasts'
  <2> SUFFICES ASSUME CacheLasts, [TimesNext]_last PROVE CacheLasts'
    OBVIOUS
  <2>1. ASSUME NEW base \in TimeBases, NEW ts \in Timestamps, Seek(base, ts)
        PROVE  CacheLasts'
    BY <2>1 DEF Seek, CacheLasts
  <2>2. ASSUME NEW duration \in Durations, NEW rate \in Rates, MakeCache(duration, rate)
        PROVE  CacheLasts'
    BY <2>2, CacheClose DEF MakeCache, CacheLasts
  <2>3. CASE UNCHANGED last
    BY <2>3 DEF CacheLasts
  <2> QED BY <2>1, <2>2, <2>3 DEF TimesNext
<1> QED BY <1>1, <1>2, PTL DEF TimesSpec
=============================================================================
