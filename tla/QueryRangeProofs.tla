-------------------------- MODULE QueryRangeProofs --------------------------
(***************************************************************************)
(* The pre checks of a range query decide by the ticks that the numbers    *)
(* name, for integers of any width, seconds of any length and floats of    *)
(* any precision, however their products are rounded: RangeDecision,       *)
(* StepGenuine and ShortStepsLimited are invariants of QueryRange.  The    *)
(* lemmas say of each conversion where it is exact.                        *)
(***************************************************************************)
EXTENDS QueryRange, FiniteSetTheorems, TLAPS

-----------------------------------------------------------------------------
(* Division *)

\* Integer division by a positive number, with its remainder.
LEMMA DivMod ==
    ASSUME NEW a \in Int, NEW b \in Int, b > 0
    PROVE  /\ a \div b \in Int
           /\ a % b \in 0 .. b - 1
           /\ a = b * (a \div b) + (a % b)
  OBVIOUS

\* Quotient and remainder are unique.
LEMMA DivUnique ==
    ASSUME NEW q \in Int, NEW r \in Int, NEW b \in Int, 0 <= r, r < b
    PROVE  /\ (b * q + r) \div b = q
           /\ (b * q + r) % b = r
  OBVIOUS

\* Trunc rounds towards zero.
LEMMA TruncBounds ==
    ASSUME NEW n \in Int, NEW d \in Int, d > 0
    PROVE  /\ Trunc(n, d) \in Int
           /\ n >= 0 => Trunc(n, d) >= 0 /\ d * Trunc(n, d) <= n /\ n < d * Trunc(n, d) + d
           /\ n < 0 => Trunc(n, d) <= 0 /\ d * Trunc(n, d) >= n /\ n > d * Trunc(n, d) - d
  BY DEF Trunc

\* These bounds determine it.
LEMMA TruncUnique ==
    ASSUME NEW n \in Int, NEW d \in Int, d > 0, NEW t \in Int,
           \/ t >= 0 /\ d * t <= n /\ n < d * t + d
           \/ t <= 0 /\ d * t >= n /\ n > d * t - d
    PROVE  Trunc(n, d) = t
<1>1. CASE t >= 0 /\ d * t <= n /\ n < d * t + d
  <2> DEFINE r == n - d * t
  <2>1. r \in Int /\ 0 <= r /\ r < d /\ n = d * t + r
    BY <1>1
  <2>2. n \div d = t
    BY <2>1, DivUnique
  <2>3. n >= 0
    <3>1. d * t >= 0
      BY <1>1
    <3> QED BY <3>1, <1>1
  <2> QED BY <2>2, <2>3 DEF Trunc
<1>2. CASE t <= 0 /\ d * t >= n /\ n > d * t - d
  <2> DEFINE r == d * t - n
  <2>1. r \in Int /\ 0 <= r /\ r < d /\ -n = d * (-t) + r /\ -t \in Int
    BY <1>2
  <2>2. (-n) \div d = -t
    BY <2>1, DivUnique
  <2>3. n <= 0
    <3>1. d * t <= 0
      BY <1>2
    <3> QED BY <3>1, <1>2
  <2>4. CASE n < 0
    BY <2>2, <2>4 DEF Trunc
  <2>5. CASE n = 0
    <3>1. t = 0
      BY <2>2, <2>5
    <3>2. 0 \div d = 0
      OBVIOUS
    <3> QED BY <3>1, <3>2, <2>5 DEF Trunc
  <2> QED BY <2>3, <2>4, <2>5
<1> QED BY <1>1, <1>2

-----------------------------------------------------------------------------
(* Where Go's conversions are exact *)

\* Nothing wraps in range.
LEMMA WrapExact ==
    ASSUME NEW x \in MinInt .. MaxInt
    PROVE  Wrap(x) = x
  BY IntegerAssumption DEF Wrap, MinInt, MaxInt

\* A float64 in range loses its fraction, and nothing else.
LEMMA Int64Exact ==
    ASSUME NEW n \in Int, NEW d \in Int, d > 0, Trunc(n, d) \in MinInt .. MaxInt
    PROVE  Int64("number", n, d) = Trunc(n, d)
  BY DEF Int64

\* time.Unix adds up seconds and nanoseconds of any sign, if the seconds
\* since year 1 fit.
LEMMA UnixExact ==
    ASSUME NEW sec \in Int, NEW nsec \in Int,
           ((sec * Second + nsec) \div Second) + Epoch \in MinInt .. MaxInt
    PROVE  Unix(sec, nsec) = sec * Second + nsec + Epoch * Second
<1> DEFINE q == nsec \div Second
           r == nsec % Second
<1>0. Second \in Int /\ Second > 0 /\ Epoch \in Int
  BY IntegerAssumption
<1>1. q \in Int /\ r \in Int /\ 0 <= r /\ r < Second /\ nsec = Second * q + r
  BY <1>0, DivMod
<1> HIDE DEF q, r
<1>2. sec * Second + nsec = Second * (sec + q) + r /\ sec + q \in Int
  BY <1>0, <1>1
<1>3. (sec * Second + nsec) \div Second = sec + q
  BY <1>0, <1>1, <1>2, DivUnique
<1>4. Wrap(sec + q + Epoch) = sec + q + Epoch
  BY <1>3, WrapExact
<1>5. Unix(sec, nsec) = (sec + q + Epoch) * Second + r
  BY <1>4 DEF Unix, q, r
<1> QED BY <1>0, <1>1, <1>5

\* A number of at most a second has at most a second's ticks.
LEMMA SecondTicks ==
    ASSUME NEW x \in -(Part * Second) .. Part * Second
    PROVE  x \in Int /\ Trunc(x, Part) \in -Second .. Second
<1> DEFINE t == Trunc(x, Part)
<1>0. Second \in Int /\ Second > 0 /\ Part \in Int /\ Part > 0
  BY IntegerAssumption
<1>1. x \in Int /\ Part * Second \in Int /\ -(Part * Second) <= x /\ x <= Part * Second
  BY <1>0
<1>2. /\ t \in Int
      /\ x >= 0 => t >= 0 /\ Part * t <= x
      /\ x < 0 => t <= 0 /\ Part * t >= x
  BY <1>0, <1>1, TruncBounds
<1> HIDE DEF t
<1>3. t <= Second
  <2>1. CASE x < 0
    BY <2>1, <1>0, <1>2
  <2>2. CASE x >= 0
    <3>1. Part * t <= Part * Second
      BY <2>2, <1>0, <1>1, <1>2
    <3> QED BY <3>1, <1>0, <1>2
  <2> QED BY <2>1, <2>2, <1>1
<1>4. t >= -Second
  <2>1. CASE x >= 0
    BY <2>1, <1>0, <1>2
  <2>2. CASE x < 0
    <3>1. Part * t >= Part * (-Second)
      BY <2>2, <1>0, <1>1, <1>2
    <3> QED BY <3>1, <1>0, <1>2
  <2> QED BY <2>1, <2>2, <1>1
<1> QED BY <1>0, <1>1, <1>2, <1>3, <1>4 DEF t

\* math.Modf leaves less than a second, and its rounded product has at most a
\* second's ticks.
LEMMA ModfRest ==
    ASSUME NEW t, t.n \in Int
    PROVE  /\ Whole(t) \in Int
           /\ Round(t.n - Whole(t) * Part * Second) \in Int
           /\ Rest(t) \in -Second .. Second
<1> DEFINE s  == Whole(t)
           ns == t.n - s * Part * Second
<1>0. Second \in Int /\ Second > 0 /\ Part \in Int /\ Part > 0
  BY IntegerAssumption
<1>1. Part * Second \in Int /\ Part * Second > 0
  BY <1>0
<1>2. /\ s \in Int
      /\ t.n >= 0 => (Part * Second) * s <= t.n /\ t.n < (Part * Second) * s + Part * Second
      /\ t.n < 0 => (Part * Second) * s >= t.n /\ t.n > (Part * Second) * s - Part * Second
  BY <1>1, TruncBounds DEF Whole
<1> HIDE DEF s
<1>3. s * Part * Second = (Part * Second) * s /\ (Part * Second) * s \in Int
  BY <1>0, <1>1, <1>2
<1>4. ns \in -(Part * Second) .. Part * Second
  BY <1>1, <1>2, <1>3
<1> HIDE DEF ns
<1>5. Round(ns) \in -(Part * Second) .. Part * Second
  BY <1>4, RoundAssumption
<1>6. Round(ns) \in Int /\ Trunc(Round(ns), Part) \in -Second .. Second
  BY <1>5, SecondTicks
<1> QED BY <1>2, <1>6 DEF Rest, s, ns

-----------------------------------------------------------------------------
(* The parsers *)

\* parseTime finds the tick that a text names, on every processor, if int64
\* seconds hold it.
LEMMA ParseTimeExact ==
    ASSUME NEW t \in Text, Representable(t)
    PROVE  parseTime(t) = Ok(Instant(t) + Epoch * Second) /\ Instant(t) \in Int
<1>0. /\ t.n \in Int /\ Half \in Int /\ Half > 0 /\ Epoch \in Int
      /\ Second \in Int /\ 0 < Second /\ Second <= Half - 1 /\ Part \in Int /\ Part > 0
  BY IntegerAssumption DEF Text
<1>1. CASE t.kind = "rfc3339"
  BY <1>0, <1>1 DEF parseTime, Instant, Ok
<1>2. CASE t.kind = "number"
  <2> DEFINE s  == Whole(t)
             ns == Round(t.n - s * Part * Second)
             f  == Rest(t)
  <2>1. s \in Int /\ ns \in Int /\ f \in -Second .. Second
    BY <1>0, ModfRest
  <2>2. parseTime(t) = Ok(Unix(Int64("number", s, 1), Int64("number", ns, Part)))
    BY <1>2 DEF parseTime, Whole
  <2>3. Instant(t) = s * Second + f
    BY <1>2 DEF Instant
  <2>4. Int64("number", ns, Part) = f
    <3>1. f = Trunc(ns, Part)
      BY DEF Rest
    <3>2. f \in MinInt .. MaxInt
      BY <1>0, <2>1 DEF MinInt, MaxInt
    <3> HIDE DEF f, ns
    <3> QED BY <3>1, <3>2, <1>0, <2>1, Int64Exact
  <2>5. s \in MinInt .. MaxInt
    BY <1>2 DEF Representable
  <2> HIDE DEF s, ns, f
  <2>6. Int64("number", s, 1) = s
    <3>1. Trunc(s, 1) = s
      BY <2>1, TruncUnique
    <3> QED BY <3>1, <2>1, <2>5, Int64Exact
  <2>7. f \in Int /\ ((s * Second + f) \div Second) + Epoch \in MinInt .. MaxInt
    BY <2>1, <2>3, <1>0 DEF Representable
  <2>8. Unix(s, f) = s * Second + f + Epoch * Second
    BY <2>1, <2>7, UnixExact
  <2>9. s * Second + f \in Int
    BY <1>0, <2>1, <2>7
  <2> QED BY <2>2, <2>3, <2>4, <2>6, <2>8, <2>9
<1> QED BY <1>1, <1>2 DEF Representable

\* What parseDuration lets through as a number is at most one tick too large.
LEMMA NumberTicks ==
    ASSUME NEW n \in Int
    PROVE  /\ Trunc(n, Part) \in Int
           /\ n >= MinInt * Part => Trunc(n, Part) >= MinInt
           /\ n <= (MaxInt + 1) * Part => Trunc(n, Part) <= MaxInt + 1
           /\ Trunc(n, Part) <= MaxInt => n <= (MaxInt + 1) * Part
<1> DEFINE t == Trunc(n, Part)
<1>0. Half \in Int /\ Half > 0 /\ Part \in Int /\ Part > 0
  BY IntegerAssumption
<1>1. /\ t \in Int
      /\ n >= 0 => t >= 0 /\ Part * t <= n /\ n < Part * t + Part
      /\ n < 0 => t <= 0 /\ Part * t >= n /\ n > Part * t - Part
  BY <1>0, TruncBounds
<1> HIDE DEF t
<1>2. ASSUME n >= (-Half) * Part
      PROVE  t >= -Half
  <2>1. CASE n >= 0
    BY <2>1, <1>0, <1>1
  <2>2. CASE n < 0
    <3>1. Part * t >= Part * (-Half)
      BY <2>2, <1>0, <1>1, <1>2
    <3> QED BY <3>1, <1>0, <1>1
  <2> QED BY <2>1, <2>2
<1>3. ASSUME n <= Half * Part
      PROVE  t <= Half
  <2>1. CASE n < 0
    BY <2>1, <1>0, <1>1
  <2>2. CASE n >= 0
    <3>1. Part * t <= Part * Half
      BY <2>2, <1>0, <1>1, <1>3
    <3> QED BY <3>1, <1>0, <1>1
  <2> QED BY <2>1, <2>2
<1>4. ASSUME t <= Half - 1
      PROVE  n <= Half * Part
  <2>1. CASE n < 0
    <3>1. Half * Part \in Int /\ Half * Part >= 0
      BY <1>0
    <3> QED BY <3>1, <2>1
  <2>2. CASE n >= 0
    <3>1. Part * (t + 1) <= Part * Half
      BY <1>0, <1>1, <1>4
    <3>2. Part * (t + 1) = Part * t + Part /\ Part * Half = Half * Part
      BY <1>0, <1>1
    <3>3. Part * t \in Int /\ Half * Part \in Int
      BY <1>0, <1>1
    <3> QED BY <3>1, <3>2, <3>3, <2>2, <1>0, <1>1
  <2> QED BY <2>1, <2>2
<1>5. MinInt = -Half /\ MaxInt = Half - 1 /\ MaxInt + 1 = Half
  BY <1>0 DEF MinInt, MaxInt
<1> QED BY <1>1, <1>2, <1>3, <1>4, <1>5 DEF t

\* parseDuration finds the ticks of a duration that fits, in either notation.
LEMMA ParseDurationExact ==
    ASSUME NEW t \in Text, Round(t.n) \in Int, Proper(t)
    PROVE  parseDuration(t) = Ok(Ticks(t)) /\ Ticks(t) \in Int
<1>0. t.n \in Int /\ t.unit \in Nat /\ Half \in Int /\ Half > 0 /\ Part \in Int /\ Part > 0
  BY IntegerAssumption DEF Text
<1>1. CASE t.kind = "number"
  <2> DEFINE ts == Round(t.n)
  <2>1. Ticks(t) = Trunc(ts, Part) /\ Ticks(t) \in MinInt .. MaxInt /\ ts >= MinInt * Part
    BY <1>1 DEF Proper, Ticks
  <2>2. Ticks(t) \in Int /\ Ticks(t) <= MaxInt
    BY <1>0, <2>1 DEF MinInt, MaxInt
  <2>3. ts <= (MaxInt + 1) * Part
    BY <1>0, <2>1, <2>2, NumberTicks
  <2>4. ~(ts > (MaxInt + 1) * Part \/ ts < MinInt * Part)
    <3>1. (MaxInt + 1) * Part \in Int /\ MinInt * Part \in Int
      BY <1>0 DEF MinInt, MaxInt
    <3> QED BY <3>1, <2>1, <2>3, <1>0
  <2>5. parseDuration(t) = Ok(Int64(t.kind, ts, Part))
    BY <1>1, <2>4 DEF parseDuration
  <2>6. Int64(t.kind, ts, Part) = Ticks(t)
    BY <1>0, <1>1, <2>1, Int64Exact
  <2> QED BY <2>2, <2>5, <2>6
<1>2. CASE t.kind = "units"
  <2>1. Ticks(t) = t.n * t.unit /\ Ticks(t) \in MinInt .. MaxInt /\ Ticks(t) \in Int
    BY <1>0, <1>2 DEF Proper, Ticks
  <2>2. (IF t.n > MaxInt THEN MaxInt ELSE t.n) * t.unit = Ticks(t)
    <3>1. CASE t.n > MaxInt
      <4>1. t.unit = 0
        <5>1. t.n >= Half /\ t.n * t.unit < Half
          BY <1>0, <2>1, <3>1 DEF MinInt, MaxInt
        <5>2. t.unit > 0 => t.n * t.unit >= t.n
          BY <1>0, <5>1
        <5> QED BY <1>0, <5>1, <5>2
      <4> QED BY <4>1, <2>1, <3>1, <1>0 DEF MaxInt
    <3>2. CASE ~(t.n > MaxInt)
      BY <3>2, <2>1
    <3> QED BY <3>1, <3>2
  <2>3. Wrap((IF t.n > MaxInt THEN MaxInt ELSE t.n) * t.unit) = Ticks(t)
    BY <2>1, <2>2, WrapExact
  <2>4. parseDuration(t) = ParseDuration(t)
    BY <1>2 DEF parseDuration
  <2> QED BY <1>2, <2>1, <2>3, <2>4 DEF ParseDuration
<1> QED BY <1>1, <1>2 DEF Proper

-----------------------------------------------------------------------------
(* The points of a range *)

\* A range has one point more than steps fit into it.
LEMMA PointsCount ==
    ASSUME NEW s \in Int, NEW e \in Int, NEW d \in Int, s <= e, d > 0
    PROVE  Points(s, e, d) = ((e - s) \div d) + 1
<1> DEFINE q == (e - s) \div d
           r == (e - s) % d
<1>1. q \in Int /\ r \in Int /\ 0 <= r /\ r < d /\ e - s = d * q + r
  BY DivMod
<1> HIDE DEF q, r
<1>2. q >= 0
  BY <1>1
<1>3. ASSUME NEW k \in Int, 0 <= k
      PROVE  s + k * d <= e <=> k <= q
  <2>1. ASSUME k <= q
        PROVE  s + k * d <= e
    <3>1. d * k <= d * q
      BY <1>1, <1>3, <2>1
    <3> QED BY <1>1, <1>3, <3>1
  <2>2. ASSUME k > q
        PROVE  s + k * d > e
    <3>1. d * k >= d * (q + 1) /\ d * (q + 1) = d * q + d
      BY <1>1, <1>3, <2>2
    <3> QED BY <1>1, <1>3, <3>1
  <2> QED BY <1>1, <1>3, <2>1, <2>2
<1>4. q <= e - s
  <2>1. d * q >= q
    BY <1>1, <1>2
  <2> QED BY <2>1, <1>1
<1>5. {k \in 0 .. e - s : s + k * d <= e} = 0 .. q
  <2>1. ASSUME NEW k \in Int, 0 <= k
        PROVE  k <= e - s /\ s + k * d <= e <=> k <= q
    BY <1>1, <1>3, <1>4, <2>1
  <2> QED BY <1>1, <2>1
<1>6. Cardinality(0 .. q) = q - 0 + 1
  BY <1>1, <1>2, FS_Interval
<1> QED BY <1>1, <1>5, <1>6 DEF Points, q

-----------------------------------------------------------------------------
(* The handler *)

\* The parameters of a request are texts.
FormOK == form \in [start : Times, end : Times, step : Durations, timeout : Timeouts]

\* FormOK gives the parsers what their lemmas ask for.
LEMMA FormTexts ==
    ASSUME FormOK
    PROVE  /\ form.start \in Text /\ form.end \in Text /\ form.step \in Text /\ form.timeout \in Text
           /\ Round(form.step.n) \in Int /\ Round(form.timeout.n) \in Int
  BY TextAssumption, RoundAssumption DEF FormOK

\* RangeDecision, in the step that decides.
LEMMA HandlerDecides ==
    ASSUME FormOK, hijackQueryRange
    PROVE  RangeDecision'
<1> DEFINE s == Instant(form.start)
           e == Instant(form.end)
           d == Ticks(form.step)
           z == Epoch * Second
<1> SUFFICES ASSUME Representable(form.start), Representable(form.end), e - s <= MaxInt,
                    Proper(form.step), Proper(form.timeout) \/ form.timeout.kind = "empty"
             PROVE  verdict' = "passed" <=> s <= e /\ d > 0 /\ Points(s, e, d) <= Limit + 1
  BY DEF RangeDecision, Instant, Ticks, Representable, Proper, Whole, Rest, hijackQueryRange
<1>0. /\ Half \in Int /\ Half > 0 /\ Limit \in Int /\ z \in Int
      /\ MinInt = -Half /\ MaxInt = Half - 1
  BY IntegerAssumption DEF MinInt, MaxInt
<1>1. parseTime(form.start) = Ok(s + z) /\ s \in Int
  BY FormTexts, ParseTimeExact
<1>2. parseTime(form.end) = Ok(e + z) /\ e \in Int
  BY FormTexts, ParseTimeExact
<1>3. parseDuration(form.step) = Ok(d) /\ d \in Int
  BY FormTexts, ParseDurationExact
<1>4. ~(form.timeout.kind # "empty" /\ ~parseDuration(form.timeout).ok)
  BY FormTexts, ParseDurationExact DEF Ok
<1> HIDE DEF s, e, d, z
<1>5. verdict' = IF e + z < s + z THEN "order"
                 ELSE IF d <= 0 THEN "width"
                 ELSE IF Sub(e + z, s + z) \div d > Limit THEN "resolution"
                 ELSE "passed"
  <2>1. /\ parseTime(form.start).ok /\ parseTime(form.start).v = s + z
        /\ parseTime(form.end).ok /\ parseTime(form.end).v = e + z
        /\ parseDuration(form.step).ok /\ parseDuration(form.step).v = d
    BY <1>1, <1>2, <1>3 DEF Ok
  <2> QED BY <1>4, <2>1 DEF hijackQueryRange
<1>6. CASE s <= e /\ d > 0
  <2>1. Sub(e + z, s + z) = e - s
    BY <1>0, <1>1, <1>2, <1>6 DEF Sub
  <2>2. Points(s, e, d) = ((e - s) \div d) + 1 /\ (e - s) \div d \in Int
    BY <1>1, <1>2, <1>3, <1>6, PointsCount, DivMod
  <2>3. verdict' = IF (e - s) \div d > Limit THEN "resolution" ELSE "passed"
    BY <1>0, <1>1, <1>2, <1>3, <1>5, <1>6, <2>1
  <2> QED BY <1>0, <1>6, <2>2, <2>3
<1>7. CASE ~(s <= e /\ d > 0)
  <2>1. verdict' \in {"order", "width"}
    BY <1>0, <1>1, <1>2, <1>3, <1>5, <1>7
  <2> QED BY <1>7, <2>1
<1> QED BY <1>6, <1>7

\* StepGenuine, in the step that decides.
LEMMA HandlerGenuine ==
    ASSUME FormOK, hijackQueryRange
    PROVE  StepGenuine'
<1> DEFINE t == form.step
<1> SUFFICES ASSUME verdict' = "passed", t.kind \in {"number", "nan", "inf"}
             PROVE  t.kind = "number" /\ Ticks(t) \in 1 .. MaxInt + 1
  BY DEF StepGenuine, Ticks, hijackQueryRange
<1>0. /\ t \in Text /\ Round(t.n) \in Int
      /\ Half \in Int /\ Half > 0 /\ MinInt = -Half /\ MaxInt = Half - 1
  BY FormTexts, IntegerAssumption DEF MinInt, MaxInt
<1>1. parseDuration(t).ok /\ ~(parseDuration(t).v <= 0)
  BY DEF hijackQueryRange
<1> HIDE DEF t
<1> DEFINE ts == Round(t.n)
<1>2. /\ t.kind # "inf"
      /\ t.kind = "number" => ~(ts > (MaxInt + 1) * Part \/ ts < MinInt * Part)
  BY <1>1 DEF parseDuration, Err
<1>3. parseDuration(t).v = IF t.kind = "number" THEN Int64("number", ts, Part) ELSE Int64("nan", t.n, Part)
  BY <1>2 DEF parseDuration, Ok
<1>4. t.kind # "nan"
  <2>1. Int64("nan", t.n, Part) \in {MinInt, 0}
    BY Zenon DEF Int64
  <2> QED BY <1>0, <1>1, <1>3, <2>1
<1>5. t.kind = "number"
  BY <1>2, <1>4
<1>a. Ticks(t) = Trunc(ts, Part)
  BY <1>5 DEF Ticks
<1> HIDE DEF ts
<1>b. ts \in Int
  BY <1>0 DEF ts
<1>6. Trunc(ts, Part) \in Int /\ Trunc(ts, Part) <= MaxInt + 1
  <2>1. ts <= (MaxInt + 1) * Part
    <3>1. (MaxInt + 1) * Part \in Int
      BY <1>0, IntegerAssumption
    <3> QED BY <3>1, <1>b, <1>2, <1>5
  <2> QED BY <2>1, <1>b, NumberTicks
<1>7. Trunc(ts, Part) >= MinInt
  <2>1. ts >= MinInt * Part
    <3>1. MinInt * Part \in Int
      BY <1>0, IntegerAssumption
    <3> QED BY <3>1, <1>b, <1>2, <1>5
  <2> QED BY <2>1, <1>b, NumberTicks
<1>8. CASE Trunc(ts, Part) <= MaxInt
  <2>1. Int64("number", ts, Part) = Trunc(ts, Part)
    BY <1>0, <1>b, <1>6, <1>7, <1>8, IntegerAssumption, Int64Exact
  <2> QED BY <2>1, <1>0, <1>1, <1>3, <1>5, <1>6, <1>a
<1>9. CASE Trunc(ts, Part) > MaxInt
  BY <1>0, <1>5, <1>6, <1>9, <1>a
<1> QED BY <1>0, <1>6, <1>8, <1>9

\* ShortStepsLimited, in the step that decides.
LEMMA HandlerLimits ==
    ASSUME FormOK, hijackQueryRange
    PROVE  ShortStepsLimited'
<1> DEFINE s == Instant(form.start)
           e == Instant(form.end)
           d == Ticks(form.step)
           z == Epoch * Second
<1> SUFFICES ASSUME verdict' = "passed", Representable(form.start), Representable(form.end),
                    Proper(form.step), (Limit + 1) * d <= MaxInt
             PROVE  Points(s, e, d) <= Limit + 1
  BY DEF ShortStepsLimited, Instant, Ticks, Representable, Proper, Whole, Rest, hijackQueryRange
<1>0. /\ Half \in Int /\ Half > 0 /\ Limit \in Int /\ Limit >= 0 /\ z \in Int
      /\ MinInt = -Half /\ MaxInt = Half - 1
  BY IntegerAssumption DEF MinInt, MaxInt
<1>1. parseTime(form.start) = Ok(s + z) /\ s \in Int
  BY FormTexts, ParseTimeExact
<1>2. parseTime(form.end) = Ok(e + z) /\ e \in Int
  BY FormTexts, ParseTimeExact
<1>3. parseDuration(form.step) = Ok(d) /\ d \in Int
  BY FormTexts, ParseDurationExact
<1> HIDE DEF s, e, d, z
<1>4. ~(e + z < s + z) /\ ~(d <= 0) /\ ~(Sub(e + z, s + z) \div d > Limit)
  <2>1. /\ parseTime(form.start).v = s + z /\ parseTime(form.end).v = e + z
        /\ parseDuration(form.step).v = d
    BY <1>1, <1>2, <1>3 DEF Ok
  <2> QED BY <2>1 DEF hijackQueryRange
<1>5. s <= e /\ d > 0
  BY <1>0, <1>1, <1>2, <1>3, <1>4
<1>6. Sub(e + z, s + z) = e - s
  <2>1. CASE e - s > MaxInt
    <3>1. Sub(e + z, s + z) = MaxInt
      BY <1>0, <1>1, <1>2, <2>1 DEF Sub
    <3>2. MaxInt \div d \in Int /\ MaxInt < d * ((MaxInt \div d) + 1)
      BY <1>0, <1>3, <1>5, DivMod
    <3>3. MaxInt \div d <= Limit
      BY <1>0, <1>4, <3>1, <3>2
    <3>4. d * ((MaxInt \div d) + 1) <= d * (Limit + 1)
      BY <1>0, <1>3, <1>5, <3>2, <3>3
    <3>5. d * (Limit + 1) = (Limit + 1) * d /\ d * (Limit + 1) \in Int
      BY <1>0, <1>3
    <3>6. d * ((MaxInt \div d) + 1) \in Int /\ (Limit + 1) * d <= MaxInt
      BY <1>3, <3>2 DEF d
    <3> QED BY <1>0, <3>2, <3>4, <3>5, <3>6
  <2>2. CASE ~(e - s > MaxInt)
    BY <1>0, <1>1, <1>2, <1>5, <2>2 DEF Sub
  <2> QED BY <2>1, <2>2
<1>7. Points(s, e, d) = ((e - s) \div d) + 1 /\ (e - s) \div d \in Int
  BY <1>1, <1>2, <1>3, <1>5, PointsCount, DivMod
<1> QED BY <1>0, <1>4, <1>6, <1>7

\* The pre checks of a range query decide by the ticks that the numbers name:
\* hijackQueryRange accepts a request in range exactly when it does not end
\* before it starts, has a positive step and asks for at most Limit + 1 points,
\* whatever the products of parseTime and parseDuration are rounded to (Round
\* is any function under RoundAssumption).  The inductive invariant only adds that the parameters are texts: the
\* handler runs once and decides out of nothing else.
THEOREM RangeDecided == Spec => []RangeDecision
<1> DEFINE Inv == FormOK /\ RangeDecision
<1>1. Init => Inv
  BY DEF Init, FormOK, RangeDecision
<1>2. Inv /\ [Next]_vars => Inv'
  <2> SUFFICES ASSUME Inv, [Next]_vars PROVE Inv'
    OBVIOUS
  <2>1. CASE hijackQueryRange
    BY <2>1, HandlerDecides DEF FormOK, hijackQueryRange
  <2>2. CASE UNCHANGED vars
    BY <2>2 DEF vars, FormOK, RangeDecision, Representable, Proper, Instant, Ticks, Whole, Rest
  <2> QED BY <2>1, <2>2 DEF Next
<1> QED BY <1>1, <1>2, PTL DEF Spec

\* Neither NaN nor an infinity nor a number that overflows becomes the step of
\* a request that passes, whatever the processor makes of such a float64: the
\* check against float64(MaxInt64) in parseDuration is off by one tick only.
THEOREM StepsGenuine == Spec => []StepGenuine
<1> DEFINE Inv == FormOK /\ StepGenuine
<1>1. Init => Inv
  BY DEF Init, FormOK, StepGenuine
<1>2. Inv /\ [Next]_vars => Inv'
  <2> SUFFICES ASSUME Inv, [Next]_vars PROVE Inv'
    OBVIOUS
  <2>1. CASE hijackQueryRange
    BY <2>1, HandlerGenuine DEF FormOK, hijackQueryRange
  <2>2. CASE UNCHANGED vars
    BY <2>2 DEF vars, FormOK, StepGenuine, Ticks
  <2> QED BY <2>1, <2>2 DEF Next
<1> QED BY <1>1, <1>2, PTL DEF Spec

\* The limit on the points of a range query holds for ranges of any length when
\* Limit + 1 steps fit into a time.Duration: a saturated Time.Sub lets only
\* requests with longer steps exceed it.
THEOREM ShortStepsAreLimited == Spec => []ShortStepsLimited
<1> DEFINE Inv == FormOK /\ ShortStepsLimited
<1>1. Init => Inv
  BY DEF Init, FormOK, ShortStepsLimited
<1>2. Inv /\ [Next]_vars => Inv'
  <2> SUFFICES ASSUME Inv, [Next]_vars PROVE Inv'
    OBVIOUS
  <2>1. CASE hijackQueryRange
    BY <2>1, HandlerLimits DEF FormOK, hijackQueryRange
  <2>2. CASE UNCHANGED vars
    BY <2>2 DEF vars, FormOK, ShortStepsLimited, Representable, Proper, Instant, Ticks, Whole, Rest
  <2> QED BY <2>1, <2>2 DEF Next
<1> QED BY <1>1, <1>2, PTL DEF Spec

=============================================================================
