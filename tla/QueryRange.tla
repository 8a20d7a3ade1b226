----------------------------- MODULE QueryRange -----------------------------
(***************************************************************************)
(* The numeric pre checks of hijackQueryRange, with parseTime and          *)
(* parseDuration: what the module Backend calls a malformed request.       *)
(*                                                                         *)
(* All of it is arithmetic on float64, on int64 and on time.Time, and is   *)
(* modelled with integers from -Half to Half - 1.  A tick stands for a     *)
(* nanosecond.  A time.Time is the number of ticks since year 1: its       *)
(* seconds have the range that a time.Duration has for ticks, so most      *)
(* spans of time do not fit into a Duration.  The products of a float64    *)
(* with float64(time.Second) are rounded before they become integers: of a *)
(* step of 0.3, the float64 just below it, they make 300000000 ns.         *)
(***************************************************************************)
EXTENDS Integers, FiniteSets

CONSTANTS
    Half,        \* 2^63: the smallest int64 is -Half
    Second,      \* time.Second, in ticks
    Epoch,       \* seconds from year 1 to 1970
    Part,        \* parts of a tick that a float64 tells apart
    Round(_),    \* the float64, in parts of a tick, for an exact product
    Limit,       \* 11000
    Times,       \* the texts of start= and end=
    Durations,   \* the texts of step=
    Timeouts     \* the texts of timeout=

ASSUME IntegerAssumption ==
    /\ Half \in Nat \ {0}
    /\ Second \in 1 .. Half - 1    \* a second is a time.Duration
    /\ Part \in Nat \ {0}
    /\ Epoch \in Nat
    /\ Limit \in Nat

\* A text, by what the parsers make of it: a float64 of which a second has
\* Part * Second, so that its exact product with time.Second is n/Part ticks,
\* an infinity with the sign of n, an RFC 3339 time n ticks after 1970, the
\* duration of n units of that many ticks.
Text == [kind : {"number", "nan", "inf", "rfc3339", "units", "bad", "empty"},
         n : Int, unit : Nat]

ASSUME TextAssumption == Times \cup Durations \cup Timeouts \subseteq Text

\* Products are rounded to numbers, those of fractions of a second to no more
\* than a second.
ASSUME RoundAssumption ==
    /\ \A t \in Durations \cup Timeouts : Round(t.n) \in Int
    /\ \A x \in -(Part * Second) .. Part * Second :
           Round(x) \in -(Part * Second) .. Part * Second

MinInt == -Half
MaxInt == Half - 1

VARIABLES saturating,   \* how the processor converts a float64 out of range
          form,         \* the request's parameters
          verdict       \* what the pre checks say of it

vars == <<saturating, form, verdict>>

Init == /\ saturating \in BOOLEAN
        /\ form \in [start : Times, end : Times, step : Durations, timeout : Timeouts]
        /\ verdict = "none"

-----------------------------------------------------------------------------
(* Go's arithmetic *)

Wrap(x) == ((x - MinInt) % (2 * Half)) + MinInt

\* The division n / d of integers, and the integer part of a float64.
Trunc(n, d) == IF n >= 0 THEN n \div d ELSE -((-n) \div d)

\* int64(f) for the float64 f = n/d, NaN or an infinity.  Out of range it is
\* up to the processor: amd64 makes the smallest integer of it, arm64 the
\* nearest one, and 0 of NaN.
Int64(kind, n, d) ==
    LET fits == kind = "number" /\ Trunc(n, d) \in MinInt .. MaxInt
    IN  CASE fits -> Trunc(n, d)
          [] ~fits /\ ~saturating -> MinInt
          [] ~fits /\ saturating -> IF kind = "nan" THEN 0
                                    ELSE IF n > 0 THEN MaxInt ELSE MinInt

\* time.Unix: the seconds since year 1 may wrap.
Unix(sec, nsec) == Wrap(sec + (nsec \div Second) + Epoch) * Second + (nsec % Second)

\* Mutant: a difference of times wraps around.
SubWraps(t, u) == Wrap(t - u)

\* Time.Sub saturates.
Sub(t, u) == IF t - u > MaxInt THEN MaxInt ELSE IF t - u < MinInt THEN MinInt ELSE t - u

-----------------------------------------------------------------------------
(* The parsers *)

Err == [ok |-> FALSE, v |-> 0]
Ok(v) == [ok |-> TRUE, v |-> v]

\* Mutant: the fraction of the seconds is lost.
parseTimeSeconds(t) ==
    IF t.kind = "number" THEN Ok(Unix(Int64("number", t.n, Part * Second), 0)) ELSE Err

\* math.Modf gives the seconds and their fraction, exactly and both with the
\* sign of the number; the fraction's ticks are a rounded product.  NaN, and the fraction of an infinity, are converted like numbers.
parseTime(t) ==
    LET s  == Trunc(t.n, Part * Second)
        ns == t.n - s * Part * Second
    IN  CASE t.kind = "number" -> Ok(Unix(Int64("number", s, 1), Int64("number", Round(ns), Part)))
          [] t.kind = "nan" -> Ok(Unix(Int64("nan", 0, 1), Int64("nan", 0, 1)))
          [] t.kind = "inf" -> Ok(Unix(Int64("inf", t.n, 1), Int64("nan", 0, 1)))
          [] t.kind = "rfc3339" -> Ok(t.n + Epoch * Second)
          [] OTHER -> Err

\* prommodel.ParseDuration: Atoi stops at the largest integer, the products wrap.
ParseDuration(t) ==
    IF t.kind = "units" THEN Ok(Wrap((IF t.n > MaxInt THEN MaxInt ELSE t.n) * t.unit)) ELSE Err

\* Mutant: a number out of range is not an error.
parseDurationUnchecked(t) ==
    IF t.kind \in {"number", "nan", "inf"} THEN Ok(Int64(t.kind, Round(t.n), Part))
    ELSE ParseDuration(t)

\* The rounded product is compared and converted: float64(MaxInt64) is one more
\* than MaxInt64, and NaN compares with nothing.
parseDuration(t) ==
    LET ts == IF t.kind = "number" THEN Round(t.n) ELSE t.n
        overflows == \/ t.kind = "inf"
                     \/ t.kind = "number" /\ (ts > (MaxInt + 1) * Part \/ ts < MinInt * Part)
    IN  IF t.kind \in {"number", "nan", "inf"}
        THEN IF overflows THEN Err ELSE Ok(Int64(t.kind, ts, Part))
        ELSE ParseDuration(t)

-----------------------------------------------------------------------------
(* The handler *)

\* The pre checks, in their order; whatever passes goes on to the expression.
hijackQueryRange ==
    LET start == parseTime(form.start)
        end   == parseTime(form.end)
        step  == parseDuration(form.step)
    IN  /\ verdict = "none"
        /\ verdict' =
             IF form.timeout.kind # "empty" /\ ~parseDuration(form.timeout).ok THEN "timeout"
             ELSE IF ~start.ok THEN "start"
             ELSE IF ~end.ok THEN "end"
             ELSE IF end.v < start.v THEN "order"
             ELSE IF ~step.ok THEN "step"
             ELSE IF step.v <= 0 THEN "width"
             ELSE IF Sub(end.v, start.v) \div step.v > Limit THEN "resolution"
             ELSE "passed"
        /\ UNCHANGED <<saturating, form>>

Next == hijackQueryRange

Spec == Init /\ [][Next]_vars

-----------------------------------------------------------------------------
(* What the pre checks promise, in terms of the ticks that the texts name *)

\* The seconds of a number, and the ticks that the product makes of the rest.
Whole(t) == Trunc(t.n, Part * Second)
Rest(t) == Trunc(Round(t.n - Whole(t) * Part * Second), Part)

\* The tick that a text names, and whether int64 seconds since year 1 hold it.
Instant(t) == IF t.kind = "number" THEN Whole(t) * Second + Rest(t) ELSE t.n

Representable(t) ==
    /\ t.kind \in {"number", "rfc3339"}
    /\ t.kind = "number" => Whole(t) \in MinInt .. MaxInt
    /\ (Instant(t) \div Second) + Epoch \in MinInt .. MaxInt

\* The ticks of a duration.
Ticks(t) == IF t.kind = "number" THEN Trunc(Round(t.n), Part) ELSE t.n * t.unit

\* A float64 below the smallest int64 is out of range, even by less than a tick.
Proper(t) == /\ t.kind \in {"number", "units"}
             /\ Ticks(t) \in MinInt .. MaxInt
             /\ t.kind = "number" => Round(t.n) >= MinInt * Part

\* The samples that Prometheus evaluates from the tick s to the tick e.
Points(s, e, step) == Cardinality({k \in 0 .. e - s : s + k * step <= e})

\* For times and durations in range, a request passes exactly when it does not
\* end before it starts, has a positive step and asks for at most Limit steps
\* after the first point, counted in ticks.  The ticks of a float64 are those
\* of its rounded product, which may be the next whole tick or one tick less
\* than the decimal that was written; beyond that rounding, no notation, no
\* sign, no conversion and no boundary of the integers refuses a good request
\* or lets a bad one through.
RangeDecision ==
    LET s == Instant(form.start)
        e == Instant(form.end)
        d == Ticks(form.step)
    IN  /\ verdict # "none"
        /\ Representable(form.start) /\ Representable(form.end) /\ e - s <= MaxInt
        /\ Proper(form.step) /\ (Proper(form.timeout) \/ form.timeout.kind = "empty")
        => (verdict = "passed" <=> s <= e /\ d > 0 /\ Points(s, e, d) <= Limit + 1)

\* Neither NaN nor an infinity nor a number that overflows becomes a step that
\* passes, on any processor: what float64(MaxInt64) lets through parseDuration
\* rounds to one tick more than the largest Duration at most, or is stopped by
\* the check of the sign.
StepGenuine ==
    verdict = "passed" /\ form.step.kind \in {"number", "nan", "inf"} =>
        form.step.kind = "number" /\ Ticks(form.step) \in 1 .. MaxInt + 1

\* Time.Sub saturates on ranges longer than a Duration (292 years), and the
\* limit then counts too few points.  With a step of which Limit + 1 fit into
\* a Duration (in the program: up to 9 days) the limit holds all the same, for
\* ranges of any length, counted in the ticks that the rounded products name.
ShortStepsLimited ==
    /\ verdict = "passed"
    /\ Representable(form.start) /\ Representable(form.end) /\ Proper(form.step)
    /\ (Limit + 1) * Ticks(form.step) <= MaxInt
    => Points(Instant(form.start), Instant(form.end), Ticks(form.step)) <= Limit + 1

\* A request that passes asks for no more points per timeseries than the error
\* "exceeded maximum resolution" allows (and the point at start).
ResolutionLimited ==
    /\ verdict = "passed"
    /\ Representable(form.start) /\ Representable(form.end) /\ Proper(form.step)
    => Points(Instant(form.start), Instant(form.end), Ticks(form.step)) <= Limit + 1

=============================================================================
