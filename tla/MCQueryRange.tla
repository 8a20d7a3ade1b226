---------------------------- MODULE MCQueryRange ----------------------------
(***************************************************************************)
(* Integers of 4 bits, three ticks to a second and floats of 3 significant *)
(* bits: from below the smallest to above the largest time and duration,   *)
(* every such float down to an eighth of a second.  As 3 is no power of 2, *)
(* a product of a float with time.Second is seldom a float and has to be   *)
(* rounded: 5/8 seconds are 1.875 ticks and become 2, and the 9 ticks of 3 *)
(* seconds become 8, which is one more than the largest integer.           *)
(***************************************************************************)
EXTENDS QueryRange

\* The nearest float, and of two of them the one with an even last bit.
NearestEven(x) ==
    LET size == IF x < 0 THEN -x ELSE x
        gap  == CHOOSE g \in {1, 2, 4, 8, 16, 32} : size < 8 * g /\ (g > 1 => size >= 4 * g)
        q    == x \div gap
        up   == 2 * (x % gap) > gap \/ (2 * (x % gap) = gap /\ q % 2 = 1)
    IN  gap * (IF up THEN q + 1 ELSE q)

\* The float of m eighths of a second.
Number(m) == [kind |-> "number", n |-> 3 * m, unit |-> 0]
Other(kind) == [kind |-> kind, n |-> 0, unit |-> 0]
Inf(sign) == [kind |-> "inf", n |-> sign, unit |-> 0]
RFC3339(n) == [kind |-> "rfc3339", n |-> n, unit |-> 0]
Units(n, unit) == [kind |-> "units", n |-> n, unit |-> unit]

Floats(largest) == {m \in -largest .. largest : NearestEven(m) = m}

AllTimes == {Number(m) : m \in Floats(80)} \cup {RFC3339(n) : n \in -3 .. 8}
              \cup {Other("nan"), Inf(1), Inf(-1), Other("bad"), Other("empty")}

AllDurations == {Number(m) : m \in Floats(32)} \cup {Units(n, u) : n \in {0, 1, 2, 3, 9}, u \in {1, 6}}
              \cup {Other("nan"), Inf(1), Inf(-1), Other("bad"), Other("empty")}

SomeTimeouts == {Other("empty"), Number(2), Number(-28), Other("bad")}

=============================================================================
