------------------------------ MODULE Matchers ------------------------------
(***************************************************************************)
(* The query rewriting of pkg/prom and the namespace sets of pkg/data.     *)
(*                                                                         *)
(* Every selector of a tenant's query gets a matcher on the label          *)
(* "namespace" that keeps it inside the tenant's namespaces.  The data is  *)
(* abstracted to what the rewriting tells apart:                           *)
(*                                                                         *)
(*   - the value of an equality matcher is an element of Value, the value  *)
(*     of a regexp matcher is the set of values its pattern matches (the   *)
(*     pattern is anchored on both sides, by promlb.NewMatcher and by      *)
(*     translateLabelMatcher alike), or BadPattern when it does not        *)
(*     compile;                                                            *)
(*   - the sorted slice of a data.Set is the set of its strings;           *)
(*   - join(namespaces), "a|b|c", is therefore the set of the namespaces:  *)
(*     a namespace is a DNS label, which no regexp operator can occur in.  *)
(*                                                                         *)
(* A series is a total function from labels to values, Blank ("") being    *)
(* the value of a label that the series does not have.                     *)
(***************************************************************************)
EXTENDS Integers, Sequences

CONSTANTS
    Label,               \* label names
    Value,               \* label values
    namespaceMatchName,  \* the label "namespace"
    noneNamespace,       \* "______", no namespace can have this name
    Blank,               \* the empty string
    BadPattern           \* a regexp that does not compile

ASSUME LabelAssumption == namespaceMatchName \in Label

ASSUME ValueAssumption == /\ noneNamespace \in Value
                          /\ Blank \in Value
                          /\ noneNamespace # Blank

ASSUME PatternAssumption == /\ BadPattern \notin Value
                            /\ \A p \in SUBSET Value : BadPattern # p

\* The names a Kubernetes namespace can have.
Namespace == Value \ {noneNamespace, Blank}

\* promlb.Matcher: the parser only builds matchers of a known type whose
\* pattern compiles.
Matcher == [name : Label, type : {"=", "!="}, value : Value]
             \cup [name : Label, type : {"=~", "!~"}, value : SUBSET Value]

\* prompb.LabelMatcher: what the wire can carry besides, a pattern nobody has
\* compiled yet and an enum value ("?") that is none of the four types.
LabelMatcher == [name : Label, type : {"=~", "!~"}, value : {BadPattern}]
                  \cup [name : Label, type : {"?"}, value : Value]
                  \cup Matcher

Series == [Label -> Value]

-----------------------------------------------------------------------------
(* data.Set and pkg/prom/join.go *)

Values(set) == set \ {Blank}

stringSliceFilter(strSlice, filter(_)) == {s \in strSlice : filter(s)}

stringSliceIgnore(strSlice, ignore) ==
    stringSliceFilter(strSlice, LAMBDA s : s # ignore)

-----------------------------------------------------------------------------
(* promlb.Matcher.Matches, and what a list of matchers selects *)

Matches(m, v) ==
    \/ m.type = "="  /\ v = m.value
    \/ m.type = "!=" /\ v # m.value
    \/ m.type = "=~" /\ v \in m.value
    \/ m.type = "!~" /\ v \notin m.value

Selects(ms, s) == \A i \in DOMAIN ms : Matches(ms[i], s[ms[i].name])

\* fromLabelMatchers fails on an unknown type and on a pattern that does not
\* compile.  Prometheus decodes a remote read with the same function, and
\* answers the read with an error when it fails.
fromLabelMatchersFails(ms) ==
    \E i \in DOMAIN ms : ms[i].type = "?" \/ ms[i].value = BadPattern

-----------------------------------------------------------------------------
(* pkg/prom/matcher.go *)

modifyMatcher(srcMatcher, namespaces) ==
    IF namespaces = {}
    THEN [name |-> srcMatcher.name, type |-> "=", value |-> noneNamespace]
    ELSE IF \E n \in namespaces : namespaces = {n}
    THEN [name |-> srcMatcher.name, type |-> "=", value |-> CHOOSE n \in namespaces : TRUE]
    ELSE [name |-> srcMatcher.name, type |-> "=~", value |-> namespaces]

\* The same choice, made on the size of the slice instead of in a switch.
modifyLabelMatcher(srcMatcher, namespaces) ==
    CASE namespaces = {} ->
           [name |-> srcMatcher.name, type |-> "=", value |-> noneNamespace]
      [] \E n \in namespaces : namespaces = {n} ->
           [name |-> srcMatcher.name, type |-> "=", value |-> CHOOSE n \in namespaces : TRUE]
      [] OTHER ->
           [name |-> srcMatcher.name, type |-> "=~", value |-> namespaces]

\* The matcher starts as &Matcher{Name: matcherName}: type 0 is MatchEqual.
createMatcher(matcherName, namespaces) ==
    modifyMatcher([name |-> matcherName, type |-> "=", value |-> Blank], namespaces)

createLabelMatcher(matcherName, namespaces) ==
    modifyLabelMatcher([name |-> matcherName, type |-> "=", value |-> Blank], namespaces)

-----------------------------------------------------------------------------
(* pkg/prom/translate.go *)

\* Mutant: != keeps every namespace of the set, the excluded one included.
translateMatcherIgnoresNothing(namespaceSet, m) ==
    modifyMatcher(m, IF m.type = "!=" THEN Values(namespaceSet)
                     ELSE {n \in Values(namespaceSet) : Matches(m, n)})

translateMatcher(namespaceSet, srcMatcher) ==
    LET value == srcMatcher.value
    IN  CASE srcMatcher.type = "=" ->
               IF value \in namespaceSet THEN srcMatcher
               ELSE [srcMatcher EXCEPT !.value = noneNamespace]
          [] srcMatcher.type = "!=" ->
               modifyMatcher(srcMatcher,
                   IF value \in namespaceSet
                   THEN stringSliceIgnore(Values(namespaceSet), value)
                   ELSE Values(namespaceSet))
          [] srcMatcher.type \in {"=~", "!~"} ->
               modifyMatcher(srcMatcher,
                   stringSliceFilter(Values(namespaceSet),
                                     LAMBDA ns : Matches(srcMatcher, ns)))

\* Mutant: the negation of !~ is lost in the copy of the code.
translateLabelMatcherLosesNot(namespaceSet, m) ==
    IF m.type = "!~" /\ m.value # BadPattern
    THEN modifyLabelMatcher(m, {n \in Values(namespaceSet) : n \in m.value})
    ELSE IF m.type = "?" \/ m.value = BadPattern THEN m
    ELSE modifyLabelMatcher(m, {n \in Values(namespaceSet) : Matches(m, n)})

translateLabelMatcher(namespaceSet, srcMatcher) ==
    LET value == srcMatcher.value
    IN  CASE srcMatcher.type = "=" ->
               IF value \in namespaceSet THEN srcMatcher
               ELSE [srcMatcher EXCEPT !.value = noneNamespace]
          [] srcMatcher.type = "!=" ->
               modifyLabelMatcher(srcMatcher,
                   IF value \in namespaceSet
                   THEN stringSliceIgnore(Values(namespaceSet), value)
                   ELSE Values(namespaceSet))
          [] srcMatcher.type = "=~" /\ value # BadPattern ->
               modifyLabelMatcher(srcMatcher,
                   stringSliceFilter(Values(namespaceSet), LAMBDA ns : ns \in value))
          [] srcMatcher.type = "!~" /\ value # BadPattern ->
               modifyLabelMatcher(srcMatcher,
                   stringSliceFilter(Values(namespaceSet), LAMBDA ns : ns \notin value))
          [] OTHER -> srcMatcher

-----------------------------------------------------------------------------
(* pkg/prom/filter.go *)

\* The positions of the matchers on the namespace label.
NamespaceMatchers(ms) == {i \in DOMAIN ms : ms[i].name = namespaceMatchName}

\* The loops return at the first one.
First(I) == CHOOSE i \in I : \A j \in I : i <= j

\* Mutant: the namespace matcher is always appended.
FilterMatchersAppends(namespaceSet, srcMatchers) ==
    Append(srcMatchers, createMatcher(namespaceMatchName, Values(namespaceSet)))

FilterMatchers(namespaceSet, srcMatchers) ==
    IF NamespaceMatchers(srcMatchers) = {}
    THEN Append(srcMatchers, createMatcher(namespaceMatchName, Values(namespaceSet)))
    ELSE [srcMatchers EXCEPT ![First(NamespaceMatchers(srcMatchers))] =
                                 translateMatcher(namespaceSet, @)]

FilterLabelMatchers(namespaceSet, srcMatchers) ==
    IF NamespaceMatchers(srcMatchers) = {}
    THEN Append(srcMatchers, createLabelMatcher(namespaceMatchName, Values(namespaceSet)))
    ELSE [srcMatchers EXCEPT ![First(NamespaceMatchers(srcMatchers))] =
                                 translateLabelMatcher(namespaceSet, @)]

-----------------------------------------------------------------------------
(* pkg/prom/modify.go, pkg/prom/query.go and modifyQuery *)

\* The selectors of an expression, in the order parser.Inspect meets them.
Selector == [kind : {"vector", "matrix"}, matchers : Seq(Matcher)]

\* Inspect visits a matrix selector and then the vector selector inside it,
\* and the callback filters the same matchers both times.
ModifySelector(sel, namespaceSet) ==
    LET once == FilterMatchers(namespaceSet, sel.matchers)
    IN  [sel EXCEPT !.matchers = IF sel.kind = "matrix"
                                 THEN FilterMatchers(namespaceSet, once)
                                 ELSE once]

ModifyExpression(originalExpr, namespaceSet) ==
    [i \in DOMAIN originalExpr |-> ModifySelector(originalExpr[i], namespaceSet)]

\* NewExprForCountAllLabels: count ({namespace=~"..."}) by (__name__).
NewExprForCountAllLabels(namespaces) ==
    << [kind |-> "vector",
        matchers |-> << createMatcher(namespaceMatchName, namespaces) >>] >>

\* modifyQuery's loop: filteredMatchers(ms, drop)[i] is the list after i turns.
filteredMatchers(rawMatchers, filterReaderLabelSet) ==
    LET filtered[i \in 0 .. Len(rawMatchers)] ==
            IF i = 0 THEN <<>>
            ELSE IF rawMatchers[i].name \in filterReaderLabelSet THEN filtered[i - 1]
            ELSE Append(filtered[i - 1], rawMatchers[i])
    IN  filtered

\* Mutant: the labels of the reader's own Prometheus are not dropped.
modifyQueryKeepsLabels(originalQuery, namespaceSet, filterReaderLabelSet) ==
    FilterLabelMatchers(namespaceSet, originalQuery)

\* Mutant: the labels are dropped after the namespace matcher is in place.
modifyQueryDropsLast(originalQuery, namespaceSet, filterReaderLabelSet) ==
    LET f == FilterLabelMatchers(namespaceSet, originalQuery)
    IN  filteredMatchers(f, filterReaderLabelSet)[Len(f)]

modifyQuery(originalQuery, namespaceSet, filterReaderLabelSet) ==
    FilterLabelMatchers(namespaceSet,
        filteredMatchers(originalQuery, filterReaderLabelSet)[Len(originalQuery)])

\* What an expression can see of the series db.
ExprSelects(expr, db) ==
    UNION {{s \in db : Selects(expr[i].matchers, s)} : i \in DOMAIN expr}

=============================================================================
