--------------------------- MODULE MatchersProofs ---------------------------
(***************************************************************************)
(* What the rewriting of module Matchers guarantees for every set of       *)
(* labels, every set of values, every namespace set and every list of      *)
(* matchers, of any length.                                                *)
(***************************************************************************)
EXTENDS Matchers, WellFoundedInduction, TLAPS

\* A non-empty set of positions has a first one.
LEMMA FirstExists ==
  ASSUME NEW I \in SUBSET Nat, I # {}
  PROVE  /\ First(I) \in I
         /\ \A j \in I : First(I) <= j
<1>1. PICK i \in I : \A j \in I : <<j, i>> \notin OpToRel(<, Nat)
  BY WFMin, NatLessThanWellFounded
<1>2. \A j \in I : ~(j < i)
  BY <1>1 DEF OpToRel
<1>3. \A j \in I : i <= j
  BY <1>2
<1> QED  BY <1>3 DEF First

\* The first namespace matcher of a list is one of its matchers.
LEMMA FirstNamespaceMatcher ==
  ASSUME NEW T, NEW ms \in Seq(T), NamespaceMatchers(ms) # {}
  PROVE  /\ First(NamespaceMatchers(ms)) \in DOMAIN ms
         /\ ms[First(NamespaceMatchers(ms))].name = namespaceMatchName
<1>1. NamespaceMatchers(ms) \in SUBSET Nat
  BY DEF NamespaceMatchers
<1>2. First(NamespaceMatchers(ms)) \in NamespaceMatchers(ms)
  BY <1>1, FirstExists
<1> QED  BY <1>2 DEF NamespaceMatchers

-----------------------------------------------------------------------------
(* One matcher *)

\* modifyMatcher builds a matcher that accepts the given namespaces and, when
\* there are none, only the impossible name "______".
LEMMA ModifyMatcherMatches ==
  ASSUME NEW m \in LabelMatcher, NEW N \in SUBSET Namespace
  PROVE  /\ modifyMatcher(m, N) \in Matcher
         /\ modifyMatcher(m, N).name = m.name
         /\ \A v \in Value : Matches(modifyMatcher(m, N), v) <=>
                                 v \in (IF N = {} THEN {noneNamespace} ELSE N)
<1> DEFINE r == modifyMatcher(m, N)
<1>0. m.name \in Label /\ m = [name |-> m.name, type |-> m.type, value |-> m.value]
  BY DEF LabelMatcher, Matcher
<1>1. CASE N = {}
  <2>1. r = [name |-> m.name, type |-> "=", value |-> noneNamespace]
    BY <1>0, <1>1 DEF modifyMatcher
  <2> QED  BY <1>0, <1>1, <2>1, ValueAssumption DEF Matcher, Matches
<1>2. CASE N # {} /\ \E n \in N : N = {n}
  <2>1. PICK n \in N : N = {n}
    BY <1>2
  <2>2. (CHOOSE k \in N : TRUE) = n
    BY <2>1
  <2>3. r = [name |-> m.name, type |-> "=", value |-> n]
    BY <1>0, <1>2, <2>2 DEF modifyMatcher
  <2> QED  BY <1>0, <1>2, <2>1, <2>3 DEF Matcher, Matches, Namespace
<1>3. CASE N # {} /\ ~(\E n \in N : N = {n})
  <2>1. r = [name |-> m.name, type |-> "=~", value |-> N]
    BY <1>0, <1>3 DEF modifyMatcher
  <2>2. N \in SUBSET Value
    BY DEF Namespace
  <2> QED  BY <1>0, <1>3, <2>1, <2>2 DEF Matcher, Matches
<1> QED  BY <1>1, <1>2, <1>3

\* A matcher that modifyMatcher built for namespaces of the set is a fixed
\* point of translateMatcher.
LEMMA TranslateModified ==
  ASSUME NEW S \in SUBSET Namespace, NEW m \in LabelMatcher, NEW N \in SUBSET S
  PROVE  translateMatcher(S, modifyMatcher(m, N)) = modifyMatcher(m, N)
<1> DEFINE r == modifyMatcher(m, N)
<1>0. m.name \in Label /\ m = [name |-> m.name, type |-> m.type, value |-> m.value]
  BY DEF LabelMatcher, Matcher
<1>1. CASE N = {}
  <2>1. r = [name |-> m.name, type |-> "=", value |-> noneNamespace]
    BY <1>0, <1>1 DEF modifyMatcher
  <2>2. noneNamespace \notin S
    BY DEF Namespace
  <2>3. translateMatcher(S, r) = [r EXCEPT !.value = noneNamespace]
    BY <2>1, <2>2 DEF translateMatcher
  <2> QED  BY <2>1, <2>3
<1>2. CASE N # {} /\ \E n \in N : N = {n}
  <2>1. PICK n \in N : N = {n}
    BY <1>2
  <2>2. (CHOOSE k \in N : TRUE) = n
    BY <2>1
  <2>3. r = [name |-> m.name, type |-> "=", value |-> n]
    BY <1>0, <1>2, <2>2 DEF modifyMatcher
  <2> QED  BY <2>3 DEF translateMatcher
<1>3. CASE N # {} /\ ~(\E n \in N : N = {n})
  <2>1. r = [name |-> m.name, type |-> "=~", value |-> N]
    BY <1>0, <1>3 DEF modifyMatcher
  <2>2. {v \in Values(S) : Matches(r, v)} = N
    BY <2>1 DEF Values, Matches, Namespace
  <2>3. translateMatcher(S, r) = modifyMatcher(r, N)
    BY <2>1, <2>2 DEF translateMatcher, stringSliceFilter
  <2>4. modifyMatcher(r, N) = [name |-> r.name, type |-> "=~", value |-> N]
    BY <1>3 DEF modifyMatcher
  <2> QED  BY <2>1, <2>3, <2>4
<1> QED  BY <1>1, <1>2, <1>3

\* The namespaces of the set that a matcher accepts are what translateMatcher
\* hands to modifyMatcher, for every type but "=".
LEMMA TranslateIsModify ==
  ASSUME NEW S \in SUBSET Namespace, NEW m \in Matcher, m.type # "="
  PROVE  translateMatcher(S, m) = modifyMatcher(m, {n \in S : Matches(m, n)})
<1>1. Values(S) = S
  BY DEF Values, Namespace
<1>2. CASE m.type = "!="
  <2>1. (IF m.value \in S THEN stringSliceIgnore(S, m.value) ELSE S)
           = {n \in S : Matches(m, n)}
    BY <1>2 DEF stringSliceIgnore, stringSliceFilter, Matches
  <2> QED  BY <1>1, <1>2, <2>1 DEF translateMatcher
<1>3. CASE m.type \in {"=~", "!~"}
  BY <1>1, <1>3 DEF translateMatcher, stringSliceFilter
<1> QED  BY <1>2, <1>3 DEF Matcher

\* translateMatcher keeps the label, never accepts a value outside the set
\* but "______", accepts inside it what the original accepts, and is
\* idempotent.
LEMMA TranslateMatcherExact ==
  ASSUME NEW S \in SUBSET Namespace, NEW m \in Matcher
  PROVE  /\ translateMatcher(S, m) \in Matcher
         /\ translateMatcher(S, m).name = m.name
         /\ \A v \in Value : Matches(translateMatcher(S, m), v) =>
                                 v \in S \cup {noneNamespace}
         /\ \A v \in Value \ {noneNamespace} :
                Matches(translateMatcher(S, m), v) <=> Matches(m, v) /\ v \in S
         /\ translateMatcher(S, translateMatcher(S, m)) = translateMatcher(S, m)
<1> DEFINE r == translateMatcher(S, m)
<1>0. S \subseteq Value /\ noneNamespace \notin S
  BY DEF Namespace
<1>1. CASE m.type = "="
  <2>0. m \in [name : Label, type : {"=", "!="}, value : Value]
    BY <1>1 DEF Matcher
  <2>1. CASE m.value \in S
    <3>1. r = m
      BY <1>1, <2>1 DEF translateMatcher
    <3> QED  BY <1>1, <2>0, <2>1, <3>1 DEF Matches
  <2>2. CASE m.value \notin S
    <3>1. r = [m EXCEPT !.value = noneNamespace]
      BY <1>1, <2>2 DEF translateMatcher
    <3>2. r = [name |-> m.name, type |-> "=", value |-> noneNamespace]
      BY <1>1, <2>0, <3>1
    <3>3. r \in Matcher
      BY <2>0, <3>2, ValueAssumption DEF Matcher
    <3>4. translateMatcher(S, r) = r
      <4> HIDE DEF r
      <4>1. r.type = "=" /\ r.value \notin S
        BY <1>0, <3>2
      <4>2. translateMatcher(S, r) = [r EXCEPT !.value = noneNamespace]
        BY <4>1 DEF translateMatcher
      <4>3. [r EXCEPT !.value = noneNamespace] = r
        BY <3>2
      <4> QED  BY <4>2, <4>3
    <3> QED  BY <1>1, <2>0, <2>2, <3>2, <3>3, <3>4 DEF Matches
  <2> QED  BY <2>1, <2>2
<1>2. CASE m.type # "="
  <2> DEFINE N == {n \in S : Matches(m, n)}
  <2>1. N \in SUBSET S /\ N \in SUBSET Namespace
    OBVIOUS
  <2>2. r = modifyMatcher(m, N)
    BY <1>2, TranslateIsModify
  <2>3. m \in LabelMatcher
    BY DEF LabelMatcher
  <2>4. /\ r \in Matcher
        /\ r.name = m.name
        /\ \A v \in Value : Matches(r, v) <=>
                                v \in (IF N = {} THEN {noneNamespace} ELSE N)
    BY <2>1, <2>2, <2>3, ModifyMatcherMatches
  <2>5. translateMatcher(S, r) = r
    BY <2>1, <2>2, <2>3, TranslateModified
  <2> QED  BY <1>0, <2>4, <2>5
<1> QED  BY <1>1, <1>2

\* createMatcher accepts exactly the namespaces it is given, or "______".
LEMMA CreateMatcherExact ==
  ASSUME NEW S \in SUBSET Namespace
  PROVE  /\ createMatcher(namespaceMatchName, Values(S)) \in Matcher
         /\ createMatcher(namespaceMatchName, Values(S)).name = namespaceMatchName
         /\ \A v \in Value : Matches(createMatcher(namespaceMatchName, Values(S)), v)
                                <=> v \in (IF S = {} THEN {noneNamespace} ELSE S)
         /\ translateMatcher(S, createMatcher(namespaceMatchName, Values(S)))
               = createMatcher(namespaceMatchName, Values(S))
<1> DEFINE z == [name |-> namespaceMatchName, type |-> "=", value |-> Blank]
<1>1. z \in LabelMatcher
  BY LabelAssumption, ValueAssumption DEF LabelMatcher, Matcher
<1>2. Values(S) = S
  BY DEF Values, Namespace
<1>3. createMatcher(namespaceMatchName, Values(S)) = modifyMatcher(z, S)
  BY <1>2 DEF createMatcher
<1>4. z.name = namespaceMatchName
  OBVIOUS
<1> HIDE DEF z
<1>5. translateMatcher(S, modifyMatcher(z, S)) = modifyMatcher(z, S)
  BY <1>1, TranslateModified
<1> QED  BY <1>1, <1>3, <1>4, <1>5, ModifyMatcherMatches

-----------------------------------------------------------------------------
(* The list of matchers of a selector *)

\* FilterMatchers on a list without a namespace matcher.
LEMMA FilterAppends ==
  ASSUME NEW S \in SUBSET Namespace, NEW ms \in Seq(Matcher),
         NamespaceMatchers(ms) = {}
  PROVE  LET f == FilterMatchers(S, ms)
             c == createMatcher(namespaceMatchName, Values(S))
         IN  /\ f \in Seq(Matcher)
             /\ Len(f) = Len(ms) + 1
             /\ \A i \in 1 .. Len(ms) : f[i] = ms[i]
             /\ f[Len(ms) + 1] = c
             /\ NamespaceMatchers(f) = {Len(ms) + 1}
<1> DEFINE c == createMatcher(namespaceMatchName, Values(S))
           f == FilterMatchers(S, ms)
<1>1. c \in Matcher /\ c.name = namespaceMatchName
  BY CreateMatcherExact
<1>2. f = Append(ms, c)
  BY DEF FilterMatchers
<1> HIDE DEF c, f
<1>3. /\ f \in Seq(Matcher)
      /\ Len(f) = Len(ms) + 1
      /\ \A i \in 1 .. Len(ms) : f[i] = ms[i]
      /\ f[Len(ms) + 1] = c
  BY <1>1, <1>2
<1>4. NamespaceMatchers(f) = {Len(ms) + 1}
  BY <1>1, <1>3 DEF NamespaceMatchers
<1> QED  BY <1>3, <1>4 DEF c, f

\* FilterMatchers on a list with a namespace matcher.
LEMMA FilterTranslates ==
  ASSUME NEW S \in SUBSET Namespace, NEW ms \in Seq(Matcher),
         NamespaceMatchers(ms) # {}
  PROVE  LET f == FilterMatchers(S, ms)
             k == First(NamespaceMatchers(ms))
         IN  /\ k \in DOMAIN ms /\ ms[k].name = namespaceMatchName
             /\ f \in Seq(Matcher)
             /\ DOMAIN f = DOMAIN ms
             /\ \A i \in DOMAIN ms \ {k} : f[i] = ms[i]
             /\ f[k] = translateMatcher(S, ms[k])
             /\ NamespaceMatchers(f) = NamespaceMatchers(ms)
<1> DEFINE f == FilterMatchers(S, ms)
           k == First(NamespaceMatchers(ms))
<1>1. k \in DOMAIN ms /\ ms[k].name = namespaceMatchName
  BY FirstNamespaceMatcher
<1>2. f = [ms EXCEPT ![k] = translateMatcher(S, ms[k])]
  BY DEF FilterMatchers
<1>3. ms[k] \in Matcher
  BY <1>1
<1>4. /\ translateMatcher(S, ms[k]) \in Matcher
      /\ translateMatcher(S, ms[k]).name = namespaceMatchName
  BY <1>1, <1>3, TranslateMatcherExact
<1> HIDE DEF f, k
<1>5. /\ f \in Seq(Matcher)
      /\ DOMAIN f = DOMAIN ms
      /\ \A i \in DOMAIN ms \ {k} : f[i] = ms[i]
      /\ f[k] = translateMatcher(S, ms[k])
  BY <1>1, <1>2, <1>4
<1>6. NamespaceMatchers(f) = NamespaceMatchers(ms)
  BY <1>1, <1>4, <1>5 DEF NamespaceMatchers
<1> QED  BY <1>1, <1>5, <1>6 DEF f, k

\* FilterMatchers returns a list of matchers.
LEMMA FilterType ==
  ASSUME NEW S \in SUBSET Namespace, NEW ms \in Seq(Matcher)
  PROVE  FilterMatchers(S, ms) \in Seq(Matcher)
<1>1. CASE NamespaceMatchers(ms) = {}
  BY <1>1, FilterAppends
<1>2. CASE NamespaceMatchers(ms) # {}
  BY <1>2, FilterTranslates
<1> QED  BY <1>1, <1>2

\* A rewritten selector reads, of the series of real namespaces, exactly what
\* the raw one reads inside the namespace set, and never a series outside it
\* (FilterMatchers, for query, query_range, series and federate).
THEOREM FilterExact ==
  ASSUME NEW S \in SUBSET Namespace, NEW ms \in Seq(Matcher), NEW s \in Series
  PROVE  /\ FilterMatchers(S, ms) \in Seq(Matcher)
         /\ Selects(FilterMatchers(S, ms), s) =>
                s[namespaceMatchName] \in S \cup {noneNamespace}
         /\ s[namespaceMatchName] # noneNamespace =>
                (Selects(FilterMatchers(S, ms), s) <=>
                    Selects(ms, s) /\ s[namespaceMatchName] \in S)
<1> DEFINE f == FilterMatchers(S, ms)
           v == s[namespaceMatchName]
<1>0. v \in Value
  BY LabelAssumption DEF Series
<1>1. CASE NamespaceMatchers(ms) = {}
  <2> DEFINE c == createMatcher(namespaceMatchName, Values(S))
  <2>1. /\ f \in Seq(Matcher)
        /\ Len(f) = Len(ms) + 1
        /\ \A i \in 1 .. Len(ms) : f[i] = ms[i]
        /\ f[Len(ms) + 1] = c
    BY <1>1, FilterAppends
  <2>2. c.name = namespaceMatchName
    BY CreateMatcherExact
  <2>3. Matches(c, v) <=> v \in (IF S = {} THEN {noneNamespace} ELSE S)
    BY <1>0, CreateMatcherExact
  <2> HIDE DEF f, c
  <2>4. Selects(f, s) <=> Selects(ms, s) /\ Matches(c, v)
    BY <2>1, <2>2 DEF Selects
  <2> QED  BY <2>1, <2>3, <2>4 DEF f
<1>2. CASE NamespaceMatchers(ms) # {}
  <2> DEFINE k == First(NamespaceMatchers(ms))
  <2>1. /\ k \in DOMAIN ms /\ ms[k].name = namespaceMatchName
        /\ f \in Seq(Matcher)
        /\ DOMAIN f = DOMAIN ms
        /\ \A i \in DOMAIN ms \ {k} : f[i] = ms[i]
        /\ f[k] = translateMatcher(S, ms[k])
    BY <1>2, FilterTranslates
  <2> HIDE DEF f, k
  <2>2. ms[k] \in Matcher
    BY <2>1
  <2>3. /\ f[k].name = namespaceMatchName
        /\ Matches(f[k], v) => v \in S \cup {noneNamespace}
        /\ v # noneNamespace => (Matches(f[k], v) <=> Matches(ms[k], v) /\ v \in S)
    BY <1>0, <2>1, <2>2, TranslateMatcherExact
  <2>4. Selects(f, s) => Matches(f[k], v)
    BY <2>1, <2>3 DEF Selects
  <2>5. v # noneNamespace => (Selects(f, s) <=> Selects(ms, s) /\ v \in S)
    BY <2>1, <2>3 DEF Selects
  <2> QED  BY <2>1, <2>3, <2>4, <2>5 DEF f
<1> QED  BY <1>1, <1>2

\* Rewriting a rewritten selector changes nothing: ModifyExpression may visit
\* the matchers of a matrix selector twice.
THEOREM FilterIdempotent ==
  ASSUME NEW S \in SUBSET Namespace, NEW ms \in Seq(Matcher)
  PROVE  FilterMatchers(S, FilterMatchers(S, ms)) = FilterMatchers(S, ms)
<1> DEFINE f == FilterMatchers(S, ms)
           g == FilterMatchers(S, f)
<1>1. PICK k \in DOMAIN f : /\ f \in Seq(Matcher)
                            /\ NamespaceMatchers(f) # {}
                            /\ k = First(NamespaceMatchers(f))
                            /\ translateMatcher(S, f[k]) = f[k]
  <2>1. CASE NamespaceMatchers(ms) = {}
    <3> DEFINE c == createMatcher(namespaceMatchName, Values(S))
               k == Len(ms) + 1
    <3>1. /\ f \in Seq(Matcher)
          /\ Len(f) = k
          /\ f[k] = c
          /\ NamespaceMatchers(f) = {k}
      BY <2>1, FilterAppends
    <3>2. translateMatcher(S, c) = c
      BY CreateMatcherExact
    <3>3. k \in Nat /\ k \in DOMAIN f
      BY <3>1
    <3> HIDE DEF f, k, c
    <3>4. First({k}) = k
      <4>1. {k} \in SUBSET Nat /\ {k} # {}
        BY <3>3
      <4>2. First({k}) \in {k}
        BY <4>1, FirstExists
      <4> QED  BY <4>2
    <3> QED  BY <3>1, <3>2, <3>3, <3>4
  <2>2. CASE NamespaceMatchers(ms) # {}
    <3> DEFINE k == First(NamespaceMatchers(ms))
    <3>1. /\ k \in DOMAIN ms
          /\ f \in Seq(Matcher)
          /\ DOMAIN f = DOMAIN ms
          /\ f[k] = translateMatcher(S, ms[k])
          /\ NamespaceMatchers(f) = NamespaceMatchers(ms)
      BY <2>2, FilterTranslates
    <3>2. ms[k] \in Matcher
      BY <3>1
    <3>3. translateMatcher(S, f[k]) = f[k]
      BY <3>1, <3>2, TranslateMatcherExact
    <3> QED  BY <2>2, <3>1, <3>3
  <2> QED  BY <2>1, <2>2
<1> HIDE DEF f
<1>2. /\ DOMAIN g = DOMAIN f
      /\ \A i \in DOMAIN f \ {k} : g[i] = f[i]
      /\ g[k] = translateMatcher(S, f[k])
      /\ g \in Seq(Matcher)
  BY <1>1, FilterTranslates
<1> HIDE DEF g
<1>3. \A i \in DOMAIN f : g[i] = f[i]
  BY <1>1, <1>2
<1>4. Len(g) = Len(f)
  BY <1>1, <1>2
<1>5. g = f
  BY <1>1, <1>2, <1>3, <1>4
<1> QED  BY <1>5 DEF f, g

-----------------------------------------------------------------------------
(* Expressions, the label-name query and remote reads *)

\* ModifyExpression filters the matchers of every selector, once or twice: by
\* FilterIdempotent it makes no difference.
LEMMA ModifyExpressionFilters ==
  ASSUME NEW S \in SUBSET Namespace, NEW expr \in Seq(Selector)
  PROVE  LET m == ModifyExpression(expr, S)
         IN  /\ m \in Seq(Selector)
             /\ DOMAIN m = DOMAIN expr
             /\ \A i \in DOMAIN expr :
                   /\ expr[i].matchers \in Seq(Matcher)
                   /\ m[i].matchers = FilterMatchers(S, expr[i].matchers)
<1> DEFINE m == ModifyExpression(expr, S)
<1>1. ASSUME NEW sel \in Selector
      PROVE  ModifySelector(sel, S) =
               [kind |-> sel.kind, matchers |-> FilterMatchers(S, sel.matchers)]
  <2>1. sel = [kind |-> sel.kind, matchers |-> sel.matchers] /\ sel.matchers \in Seq(Matcher)
    BY DEF Selector
  <2>2. FilterMatchers(S, FilterMatchers(S, sel.matchers)) = FilterMatchers(S, sel.matchers)
    BY <2>1, FilterIdempotent
  <2>3. ModifySelector(sel, S) = [sel EXCEPT !.matchers = FilterMatchers(S, sel.matchers)]
    BY <2>2 DEF ModifySelector
  <2> QED  BY <2>1, <2>3
<1>2. \A j \in DOMAIN expr : expr[j] \in Selector /\ expr[j].matchers \in Seq(Matcher)
  <2>1. \A j \in DOMAIN expr : expr[j] \in Selector
    OBVIOUS
  <2> QED  BY <2>1 DEF Selector
<1>3. m = [j \in 1 .. Len(expr) |->
             [kind |-> expr[j].kind, matchers |-> FilterMatchers(S, expr[j].matchers)]]
  BY <1>1, <1>2 DEF ModifyExpression
<1>4. \A j \in 1 .. Len(expr) : FilterMatchers(S, expr[j].matchers) \in Seq(Matcher)
  BY <1>2, FilterType
<1>5. \A j \in 1 .. Len(expr) :
        [kind |-> expr[j].kind, matchers |-> FilterMatchers(S, expr[j].matchers)] \in Selector
  BY <1>2, <1>4 DEF Selector
<1> HIDE DEF m
<1>6. m \in Seq(Selector) /\ DOMAIN m = DOMAIN expr
  BY <1>3, <1>5
<1>7. \A j \in DOMAIN expr : m[j].matchers = FilterMatchers(S, expr[j].matchers)
  BY <1>3
<1> QED  BY <1>2, <1>6, <1>7 DEF m

\* Every selector of an expression that ModifyExpression returns stays inside
\* the namespace set, and reads there what the raw selector reads.
THEOREM ModifyExpressionExact ==
  ASSUME NEW S \in SUBSET Namespace, NEW expr \in Seq(Selector),
         NEW i \in DOMAIN expr, NEW s \in Series
  PROVE  LET m == ModifyExpression(expr, S)
         IN  /\ Selects(m[i].matchers, s) =>
                    s[namespaceMatchName] \in S \cup {noneNamespace}
             /\ s[namespaceMatchName] # noneNamespace =>
                    (Selects(m[i].matchers, s) <=>
                        /\ Selects(expr[i].matchers, s)
                        /\ s[namespaceMatchName] \in S)
<1> DEFINE f == ModifyExpression(expr, S)[i].matchers
<1>1. expr[i].matchers \in Seq(Matcher) /\ f = FilterMatchers(S, expr[i].matchers)
  BY ModifyExpressionFilters
<1> HIDE DEF f
<1>2. /\ Selects(f, s) => s[namespaceMatchName] \in S \cup {noneNamespace}
      /\ s[namespaceMatchName] # noneNamespace =>
            (Selects(f, s) <=> Selects(expr[i].matchers, s) /\ s[namespaceMatchName] \in S)
  BY <1>1, FilterExact
<1> QED  BY <1>2 DEF f

\* The query of hijackLabelName reads the tenant's namespaces and nothing else.
LEMMA CountAllLabelsConfined ==
  ASSUME NEW S \in SUBSET Namespace
  PROVE  LET e == NewExprForCountAllLabels(Values(S))
         IN  /\ e \in Seq(Selector)
             /\ DOMAIN e = {1}
             /\ \A s \in Series : Selects(e[1].matchers, s) =>
                    s[namespaceMatchName] \in S \cup {noneNamespace}
<1> DEFINE c == createMatcher(namespaceMatchName, Values(S))
           e == NewExprForCountAllLabels(Values(S))
<1>1. c \in Matcher /\ c.name = namespaceMatchName
  BY CreateMatcherExact
<1>2. \A v \in Value : Matches(c, v) => v \in S \cup {noneNamespace}
  BY CreateMatcherExact
<1>3. e = << [kind |-> "vector", matchers |-> <<c>>] >>
  BY DEF NewExprForCountAllLabels
<1> HIDE DEF c, e
<1>4. <<c>> \in Seq(Matcher)
  BY <1>1
<1>5. [kind |-> "vector", matchers |-> <<c>>] \in Selector
  BY <1>4 DEF Selector
<1>6. e \in Seq(Selector) /\ DOMAIN e = {1} /\ e[1].matchers = <<c>>
  BY <1>3, <1>5
<1>7. ASSUME NEW s \in Series, Selects(<<c>>, s)
      PROVE  s[namespaceMatchName] \in S \cup {noneNamespace}
  <2>1. Matches(c, s[namespaceMatchName])
    BY <1>1, <1>7 DEF Selects
  <2>2. s[namespaceMatchName] \in Value
    BY LabelAssumption DEF Series
  <2> QED  BY <1>2, <2>1, <2>2
<1> QED  BY <1>6, <1>7 DEF e

\* modifyLabelMatcher makes the choice that modifyMatcher makes.
LEMMA ModifyCopiesAgree ==
  ASSUME NEW m, NEW N
  PROVE  modifyLabelMatcher(m, N) = modifyMatcher(m, N)
<1>1. CASE N = {}
  BY <1>1 DEF modifyLabelMatcher, modifyMatcher
<1>2. CASE N # {} /\ \E n \in N : N = {n}
  BY <1>2 DEF modifyLabelMatcher, modifyMatcher
<1>3. CASE N # {} /\ ~(\E n \in N : N = {n})
  BY <1>3 DEF modifyLabelMatcher, modifyMatcher
<1> QED  BY <1>1, <1>2, <1>3

\* The prompb copy of the translation does to a decodable matcher what the
\* promlb copy does, and leaves the others alone.
LEMMA CopiesAgreeOnMatcher ==
  ASSUME NEW S \in SUBSET Namespace, NEW m \in LabelMatcher
  PROVE  translateLabelMatcher(S, m) = IF m \in Matcher THEN translateMatcher(S, m) ELSE m
<1>1. \A N : modifyLabelMatcher(m, N) = modifyMatcher(m, N)
  BY ModifyCopiesAgree
<1>2. CASE m \in [name : Label, type : {"=", "!="}, value : Value]
  BY <1>1, <1>2 DEF translateLabelMatcher, translateMatcher, Matcher
<1>3. CASE m \in [name : Label, type : {"=~", "!~"}, value : SUBSET Value]
  <2>1. m.value # BadPattern
    BY <1>3, PatternAssumption
  <2> QED  BY <1>1, <1>3, <2>1
              DEF translateLabelMatcher, translateMatcher, Matcher, stringSliceFilter, Matches
<1>4. CASE m \in [name : Label, type : {"=~", "!~"}, value : {BadPattern}]
  <2>1. m \notin Matcher
    BY <1>4, PatternAssumption DEF Matcher
  <2> QED  BY <1>4, <2>1 DEF translateLabelMatcher
<1>5. CASE m \in [name : Label, type : {"?"}, value : Value]
  BY <1>5 DEF translateLabelMatcher, Matcher
<1> QED  BY <1>2, <1>3, <1>4, <1>5 DEF LabelMatcher, Matcher

\* A list of wire matchers that Prometheus can still decode after
\* FilterLabelMatchers selects nothing outside the namespace set (hijackRead).
THEOREM FilterLabelConfined ==
  ASSUME NEW S \in SUBSET Namespace, NEW ms \in Seq(LabelMatcher), NEW s \in Series,
         ~fromLabelMatchersFails(FilterLabelMatchers(S, ms)),
         Selects(FilterLabelMatchers(S, ms), s)
  PROVE  s[namespaceMatchName] \in S \cup {noneNamespace}
<1> DEFINE f == FilterLabelMatchers(S, ms)
           v == s[namespaceMatchName]
<1>0. v \in Value
  BY LabelAssumption DEF Series
<1>1. CASE NamespaceMatchers(ms) = {}
  <2> DEFINE c == createLabelMatcher(namespaceMatchName, Values(S))
  <2>1. c = createMatcher(namespaceMatchName, Values(S))
    BY ModifyCopiesAgree DEF createLabelMatcher, createMatcher
  <2>2. f = Append(ms, c)
    BY <1>1 DEF FilterLabelMatchers
  <2> HIDE DEF f, c
  <2>3. Len(ms) + 1 \in DOMAIN f /\ f[Len(ms) + 1] = c
    BY <2>2
  <2>4. c.name = namespaceMatchName
    BY <2>1, CreateMatcherExact
  <2>5. Matches(c, v)
    BY <2>3, <2>4 DEF Selects, f
  <2>6. v \in (IF S = {} THEN {noneNamespace} ELSE S)
    BY <1>0, <2>1, <2>5, CreateMatcherExact
  <2> QED  BY <2>6
<1>2. CASE NamespaceMatchers(ms) # {}
  <2> DEFINE k == First(NamespaceMatchers(ms))
  <2>1. k \in DOMAIN ms /\ ms[k].name = namespaceMatchName
    BY <1>2, FirstNamespaceMatcher
  <2>2. f = [ms EXCEPT ![k] = translateLabelMatcher(S, ms[k])]
    BY <1>2 DEF FilterLabelMatchers
  <2> HIDE DEF k
  <2>3. k \in DOMAIN f /\ f[k] = translateLabelMatcher(S, ms[k])
    <3> HIDE DEF f
    <3> QED  BY <2>1, <2>2
  <2>4. ms[k] \in LabelMatcher
    BY <2>1
  <2>5. f[k].type # "?" /\ f[k].value # BadPattern
    BY <2>3 DEF fromLabelMatchersFails
  <2> HIDE DEF f
  <2>6. ms[k] \in Matcher
    <3>1. CASE ms[k] \notin Matcher
      <4>1. f[k] = ms[k]
        BY <2>3, <2>4, <3>1, CopiesAgreeOnMatcher
      <4> QED  BY <2>4, <2>5, <3>1, <4>1 DEF LabelMatcher
    <3> QED  BY <3>1
  <2>7. f[k] = translateMatcher(S, ms[k])
    BY <2>3, <2>4, <2>6, CopiesAgreeOnMatcher
  <2>8. f[k].name = namespaceMatchName
    <3>1. translateMatcher(S, ms[k]).name = ms[k].name
      BY <2>6, TranslateMatcherExact
    <3> QED  BY <2>1, <2>7, <3>1
  <2>9. Matches(f[k], v)
    BY <2>3, <2>8 DEF Selects, f
  <2> QED  BY <1>0, <2>6, <2>7, <2>9, TranslateMatcherExact
<1> QED  BY <1>1, <1>2

\* FilterLabelMatchers returns a list of wire matchers.
LEMMA FilterLabelType ==
  ASSUME NEW S \in SUBSET Namespace, NEW ms \in Seq(LabelMatcher)
  PROVE  FilterLabelMatchers(S, ms) \in Seq(LabelMatcher)
<1>1. CASE NamespaceMatchers(ms) = {}
  <2> DEFINE c == createLabelMatcher(namespaceMatchName, Values(S))
  <2>1. c = createMatcher(namespaceMatchName, Values(S))
    BY ModifyCopiesAgree DEF createLabelMatcher, createMatcher
  <2>2. c \in LabelMatcher
    BY <2>1, CreateMatcherExact DEF LabelMatcher
  <2>3. FilterLabelMatchers(S, ms) = Append(ms, c)
    BY <1>1 DEF FilterLabelMatchers
  <2> HIDE DEF c
  <2> QED  BY <2>2, <2>3
<1>2. CASE NamespaceMatchers(ms) # {}
  <2> DEFINE k == First(NamespaceMatchers(ms))
  <2>1. k \in DOMAIN ms
    BY <1>2, FirstNamespaceMatcher
  <2>2. FilterLabelMatchers(S, ms) = [ms EXCEPT ![k] = translateLabelMatcher(S, ms[k])]
    BY <1>2 DEF FilterLabelMatchers
  <2> HIDE DEF k
  <2>3. ms[k] \in LabelMatcher
    BY <2>1
  <2>4. translateLabelMatcher(S, ms[k]) \in LabelMatcher
    <3>1. CASE ms[k] \in Matcher
      <4>1. translateLabelMatcher(S, ms[k]) = translateMatcher(S, ms[k])
        BY <2>3, <3>1, CopiesAgreeOnMatcher
      <4>2. translateMatcher(S, ms[k]) \in Matcher
        BY <3>1, TranslateMatcherExact
      <4> QED  BY <4>1, <4>2 DEF LabelMatcher
    <3>2. CASE ms[k] \notin Matcher
      BY <2>3, <3>2, CopiesAgreeOnMatcher
    <3> QED  BY <3>1, <3>2
  <2> QED  BY <2>1, <2>2, <2>4
<1> QED  BY <1>1, <1>2

\* The loop of modifyQuery is well defined: the recursive function it stands
\* for exists on every prefix of the list, by induction on the prefix.
LEMMA FilteredMatchersDef ==
  ASSUME NEW ms \in Seq(LabelMatcher), NEW D
  PROVE  filteredMatchers(ms, D) =
           [i \in 0 .. Len(ms) |->
              IF i = 0 THEN <<>>
              ELSE IF ms[i].name \in D THEN filteredMatchers(ms, D)[i - 1]
              ELSE Append(filteredMatchers(ms, D)[i - 1], ms[i])]
<1> DEFINE Loop(g, n) == g = [i \in 0 .. n |->
                                IF i = 0 THEN <<>>
                                ELSE IF ms[i].name \in D THEN g[i - 1]
                                ELSE Append(g[i - 1], ms[i])]
           Bad == {n \in Nat : ~(\E g : Loop(g, n))}
<1>1. Bad = {}
  <2> SUFFICES ASSUME Bad # {} PROVE FALSE
    OBVIOUS
  <2> DEFINE n == First(Bad)
  <2>1. n \in Bad /\ \A j \in Bad : n <= j
    BY FirstExists
  <2> HIDE DEF n
  <2>2. n # 0
    <3>1. Loop([i \in 0 .. 0 |-> <<>>], 0)
      OBVIOUS
    <3> QED  BY <2>1, <3>1
  <2>3. n \in Nat /\ n - 1 \in Nat /\ n - 1 \notin Bad
    <3>1. n \in Nat
      BY <2>1
    <3> HIDE DEF Bad
    <3> QED  BY <2>1, <2>2, <3>1
  <2>4. PICK g : Loop(g, n - 1)
    BY <2>3
  <2> DEFINE h == [i \in 0 .. n |-> IF i < n THEN g[i]
                                    ELSE IF ms[n].name \in D THEN g[n - 1]
                                    ELSE Append(g[n - 1], ms[n])]
  <2>5. \A i \in 0 .. n : h[i] = IF i = 0 THEN <<>>
                                 ELSE IF ms[i].name \in D THEN h[i - 1]
                                 ELSE Append(h[i - 1], ms[i])
    <3> TAKE i \in 0 .. n
    <3>1. CASE i < n
      <4>1. i \in 0 .. (n - 1) /\ (i # 0 => i - 1 \in 0 .. (n - 1))
        BY <2>3, <3>1
      <4>2. g[i] = IF i = 0 THEN <<>>
                   ELSE IF ms[i].name \in D THEN g[i - 1] ELSE Append(g[i - 1], ms[i])
        BY <2>4, <4>1
      <4>3. h[i] = g[i] /\ (i # 0 => h[i - 1] = g[i - 1])
        BY <2>3, <3>1, <4>1
      <4> HIDE DEF h
      <4> QED  BY <4>2, <4>3
    <3>2. CASE i = n
      BY <2>2, <2>3, <3>2
    <3> QED  BY <2>3, <3>1, <3>2
  <2>6. Loop(h, n)
    BY <2>5
  <2> QED  BY <2>1, <2>6
<1>2. PICK g : Loop(g, Len(ms))
  BY <1>1
<1> QED  BY <1>2, Zenon DEF filteredMatchers

\* Every prefix the loop builds is a list of wire matchers.
LEMMA FilteredMatchersType ==
  ASSUME NEW ms \in Seq(LabelMatcher), NEW D
  PROVE  filteredMatchers(ms, D)[Len(ms)] \in Seq(LabelMatcher)
<1> DEFINE f == filteredMatchers(ms, D)
           Bad == {i \in 0 .. Len(ms) : f[i] \notin Seq(LabelMatcher)}
<1>0. f = [i \in 0 .. Len(ms) |-> IF i = 0 THEN <<>>
                                  ELSE IF ms[i].name \in D THEN f[i - 1]
                                  ELSE Append(f[i - 1], ms[i])]
  BY FilteredMatchersDef, Zenon
<1> HIDE DEF f
<1>1. \A i \in 0 .. Len(ms) : f[i] = IF i = 0 THEN <<>>
                                     ELSE IF ms[i].name \in D THEN f[i - 1]
                                     ELSE Append(f[i - 1], ms[i])
  BY <1>0, Zenon
<1>2. ASSUME Bad # {} PROVE FALSE
  <2> DEFINE n == First(Bad)
  <2>0. Bad \in SUBSET Nat
    OBVIOUS
  <2>1. n \in Bad /\ \A j \in Bad : n <= j
    <3> HIDE DEF Bad
    <3> QED  BY <1>2, <2>0, FirstExists
  <2> HIDE DEF n
  <2>2. n \in 0 .. Len(ms) /\ f[n] \notin Seq(LabelMatcher)
    BY <2>1
  <2>3. n # 0
    <3>1. 0 \in 0 .. Len(ms) /\ <<>> \in Seq(LabelMatcher)
      OBVIOUS
    <3>2. f[0] = <<>>
      BY <1>1, <3>1
    <3> QED  BY <2>2, <3>1, <3>2
  <2>4. n - 1 \in 0 .. Len(ms) /\ ~(n <= n - 1)
    BY <2>2, <2>3
  <2>5. f[n - 1] \in Seq(LabelMatcher)
    BY <2>1, <2>4
  <2>6. ms[n] \in LabelMatcher
    BY <2>2, <2>3
  <2>7. f[n] = f[n - 1] \/ f[n] = Append(f[n - 1], ms[n])
    BY <1>1, <2>2, <2>3
  <2>8. Append(f[n - 1], ms[n]) \in Seq(LabelMatcher)
    <3> HIDE DEF Bad
    <3> QED  BY <2>5, <2>6
  <2> QED  BY <2>2, <2>5, <2>7, <2>8
<1> QED  BY <1>2 DEF f

\* modifyQuery returns a list of wire matchers.
LEMMA ModifyQueryType ==
  ASSUME NEW S \in SUBSET Namespace, NEW ms \in Seq(LabelMatcher), NEW D
  PROVE  modifyQuery(ms, S, D) \in Seq(LabelMatcher)
BY FilteredMatchersType, FilterLabelType DEF modifyQuery

\* modifyQuery confines a remote read whichever labels are dropped from it.
THEOREM ModifyQueryConfined ==
  ASSUME NEW S \in SUBSET Namespace, NEW ms \in Seq(LabelMatcher), NEW D,
         NEW s \in Series,
         ~fromLabelMatchersFails(modifyQuery(ms, S, D)),
         Selects(modifyQuery(ms, S, D), s)
  PROVE  s[namespaceMatchName] \in S \cup {noneNamespace}
BY FilteredMatchersType, FilterLabelConfined DEF modifyQuery

\* A list that decodes is a list of promlb matchers.
LEMMA ParsedMatchers ==
  ASSUME NEW ms \in Seq(LabelMatcher), ~fromLabelMatchersFails(ms)
  PROVE  ms \in Seq(Matcher)
<1>1. \A i \in DOMAIN ms : ms[i] \in Matcher
  <2> TAKE i \in DOMAIN ms
  <2>1. ms[i] \in LabelMatcher
    OBVIOUS
  <2>2. ms[i].type # "?" /\ ms[i].value # BadPattern
    BY DEF fromLabelMatchersFails
  <2> QED  BY <2>1, <2>2 DEF LabelMatcher
<1> QED  BY <1>1

\* The prompb rewriting of such a list is the promlb one.
LEMMA FilterCopiesAgree ==
  ASSUME NEW S \in SUBSET Namespace, NEW ms \in Seq(Matcher)
  PROVE  FilterLabelMatchers(S, ms) = FilterMatchers(S, ms)
<1>1. CASE NamespaceMatchers(ms) = {}
  <2>1. createLabelMatcher(namespaceMatchName, Values(S))
          = createMatcher(namespaceMatchName, Values(S))
    BY ModifyCopiesAgree DEF createLabelMatcher, createMatcher
  <2> QED  BY <1>1, <2>1 DEF FilterLabelMatchers, FilterMatchers
<1>2. CASE NamespaceMatchers(ms) # {}
  <2> DEFINE k == First(NamespaceMatchers(ms))
  <2>1. k \in DOMAIN ms
    BY <1>2, FirstNamespaceMatcher
  <2> HIDE DEF k
  <2>2. ms[k] \in Matcher /\ ms[k] \in LabelMatcher
    BY <2>1 DEF LabelMatcher
  <2>3. translateLabelMatcher(S, ms[k]) = translateMatcher(S, ms[k])
    BY <2>2, CopiesAgreeOnMatcher
  <2> QED  BY <1>2, <2>3 DEF FilterLabelMatchers, FilterMatchers, k
<1> QED  BY <1>1, <1>2

\* Nothing that cannot be decoded becomes decodable by the rewriting.
LEMMA FilterLabelKeepsBad ==
  ASSUME NEW S \in SUBSET Namespace, NEW ms \in Seq(LabelMatcher),
         ~fromLabelMatchersFails(FilterLabelMatchers(S, ms))
  PROVE  ~fromLabelMatchersFails(ms)
<1> DEFINE f == FilterLabelMatchers(S, ms)
<1> SUFFICES ASSUME NEW i \in DOMAIN ms
             PROVE  ms[i].type # "?" /\ ms[i].value # BadPattern
  BY DEF fromLabelMatchersFails
<1>0. ms[i] \in LabelMatcher
  OBVIOUS
<1>1. CASE NamespaceMatchers(ms) = {}
  <2>1. f = Append(ms, createLabelMatcher(namespaceMatchName, Values(S)))
    BY <1>1 DEF FilterLabelMatchers
  <2> HIDE DEF f
  <2>2. i \in DOMAIN f /\ f[i] = ms[i]
    BY <2>1
  <2> QED  BY <2>2 DEF f, fromLabelMatchersFails
<1>2. CASE NamespaceMatchers(ms) # {}
  <2> DEFINE k == First(NamespaceMatchers(ms))
  <2>1. k \in DOMAIN ms
    BY <1>2, FirstNamespaceMatcher
  <2>2. f = [ms EXCEPT ![k] = translateLabelMatcher(S, ms[k])]
    BY <1>2 DEF FilterLabelMatchers
  <2> HIDE DEF k
  <2>3. /\ i \in DOMAIN f
        /\ f[i] = IF i = k THEN translateLabelMatcher(S, ms[i]) ELSE ms[i]
    <3> HIDE DEF f
    <3> QED  BY <2>1, <2>2
  <2>4. f[i].type # "?" /\ f[i].value # BadPattern
    BY <2>3 DEF fromLabelMatchersFails
  <2> HIDE DEF f
  <2>5. CASE f[i] = ms[i]
    BY <2>4, <2>5
  <2>6. CASE f[i] # ms[i]
    <3>1. ms[i] \in Matcher
      BY <1>0, <2>3, <2>6, CopiesAgreeOnMatcher
    <3> QED  BY <3>1, PatternAssumption DEF Matcher
  <2> QED  BY <2>5, <2>6
<1> QED  BY <1>1, <1>2

\* A remote read that Prometheus can decode after modifyQuery selects exactly
\* what is left of it without the dropped labels, inside the namespace set.
THEOREM ModifyQueryExact ==
  ASSUME NEW S \in SUBSET Namespace, NEW ms \in Seq(LabelMatcher), NEW D,
         NEW s \in Series, s[namespaceMatchName] # noneNamespace,
         ~fromLabelMatchersFails(modifyQuery(ms, S, D))
  PROVE  LET left == filteredMatchers(ms, D)[Len(ms)]
         IN  /\ ~fromLabelMatchersFails(left)
             /\ Selects(modifyQuery(ms, S, D), s) <=>
                   Selects(left, s) /\ s[namespaceMatchName] \in S
<1> DEFINE left == filteredMatchers(ms, D)[Len(ms)]
<1>1. left \in Seq(LabelMatcher)
  BY FilteredMatchersType
<1>2. modifyQuery(ms, S, D) = FilterLabelMatchers(S, left)
  BY DEF modifyQuery
<1> HIDE DEF left
<1>3. ~fromLabelMatchersFails(left)
  BY <1>1, <1>2, FilterLabelKeepsBad
<1>4. left \in Seq(Matcher)
  BY <1>1, <1>3, ParsedMatchers
<1>5. FilterLabelMatchers(S, left) = FilterMatchers(S, left)
  BY <1>4, FilterCopiesAgree
<1> QED  BY <1>2, <1>3, <1>4, <1>5, FilterExact DEF left

=============================================================================
