----------------------------- MODULE Rewriting ------------------------------
(***************************************************************************)
(* The inputs of the rewriting as a state machine: a matcher list is built *)
(* up one matcher at a time, as a parser or a protobuf decoder does, for   *)
(* every namespace set and every set of labels dropped from remote reads.  *)
(* The rewriting is compared with its reference on each of the lists.      *)
(***************************************************************************)
EXTENDS Matchers

CONSTANTS Pool,           \* the matchers a list is built from
          DropSets,       \* the values of the flag --filter-reader-labels
          MaxMatchers     \* bound: the longest list

ASSUME PoolAssumption == Pool \subseteq LabelMatcher

ASSUME DropAssumption == DropSets \subseteq SUBSET Label

VARIABLES namespaceSet, filterReaderLabelSet, matchers

vars == <<namespaceSet, filterReaderLabelSet, matchers>>

Init == /\ namespaceSet \in SUBSET Namespace
        /\ filterReaderLabelSet \in DropSets
        /\ matchers = <<>>

AddMatcher == /\ Len(matchers) < MaxMatchers
              /\ \E m \in Pool : matchers' = Append(matchers, m)
              /\ UNCHANGED <<namespaceSet, filterReaderLabelSet>>

Next == AddMatcher

Spec == Init /\ [][Next]_vars

\* The PromQL parser builds the list, or refuses it.
Parsed == ~fromLabelMatchersFails(matchers)

filtered == FilterMatchers(namespaceSet, matchers)

\* What a rewritten selector reads of the series of real namespaces (nothing
\* carries the name "______") is exactly what the raw one reads inside the
\* tenant's namespaces: FilterMatchers neither leaks nor loses a series, also
\* when the query already has namespace matchers of its own, of which only
\* the first is rewritten.
SelectorExact ==
    Parsed => \A s \in Series :
        s[namespaceMatchName] # noneNamespace =>
            (Selects(filtered, s) <=>
                Selects(matchers, s) /\ s[namespaceMatchName] \in namespaceSet)

\* Filtering twice is filtering once: ModifyExpression's callback runs twice
\* on the matchers of a matrix selector.
VisitedTwice == Parsed => FilterMatchers(namespaceSet, filtered) = filtered

\* A remote read that Prometheus can decode after modifyQuery stays inside the
\* tenant's namespaces, whatever the wire carried (patterns that do not
\* compile, unknown matcher types) and whichever labels are dropped.
ReadConfined ==
    LET q == modifyQuery(matchers, namespaceSet, filterReaderLabelSet)
    IN  ~fromLabelMatchersFails(q) =>
            \A s \in Series : Selects(q, s) =>
                s[namespaceMatchName] \in namespaceSet \cup {noneNamespace}

\* The two copies of the rewriting, for promlb and for prompb matchers, agree
\* on every list both can represent.
CopiesAgree == Parsed => FilterLabelMatchers(namespaceSet, matchers) = filtered

=============================================================================
