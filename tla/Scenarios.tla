----------------------------- MODULE Scenarios ------------------------------
(***************************************************************************)
(* The scenarios of pkg/agent/samples, which Test_accessControl sends      *)
(* through httpBackend: the model of the request path passes the tests of  *)
(* the program, the remote reads included, whose loop in http_test.go is   *)
(* commented out.                                                          *)
(*                                                                         *)
(* A row is a request and the code, the series and the label values of     *)
(* the response.  Times of samples are not modelled: the two scenarios     *)
(* whose range lies outside the series are left out.                       *)
(***************************************************************************)
EXTENDS Backend

CONSTANTS ns_a, ns_b, ns_c,
          test_metric1, test_metric2, test_metric_without_labels,
          test_metric_stale, test_metric_old, does_not_match_anything,
          foo, bar, prometheus, absent,     \* labels; no series has bar or absent
          bar_value, boo, project_level,    \* values
          noneNamespacesUserName, someNamespacesUserName

-----------------------------------------------------------------------------
(* The series and the users of Test_accessControl *)

Point(name, ns, f) == [l \in Label |-> CASE l = nameLabel -> name
                                         [] l = namespaceMatchName -> ns
                                         [] l = foo -> f
                                         [] OTHER -> Blank]

metric1a == Point(test_metric1, ns_a, bar_value)

suite == {metric1a, Point(test_metric1, ns_c, boo), Point(test_metric2, Blank, boo)}
           \cup {Point(n, Blank, Blank) : n \in {test_metric_without_labels,
                                                 test_metric_stale, test_metric_old}}

Granted(nss) == [nodes |-> FALSE, namespaces |-> nss, pods |-> FALSE]

mockGrants == {Granted({}), Granted({ns_a, ns_b})}

\* fakeNodes lets nobody list nodes; fakeOwnedNamespaces owns for the second
\* user what RBAC grants here.
mockAgent ==
    {[namespaces |-> [n \in NamespaceName |-> "active"],
      grants |-> [p \in Principal |-> IF p = someNamespacesUserName THEN Granted({ns_a, ns_b})
                                      ELSE Granted({})],
      secrets |-> [k \in SecretName |-> CHOOSE s \in SecretStates : TRUE]]}

-----------------------------------------------------------------------------
(* The tables *)

M(name, type, value) == [name |-> name, type |-> type, value |-> value]
Named(n) == M(nameLabel, "=", n)
AnyName == M(nameLabel, "=~", Value \ {Blank})

E(isSelector, type, selectors) ==
    [isSelector |-> isSelector, isExpr |-> TRUE, type |-> type, selectors |-> selectors]
Vector(ms) == E(TRUE, "vector", <<[kind |-> "vector", matchers |-> ms]>>)
Matrix(ms) == E(FALSE, "matrix", <<[kind |-> "matrix", matchers |-> ms]>>)
Scalar == E(FALSE, "scalar", <<>>)
NotASelector == E(FALSE, "vector", <<>>)
Invalid == [isSelector |-> FALSE, isExpr |-> FALSE, type |-> "vector", selectors |-> <<>>]

Asking(path, exprs) ==
    [path |-> path, method |-> "GET", label |-> absent, user |-> someNamespacesUserName,
     token |-> NoToken, acceptsJSON |-> FALSE, malformed |-> FALSE, exprs |-> exprs,
     reads |-> <<>>]

Malformed(path, exprs) == [Asking(path, exprs) EXCEPT !.malformed = TRUE]

Returns(in, series) == [in |-> in, code |-> 200, series |-> series, values |-> {}]
Lists(in, values) == [in |-> in, code |-> 200, series |-> {}, values |-> values]
BadRequest(in) == [in |-> in, code |-> 400, series |-> {}, values |-> {}]

SomeNamespacesTokenFederateScenarios ==
    LET match(exprs) == Asking("federate", exprs)
        one(ms) == match(<<Vector(ms)>>)
    IN  {BadRequest(match(<<NotASelector>>)),
         Returns(match(<<>>), {}),
         Returns(one(<<Named(test_metric1)>>), {metric1a}),
         Returns(match(<<Vector(<<Named(test_metric1)>>), Vector(<<Named(test_metric2)>>)>>),
                 {metric1a}),
         Returns(one(<<AnyName>>), {metric1a}),
         Returns(one(<<M(bar, "=", Blank), AnyName>>), {metric1a}),
         Returns(one(<<M(foo, "=", Blank), AnyName>>), {}),
         Returns(one(<<M(namespaceMatchName, "=", Blank), AnyName>>), {}),
         Returns(one(<<M(namespaceMatchName, "=", ns_c)>>), {}),
         Returns(one(<<M(foo, "=", boo)>>), {})}
        \cup {Returns(one(<<Named(n)>>), {}) :
                 n \in {does_not_match_anything, test_metric2, test_metric_without_labels,
                        test_metric_stale, test_metric_old}}

SomeNamespacesTokenLabelScenarios ==
    LET label(l) == [Asking("label", <<>>) EXCEPT !.label = l]
    IN  {BadRequest(Malformed("label", <<>>)),
         Lists(label(nameLabel), {test_metric1}),
         Lists(label(namespaceMatchName), {ns_a, ns_b}),
         Lists(label(foo), {bar_value, boo}),
         Lists(label(absent), {})}

\* What the instant queries and the range queries of query.go have in common.
Selections(path) ==
    {Returns(Asking(path, <<Vector(<<Named(test_metric1)>>)>>), {metric1a}),
     Returns(Asking(path, <<Vector(<<Named(test_metric1), M(namespaceMatchName, "=", ns_c)>>)>>), {}),
     Returns(Asking(path, <<Vector(<<Named(test_metric2), M(foo, "=", boo)>>)>>), {}),
     Returns(Asking(path, <<Vector(<<Named(test_metric_without_labels)>>)>>), {}),
     Returns(Asking(path, <<Vector(<<Named(does_not_match_anything)>>)>>), {}),
     Returns(Asking(path, <<Scalar>>), {}),
     BadRequest(Asking(path, <<Invalid>>))}

queryScenarios ==
    Selections("query")
    \cup {Returns(Asking("query", <<Matrix(<<Named(test_metric1)>>)>>), {metric1a})}

queryRangeScenarios ==
    Selections("query_range") \cup {BadRequest(Malformed("query_range", <<Scalar>>))}

\* Every query is sent with GET and with POST.
SomeNamespacesTokenQueryScenarios ==
    {[sc EXCEPT !.in.method = m] : sc \in queryScenarios \cup queryRangeScenarios,
                                   m \in {"GET", "POST"}}

SomeNamespacesTokenReadScenarios ==
    LET read(ms) == [Asking("read", <<>>) EXCEPT !.method = "POST",
                        !.reads = <<<<M(prometheus, "=", project_level)>> \o ms>>]
    IN  {Returns(read(<<Named(test_metric1)>>), {metric1a}),
         Returns(read(<<Named(test_metric1), M(namespaceMatchName, "=", ns_c)>>), {}),
         Returns(read(<<M(foo, "=", boo)>>), {})}

SomeNamespacesTokenSeriesScenarios ==
    LET match(exprs) == Asking("series", exprs)
        one(ms) == match(<<Vector(ms)>>)
    IN  {BadRequest(match(<<>>)),
         BadRequest(match(<<Invalid>>)),
         Returns(one(<<Named(test_metric1)>>), {metric1a}),
         Returns(one(<<Named(test_metric1), M(namespaceMatchName, "=", ns_c)>>), {}),
         Returns(one(<<Named(test_metric2), M(foo, "=", boo)>>), {}),
         Returns(one(<<M(foo, "=", boo)>>), {}),
         Returns(match(<<Vector(<<Named(test_metric1), M(foo, "=~", {boo})>>),
                         Vector(<<Named(test_metric1), M(foo, "=~", {boo})>>)>>), {}),
         Returns(match(<<Vector(<<Named(test_metric2), M(foo, "=~", {boo})>>),
                         Vector(<<Named(does_not_match_anything)>>)>>), {}),
         Returns(one(<<Named(test_metric_without_labels)>>), {}),
         Returns(one(<<Named(does_not_match_anything)>>), {})}

SomeNamespacesScenarios ==
    SomeNamespacesTokenFederateScenarios \cup SomeNamespacesTokenLabelScenarios
      \cup SomeNamespacesTokenQueryScenarios \cup SomeNamespacesTokenReadScenarios
      \cup SomeNamespacesTokenSeriesScenarios

\* The tables of the user without namespaces have the same requests and codes
\* (all but the query of a matrix), and nothing in the responses but the values
\* of other labels.
Without(rows) ==
    {[in |-> [sc.in EXCEPT !.user = noneNamespacesUserName], code |-> sc.code, series |-> {},
      values |-> IF sc.in.label \in {nameLabel, namespaceMatchName} THEN {} ELSE sc.values] :
        sc \in rows}

NoneNamespacesTokenFederateScenarios == Without(SomeNamespacesTokenFederateScenarios)
NoneNamespacesTokenLabelScenarios == Without(SomeNamespacesTokenLabelScenarios)
NoneNamespacesTokenQueryScenarios == Without(SomeNamespacesTokenQueryScenarios)
NoneNamespacesTokenReadScenarios == Without(SomeNamespacesTokenReadScenarios)
NoneNamespacesTokenSeriesScenarios == Without(SomeNamespacesTokenSeriesScenarios)

NoneNamespacesScenarios ==
    NoneNamespacesTokenFederateScenarios \cup NoneNamespacesTokenLabelScenarios
      \cup NoneNamespacesTokenQueryScenarios \cup NoneNamespacesTokenReadScenarios
      \cup NoneNamespacesTokenSeriesScenarios

AllScenarios == SomeNamespacesScenarios \cup NoneNamespacesScenarios

Scenario == {sc.in : sc \in AllScenarios}

-----------------------------------------------------------------------------

\* Every scenario gets the code and the data that its row of the tables wants,
\* and a plain text body only where federate refuses, unless the connection to
\* Prometheus fails, which it does not in the test.
ScenariosPass ==
    \A r \in Request : pc[r] = "done" =>
        \/ answer[r].code = 502
        \/ answer[r].code \in {422, 500} /\ input[r].label = nameLabel
        \/ \E sc \in AllScenarios :
              /\ sc.in = input[r] /\ sc.code = answer[r].code
              /\ sc.series = answer[r].series /\ sc.values = answer[r].values
              /\ answer[r].format = "text" <=> sc.code = 400 /\ sc.in.path = "federate"

=============================================================================
