--------------------------- MODULE BackendProofs ----------------------------
(***************************************************************************)
(* The safety of the request path for every set of requests, principals,   *)
(* namespaces and series, every list of expressions, and any number of     *)
(* watch events and concurrent requests.                                   *)
(*                                                                         *)
(* TenantScope speaks of answers only; it becomes inductive by saying, for *)
(* every place a request can be at, what its locals have to do with its    *)
(* window.                                                                 *)
(***************************************************************************)
EXTENDS Backend, MatchersProofs

\* The window of r covers the cluster as it is now.
Covered(r) ==
    LET now == Moment(namespaces, grants, secrets)
    IN  /\ now.active \subseteq window[r].active
        /\ now.granted \subseteq window[r].granted
        /\ now.admins \subseteq window[r].admins
        /\ now.owners \subseteq window[r].owners

\* A query that, if Prometheus answers it, cannot show more than the scope.
Confined(r, q) ==
    /\ q.valid => \A s \in SeriesOf(q, TSDB) : s[namespaceMatchName] \in Scope(r)
    /\ q.labels # {} => /\ principal[r] # NoPrincipal /\ input[r].path = "label"
                        /\ input[r].label \notin {namespaceMatchName, nameLabel}

Genuine(r) ==
    principal[r] # NoPrincipal =>
        \/ principal[r] = input[r].user
        \/ /\ input[r].user = NoPrincipal
           /\ <<input[r].token, principal[r]>> \in window[r].owners

\* What holds of a request at each place.
RequestInv(r) ==
    /\ Open(r) => Covered(r)
    /\ Genuine(r)
    /\ pc[r] \in {"idle", "route", "auth"} => principal[r] = NoPrincipal
    /\ pc[r] \in {"nodes", "list", "access", "handle", "remote"} => principal[r] \in Principal
    /\ pc[r] = "access" => listed[r] \subseteq window[r].active
    /\ pc[r] \in {"handle", "remote"} => namespaceSet[r] \subseteq Scope(r)
    /\ pc[r] = "proxy" /\ ~Operator(r) => Confined(r, sent[r])
    /\ pc[r] = "remote" => /\ input[r].path = "label" /\ input[r].label = nameLabel
                           /\ \A s \in SeriesOf(sent[r], TSDB) :
                                 s[namespaceMatchName] \in Scope(r)
    /\ pc[r] = "done" /\ ~Operator(r) => Scoped(r, answer[r])

IInv == TypeOK /\ \A r \in Request : RequestInv(r)

-----------------------------------------------------------------------------
(* What is sent to Prometheus and what comes back is well typed *)

LEMMA NamespaceSubset ==
  ASSUME NEW S \in SUBSET NamespaceName
  PROVE  S \in SUBSET Namespace /\ S \subseteq Value /\ Values(S) = S
BY ClusterAssumption DEF Namespace, Values

LEMMA AskExprsType ==
  ASSUME NEW es \in Seq(Seq(Selector)), NEW v \in BOOLEAN
  PROVE  AskExprs(es, v) \in Query
BY DEF AskExprs, Query

LEMMA AskReadsType ==
  ASSUME NEW rs \in Seq(Seq(LabelMatcher))
  PROVE  AskReads(rs) \in Query
<1>1. (\A i \in DOMAIN rs : ~fromLabelMatchersFails(rs[i])) \in BOOLEAN
  OBVIOUS
<1> QED  BY <1>1 DEF AskReads, Query

LEMMA NoQueryType == NoQuery \in Query
BY DEF NoQuery, Query

LEMMA NoAnswerType == NoAnswer \in Answer
BY DEF NoAnswer, Answer

\* The fields of an input.
LEMMA InputFields ==
  ASSUME NEW in \in Inputs
  PROVE  /\ in \in Input
         /\ in.path \in Path /\ in.method \in {"GET", "POST"} /\ in.label \in Label
         /\ in.user \in Principal \cup {NoPrincipal}
         /\ in.token \in Token \cup {NoToken}
         /\ in.exprs \in Seq(Expr) /\ in.reads \in Seq(Seq(LabelMatcher))
         /\ \A i \in DOMAIN in.exprs : in.exprs[i].selectors \in Seq(Selector)
         /\ \A i \in DOMAIN in.reads : in.reads[i] \in Seq(LabelMatcher)
<1>1. in \in Input
  BY InputAssumption
<1>2. in.exprs \in Seq(Expr) /\ in.reads \in Seq(Seq(LabelMatcher))
  BY <1>1 DEF Input
<1>3. \A i \in DOMAIN in.exprs : in.exprs[i] \in Expr
  BY <1>2
<1>4. \A i \in DOMAIN in.exprs : in.exprs[i].selectors \in Seq(Selector)
  BY <1>3 DEF Expr
<1>5. \A i \in DOMAIN in.reads : in.reads[i] \in Seq(LabelMatcher)
  BY <1>2
<1> QED  BY <1>1, <1>2, <1>4, <1>5 DEF Input

\* A list mapped element by element is a list.
LEMMA MapType ==
  ASSUME NEW A, NEW B, NEW xs \in Seq(A), NEW f,
         f = [i \in DOMAIN xs |-> f[i]], \A i \in DOMAIN xs : f[i] \in B
  PROVE  f \in Seq(B) /\ DOMAIN f = DOMAIN xs
<1>1. DOMAIN xs = 1 .. Len(xs) /\ Len(xs) \in Nat
  OBVIOUS
<1> QED  BY <1>1

LEMMA RawQueryType ==
  ASSUME NEW in \in Inputs
  PROVE  RawQuery(in) \in Query
<1> DEFINE es == [i \in DOMAIN in.exprs |-> in.exprs[i].selectors]
<1>1. es \in Seq(Seq(Selector))
  <2>1. \A i \in DOMAIN in.exprs : es[i] \in Seq(Selector)
    BY InputFields
  <2>2. in.exprs \in Seq(Expr)
    BY InputFields
  <2>3. es = [i \in DOMAIN in.exprs |-> es[i]]
    OBVIOUS
  <2> HIDE DEF es
  <2> QED  BY <2>1, <2>2, <2>3, MapType
<1>2. AllExprs(in) \in BOOLEAN
  BY DEF AllExprs
<1>3. AskExprs(es, AllExprs(in)) \in Query
  BY <1>1, <1>2, AskExprsType
<1>4. AskReads(in.reads) \in Query
  BY InputFields, AskReadsType
<1>5. AskLabel(in.label, ~in.malformed) \in Query
  <2>1. in.label \in Label
    BY InputFields
  <2> QED  BY <2>1 DEF AskLabel, Query
<1> QED  BY <1>3, <1>4, <1>5, NoQueryType DEF RawQuery

\* What SeriesOf and ValuesOf return.
LEMMA SeriesOfType ==
  ASSUME NEW q
  PROVE  SeriesOf(q, TSDB) \subseteq TSDB
BY DEF SeriesOf, ExprSelects

LEMMA ValuesOfType ==
  ASSUME NEW q \in Query
  PROVE  ValuesOf(q) \subseteq Value
<1>1. q.labels \subseteq Label
  BY DEF Query
<1>2. \A s \in TSDB, l \in Label : s[l] \in Value
  BY SeriesAssumption DEF Series
<1> QED  BY <1>1, <1>2 DEF ValuesOf

\* The rewritten expressions, seen from any series.
LEMMA ModifiedConfined ==
  ASSUME NEW in \in Inputs, NEW S \in SUBSET NamespaceName
  PROVE  LET q == AskExprs([i \in DOMAIN in.exprs |->
                               ModifyExpression(in.exprs[i].selectors, S)], TRUE)
         IN  /\ q \in Query
             /\ q.labels = {}
             /\ \A s \in SeriesOf(q, TSDB) : s[namespaceMatchName] \in S
<1> DEFINE es == [i \in DOMAIN in.exprs |-> ModifyExpression(in.exprs[i].selectors, S)]
           q == AskExprs(es, TRUE)
<1>0. S \in SUBSET Namespace
  BY NamespaceSubset
<1>1. \A i \in DOMAIN in.exprs : in.exprs[i].selectors \in Seq(Selector)
  BY InputFields
<1>2. \A i \in DOMAIN in.exprs : es[i] \in Seq(Selector)
  BY <1>0, <1>1, ModifyExpressionFilters
<1>3. es \in Seq(Seq(Selector)) /\ DOMAIN es = DOMAIN in.exprs
  <2>1. in.exprs \in Seq(Expr)
    BY InputFields
  <2>2. es = [i \in DOMAIN in.exprs |-> es[i]]
    OBVIOUS
  <2> HIDE DEF es
  <2> QED  BY <1>2, <2>1, <2>2, MapType
<1>4. q \in Query
  BY <1>3, AskExprsType
<1>5. q.labels = {} /\ q.reads = <<>> /\ q.exprs = es
  BY DEF AskExprs
<1>6. ASSUME NEW s \in SeriesOf(q, TSDB)
      PROVE  s[namespaceMatchName] \in S
  <2>1. PICK i \in DOMAIN es : s \in ExprSelects(es[i], TSDB)
    <3> HIDE DEF q, es
    <3> QED  BY <1>5, <1>6 DEF SeriesOf
  <2>2. PICK j \in DOMAIN es[i] : s \in TSDB /\ Selects(es[i][j].matchers, s)
    BY <2>1 DEF ExprSelects
  <2>3. i \in DOMAIN in.exprs /\ es[i] = ModifyExpression(in.exprs[i].selectors, S)
    BY <2>1
  <2>4. s \in Series /\ s[namespaceMatchName] # noneNamespace
    BY <2>2, SeriesAssumption
  <2>5. in.exprs[i].selectors \in Seq(Selector) /\ j \in DOMAIN in.exprs[i].selectors
    BY <1>0, <1>1, <2>2, <2>3, ModifyExpressionFilters
  <2> HIDE DEF es, q
  <2>6. ASSUME NEW expr \in Seq(Selector), NEW k \in DOMAIN expr
        PROVE  Selects(ModifyExpression(expr, S)[k].matchers, s) =>
                   s[namespaceMatchName] \in S \cup {noneNamespace}
    BY <1>0, <2>4, ModifyExpressionExact
  <2>7. s[namespaceMatchName] \in S \cup {noneNamespace}
    BY <2>2, <2>3, <2>5, <2>6
  <2> QED  BY <2>4, <2>7
<1> QED  BY <1>4, <1>5, <1>6

\* The rewritten remote reads, seen from any series.
LEMMA ReadsConfined ==
  ASSUME NEW in \in Inputs, NEW S \in SUBSET NamespaceName
  PROVE  LET q == AskReads([i \in DOMAIN in.reads |->
                               modifyQuery(in.reads[i], S, filterReaderLabelSet)])
         IN  /\ q \in Query
             /\ q.labels = {}
             /\ q.valid => \A s \in SeriesOf(q, TSDB) : s[namespaceMatchName] \in S
<1> DEFINE rs == [i \in DOMAIN in.reads |-> modifyQuery(in.reads[i], S, filterReaderLabelSet)]
           q == AskReads(rs)
<1>0. S \in SUBSET Namespace
  BY NamespaceSubset
<1>1. \A i \in DOMAIN in.reads : in.reads[i] \in Seq(LabelMatcher)
  BY InputFields
<1>2. \A i \in DOMAIN in.reads : rs[i] \in Seq(LabelMatcher)
  BY <1>0, <1>1, ModifyQueryType
<1>3. rs \in Seq(Seq(LabelMatcher)) /\ DOMAIN rs = DOMAIN in.reads
  <2>1. in.reads \in Seq(Seq(LabelMatcher))
    BY InputFields
  <2>2. rs = [i \in DOMAIN in.reads |-> rs[i]]
    OBVIOUS
  <2> HIDE DEF rs
  <2> QED  BY <1>2, <2>1, <2>2, MapType
<1>4. q \in Query
  BY <1>3, AskReadsType
<1>5. /\ q.labels = {} /\ q.reads = rs /\ q.exprs = <<>>
      /\ q.valid <=> \A i \in DOMAIN rs : ~fromLabelMatchersFails(rs[i])
  BY DEF AskReads
<1>6. ASSUME q.valid, NEW s \in SeriesOf(q, TSDB)
      PROVE  s[namespaceMatchName] \in S
  <2>1. PICK i \in DOMAIN rs : s \in TSDB /\ Selects(rs[i], s)
    <3> HIDE DEF q, rs
    <3> QED  BY <1>5, <1>6 DEF SeriesOf
  <2>2. ~fromLabelMatchersFails(rs[i])
    <3> HIDE DEF q, rs
    <3> QED  BY <1>5, <1>6, <2>1
  <2>3. in.reads[i] \in Seq(LabelMatcher) /\ rs[i] = modifyQuery(in.reads[i], S, filterReaderLabelSet)
    BY <1>1, <2>1
  <2>4. s \in Series /\ s[namespaceMatchName] # noneNamespace
    BY <2>1, SeriesAssumption
  <2> HIDE DEF q, rs
  <2>5. s[namespaceMatchName] \in S \cup {noneNamespace}
    BY <1>0, <2>1, <2>2, <2>3, <2>4, ModifyQueryConfined
  <2> QED  BY <2>4, <2>5
<1> QED  BY <1>4, <1>5, <1>6

\* The query of hijackLabelName.
LEMMA LabelNamesConfined ==
  ASSUME NEW S \in SUBSET NamespaceName
  PROVE  LET q == AskExprs(<<NewExprForCountAllLabels(Values(S))>>, TRUE)
         IN  /\ q \in Query
             /\ \A s \in SeriesOf(q, TSDB) : s[namespaceMatchName] \in S
<1> DEFINE e == NewExprForCountAllLabels(Values(S))
           q == AskExprs(<<e>>, TRUE)
<1>0. S \in SUBSET Namespace
  BY NamespaceSubset
<1>1. /\ e \in Seq(Selector) /\ DOMAIN e = {1}
      /\ \A s \in Series : Selects(e[1].matchers, s) =>
             s[namespaceMatchName] \in S \cup {noneNamespace}
  BY <1>0, CountAllLabelsConfined
<1> HIDE DEF e
<1>2. <<e>> \in Seq(Seq(Selector))
  BY <1>1
<1>3. q \in Query
  BY <1>2, AskExprsType
<1>4. q.reads = <<>> /\ q.exprs = <<e>>
  BY DEF AskExprs
<1>5. ASSUME NEW s \in SeriesOf(q, TSDB)
      PROVE  s[namespaceMatchName] \in S
  <2>1. s \in ExprSelects(e, TSDB)
    <3> HIDE DEF q
    <3> QED  BY <1>4, <1>5 DEF SeriesOf
  <2>2. s \in TSDB /\ Selects(e[1].matchers, s)
    BY <1>1, <2>1 DEF ExprSelects
  <2>3. s \in Series /\ s[namespaceMatchName] # noneNamespace
    BY <2>2, SeriesAssumption
  <2> QED  BY <1>1, <2>2, <2>3
<1> QED  BY <1>3, <1>5 DEF e

-----------------------------------------------------------------------------
(* What a step of one request leaves alone *)

\* A step of r: the cluster and every other request stay as they are.
StepOf(r) ==
    /\ UNCHANGED cluster
    /\ \A q \in Request \ {r} :
          /\ pc'[q] = pc[q] /\ input'[q] = input[q] /\ principal'[q] = principal[q]
          /\ listed'[q] = listed[q] /\ namespaceSet'[q] = namespaceSet[q]
          /\ sent'[q] = sent[q] /\ answer'[q] = answer[q] /\ window'[q] = window[q]

\* The invariant of a request speaks of nothing but its own locals and the
\* cluster, so a step of r only has to establish it for r.
LEMMA StepOfOne ==
  ASSUME IInv, NEW r \in Request, StepOf(r), TypeOK', RequestInv(r)'
  PROVE  IInv'
<1>1. ASSUME NEW q \in Request, q # r
      PROVE  RequestInv(q)'
  <2>1. /\ namespaces' = namespaces /\ grants' = grants /\ secrets' = secrets
        /\ pc'[q] = pc[q] /\ input'[q] = input[q] /\ principal'[q] = principal[q]
        /\ listed'[q] = listed[q] /\ namespaceSet'[q] = namespaceSet[q]
        /\ sent'[q] = sent[q] /\ answer'[q] = answer[q] /\ window'[q] = window[q]
    BY <1>1 DEF StepOf, cluster
  <2>2. RequestInv(q)
    BY DEF IInv
  <2>3. Scope(q)' = Scope(q)
    BY <2>1 DEF Scope
  <2>4. Operator(q)' = Operator(q) /\ Genuine(q)' = Genuine(q)
    BY <2>1 DEF Operator, Genuine
  <2>5. Covered(q) => Covered(q)'
    BY <2>1 DEF Covered
  <2>6. Confined(q, sent[q]) => Confined(q, sent[q])'
    BY <2>1, <2>3 DEF Confined
  <2>7. Scoped(q, answer[q]) => Scoped(q, answer[q])'
    BY <2>1, <2>3 DEF Scoped
  <2> QED  BY <2>1, <2>2, <2>3, <2>4, <2>5, <2>6, <2>7 DEF RequestInv, Open
<1> QED  BY <1>1 DEF IInv

\* An answer without series and label values shows nothing to anybody.
LEMMA EmptyScoped ==
  ASSUME NEW r, NEW a, a.series = {}, a.values = {}
  PROVE  Scoped(r, a)
BY DEF Scoped

\* A response ends the request.
LEMMA RespondInv ==
  ASSUME IInv, NEW r \in Request, NEW a \in Answer, Respond(r, a), UNCHANGED <<cluster, lookups>>,
         ~Operator(r) => Scoped(r, a), pc[r] # "idle"
  PROVE  IInv'
<1>1. TypeOK /\ RequestInv(r)
  BY DEF IInv
<1>2. TypeOK'
  BY <1>1 DEF TypeOK, Respond, cluster, lookups, Location
<1>3. StepOf(r)
  BY <1>1 DEF TypeOK, StepOf, Respond, cluster, lookups
<1>4. RequestInv(r)'
  <2>1. pc'[r] = "done" /\ answer'[r] = a
    BY <1>1 DEF TypeOK, Respond
  <2>2. Genuine(r)'
    BY <1>1 DEF RequestInv, Genuine, lookups
  <2>3. Operator(r)' = Operator(r)
    BY DEF Operator, lookups
  <2>4. Scoped(r, a) => Scoped(r, answer[r])'
    BY <2>1 DEF Scoped, Scope, lookups
  <2> QED  BY <2>1, <2>2, <2>3, <2>4 DEF RequestInv, Open
<1> QED  BY <1>2, <1>3, <1>4, StepOfOne

\* A request handed to the reverse proxy.
LEMMA ForwardInv ==
  ASSUME IInv, NEW r \in Request, NEW q \in Query, Forward(r, q), UNCHANGED <<cluster, lookups>>,
         Open(r), ~Operator(r) => Confined(r, q)
  PROVE  IInv'
<1>1. TypeOK /\ RequestInv(r)
  BY DEF IInv
<1>2. TypeOK'
  BY <1>1 DEF TypeOK, Forward, cluster, lookups, Location
<1>3. StepOf(r)
  BY <1>1 DEF TypeOK, StepOf, Forward, cluster, lookups
<1>4. RequestInv(r)'
  <2>1. pc'[r] = "proxy" /\ sent'[r] = q
    BY <1>1 DEF TypeOK, Forward
  <2>2. Genuine(r)' /\ Covered(r)'
    BY <1>1 DEF RequestInv, Genuine, Covered, lookups, cluster
  <2>3. Operator(r)' = Operator(r)
    BY DEF Operator, lookups
  <2>4. Confined(r, q) => Confined(r, sent[r])'
    BY <2>1 DEF Confined, Scope, lookups
  <2> QED  BY <2>1, <2>2, <2>3, <2>4 DEF RequestInv, Open
<1> QED  BY <1>2, <1>3, <1>4, StepOfOne

-----------------------------------------------------------------------------
(* The routers and the middleware of accessControl *)

LEMMA NoSeries ==
  ASSUME NEW q, q.exprs = <<>>, q.reads = <<>>
  PROVE  SeriesOf(q, TSDB) = {}
BY DEF SeriesOf

\* The four answers that carry no data.
LEMMA EmptyAnswers ==
  /\ Aborted \in Answer /\ Aborted.series = {} /\ Aborted.values = {}
  /\ Unauthorized \in Answer /\ Unauthorized.series = {} /\ Unauthorized.values = {}
  /\ \A f \in {"metrics", "json", "proto"} :
        /\ Success(f, {}, {}) \in Answer
        /\ Success(f, {}, {}).series = {} /\ Success(f, {}, {}).values = {}
BY DEF Aborted, NoAnswer, Unauthorized, Success, Answer

\* A response without data, whoever gets it.
LEMMA RespondEmptyInv ==
  ASSUME IInv, NEW r \in Request, NEW a \in Answer, a.series = {}, a.values = {},
         Respond(r, a), UNCHANGED <<cluster, lookups>>, pc[r] # "idle"
  PROVE  IInv'
BY EmptyScoped, RespondInv

LEMMA FailInv ==
  ASSUME IInv, NEW r \in Request, NEW err, NEW set \in BOOLEAN, Fail(r, err, set),
         UNCHANGED <<cluster, lookups>>, pc[r] # "idle"
  PROVE  IInv'
<1> DEFINE a == [code |-> CASE err = "bad_data" -> 400
                            [] err = "execution" -> 422
                            [] OTHER -> 500,
                 format |-> IF input[r].acceptsJSON \/ set THEN "json" ELSE "text",
                 series |-> {}, values |-> {}]
<1>1. a \in Answer
  BY DEF Answer
<1>2. a.series = {} /\ a.values = {}
  OBVIOUS
<1>3. Respond(r, a)
  BY DEF Fail
<1> HIDE DEF a
<1> QED  BY <1>1, <1>2, <1>3, RespondEmptyInv

LEMMA RouteInv ==
  ASSUME IInv, NEW r \in Request, Route(r)
  PROVE  IInv'
<1>0. TypeOK /\ RequestInv(r) /\ pc[r] = "route" /\ Open(r) /\ UNCHANGED <<cluster, lookups>>
  BY DEF IInv, Route, Open
<1>1. CASE Respond(r, Success("metrics", {}, {}))
  BY <1>0, <1>1, EmptyAnswers, RespondEmptyInv
<1>2. CASE input[r].path = "whitelist" /\ Forward(r, RawQuery(input[r]))
  <2>1. RawQuery(input[r]) = NoQuery
    BY <1>2 DEF RawQuery
  <2>2. Confined(r, NoQuery)
    BY NoSeries DEF Confined, NoQuery
  <2> QED  BY <1>0, <1>2, <2>1, <2>2, NoQueryType, ForwardInv
<1>3. CASE pc' = [pc EXCEPT ![r] = "auth"] /\ UNCHANGED <<sent, answer>>
  <2>1. TypeOK'
    BY <1>0, <1>3 DEF TypeOK, cluster, lookups, Location
  <2>2. StepOf(r)
    BY <1>0, <1>3 DEF TypeOK, StepOf, cluster, lookups
  <2>3. pc'[r] = "auth"
    BY <1>0, <1>3 DEF TypeOK
  <2>4. Covered(r)' /\ Genuine(r)' /\ principal'[r] = NoPrincipal
    BY <1>0 DEF RequestInv, Covered, Genuine, cluster, lookups
  <2>5. RequestInv(r)'
    BY <2>3, <2>4 DEF RequestInv
  <2> QED  BY <2>1, <2>2, <2>5, StepOfOne
<1> QED  BY <1>1, <1>2, <1>3 DEF Route

\* A service account that GetSA finds owns the token at that moment.
LEMMA GetSAGenuine ==
  ASSUME TypeOK, NEW t \in Token
  PROVE  /\ GetSA(t).sa \in Principal \cup {NoPrincipal}
         /\ GetSA(t).sa # NoPrincipal =>
               <<t, GetSA(t).sa>> \in Moment(namespaces, grants, secrets).owners
<1> DEFINE found == SecretByToken(t)
           k == CHOOSE x \in found : TRUE
<1>1. CASE ~(\E x \in found : found = {x})
  BY <1>1 DEF GetSA
<1>2. CASE \E x \in found : found = {x}
  <2>1. k \in found
    BY <1>2
  <2>2. k \in SecretName /\ secrets[k].saToken /\ secrets[k].token = t
    BY <2>1 DEF SecretByToken
  <2>3. secrets[k] \in Secret
    BY <2>2, SecretAssumption DEF TypeOK
  <2>4. secrets[k].sa \in Principal \cup {NoPrincipal}
    BY <2>3 DEF Secret
  <2>5. GetSA(t) = IF secrets[k].deleting THEN [err |-> TRUE, sa |-> NoPrincipal]
                   ELSE [err |-> secrets[k].sa = NoPrincipal, sa |-> secrets[k].sa]
    BY <1>2 DEF GetSA
  <2> HIDE DEF k
  <2>6. GetSA(t).sa = IF secrets[k].deleting THEN NoPrincipal ELSE secrets[k].sa
    BY <2>5
  <2>7. ASSUME GetSA(t).sa # NoPrincipal
        PROVE  <<t, GetSA(t).sa>> \in Moment(namespaces, grants, secrets).owners
    <3>1. ~secrets[k].deleting /\ GetSA(t).sa = secrets[k].sa /\ secrets[k].sa \in Principal
      BY <2>4, <2>6, <2>7
    <3> QED  BY <2>2, <3>1 DEF Moment
  <2> QED  BY <2>4, <2>6, <2>7
<1> QED  BY <1>1, <1>2

\* The one place where a request gets its principal.
LEMMA IdentifiedInv ==
  ASSUME IInv, NEW r \in Request, NEW p \in Principal, pc[r] = "auth", Identified(r, p),
         UNCHANGED <<cluster, input, listed, namespaceSet, window>>,
         \/ p = input[r].user
         \/ /\ input[r].user = NoPrincipal
            /\ <<input[r].token, p>> \in Moment(namespaces, grants, secrets).owners
  PROVE  IInv'
<1>0. TypeOK /\ RequestInv(r) /\ Open(r)
  BY DEF IInv, Open
<1>1. TypeOK'
  BY <1>0 DEF TypeOK, Identified, cluster, Location
<1>2. StepOf(r)
  BY <1>0 DEF TypeOK, StepOf, Identified, cluster
<1>3. pc'[r] = "nodes" /\ principal'[r] = p
  BY <1>0 DEF TypeOK, Identified
<1>4. Covered(r)
  BY <1>0 DEF RequestInv
<1>5. Covered(r)'
  BY <1>4 DEF Covered, cluster
<1>6. Genuine(r)'
  BY <1>3, <1>4 DEF Genuine, Covered
<1>7. RequestInv(r)'
  BY <1>3, <1>5, <1>6 DEF RequestInv
<1> QED  BY <1>1, <1>2, <1>7, StepOfOne

LEMMA AuthenticateInv ==
  ASSUME IInv, NEW r \in Request, Authenticate(r)
  PROVE  IInv'
<1>0. /\ TypeOK /\ RequestInv(r) /\ pc[r] = "auth" /\ Open(r)
      /\ UNCHANGED <<cluster, input, listed, namespaceSet, window>>
  BY DEF IInv, Authenticate, Open
<1>1. input[r] \in Inputs
  BY <1>0 DEF TypeOK
<1>2. RawQuery(input[r]) \in Query
  BY <1>1, RawQueryType
<1>3. CASE Respond(r, Unauthorized) /\ UNCHANGED principal
  <2>1. UNCHANGED <<cluster, lookups>>
    BY <1>0, <1>3 DEF lookups
  <2> QED  BY <1>0, <1>3, <2>1, EmptyAnswers, RespondEmptyInv
<1>4. CASE Respond(r, Aborted) /\ UNCHANGED principal
  <2>1. UNCHANGED <<cluster, lookups>>
    BY <1>0, <1>4 DEF lookups
  <2> QED  BY <1>0, <1>4, <2>1, EmptyAnswers, RespondEmptyInv
<1>5. CASE input[r].user # NoPrincipal /\ Identified(r, input[r].user)
  <2>1. input[r].user \in Principal
    BY <1>1, <1>5, InputFields
  <2> QED  BY <1>0, <1>5, <2>1, IdentifiedInv
<1>6. CASE /\ input[r].user = NoPrincipal /\ input[r].token = myToken
           /\ Forward(r, RawQuery(input[r])) /\ UNCHANGED principal
  <2>1. UNCHANGED <<cluster, lookups>>
    BY <1>0, <1>6 DEF lookups
  <2>2. Operator(r)
    BY <1>6 DEF Operator
  <2> QED  BY <1>0, <1>2, <1>6, <2>1, <2>2, ForwardInv
<1>7. CASE /\ input[r].user = NoPrincipal /\ input[r].token # NoToken
           /\ GetSA(input[r].token).sa # NoPrincipal
           /\ Identified(r, GetSA(input[r].token).sa)
  <2>1. input[r].token \in Token
    BY <1>1, <1>7, InputFields
  <2>2. /\ GetSA(input[r].token).sa \in Principal
        /\ <<input[r].token, GetSA(input[r].token).sa>> \in
              Moment(namespaces, grants, secrets).owners
    BY <1>0, <1>7, <2>1, GetSAGenuine
  <2> QED  BY <1>0, <1>7, <2>2, IdentifiedInv
<1> QED  BY <1>3, <1>4, <1>5, <1>6, <1>7 DEF Authenticate

LEMMA CanListInv ==
  ASSUME IInv, NEW r \in Request, CanList(r)
  PROVE  IInv'
<1>0. TypeOK /\ RequestInv(r) /\ pc[r] = "nodes" /\ Open(r) /\ UNCHANGED <<cluster, lookups>>
  BY DEF IInv, CanList, Open
<1>1. principal[r] \in Principal /\ Covered(r) /\ Genuine(r)
  BY <1>0 DEF RequestInv
<1>2. CASE grants[principal[r]].nodes /\ Forward(r, RawQuery(input[r]))
  <2>1. RawQuery(input[r]) \in Query
    BY <1>0, RawQueryType DEF TypeOK
  <2>2. principal[r] \in Moment(namespaces, grants, secrets).admins
    BY <1>1, <1>2 DEF Moment
  <2>3. Operator(r)
    BY <1>1, <2>2 DEF Operator, Covered
  <2> QED  BY <1>0, <1>2, <2>1, <2>3, ForwardInv
<1>3. CASE pc' = [pc EXCEPT ![r] = "list"] /\ UNCHANGED <<sent, answer>>
  <2>1. TypeOK'
    BY <1>0, <1>3 DEF TypeOK, cluster, lookups, Location
  <2>2. StepOf(r)
    BY <1>0, <1>3 DEF TypeOK, StepOf, cluster, lookups
  <2>3. pc'[r] = "list"
    BY <1>0, <1>3 DEF TypeOK
  <2>4. Covered(r)' /\ Genuine(r)' /\ principal'[r] \in Principal
    BY <1>0, <1>1 DEF Covered, Genuine, cluster, lookups
  <2>5. RequestInv(r)'
    BY <2>3, <2>4 DEF RequestInv
  <2> QED  BY <2>1, <2>2, <2>5, StepOfOne
<1> QED  BY <1>2, <1>3 DEF CanList

LEMMA ListNamespacesInv ==
  ASSUME IInv, NEW r \in Request, ListNamespaces(r)
  PROVE  IInv'
<1>0. TypeOK /\ RequestInv(r) /\ pc[r] = "list" /\ Open(r)
  BY DEF IInv, ListNamespaces, Open
<1>1. principal[r] \in Principal /\ Covered(r) /\ Genuine(r)
  BY <1>0 DEF RequestInv
<1>2. TypeOK'
  BY <1>0 DEF TypeOK, ListNamespaces, cluster, Location
<1>3. StepOf(r)
  BY <1>0 DEF TypeOK, StepOf, ListNamespaces, cluster
<1>4. pc'[r] = "access" /\ listed'[r] = {n \in NamespaceName : namespaces[n] = "active"}
  BY <1>0 DEF TypeOK, ListNamespaces
<1>5. listed'[r] = Moment(namespaces, grants, secrets).active
  BY <1>4 DEF Moment
<1>6. Covered(r)' /\ Genuine(r)' /\ principal'[r] \in Principal
  BY <1>1 DEF Covered, Genuine, ListNamespaces, cluster
<1>7. listed'[r] \subseteq window'[r].active
  BY <1>1, <1>5 DEF Covered, ListNamespaces
<1>8. RequestInv(r)'
  BY <1>4, <1>6, <1>7 DEF RequestInv
<1> QED  BY <1>2, <1>3, <1>8, StepOfOne

LEMMA QueryByUserInv ==
  ASSUME IInv, NEW r \in Request, QueryByUser(r)
  PROVE  IInv'
<1> DEFINE ns == {n \in listed[r] : /\ n \in grants[principal[r]].namespaces
                                    /\ n = monitoringNamespace => grants[principal[r]].pods}
<1>0. /\ TypeOK /\ RequestInv(r) /\ pc[r] = "access" /\ Open(r)
      /\ namespaceSet' = [namespaceSet EXCEPT ![r] = ns]
      /\ pc' = [pc EXCEPT ![r] = "handle"]
      /\ UNCHANGED <<cluster, input, principal, listed, sent, answer, window>>
  BY DEF IInv, QueryByUser, Open
<1>1. /\ principal[r] \in Principal /\ Covered(r) /\ Genuine(r)
      /\ listed[r] \subseteq window[r].active
  BY <1>0 DEF RequestInv
<1>2. ns \subseteq NamespaceName /\ ns \subseteq MayRead(grants[principal[r]])
  BY <1>0 DEF TypeOK, MayRead
<1>3. \A n \in ns : <<principal[r], n>> \in Moment(namespaces, grants, secrets).granted
  BY <1>1, <1>2 DEF Moment
<1>4. ns \subseteq Scope(r)
  BY <1>1, <1>3 DEF Scope, Covered
<1> HIDE DEF ns
<1>5. TypeOK'
  BY <1>0, <1>2 DEF TypeOK, cluster, Location
<1>6. StepOf(r)
  BY <1>0 DEF TypeOK, StepOf, cluster
<1>7. pc'[r] = "handle" /\ namespaceSet'[r] = ns
  BY <1>0 DEF TypeOK
<1>8. Covered(r)' /\ Genuine(r)' /\ principal'[r] \in Principal /\ Scope(r)' = Scope(r)
  BY <1>0, <1>1 DEF Covered, Genuine, Scope, cluster
<1>9. RequestInv(r)'
  BY <1>4, <1>7, <1>8 DEF RequestInv
<1> QED  BY <1>5, <1>6, <1>9, StepOfOne

-----------------------------------------------------------------------------
(* The handlers *)

LEMMA AtHandler ==
  ASSUME IInv, NEW r \in Request, pc[r] = "handle"
  PROVE  /\ TypeOK /\ Open(r) /\ Covered(r) /\ Genuine(r)
         /\ principal[r] \in Principal /\ principal[r] # NoPrincipal
         /\ input[r] \in Inputs
         /\ namespaceSet[r] \in SUBSET NamespaceName /\ namespaceSet[r] \subseteq Scope(r)
<1>1. TypeOK /\ RequestInv(r) /\ Open(r)
  BY DEF IInv, Open
<1> QED  BY <1>1, IdentityAssumption DEF RequestInv, TypeOK

\* Rewritten expressions are safe to forward.
LEMMA ForwardModifiedInv ==
  ASSUME IInv, NEW r \in Request, pc[r] = "handle", Forward(r, Modified(r)),
         UNCHANGED <<cluster, lookups>>
  PROVE  IInv'
<1>1. /\ Open(r) /\ input[r] \in Inputs
      /\ namespaceSet[r] \in SUBSET NamespaceName /\ namespaceSet[r] \subseteq Scope(r)
  BY AtHandler
<1>2. /\ Modified(r) \in Query /\ Modified(r).labels = {}
      /\ \A s \in SeriesOf(Modified(r), TSDB) : s[namespaceMatchName] \in namespaceSet[r]
  BY <1>1, ModifiedConfined DEF Modified
<1>3. Confined(r, Modified(r))
  BY <1>1, <1>2 DEF Confined
<1> QED  BY <1>1, <1>2, <1>3, ForwardInv

LEMMA hijackFederateInv ==
  ASSUME IInv, NEW r \in Request, hijackFederate(r)
  PROVE  IInv'
<1>0. pc[r] = "handle" /\ UNCHANGED <<cluster, lookups>>
  BY DEF hijackFederate, Handles, hijackUnchanged
<1>1. CASE Fail(r, "bad_data", FALSE)
  BY <1>0, <1>1, FailInv
<1>2. CASE Respond(r, Success("metrics", {}, {}))
  BY <1>0, <1>2, EmptyAnswers, RespondEmptyInv
<1>3. CASE Forward(r, Modified(r))
  BY <1>0, <1>3, ForwardModifiedInv
<1> QED  BY <1>1, <1>2, <1>3 DEF hijackFederate

LEMMA hijackExprInv ==
  ASSUME IInv, NEW r \in Request, hijackQuery(r) \/ hijackQueryRange(r)
  PROVE  IInv'
<1>0. pc[r] = "handle" /\ hijackExpr(r) /\ UNCHANGED <<cluster, lookups>>
  BY DEF hijackQuery, hijackQueryRange, Handles, hijackUnchanged
<1>1. CASE Fail(r, "bad_data", TRUE)
  BY <1>0, <1>1, FailInv
<1>2. CASE Respond(r, Success("json", {}, {}))
  BY <1>0, <1>2, EmptyAnswers, RespondEmptyInv
<1>3. CASE Forward(r, Modified(r))
  BY <1>0, <1>3, ForwardModifiedInv
<1> QED  BY <1>0, <1>1, <1>2, <1>3 DEF hijackExpr

LEMMA hijackSeriesInv ==
  ASSUME IInv, NEW r \in Request, hijackSeries(r)
  PROVE  IInv'
<1>0. pc[r] = "handle" /\ UNCHANGED <<cluster, lookups>>
  BY DEF hijackSeries, Handles, hijackUnchanged
<1>1. CASE Fail(r, "bad_data", TRUE)
  BY <1>0, <1>1, FailInv
<1>2. CASE Respond(r, Success("json", {}, {}))
  BY <1>0, <1>2, EmptyAnswers, RespondEmptyInv
<1>3. CASE Forward(r, Modified(r))
  BY <1>0, <1>3, ForwardModifiedInv
<1> QED  BY <1>1, <1>2, <1>3 DEF hijackSeries

LEMMA hijackReadInv ==
  ASSUME IInv, NEW r \in Request, hijackRead(r)
  PROVE  IInv'
<1> DEFINE q == AskReads([i \in DOMAIN input[r].reads |->
                   modifyQuery(input[r].reads[i], namespaceSet[r], filterReaderLabelSet)])
<1>0. pc[r] = "handle" /\ UNCHANGED <<cluster, lookups>>
  BY DEF hijackRead, Handles, hijackUnchanged
<1>1. CASE Fail(r, "bad_data", FALSE)
  BY <1>0, <1>1, FailInv
<1>2. CASE Respond(r, Success("proto", {}, {}))
  BY <1>0, <1>2, EmptyAnswers, RespondEmptyInv
<1>3. CASE Forward(r, q)
  <2>1. /\ Open(r) /\ input[r] \in Inputs
        /\ namespaceSet[r] \in SUBSET NamespaceName /\ namespaceSet[r] \subseteq Scope(r)
    BY <1>0, AtHandler
  <2>2. /\ q \in Query /\ q.labels = {}
        /\ q.valid => \A s \in SeriesOf(q, TSDB) : s[namespaceMatchName] \in namespaceSet[r]
    BY <2>1, ReadsConfined
  <2> HIDE DEF q
  <2>3. Confined(r, q)
    BY <2>1, <2>2 DEF Confined
  <2> QED  BY <1>0, <1>3, <2>1, <2>2, <2>3, ForwardInv
<1> QED  BY <1>1, <1>2, <1>3 DEF hijackRead

LEMMA hijackLabelNamespacesInv ==
  ASSUME IInv, NEW r \in Request, hijackLabelNamespaces(r)
  PROVE  IInv'
<1> DEFINE a == Success("json", {}, Values(namespaceSet[r]))
<1>0. /\ pc[r] = "handle" /\ UNCHANGED <<cluster, lookups>>
      /\ input[r].path = "label" /\ input[r].label = namespaceMatchName
      /\ Respond(r, a)
  BY DEF hijackLabelNamespaces, Handles, hijackUnchanged
<1>1. /\ principal[r] # NoPrincipal
      /\ namespaceSet[r] \in SUBSET NamespaceName /\ namespaceSet[r] \subseteq Scope(r)
  BY <1>0, AtHandler
<1>2. a.series = {} /\ a.values = namespaceSet[r] /\ a \in Answer
  <2>1. Values(namespaceSet[r]) = namespaceSet[r] /\ namespaceSet[r] \subseteq Value
    BY <1>1, NamespaceSubset
  <2> QED  BY <2>1 DEF Success, Answer
<1> HIDE DEF a
<1>3. Scoped(r, a)
  BY <1>0, <1>1, <1>2, ClusterAssumption DEF Scoped
<1> QED  BY <1>0, <1>2, <1>3, RespondInv

LEMMA hijackLabelNameInv ==
  ASSUME IInv, NEW r \in Request, hijackLabelName(r)
  PROVE  IInv'
<1> DEFINE q == AskExprs(<<NewExprForCountAllLabels(Values(namespaceSet[r]))>>, TRUE)
<1>0. /\ pc[r] = "handle" /\ UNCHANGED <<cluster, lookups>>
      /\ input[r].path = "label" /\ input[r].label = nameLabel
  BY DEF hijackLabelName, Handles, hijackUnchanged
<1>1. /\ TypeOK /\ Covered(r) /\ Genuine(r) /\ principal[r] \in Principal
      /\ namespaceSet[r] \in SUBSET NamespaceName /\ namespaceSet[r] \subseteq Scope(r)
  BY <1>0, AtHandler
<1>2. CASE Respond(r, Success("json", {}, {}))
  BY <1>0, <1>2, EmptyAnswers, RespondEmptyInv
<1>3. CASE /\ pc' = [pc EXCEPT ![r] = "remote"] /\ sent' = [sent EXCEPT ![r] = q]
           /\ UNCHANGED answer
  <2>1. q \in Query /\ \A s \in SeriesOf(q, TSDB) : s[namespaceMatchName] \in namespaceSet[r]
    BY <1>1, LabelNamesConfined
  <2> HIDE DEF q
  <2>2. TypeOK'
    BY <1>0, <1>1, <1>3, <2>1 DEF TypeOK, cluster, lookups, Location
  <2>3. StepOf(r)
    BY <1>0, <1>1, <1>3 DEF TypeOK, StepOf, cluster, lookups
  <2>4. pc'[r] = "remote" /\ sent'[r] = q
    BY <1>1, <1>3 DEF TypeOK
  <2>5. /\ Covered(r)' /\ Genuine(r)' /\ principal'[r] \in Principal
        /\ Scope(r)' = Scope(r) /\ namespaceSet'[r] = namespaceSet[r] /\ input'[r] = input[r]
    BY <1>0, <1>1 DEF Covered, Genuine, Scope, cluster, lookups
  <2>6. \A s \in SeriesOf(sent'[r], TSDB) : s[namespaceMatchName] \in Scope(r)'
    BY <1>1, <2>1, <2>4, <2>5
  <2>7. RequestInv(r)'
    BY <1>0, <1>1, <2>4, <2>5, <2>6 DEF RequestInv
  <2> QED  BY <2>2, <2>3, <2>7, StepOfOne
<1> QED  BY <1>2, <1>3 DEF hijackLabelName

LEMMA otherLabelValuesInv ==
  ASSUME IInv, NEW r \in Request, otherLabelValues(r)
  PROVE  IInv'
<1> DEFINE q == RawQuery(input[r])
<1>0. /\ pc[r] = "handle" /\ UNCHANGED <<cluster, lookups>> /\ Forward(r, q)
      /\ input[r].path = "label" /\ input[r].label \notin {namespaceMatchName, nameLabel}
  BY DEF otherLabelValues, Handles, hijackUnchanged
<1>1. principal[r] # NoPrincipal /\ input[r] \in Inputs /\ Open(r)
  BY <1>0, AtHandler
<1>2. q \in Query
  BY <1>1, RawQueryType
<1>3. q = AskLabel(input[r].label, ~input[r].malformed)
  BY <1>0 DEF RawQuery
<1>4. q.exprs = <<>> /\ q.reads = <<>>
  BY <1>3 DEF AskLabel
<1> HIDE DEF q
<1>5. Confined(r, q)
  BY <1>0, <1>1, <1>4, NoSeries DEF Confined
<1> QED  BY <1>0, <1>1, <1>2, <1>5, ForwardInv

LEMMA catchAllInv ==
  ASSUME IInv, NEW r \in Request, catchAll(r)
  PROVE  IInv'
<1>0. pc[r] = "handle" /\ UNCHANGED <<cluster, lookups>> /\ Respond(r, Unauthorized)
  BY DEF catchAll, hijackUnchanged
<1> QED  BY <1>0, EmptyAnswers, RespondEmptyInv

-----------------------------------------------------------------------------
(* The answers of Prometheus *)

LEMMA ProxiedInv ==
  ASSUME IInv, NEW r \in Request, Proxied(r)
  PROVE  IInv'
<1> DEFINE series == SeriesOf(sent[r], TSDB)
           values == ValuesOf(sent[r])
           a == Success("upstream", series, values)
<1>0. TypeOK /\ RequestInv(r) /\ pc[r] = "proxy" /\ UNCHANGED <<cluster, lookups>>
  BY DEF IInv, Proxied, hijackUnchanged
<1>1. CASE sent[r].valid /\ Respond(r, a)
  <2>1. sent[r] \in Query
    BY <1>0 DEF TypeOK
  <2>2. series \subseteq TSDB /\ values \subseteq Value
    BY <2>1, SeriesOfType, ValuesOfType
  <2>3. values # {} => sent[r].labels # {}
    BY DEF ValuesOf
  <2>4. ~Operator(r) => Confined(r, sent[r])
    BY <1>0 DEF RequestInv
  <2> HIDE DEF series, values
  <2>5. a \in Answer /\ a.series = series /\ a.values = values
    BY <2>2 DEF Success, Answer
  <2>6. ~Operator(r) => Scoped(r, a)
    BY <1>1, <2>3, <2>4, <2>5 DEF Confined, Scoped, series
  <2> HIDE DEF a
  <2> QED  BY <1>0, <1>1, <2>5, <2>6, RespondInv
<1>2. CASE \E c \in {400, 502}, f \in {"upstream", "none"} :
             Respond(r, [code |-> c, format |-> f, series |-> {}, values |-> {}])
  <2>1. PICK c \in {400, 502}, f \in {"upstream", "none"} :
             Respond(r, [code |-> c, format |-> f, series |-> {}, values |-> {}])
    BY <1>2
  <2>2. [code |-> c, format |-> f, series |-> {}, values |-> {}] \in Answer
    BY DEF Answer
  <2> QED  BY <1>0, <2>1, <2>2, RespondEmptyInv
<1> QED  BY <1>1, <1>2 DEF Proxied

LEMMA RemoteAnsweredInv ==
  ASSUME IInv, NEW r \in Request, RemoteAnswered(r)
  PROVE  IInv'
<1> DEFINE names == {s[nameLabel] : s \in SeriesOf(sent[r], TSDB)}
           a == Success("json", {}, names)
<1>0. TypeOK /\ RequestInv(r) /\ pc[r] = "remote" /\ UNCHANGED <<cluster, lookups>>
  BY DEF IInv, RemoteAnswered, hijackUnchanged
<1>1. CASE Respond(r, a)
  <2>1. /\ input[r].path = "label" /\ input[r].label = nameLabel
        /\ principal[r] # NoPrincipal
        /\ \A s \in SeriesOf(sent[r], TSDB) : s[namespaceMatchName] \in Scope(r)
    BY <1>0, IdentityAssumption DEF RequestInv
  <2>2. \A s \in SeriesOf(sent[r], TSDB) : s \in TSDB /\ s[nameLabel] \in Value
    BY SeriesOfType, SeriesAssumption, ClusterAssumption DEF Series
  <2>3. names \subseteq Value
    BY <2>2
  <2>4. \A v \in names : \E s \in TSDB : s[nameLabel] = v /\ s[namespaceMatchName] \in Scope(r)
    BY <2>1, <2>2
  <2> HIDE DEF names
  <2>5. a \in Answer /\ a.series = {} /\ a.values = names
    BY <2>3 DEF Success, Answer
  <2> HIDE DEF a
  <2>6. Scoped(r, a)
    BY <2>1, <2>4, <2>5, ClusterAssumption DEF Scoped
  <2> QED  BY <1>0, <1>1, <2>5, <2>6, RespondInv
<1>2. CASE Fail(r, "execution", TRUE)
  BY <1>0, <1>2, FailInv
<1>3. CASE Crash(r)
  <2>1. [code |-> 500, format |-> "text", series |-> {}, values |-> {}] \in Answer
    BY DEF Answer
  <2> QED  BY <1>0, <1>3, <2>1, RespondEmptyInv DEF Crash
<1> QED  BY <1>1, <1>2, <1>3 DEF RemoteAnswered

-----------------------------------------------------------------------------
(* The watches, and the beginning and the end of a request *)

LEMMA MomentType ==
  ASSUME NEW nss, NEW gs, NEW ss
  PROVE  Moment(nss, gs, ss) \in Window
BY DEF Moment, Window

LEMMA WidenType ==
  ASSUME NEW w \in Window, NEW m \in Window
  PROVE  /\ Widen(w, m) \in Window
         /\ w.active \subseteq Widen(w, m).active /\ m.active \subseteq Widen(w, m).active
         /\ w.granted \subseteq Widen(w, m).granted /\ m.granted \subseteq Widen(w, m).granted
         /\ w.admins \subseteq Widen(w, m).admins /\ m.admins \subseteq Widen(w, m).admins
         /\ w.owners \subseteq Widen(w, m).owners /\ m.owners \subseteq Widen(w, m).owners
BY DEF Widen, Window

\* A watch event only makes a window wider, and everything the invariant says
\* of a request survives that: this is why lookups at different moments are
\* harmless.
LEMMA WatchEventInv ==
  ASSUME IInv, WatchEvent
  PROVE  IInv'
<1> DEFINE now == Moment(namespaces', grants', secrets')
<1>0. TypeOK /\ UNCHANGED <<pc, input, principal, listed, namespaceSet, sent, answer>>
  BY DEF IInv, WatchEvent
<1>1. \A q \in Request : window'[q] = IF Open(q) THEN Widen(window[q], now) ELSE window[q]
  BY DEF WatchEvent, Observed
<1>2. now \in Window /\ \A q \in Request : window[q] \in Window
  BY <1>0, MomentType DEF TypeOK
<1>3. TypeOK'
  <2>1. window' \in [Request -> Window]
    <3> HIDE DEF now
    <3>1. \A q \in Request : window'[q] \in Window
      BY <1>1, <1>2, WidenType
    <3>2. window' = [q \in Request |-> window'[q]]
      BY DEF WatchEvent, Observed
    <3> QED  BY <3>1, <3>2
  <2>2. changes' \in 0 .. MaxChanges
    BY <1>0, BoundAssumption DEF TypeOK, WatchEvent
  <2>3. /\ namespaces' \in [NamespaceName -> Phase]
        /\ grants' \in [Principal -> Grants]
        /\ secrets' \in [SecretName -> SecretStates]
    BY <1>0 DEF TypeOK, WatchEvent
  <2> QED  BY <1>0, <2>1, <2>2, <2>3 DEF TypeOK
<1>4. ASSUME NEW q \in Request
      PROVE  RequestInv(q)'
  <2>0. RequestInv(q) /\ (Open(q)' <=> Open(q))
    BY <1>0 DEF IInv, Open
  <2>1. /\ window[q].active \subseteq window'[q].active
        /\ window[q].granted \subseteq window'[q].granted
        /\ window[q].admins \subseteq window'[q].admins
        /\ window[q].owners \subseteq window'[q].owners
    <3> HIDE DEF now
    <3> QED  BY <1>1, <1>2, WidenType
  <2>2. Open(q) => Covered(q)'
    <3>1. Open(q) => /\ now.active \subseteq window'[q].active
                     /\ now.granted \subseteq window'[q].granted
                     /\ now.admins \subseteq window'[q].admins
                     /\ now.owners \subseteq window'[q].owners
      <4> HIDE DEF now
      <4> QED  BY <1>1, <1>2, WidenType
    <3> QED  BY <3>1 DEF Covered
  <2>3. Scope(q) \subseteq Scope(q)'
    BY <1>0, <2>1 DEF Scope
  <2>4. (Operator(q) => Operator(q)') /\ (Genuine(q) => Genuine(q)')
    BY <1>0, <2>1 DEF Operator, Genuine
  <2>5. Confined(q, sent[q]) => Confined(q, sent[q])'
    BY <1>0, <2>3 DEF Confined
  <2>6. Scoped(q, answer[q]) => Scoped(q, answer[q])'
    BY <1>0, <2>3 DEF Scoped
  <2>7. pc[q] = "access" => listed'[q] \subseteq window'[q].active
    BY <1>0, <2>0, <2>1 DEF RequestInv
  <2> QED  BY <1>0, <2>0, <2>2, <2>3, <2>4, <2>5, <2>6, <2>7 DEF RequestInv
<1> QED  BY <1>3, <1>4 DEF IInv

LEMMA ArriveInv ==
  ASSUME IInv, NEW r \in Request, Arrive(r)
  PROVE  IInv'
<1>0. TypeOK /\ RequestInv(r) /\ pc[r] = "idle"
  BY DEF IInv, Arrive
<1>1. TypeOK'
  BY <1>0, MomentType DEF TypeOK, Arrive, cluster, Location
<1>2. StepOf(r)
  BY <1>0 DEF TypeOK, StepOf, Arrive, cluster
<1>3. /\ pc'[r] = "route" /\ window'[r] = Moment(namespaces, grants, secrets)
      /\ principal'[r] = NoPrincipal
  BY <1>0 DEF TypeOK, Arrive, RequestInv
<1>4. Covered(r)' /\ Genuine(r)'
  BY <1>3 DEF Covered, Genuine, Arrive, cluster
<1>5. RequestInv(r)'
  BY <1>3, <1>4 DEF RequestInv
<1> QED  BY <1>1, <1>2, <1>5, StepOfOne

LEMMA FinishInv ==
  ASSUME IInv, NEW r \in Request, Finish(r)
  PROVE  IInv'
<1>0. TypeOK
  BY DEF IInv
<1>1. NoWindow \in Window /\ (CHOOSE i \in Inputs : TRUE) \in Inputs
  BY InputAssumption DEF NoWindow, Window
<1>2. TypeOK'
  BY <1>0, <1>1, NoQueryType, NoAnswerType DEF TypeOK, Finish, cluster, Location
<1>3. StepOf(r)
  BY <1>0 DEF TypeOK, StepOf, Finish, cluster
<1>4. pc'[r] = "idle" /\ principal'[r] = NoPrincipal
  BY <1>0 DEF TypeOK, Finish
<1>5. RequestInv(r)'
  BY <1>4 DEF RequestInv, Open, Genuine
<1> QED  BY <1>2, <1>3, <1>5, StepOfOne

-----------------------------------------------------------------------------
(* The invariant, and what follows from it *)

LEMMA InitInv ==
  ASSUME Init
  PROVE  IInv
<1>1. NoWindow \in Window /\ (CHOOSE i \in Inputs : TRUE) \in Inputs
  BY InputAssumption DEF NoWindow, Window
<1>2. /\ namespaces \in [NamespaceName -> Phase]
      /\ grants \in [Principal -> Grants]
      /\ secrets \in [SecretName -> SecretStates]
  BY ClustersAssumption DEF Init
<1>3. TypeOK
  BY <1>1, <1>2, BoundAssumption, NoQueryType, NoAnswerType DEF Init, TypeOK, Location
<1>4. \A r \in Request : RequestInv(r)
  BY DEF Init, RequestInv, Open, Genuine
<1> QED  BY <1>3, <1>4 DEF IInv

LEMMA NextInv ==
  ASSUME IInv, [Next]_vars
  PROVE  IInv'
<1>1. CASE WatchEvent
  BY <1>1, WatchEventInv
<1>2. ASSUME NEW r \in Request, Arrive(r) \/ Serve(r) \/ Finish(r)
      PROVE  IInv'
  BY <1>2, ArriveInv, FinishInv, RouteInv, AuthenticateInv, CanListInv, ListNamespacesInv,
     QueryByUserInv, hijackFederateInv, hijackExprInv, hijackSeriesInv, hijackReadInv,
     hijackLabelNamespacesInv, hijackLabelNameInv, otherLabelValuesInv, catchAllInv,
     ProxiedInv, RemoteAnsweredInv DEF Serve
<1>3. CASE UNCHANGED vars
  <2>1. /\ UNCHANGED <<namespaces, grants, secrets, changes, pc, input>>
        /\ UNCHANGED <<principal, listed, namespaceSet, sent, answer, window>>
    BY <1>3 DEF vars
  <2>2. TypeOK'
    BY <2>1 DEF IInv, TypeOK
  <2>3. ASSUME NEW r \in Request
        PROVE  IInv'
    <3>1. StepOf(r)
      BY <2>1 DEF StepOf, cluster
    <3>2. /\ Scope(r)' = Scope(r) /\ Operator(r)' = Operator(r) /\ Genuine(r)' = Genuine(r)
          /\ Covered(r) => Covered(r)'
      BY <2>1 DEF Scope, Operator, Genuine, Covered
    <3>3. RequestInv(r)'
      BY <2>1, <3>2 DEF IInv, RequestInv, Open, Confined, Scoped
    <3> QED  BY <2>2, <3>1, <3>3, StepOfOne
  <2>4. CASE Request = {}
    BY <2>2, <2>4 DEF IInv
  <2> QED  BY <2>3, <2>4
<1> QED  BY <1>1, <1>2, <1>3 DEF Next

\* In every behaviour of the request path the variables keep their types and
\* every request satisfies what its place demands.
THEOREM Invariance == Spec => []IInv
<1>1. Init => IInv
  BY InitInv
<1>2. IInv /\ [Next]_vars => IInv'
  BY NextInv
<1> QED  BY <1>1, <1>2, PTL DEF Spec

\* The types of the caches, of the middleware's locals and of the answers.
THEOREM TypeCorrect == Spec => []TypeOK
<1>1. IInv => TypeOK
  BY DEF IInv
<1> QED  BY <1>1, Invariance, PTL

\* No request ever acts as anybody but the user of its headers or the service
\* account its token belonged to while the request was open (accessControl).
THEOREM PrincipalGenuineHolds == Spec => []PrincipalGenuine
<1>1. IInv => PrincipalGenuine
  BY DEF IInv, RequestInv, Genuine, PrincipalGenuine
<1> QED  BY <1>1, Invariance, PTL

\* No answer shows a tenant anything from outside the namespaces that were
\* active and granted to the tenant while the request was open, for any
\* cluster, any requests, any expressions and any interleaving of the watches
\* with the lookups of any number of concurrent requests.
THEOREM TenantScopeHolds == Spec => []TenantScope
<1>1. IInv => TenantScope
  BY DEF IInv, RequestInv, TenantScope
<1> QED  BY <1>1, Invariance, PTL

=============================================================================
