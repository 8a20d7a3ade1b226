--------------------------- MODULE TenancyProofs ----------------------------
(***************************************************************************)
(* The request path implements Tenancy, for every instance, and its        *)
(* answers are exact.                                                      *)
(*                                                                         *)
(* BackendProofs shows that nothing comes from outside the scope.  Here    *)
(* the query that is sent is shown to read all of what was asked for       *)
(* inside the namespaces of the request, and these namespaces to be the    *)
(* whole scope as long as the window is stable.                            *)
(***************************************************************************)
EXTENDS BackendTenancy, BackendProofs

-----------------------------------------------------------------------------
(* What a query reads *)

LEMMA InSeriesOf ==
  ASSUME NEW q, NEW db, NEW s
  PROVE  s \in SeriesOf(q, db) <=>
            \/ \E i \in DOMAIN q.exprs : \E j \in DOMAIN q.exprs[i] :
                  s \in db /\ Selects(q.exprs[i][j].matchers, s)
            \/ \E i \in DOMAIN q.reads : s \in db /\ Selects(q.reads[i], s)
BY DEF SeriesOf, ExprSelects

LEMMA SeriesOfNothing ==
  ASSUME NEW in
  PROVE  Own({}) = {} /\ Asked(in, Own({})) = {}
<1>1. Own({}) = {}
  BY DEF Own
<1>2. SeriesOf(AskedQuery(in), {}) = {}
  BY InSeriesOf
<1> QED  BY <1>1, <1>2 DEF Asked

\* The rewritten expressions read exactly what the raw ones read inside S.
LEMMA ModifiedExact ==
  ASSUME NEW in \in Inputs, NEW S \in SUBSET NamespaceName, AllExprs(in),
         in.path \in {"query", "query_range", "series", "federate"}
  PROVE  SeriesOf(AskExprs([i \in DOMAIN in.exprs |->
                               ModifyExpression(in.exprs[i].selectors, S)], TRUE), TSDB)
           = Asked(in, Own(S))
<1> DEFINE es == [i \in DOMAIN in.exprs |-> ModifyExpression(in.exprs[i].selectors, S)]
           raw == [i \in DOMAIN in.exprs |-> in.exprs[i].selectors]
           q == AskExprs(es, TRUE)
           p == AskExprs(raw, AllExprs(in))
<1>0. S \in SUBSET Namespace /\ \A i \in DOMAIN in.exprs : in.exprs[i].selectors \in Seq(Selector)
  BY NamespaceSubset, InputFields
<1>1. AskedQuery(in) = p
  BY DEF AskedQuery, RawQuery
<1>2. /\ q.exprs = es /\ q.reads = <<>> /\ p.exprs = raw /\ p.reads = <<>>
      /\ p.valid = AllExprs(in)
  BY DEF AskExprs
<1>3. Asked(in, Own(S)) = SeriesOf(p, Own(S))
  <2> HIDE DEF p
  <2> QED  BY <1>1, <1>2 DEF Asked
<1>4. ASSUME NEW s \in TSDB, NEW i \in DOMAIN in.exprs
      PROVE  /\ DOMAIN es[i] = DOMAIN raw[i]
             /\ \A j \in DOMAIN raw[i] : Selects(es[i][j].matchers, s) <=>
                   Selects(raw[i][j].matchers, s) /\ s \in Own(S)
  <2> DEFINE expr == in.exprs[i].selectors
  <2>1. expr \in Seq(Selector) /\ raw[i] = expr /\ es[i] = ModifyExpression(expr, S)
    BY <1>0
  <2>2. s \in Series /\ s[namespaceMatchName] # noneNamespace
    BY SeriesAssumption
  <2>3. s \in Own(S) <=> s[namespaceMatchName] \in S
    BY DEF Own
  <2> HIDE DEF expr, es, raw
  <2>4. DOMAIN ModifyExpression(expr, S) = DOMAIN expr
    BY <1>0, <2>1, ModifyExpressionFilters
  <2>5. \A j \in DOMAIN expr : Selects(ModifyExpression(expr, S)[j].matchers, s) <=>
            Selects(expr[j].matchers, s) /\ s[namespaceMatchName] \in S
    BY <1>0, <2>1, <2>2, ModifyExpressionExact
  <2> QED  BY <2>1, <2>3, <2>4, <2>5
<1>5. DOMAIN es = DOMAIN in.exprs /\ DOMAIN raw = DOMAIN in.exprs
  OBVIOUS
<1>6. \A s : s \in SeriesOf(q, TSDB) <=>
          \E i \in DOMAIN es : \E j \in DOMAIN es[i] : s \in TSDB /\ Selects(es[i][j].matchers, s)
  <2> HIDE DEF es, q
  <2> QED  BY <1>2, InSeriesOf
<1>7. \A s : s \in SeriesOf(p, Own(S)) <=>
          \E i \in DOMAIN raw : \E j \in DOMAIN raw[i] :
             s \in Own(S) /\ Selects(raw[i][j].matchers, s)
  <2> HIDE DEF raw, p
  <2> QED  BY <1>2, InSeriesOf
<1>8. Own(S) \subseteq TSDB
  BY DEF Own
<1> HIDE DEF es, raw, q, p
<1>9. SeriesOf(q, TSDB) = SeriesOf(p, Own(S))
  BY <1>4, <1>5, <1>6, <1>7, <1>8
<1> QED  BY <1>3, <1>9 DEF q, es

\* A rewritten remote read that Prometheus accepts reads exactly what is asked
\* for inside S.
LEMMA ReadsExact ==
  ASSUME NEW in \in Inputs, NEW S \in SUBSET NamespaceName, in.path = "read",
         AskReads([i \in DOMAIN in.reads |->
                      modifyQuery(in.reads[i], S, filterReaderLabelSet)]).valid
  PROVE  SeriesOf(AskReads([i \in DOMAIN in.reads |->
                      modifyQuery(in.reads[i], S, filterReaderLabelSet)]), TSDB)
           = Asked(in, Own(S))
<1> DEFINE rs == [i \in DOMAIN in.reads |-> modifyQuery(in.reads[i], S, filterReaderLabelSet)]
           raw == [i \in DOMAIN in.reads |->
                      filteredMatchers(in.reads[i], filterReaderLabelSet)[Len(in.reads[i])]]
           q == AskReads(rs)
           p == AskReads(raw)
<1>0. S \in SUBSET Namespace /\ \A i \in DOMAIN in.reads : in.reads[i] \in Seq(LabelMatcher)
  BY NamespaceSubset, InputFields
<1>1. AskedQuery(in) = p
  BY DEF AskedQuery
<1>2. /\ q.exprs = <<>> /\ q.reads = rs /\ p.exprs = <<>> /\ p.reads = raw
      /\ q.valid <=> \A i \in DOMAIN rs : ~fromLabelMatchersFails(rs[i])
      /\ p.valid <=> \A i \in DOMAIN raw : ~fromLabelMatchersFails(raw[i])
  BY DEF AskReads
<1>3. DOMAIN rs = DOMAIN in.reads /\ DOMAIN raw = DOMAIN in.reads
  OBVIOUS
<1>4. \A i \in DOMAIN in.reads : ~fromLabelMatchersFails(rs[i])
  <2> HIDE DEF rs, raw
  <2> QED  BY <1>2, <1>3 DEF rs
<1>5. ASSUME NEW s \in TSDB, NEW i \in DOMAIN in.reads
      PROVE  /\ ~fromLabelMatchersFails(raw[i])
             /\ Selects(rs[i], s) <=> Selects(raw[i], s) /\ s \in Own(S)
  <2> DEFINE ms == in.reads[i]
  <2>1. /\ ms \in Seq(LabelMatcher) /\ rs[i] = modifyQuery(ms, S, filterReaderLabelSet)
        /\ raw[i] = filteredMatchers(ms, filterReaderLabelSet)[Len(ms)]
    BY <1>0
  <2>2. s \in Series /\ s[namespaceMatchName] # noneNamespace
    BY SeriesAssumption
  <2>3. s \in Own(S) <=> s[namespaceMatchName] \in S
    BY DEF Own
  <2>4. ~fromLabelMatchersFails(modifyQuery(ms, S, filterReaderLabelSet))
    <3> HIDE DEF rs
    <3> QED  BY <1>4, <2>1
  <2> HIDE DEF ms, rs, raw
  <2>5. LET left == filteredMatchers(ms, filterReaderLabelSet)[Len(ms)]
        IN  /\ ~fromLabelMatchersFails(left)
            /\ Selects(modifyQuery(ms, S, filterReaderLabelSet), s) <=>
                   Selects(left, s) /\ s[namespaceMatchName] \in S
    BY <1>0, <2>1, <2>2, <2>4, ModifyQueryExact
  <2> QED  BY <2>1, <2>3, <2>5
<1>6. \A s : s \in SeriesOf(q, TSDB) <=> \E i \in DOMAIN rs : s \in TSDB /\ Selects(rs[i], s)
  <2> HIDE DEF rs, q
  <2> QED  BY <1>2, InSeriesOf
<1>7. \A s : s \in SeriesOf(p, Own(S)) <=>
                \E i \in DOMAIN raw : s \in Own(S) /\ Selects(raw[i], s)
  <2> HIDE DEF raw, p
  <2> QED  BY <1>2, InSeriesOf
<1>8. Own(S) \subseteq TSDB
  BY DEF Own
<1> HIDE DEF rs, raw, q, p
<1>9. SeriesOf(q, TSDB) = SeriesOf(p, Own(S))
  BY <1>3, <1>5, <1>6, <1>7, <1>8
<1>10. TSDB # {} => p.valid
  BY <1>2, <1>3, <1>5
<1>11. SeriesOf(q, TSDB) = Asked(in, Own(S))
  <2>1. CASE p.valid
    BY <1>1, <1>9, <2>1 DEF Asked
  <2>2. CASE ~p.valid
    <3>1. SeriesOf(q, TSDB) = {}
      BY <1>6, <1>10, <2>2
    <3> QED  BY <1>1, <2>2, <3>1 DEF Asked
  <2> QED  BY <2>1, <2>2
<1> QED  BY <1>11 DEF q, rs

\* The query of hijackLabelName reads all of the tenant's series.
LEMMA LabelNamesExact ==
  ASSUME NEW S \in SUBSET NamespaceName, S # {}
  PROVE  SeriesOf(AskExprs(<<NewExprForCountAllLabels(Values(S))>>, TRUE), TSDB) = Own(S)
<1> DEFINE c == createMatcher(namespaceMatchName, Values(S))
           e == NewExprForCountAllLabels(Values(S))
           q == AskExprs(<<e>>, TRUE)
<1>0. S \in SUBSET Namespace
  BY NamespaceSubset
<1>1. c.name = namespaceMatchName /\ \A v \in Value : Matches(c, v) <=> v \in S
  BY <1>0, CreateMatcherExact
<1>2. e = << [kind |-> "vector", matchers |-> <<c>>] >>
  BY DEF NewExprForCountAllLabels
<1>3. q.exprs = <<e>> /\ q.reads = <<>>
  BY DEF AskExprs
<1> HIDE DEF c, e, q
<1>4. DOMAIN e = {1} /\ e[1].matchers = <<c>>
  BY <1>2
<1>5. DOMAIN <<e>> = {1} /\ <<e>>[1] = e /\ DOMAIN <<c>> = {1} /\ <<c>>[1] = c
  OBVIOUS
<1>6. ASSUME NEW s \in TSDB
      PROVE  Selects(<<c>>, s) <=> s \in Own(S)
  <2>1. s[namespaceMatchName] \in Value
    BY SeriesAssumption, LabelAssumption DEF Series
  <2> QED  BY <1>1, <1>5, <2>1 DEF Selects, Own
<1>7. \A s : s \in SeriesOf(q, TSDB) <=> s \in TSDB /\ Selects(<<c>>, s)
  BY <1>3, <1>4, <1>5, InSeriesOf
<1>8. SeriesOf(q, TSDB) = Own(S)
  BY <1>6, <1>7 DEF Own
<1> QED  BY <1>8 DEF q, e

-----------------------------------------------------------------------------
(* The invariant behind the refinement *)

\* The namespaces of the request, once they are known, are a source of Tenancy.
Sourced(r) ==
    /\ namespaceSet[r] \subseteq Scope(r)
    /\ window[r].stable => namespaceSet[r] = Scope(r)

\* A query that, if Prometheus accepts it, returns what a tenant is promised.
TenantQuery(r, q) ==
    /\ principal[r] \in Principal /\ Sourced(r)
    /\ q.valid => /\ SeriesOf(q, TSDB) = Inside(input[r], namespaceSet[r]).series
                  /\ ValuesOf(q) = Inside(input[r], namespaceSet[r]).values

Proper(r, q) ==
    \/ Public(input[r]) /\ q = NoQuery
    \/ Operator(r) /\ q = RawQuery(input[r])
    \/ TenantQuery(r, q)

\* What the abstract specification sees of an answer.
Shown(a) == [ok |-> a.code = 200, series |-> a.series, values |-> a.values]

\* What a request at each place has to do with a stable window, and with what
\* the answer will be.
PathInv(r) ==
    /\ pc[r] = "done" => Shown(answer[r]) \in T!Permitted(principal[r], input[r], window[r])
    /\ Open(r) /\ window[r].stable => window[r] = Moment(namespaces, grants, secrets)
    /\ pc[r] = "access" /\ window[r].stable => listed[r] = window[r].active
    /\ pc[r] \in {"handle", "remote"} => Sourced(r)
    /\ pc[r] = "proxy" => Proper(r, sent[r])
    /\ pc[r] = "remote" => SeriesOf(sent[r], TSDB) = Own(namespaceSet[r])

TInv == IInv /\ \A r \in Request : PathInv(r)

\* A step of r only has to establish the invariant for r.
LEMMA PathOfOne ==
  ASSUME TInv, NEW r \in Request, StepOf(r), IInv', PathInv(r)'
  PROVE  TInv'
<1>1. ASSUME NEW q \in Request, q # r
      PROVE  PathInv(q)'
  <2>1. /\ namespaces' = namespaces /\ grants' = grants /\ secrets' = secrets
        /\ pc'[q] = pc[q] /\ input'[q] = input[q] /\ principal'[q] = principal[q]
        /\ listed'[q] = listed[q] /\ namespaceSet'[q] = namespaceSet[q]
        /\ sent'[q] = sent[q] /\ answer'[q] = answer[q] /\ window'[q] = window[q]
    BY <1>1 DEF StepOf, cluster
  <2>2. PathInv(q)
    BY DEF TInv
  <2>3. Scope(q)' = Scope(q) /\ Operator(q)' = Operator(q)
    BY <2>1 DEF Scope, Operator
  <2>4. Sourced(q)' = Sourced(q)
    BY <2>1, <2>3 DEF Sourced
  <2>5. Proper(q, sent[q]) => Proper(q, sent[q])'
    BY <2>1, <2>3, <2>4 DEF Proper, TenantQuery
  <2> QED  BY <2>1, <2>2, <2>4, <2>5 DEF PathInv, Open
<1> QED  BY <1>1 DEF TInv

\* A response is the abstract answer, if it is permitted.
LEMMA RespondRefines ==
  ASSUME TInv, NEW r \in Request, NEW a \in Answer, Open(r), Respond(r, a),
         UNCHANGED <<cluster, lookups>>, IInv',
         Shown(a) \in T!Permitted(principal[r], input[r], window[r])
  PROVE  T!Answer(r) /\ TInv'
<1>0. TypeOK /\ RequestInv(r)
  BY DEF TInv, IInv
<1>1. /\ pc' = [pc EXCEPT ![r] = "done"] /\ answer' = [answer EXCEPT ![r] = a]
      /\ UNCHANGED <<namespaces, grants, secrets, input, principal, listed, namespaceSet,
                     window, sent>>
  BY DEF Respond, cluster, lookups
<1>2. stateBar[r] = "open" /\ stateBar' = [stateBar EXCEPT ![r] = "done"]
  BY <1>0, <1>1 DEF TypeOK, stateBar, Open
<1>3. actingBar' = [actingBar EXCEPT ![r] = principal[r]]
  BY <1>0, <1>1 DEF TypeOK, actingBar
<1>4. answerBar' = [answerBar EXCEPT ![r] = Shown(a)]
  BY <1>0, <1>1 DEF TypeOK, answerBar, Shown
<1>5. T!Entitled(principal[r], input[r], window[r]) /\ principal[r] \in Principal \cup {NoPrincipal}
  BY <1>0 DEF RequestInv, Genuine, TypeOK, T!Entitled
<1>6. T!Answer(r)
  BY <1>1, <1>2, <1>3, <1>4, <1>5 DEF T!Answer
<1>7. PathInv(r)'
  <2>1. pc'[r] = "done" /\ answer'[r] = a
    BY <1>0, <1>1 DEF TypeOK
  <2>2. Shown(answer'[r]) \in T!Permitted(principal'[r], input'[r], window'[r])
    BY <1>1, <2>1
  <2> QED  BY <2>1, <2>2 DEF PathInv, Open
<1>8. StepOf(r)
  BY <1>0 DEF TypeOK, StepOf, Respond, cluster, lookups
<1> QED  BY <1>6, <1>7, <1>8, PathOfOne

\* An answer without data may always be given as a refusal.
LEMMA RefusalRefines ==
  ASSUME TInv, NEW r \in Request, NEW a \in Answer, Open(r), Respond(r, a),
         UNCHANGED <<cluster, lookups>>, IInv',
         a.code # 200, a.series = {}, a.values = {}
  PROVE  T!Answer(r) /\ TInv'
<1>1. Shown(a) = T!Refusal
  BY DEF Shown, T!Refusal
<1>2. Shown(a) \in T!Permitted(principal[r], input[r], window[r])
  BY <1>1 DEF T!Permitted
<1> QED  BY <1>2, RespondRefines

\* A tenant's answer is the one promised for the namespaces of the request.
LEMMA TenantRefines ==
  ASSUME TInv, NEW r \in Request, NEW a \in Answer, Open(r), Respond(r, a),
         UNCHANGED <<cluster, lookups>>, IInv',
         principal[r] \in Principal, Sourced(r), a.code = 200,
         a.series = Inside(input[r], namespaceSet[r]).series,
         a.values = Inside(input[r], namespaceSet[r]).values
  PROVE  T!Answer(r) /\ TInv'
<1>1. Shown(a) = Inside(input[r], namespaceSet[r])
  BY DEF Shown, Inside
<1>2. namespaceSet[r] \in T!Sources(principal[r], window[r])
  BY DEF Sourced, Scope, T!Sources
<1>3. principal[r] # NoPrincipal
  BY IdentityAssumption
<1>4. Shown(a) \in T!Permitted(principal[r], input[r], window[r])
  BY <1>1, <1>2, <1>3 DEF T!Permitted
<1> QED  BY <1>4, RespondRefines

\* A step on the way to the answer is invisible.
LEMMA OnTheWay ==
  ASSUME TInv, NEW r \in Request, Open(r), NEW x, x \notin {"idle", "done"},
         pc' = [pc EXCEPT ![r] = x], UNCHANGED <<cluster, input, answer, window>>, StepOf(r)
  PROVE  UNCHANGED T!vars
<1>0. TypeOK
  BY DEF TInv, IInv
<1>1. UNCHANGED stateBar
  BY <1>0 DEF TypeOK, stateBar, Open
<1>2. UNCHANGED actingBar
  <2>1. /\ pc'[r] # "done" /\ pc[r] # "done"
        /\ \A q \in Request \ {r} : pc'[q] = pc[q] /\ principal'[q] = principal[q]
    BY <1>0 DEF TypeOK, Open, StepOf
  <2> QED  BY <2>1 DEF actingBar
<1>3. UNCHANGED <<answerBar, Moment(namespaces, grants, secrets)>>
  BY DEF answerBar, cluster
<1> QED  BY <1>1, <1>2, <1>3 DEF T!vars

\* A request is handed to the reverse proxy with a proper query.
LEMMA ForwardRefines ==
  ASSUME TInv, NEW r \in Request, NEW q, Open(r), Forward(r, q), UNCHANGED <<cluster, lookups>>,
         IInv', Proper(r, q)
  PROVE  (UNCHANGED T!vars) /\ TInv'
<1>0. TypeOK /\ PathInv(r)
  BY DEF TInv, IInv
<1>1. /\ pc' = [pc EXCEPT ![r] = "proxy"] /\ sent' = [sent EXCEPT ![r] = q]
      /\ UNCHANGED <<namespaces, grants, secrets, input, principal, listed, namespaceSet,
                     window, answer>>
  BY DEF Forward, cluster, lookups
<1>2. StepOf(r)
  BY <1>0 DEF TypeOK, StepOf, Forward, cluster, lookups
<1>3. pc'[r] = "proxy" /\ sent'[r] = q
  BY <1>0, <1>1 DEF TypeOK
<1>4. Proper(r, sent[r])'
  <2>1. Scope(r)' = Scope(r) /\ Operator(r)' = Operator(r)
    BY <1>1 DEF Scope, Operator
  <2>2. Sourced(r)' = Sourced(r)
    BY <1>1, <2>1 DEF Sourced
  <2> QED  BY <1>1, <1>3, <2>1, <2>2 DEF Proper, TenantQuery
<1>5. PathInv(r)'
  BY <1>0, <1>1, <1>3, <1>4 DEF PathInv, Open
<1>6. UNCHANGED T!vars
  BY <1>1, <1>2, OnTheWay DEF cluster
<1> QED  BY <1>2, <1>5, <1>6, PathOfOne

-----------------------------------------------------------------------------
(* Each action is an abstract answer, or invisible *)

LEMMA FailRefines ==
  ASSUME TInv, NEW r \in Request, NEW err, NEW set \in BOOLEAN, Fail(r, err, set), Open(r),
         UNCHANGED <<cluster, lookups>>, IInv'
  PROVE  T!Answer(r) /\ TInv'
<1> DEFINE a == [code |-> CASE err = "bad_data" -> 400
                            [] err = "execution" -> 422
                            [] OTHER -> 500,
                 format |-> IF input[r].acceptsJSON \/ set THEN "json" ELSE "text",
                 series |-> {}, values |-> {}]
<1>1. a \in Answer /\ a.code # 200 /\ a.series = {} /\ a.values = {}
  BY DEF Answer
<1>2. Respond(r, a)
  BY DEF Fail
<1> HIDE DEF a
<1> QED  BY <1>1, <1>2, RefusalRefines

LEMMA EmptyCodes ==
  /\ Aborted.code # 200 /\ Unauthorized.code # 200
  /\ \A f \in {"metrics", "json", "proto"} : Success(f, {}, {}).code = 200
BY DEF Aborted, NoAnswer, Unauthorized, Success

LEMMA RouteRefines ==
  ASSUME TInv, NEW r \in Request, Route(r), IInv'
  PROVE  (T!Answer(r) \/ UNCHANGED T!vars) /\ TInv'
<1>0. /\ IInv /\ TypeOK /\ PathInv(r) /\ pc[r] = "route" /\ Open(r)
      /\ UNCHANGED <<cluster, lookups>>
  BY DEF TInv, IInv, Route, Open
<1>1. CASE Public(input[r]) /\ Respond(r, Success("metrics", {}, {}))
  <2> DEFINE a == Success("metrics", {}, {})
  <2>1. a \in Answer /\ Shown(a) = T!Empty
    BY EmptyAnswers, EmptyCodes DEF Shown, T!Empty
  <2>2. Shown(a) \in T!Permitted(principal[r], input[r], window[r])
    BY <1>1, <2>1 DEF T!Permitted
  <2> HIDE DEF a
  <2> QED  BY <1>0, <1>1, <2>1, <2>2, RespondRefines DEF a
<1>2. CASE Public(input[r]) /\ input[r].path = "whitelist" /\ Forward(r, RawQuery(input[r]))
  <2>1. RawQuery(input[r]) = NoQuery
    BY <1>2 DEF RawQuery
  <2>2. Proper(r, NoQuery)
    BY <1>2 DEF Proper
  <2> QED  BY <1>0, <1>2, <2>1, <2>2, ForwardRefines
<1>3. CASE pc' = [pc EXCEPT ![r] = "auth"] /\ UNCHANGED <<sent, answer>>
  <2>1. StepOf(r)
    BY <1>0, <1>3 DEF TypeOK, StepOf, cluster, lookups
  <2>2. UNCHANGED T!vars
    BY <1>0, <1>3, <2>1, OnTheWay DEF lookups
  <2>3. pc'[r] = "auth"
    BY <1>0, <1>3 DEF TypeOK
  <2>4. PathInv(r)'
    BY <1>0, <2>3 DEF PathInv, cluster, lookups
  <2> QED  BY <2>1, <2>2, <2>4, PathOfOne
<1> QED  BY <1>1, <1>2, <1>3 DEF Route, Public

LEMMA AuthenticateRefines ==
  ASSUME TInv, NEW r \in Request, Authenticate(r), IInv'
  PROVE  (T!Answer(r) \/ UNCHANGED T!vars) /\ TInv'
<1>0. /\ IInv /\ TypeOK /\ PathInv(r) /\ pc[r] = "auth" /\ Open(r)
      /\ UNCHANGED <<cluster, input, listed, namespaceSet, window>>
  BY DEF TInv, IInv, Authenticate, Open
<1>1. CASE (Respond(r, Unauthorized) \/ Respond(r, Aborted)) /\ UNCHANGED principal
  <2>1. UNCHANGED <<cluster, lookups>>
    BY <1>0, <1>1 DEF lookups
  <2> QED  BY <1>0, <1>1, <2>1, EmptyAnswers, EmptyCodes, RefusalRefines
<1>2. CASE /\ input[r].user = NoPrincipal /\ input[r].token = myToken
           /\ Forward(r, RawQuery(input[r])) /\ UNCHANGED principal
  <2>1. UNCHANGED <<cluster, lookups>>
    BY <1>0, <1>2 DEF lookups
  <2>2. Proper(r, RawQuery(input[r]))
    BY <1>2 DEF Proper, Operator
  <2> QED  BY <1>0, <1>2, <2>1, <2>2, ForwardRefines
<1>3. CASE \E p : Identified(r, p)
  <2>1. PICK p : /\ principal' = [principal EXCEPT ![r] = p]
                 /\ pc' = [pc EXCEPT ![r] = "nodes"] /\ UNCHANGED <<sent, answer>>
    BY <1>3 DEF Identified
  <2>2. StepOf(r)
    BY <1>0, <2>1 DEF TypeOK, StepOf, cluster
  <2>3. UNCHANGED T!vars
    BY <1>0, <2>1, <2>2, OnTheWay
  <2>4. pc'[r] = "nodes"
    BY <1>0, <2>1 DEF TypeOK
  <2>5. PathInv(r)'
    BY <1>0, <2>4 DEF PathInv, cluster
  <2> QED  BY <2>2, <2>3, <2>5, PathOfOne
<1> QED  BY <1>1, <1>2, <1>3 DEF Authenticate

LEMMA CanListRefines ==
  ASSUME TInv, NEW r \in Request, CanList(r), IInv'
  PROVE  (T!Answer(r) \/ UNCHANGED T!vars) /\ TInv'
<1>0. /\ IInv /\ TypeOK /\ PathInv(r) /\ RequestInv(r) /\ pc[r] = "nodes" /\ Open(r)
      /\ UNCHANGED <<cluster, lookups>>
  BY DEF TInv, IInv, CanList, Open
<1>1. CASE grants[principal[r]].nodes /\ Forward(r, RawQuery(input[r]))
  <2>1. principal[r] \in Moment(namespaces, grants, secrets).admins
    BY <1>0, <1>1 DEF RequestInv, Moment
  <2>2. Proper(r, RawQuery(input[r]))
    BY <1>0, <2>1 DEF Proper, Operator, RequestInv, Covered
  <2> QED  BY <1>0, <1>1, <2>2, ForwardRefines
<1>2. CASE pc' = [pc EXCEPT ![r] = "list"] /\ UNCHANGED <<sent, answer>>
  <2>1. StepOf(r)
    BY <1>0, <1>2 DEF TypeOK, StepOf, cluster, lookups
  <2>2. UNCHANGED T!vars
    BY <1>0, <1>2, <2>1, OnTheWay DEF lookups
  <2>3. pc'[r] = "list"
    BY <1>0, <1>2 DEF TypeOK
  <2>4. PathInv(r)'
    BY <1>0, <2>3 DEF PathInv, cluster, lookups
  <2> QED  BY <2>1, <2>2, <2>4, PathOfOne
<1> QED  BY <1>1, <1>2 DEF CanList

\* The two reads of the caches, which a stable window shows to agree.
LEMMA ListNamespacesRefines ==
  ASSUME TInv, NEW r \in Request, ListNamespaces(r), IInv'
  PROVE  (UNCHANGED T!vars) /\ TInv'
<1>0. TypeOK /\ PathInv(r) /\ pc[r] = "list" /\ Open(r)
  BY DEF TInv, IInv, ListNamespaces, Open
<1>1. /\ pc' = [pc EXCEPT ![r] = "access"]
      /\ UNCHANGED <<namespaces, grants, secrets, input, principal, namespaceSet, sent, answer,
                     window>>
  BY DEF ListNamespaces, cluster
<1>2. StepOf(r)
  BY <1>0 DEF TypeOK, StepOf, ListNamespaces, cluster
<1>3. UNCHANGED T!vars
  BY <1>0, <1>1, <1>2, OnTheWay DEF ListNamespaces
<1>4. pc'[r] = "access" /\ listed'[r] = Moment(namespaces, grants, secrets).active
  BY <1>0 DEF TypeOK, ListNamespaces, Moment
<1>5. PathInv(r)'
  BY <1>0, <1>1, <1>4 DEF PathInv
<1> QED  BY <1>2, <1>3, <1>5, PathOfOne

LEMMA QueryByUserRefines ==
  ASSUME TInv, NEW r \in Request, QueryByUser(r), IInv'
  PROVE  (UNCHANGED T!vars) /\ TInv'
<1> DEFINE ns == {n \in listed[r] : /\ n \in grants[principal[r]].namespaces
                                    /\ n = monitoringNamespace => grants[principal[r]].pods}
<1>0. /\ TypeOK /\ PathInv(r) /\ RequestInv(r) /\ RequestInv(r)' /\ pc[r] = "access" /\ Open(r)
      /\ namespaceSet' = [namespaceSet EXCEPT ![r] = ns]
      /\ pc' = [pc EXCEPT ![r] = "handle"]
      /\ UNCHANGED <<cluster, input, principal, listed, sent, answer, window>>
  BY DEF TInv, IInv, QueryByUser, Open
<1>1. UNCHANGED <<namespaces, grants, secrets>>
  BY <1>0 DEF cluster
<1>2. StepOf(r)
  BY <1>0 DEF TypeOK, StepOf
<1>3. UNCHANGED T!vars
  BY <1>0, <1>2, OnTheWay
<1>4. pc'[r] = "handle" /\ namespaceSet'[r] = ns
  BY <1>0 DEF TypeOK
<1>5. ASSUME window[r].stable
      PROVE  ns = Scope(r)
  <2>1. window[r] = Moment(namespaces, grants, secrets) /\ listed[r] = window[r].active
    BY <1>0, <1>5 DEF PathInv
  <2>2. principal[r] \in Principal /\ listed[r] \subseteq NamespaceName
    BY <1>0 DEF RequestInv, TypeOK
  <2>3. \A n \in NamespaceName : <<principal[r], n>> \in window[r].granted
                                    <=> n \in MayRead(grants[principal[r]])
    BY <2>1, <2>2 DEF Moment
  <2> QED  BY <2>1, <2>2, <2>3 DEF Scope, MayRead
<1>6. Scope(r)' = Scope(r) /\ namespaceSet'[r] \subseteq Scope(r)'
  BY <1>0, <1>4 DEF Scope, RequestInv
<1> HIDE DEF ns
<1>7. Sourced(r)'
  BY <1>0, <1>4, <1>5, <1>6 DEF Sourced
<1>8. PathInv(r)'
  BY <1>0, <1>1, <1>4, <1>7 DEF PathInv
<1> QED  BY <1>2, <1>3, <1>8, PathOfOne

-----------------------------------------------------------------------------
(* The handlers *)

LEMMA AtTenantHandler ==
  ASSUME TInv, NEW r \in Request, pc[r] = "handle"
  PROVE  /\ IInv /\ Open(r) /\ principal[r] \in Principal /\ input[r] \in Inputs
         /\ namespaceSet[r] \in SUBSET NamespaceName /\ Sourced(r)
         /\ PathInv(r)
<1>1. IInv /\ PathInv(r)
  BY DEF TInv
<1> QED  BY <1>1, AtHandler DEF PathInv

\* What is promised for no namespaces, and to a request without expressions.
LEMMA InsideNothing ==
  ASSUME NEW in \in Inputs, NEW S,
         \/ S = {} /\ (in.path = "label" => in.label \in {namespaceMatchName, nameLabel})
         \/ in.path = "federate" /\ in.exprs = <<>>
  PROVE  Inside(in, S).series = {} /\ Inside(in, S).values = {}
<1>1. CASE S = {} /\ (in.path = "label" => in.label \in {namespaceMatchName, nameLabel})
  <2>1. Own(S) = {} /\ Asked(in, Own(S)) = {}
    BY <1>1, SeriesOfNothing
  <2>2. {s[nameLabel] : s \in Own(S)} = {}
    BY <2>1
  <2> QED  BY <1>1, <2>1, <2>2 DEF Inside
<1>2. CASE in.path = "federate" /\ in.exprs = <<>>
  <2> DEFINE raw == [i \in DOMAIN in.exprs |-> in.exprs[i].selectors]
  <2>1. AskedQuery(in) = AskExprs(raw, AllExprs(in))
    BY <1>2 DEF AskedQuery, RawQuery
  <2>2. DOMAIN raw = {}
    BY <1>2
  <2> HIDE DEF raw
  <2>3. DOMAIN AskedQuery(in).exprs = {} /\ DOMAIN AskedQuery(in).reads = {}
    BY <2>1, <2>2 DEF AskExprs
  <2>4. SeriesOf(AskedQuery(in), Own(S)) = {}
    BY <2>3, InSeriesOf
  <2> QED  BY <1>2, <2>4 DEF Inside, Asked
<1> QED  BY <1>1, <1>2

\* A handler that answers by itself, because there is nothing to ask.
LEMMA QuickRefines ==
  ASSUME TInv, NEW r \in Request, pc[r] = "handle", NEW f \in {"metrics", "json", "proto"},
         Respond(r, Success(f, {}, {})), UNCHANGED <<cluster, lookups>>, IInv',
         \/ namespaceSet[r] = {} /\ input[r].path # "label"
         \/ namespaceSet[r] = {} /\ input[r].label \in {namespaceMatchName, nameLabel}
         \/ input[r].path = "federate" /\ input[r].exprs = <<>>
  PROVE  T!Answer(r) /\ TInv'
<1>0. Open(r) /\ principal[r] \in Principal /\ input[r] \in Inputs /\ Sourced(r)
  BY AtTenantHandler
<1>1. /\ Inside(input[r], namespaceSet[r]).series = {}
      /\ Inside(input[r], namespaceSet[r]).values = {}
  BY <1>0, InsideNothing
<1>2. /\ Success(f, {}, {}) \in Answer /\ Success(f, {}, {}).code = 200
      /\ Success(f, {}, {}).series = {} /\ Success(f, {}, {}).values = {}
  BY EmptyAnswers, EmptyCodes
<1> DEFINE a == Success(f, {}, {})
<1>3. /\ a \in Answer /\ Respond(r, a) /\ a.code = 200
      /\ a.series = Inside(input[r], namespaceSet[r]).series
      /\ a.values = Inside(input[r], namespaceSet[r]).values
  BY <1>1, <1>2
<1> HIDE DEF a
<1> QED  BY <1>0, <1>3, TenantRefines

\* The rewritten expressions ask for what is promised.
LEMMA ModifiedRefines ==
  ASSUME TInv, NEW r \in Request, pc[r] = "handle", Forward(r, Modified(r)),
         UNCHANGED <<cluster, lookups>>, IInv', AllExprs(input[r]),
         input[r].path \in {"query", "query_range", "series", "federate"}
  PROVE  (UNCHANGED T!vars) /\ TInv'
<1>0. /\ Open(r) /\ principal[r] \in Principal /\ input[r] \in Inputs /\ Sourced(r)
      /\ namespaceSet[r] \in SUBSET NamespaceName
  BY AtTenantHandler
<1>1. SeriesOf(Modified(r), TSDB) = Asked(input[r], Own(namespaceSet[r]))
  BY <1>0, ModifiedExact DEF Modified
<1>2. Modified(r).labels = {}
  BY DEF Modified, AskExprs
<1>3. ValuesOf(Modified(r)) = {}
  BY <1>2 DEF ValuesOf
<1>4. TenantQuery(r, Modified(r))
  BY <1>0, <1>1, <1>3 DEF TenantQuery, Inside
<1> QED  BY <1>0, <1>4, ForwardRefines DEF Proper

LEMMA ExprHandlersRefine ==
  ASSUME TInv, NEW r \in Request, IInv',
         hijackFederate(r) \/ hijackQuery(r) \/ hijackQueryRange(r) \/ hijackSeries(r)
  PROVE  (T!Answer(r) \/ UNCHANGED T!vars) /\ TInv'
<1>0. /\ pc[r] = "handle" /\ UNCHANGED <<cluster, lookups>>
      /\ input[r].path \in {"query", "query_range", "series", "federate"}
  BY DEF hijackFederate, hijackQuery, hijackQueryRange, hijackSeries, Handles, hijackUnchanged
<1>1. Open(r)
  BY <1>0, AtTenantHandler
<1>2. CASE \E set \in BOOLEAN : Fail(r, "bad_data", set)
  BY <1>0, <1>1, <1>2, FailRefines
<1>3. CASE /\ \E f \in {"metrics", "json"} : Respond(r, Success(f, {}, {}))
           /\ \/ namespaceSet[r] = {}
              \/ input[r].path = "federate" /\ input[r].exprs = <<>>
  BY <1>0, <1>3, QuickRefines
<1>4. CASE Forward(r, Modified(r)) /\ AllExprs(input[r])
  BY <1>0, <1>4, ModifiedRefines
<1>5. CASE hijackFederate(r)
  BY <1>2, <1>3, <1>4, <1>5 DEF hijackFederate, Handles
<1>6. CASE hijackQuery(r) \/ hijackQueryRange(r)
  BY <1>2, <1>3, <1>4, <1>6 DEF hijackQuery, hijackQueryRange, hijackExpr
<1>7. CASE hijackSeries(r)
  BY <1>2, <1>3, <1>4, <1>7 DEF hijackSeries
<1> QED  BY <1>5, <1>6, <1>7

LEMMA hijackReadRefines ==
  ASSUME TInv, NEW r \in Request, hijackRead(r), IInv'
  PROVE  (T!Answer(r) \/ UNCHANGED T!vars) /\ TInv'
<1> DEFINE q == AskReads([i \in DOMAIN input[r].reads |->
                   modifyQuery(input[r].reads[i], namespaceSet[r], filterReaderLabelSet)])
<1>0. pc[r] = "handle" /\ UNCHANGED <<cluster, lookups>> /\ input[r].path = "read"
  BY DEF hijackRead, Handles, hijackUnchanged
<1>1. /\ Open(r) /\ principal[r] \in Principal /\ input[r] \in Inputs /\ Sourced(r)
      /\ namespaceSet[r] \in SUBSET NamespaceName
  BY <1>0, AtTenantHandler
<1>2. CASE Fail(r, "bad_data", FALSE)
  BY <1>0, <1>1, <1>2, FailRefines
<1>3. CASE namespaceSet[r] = {} /\ Respond(r, Success("proto", {}, {}))
  BY <1>0, <1>3, QuickRefines
<1>4. CASE Forward(r, q)
  <2>1. q.valid => SeriesOf(q, TSDB) = Asked(input[r], Own(namespaceSet[r]))
    BY <1>0, <1>1, ReadsExact
  <2>2. q.labels = {}
    BY DEF AskReads
  <2> HIDE DEF q
  <2>3. ValuesOf(q) = {}
    BY <2>2 DEF ValuesOf
  <2>4. TenantQuery(r, q)
    BY <1>0, <1>1, <2>1, <2>3 DEF TenantQuery, Inside
  <2> QED  BY <1>0, <1>1, <1>4, <2>4, ForwardRefines DEF Proper
<1> QED  BY <1>2, <1>3, <1>4 DEF hijackRead

\* A label request asks for no series.
LEMMA LabelAsksNoSeries ==
  ASSUME NEW in \in Inputs, NEW S, in.path = "label"
  PROVE  Inside(in, S).series = {}
<1>1. AskedQuery(in) = AskLabel(in.label, ~in.malformed)
  BY DEF AskedQuery, RawQuery
<1>2. AskedQuery(in).exprs = <<>> /\ AskedQuery(in).reads = <<>>
  BY <1>1 DEF AskLabel
<1>3. SeriesOf(AskedQuery(in), Own(S)) = {}
  BY <1>2, InSeriesOf
<1> QED  BY <1>3 DEF Inside, Asked

LEMMA LabelHandlersRefine ==
  ASSUME TInv, NEW r \in Request, IInv',
         hijackLabelNamespaces(r) \/ hijackLabelName(r) \/ otherLabelValues(r)
  PROVE  (T!Answer(r) \/ UNCHANGED T!vars) /\ TInv'
<1>0. pc[r] = "handle" /\ UNCHANGED <<cluster, lookups>> /\ input[r].path = "label"
  BY DEF hijackLabelNamespaces, hijackLabelName, otherLabelValues, Handles, hijackUnchanged
<1>1. /\ IInv /\ TypeOK /\ PathInv(r) /\ Open(r)
      /\ principal[r] \in Principal /\ input[r] \in Inputs /\ Sourced(r)
      /\ namespaceSet[r] \in SUBSET NamespaceName
  BY <1>0, AtTenantHandler DEF IInv
<1>2. Inside(input[r], namespaceSet[r]).series = {}
  BY <1>0, <1>1, LabelAsksNoSeries
<1>3. CASE hijackLabelNamespaces(r)
  <2> DEFINE a == Success("json", {}, Values(namespaceSet[r]))
  <2>1. Respond(r, a) /\ input[r].label = namespaceMatchName
    BY <1>3 DEF hijackLabelNamespaces
  <2>2. Values(namespaceSet[r]) = namespaceSet[r] /\ namespaceSet[r] \subseteq Value
    BY <1>1, NamespaceSubset
  <2>3. a \in Answer /\ a.code = 200 /\ a.series = {} /\ a.values = namespaceSet[r]
    BY <2>2 DEF Success, Answer
  <2>4. Inside(input[r], namespaceSet[r]).values = namespaceSet[r]
    BY <1>0, <2>1 DEF Inside
  <2> HIDE DEF a
  <2>5. /\ a.series = Inside(input[r], namespaceSet[r]).series
        /\ a.values = Inside(input[r], namespaceSet[r]).values
    BY <1>2, <2>3, <2>4
  <2> QED  BY <1>0, <1>1, <2>1, <2>3, <2>5, TenantRefines
<1>4. CASE otherLabelValues(r)
  <2> DEFINE q == RawQuery(input[r])
  <2>1. Forward(r, q) /\ input[r].label \notin {namespaceMatchName, nameLabel}
    BY <1>4 DEF otherLabelValues
  <2>2. q = AskLabel(input[r].label, ~input[r].malformed)
    BY <1>0 DEF RawQuery
  <2>3. q.exprs = <<>> /\ q.reads = <<>>
    BY <2>2 DEF AskLabel
  <2>4. Inside(input[r], namespaceSet[r]).values = ValuesOf(q)
    BY <1>0, <2>1 DEF Inside
  <2> HIDE DEF q
  <2>5. SeriesOf(q, TSDB) = {}
    BY <2>3, NoSeries
  <2>6. TenantQuery(r, q)
    BY <1>1, <1>2, <2>4, <2>5 DEF TenantQuery
  <2> QED  BY <1>0, <1>1, <2>1, <2>6, ForwardRefines DEF Proper
<1>5. CASE hijackLabelName(r)
  <2> DEFINE q == AskExprs(<<NewExprForCountAllLabels(Values(namespaceSet[r]))>>, TRUE)
  <2>1. CASE namespaceSet[r] = {} /\ Respond(r, Success("json", {}, {}))
    BY <1>0, <1>5, <2>1, QuickRefines DEF hijackLabelName
  <2>2. CASE /\ namespaceSet[r] # {} /\ pc' = [pc EXCEPT ![r] = "remote"]
             /\ sent' = [sent EXCEPT ![r] = q] /\ UNCHANGED answer
    <3>1. SeriesOf(q, TSDB) = Own(namespaceSet[r])
      BY <1>1, <2>2, LabelNamesExact
    <3> HIDE DEF q
    <3>2. StepOf(r)
      BY <1>0, <1>1, <2>2 DEF TypeOK, StepOf, cluster, lookups
    <3>3. UNCHANGED T!vars
      BY <1>0, <1>1, <2>2, <3>2, OnTheWay DEF lookups
    <3>4. pc'[r] = "remote" /\ sent'[r] = q
      BY <1>1, <2>2 DEF TypeOK
    <3>5. Sourced(r)' = Sourced(r)
      BY <1>0 DEF Sourced, Scope, lookups
    <3>6. PathInv(r)'
      BY <1>0, <1>1, <3>1, <3>4, <3>5 DEF PathInv, cluster, lookups
    <3> QED  BY <3>2, <3>3, <3>6, PathOfOne
  <2> QED  BY <1>5, <2>1, <2>2 DEF hijackLabelName
<1> QED  BY <1>3, <1>4, <1>5

LEMMA catchAllRefines ==
  ASSUME TInv, NEW r \in Request, catchAll(r), IInv'
  PROVE  T!Answer(r) /\ TInv'
<1>0. pc[r] = "handle" /\ UNCHANGED <<cluster, lookups>> /\ Respond(r, Unauthorized)
  BY DEF catchAll, hijackUnchanged
<1> QED  BY <1>0, AtTenantHandler, EmptyAnswers, EmptyCodes, RefusalRefines

-----------------------------------------------------------------------------
(* Prometheus *)

LEMMA NoQueryAnswer ==
  NoQuery.valid /\ SeriesOf(NoQuery, TSDB) = {} /\ ValuesOf(NoQuery) = {}
<1>1. NoQuery.exprs = <<>> /\ NoQuery.reads = <<>> /\ NoQuery.labels = {} /\ NoQuery.valid
  BY DEF NoQuery
<1> QED  BY <1>1, NoSeries DEF ValuesOf

\* What Prometheus accepts gets the answer that is promised.
LEMMA ProperAnswer ==
  ASSUME TInv, NEW r \in Request, pc[r] = "proxy", sent[r].valid
  PROVE  [ok |-> TRUE, series |-> SeriesOf(sent[r], TSDB), values |-> ValuesOf(sent[r])]
            \in T!Permitted(principal[r], input[r], window[r])
<1> DEFINE b == [ok |-> TRUE, series |-> SeriesOf(sent[r], TSDB), values |-> ValuesOf(sent[r])]
<1>0. Proper(r, sent[r])
  BY DEF TInv, PathInv
<1>1. CASE Public(input[r]) /\ sent[r] = NoQuery
  <2>1. b = T!Empty
    BY <1>1, NoQueryAnswer DEF T!Empty
  <2> QED  BY <1>1, <2>1 DEF T!Permitted
<1>2. CASE Operator(r) /\ sent[r] = RawQuery(input[r])
  <2>1. b = InFull(input[r])
    BY <1>2 DEF InFull
  <2>2. T!Operator(principal[r], input[r], window[r])
    BY <1>2 DEF Operator, T!Operator
  <2> QED  BY <2>1, <2>2 DEF T!Permitted
<1>3. CASE TenantQuery(r, sent[r])
  <2>1. b = Inside(input[r], namespaceSet[r])
    BY <1>3 DEF TenantQuery, Inside
  <2>2. namespaceSet[r] \in T!Sources(principal[r], window[r])
    BY <1>3 DEF TenantQuery, Sourced, Scope, T!Sources
  <2>3. principal[r] # NoPrincipal
    BY <1>3, IdentityAssumption DEF TenantQuery
  <2> QED  BY <2>1, <2>2, <2>3 DEF T!Permitted
<1> QED  BY <1>0, <1>1, <1>2, <1>3 DEF Proper

LEMMA ProxiedRefines ==
  ASSUME TInv, NEW r \in Request, Proxied(r), IInv'
  PROVE  T!Answer(r) /\ TInv'
<1>0. /\ TypeOK /\ pc[r] = "proxy" /\ Open(r) /\ UNCHANGED <<cluster, lookups>>
      /\ sent[r] \in Query
  BY DEF TInv, IInv, TypeOK, Proxied, Open, hijackUnchanged
<1>1. CASE /\ sent[r].valid
           /\ Respond(r, Success("upstream", SeriesOf(sent[r], TSDB), ValuesOf(sent[r])))
  <2> DEFINE ss == SeriesOf(sent[r], TSDB)
             vs == ValuesOf(sent[r])
             a == Success("upstream", ss, vs)
  <2>1. ss \subseteq TSDB /\ vs \subseteq Value
    BY <1>0, SeriesOfType, ValuesOfType
  <2>2. [ok |-> TRUE, series |-> ss, values |-> vs]
           \in T!Permitted(principal[r], input[r], window[r])
    BY <1>0, <1>1, ProperAnswer
  <2>3. Respond(r, a)
    BY <1>1
  <2> HIDE DEF ss, vs
  <2>4. a \in Answer /\ Shown(a) = [ok |-> TRUE, series |-> ss, values |-> vs]
    BY <2>1 DEF Success, Answer, Shown
  <2> HIDE DEF a
  <2> QED  BY <1>0, <2>2, <2>3, <2>4, RespondRefines
<1>2. CASE \E c \in {400, 502}, f \in {"upstream", "none"} :
              Respond(r, [code |-> c, format |-> f, series |-> {}, values |-> {}])
  <2>1. PICK c \in {400, 502}, f \in {"upstream", "none"} :
              Respond(r, [code |-> c, format |-> f, series |-> {}, values |-> {}])
    BY <1>2
  <2> DEFINE a == [code |-> c, format |-> f, series |-> {}, values |-> {}]
  <2>2. a \in Answer /\ a.code # 200 /\ a.series = {} /\ a.values = {}
    BY DEF Answer
  <2>3. Respond(r, a)
    BY <2>1
  <2> HIDE DEF a
  <2> QED  BY <1>0, <2>2, <2>3, RefusalRefines
<1> QED  BY <1>1, <1>2 DEF Proxied

LEMMA RemoteAnsweredRefines ==
  ASSUME TInv, NEW r \in Request, RemoteAnswered(r), IInv'
  PROVE  T!Answer(r) /\ TInv'
<1>0. /\ TypeOK /\ PathInv(r) /\ RequestInv(r) /\ pc[r] = "remote" /\ Open(r)
      /\ UNCHANGED <<cluster, lookups>>
  BY DEF TInv, IInv, RemoteAnswered, Open, hijackUnchanged
<1>1. /\ principal[r] \in Principal /\ Sourced(r) /\ input[r] \in Inputs
      /\ input[r].path = "label" /\ input[r].label = nameLabel
      /\ SeriesOf(sent[r], TSDB) = Own(namespaceSet[r])
  BY <1>0 DEF TypeOK, PathInv, RequestInv
<1>2. CASE Respond(r, Success("json", {}, {s[nameLabel] : s \in SeriesOf(sent[r], TSDB)}))
  <2> DEFINE vs == {s[nameLabel] : s \in Own(namespaceSet[r])}
             a == Success("json", {}, vs)
  <2>1. vs \subseteq Value
    BY SeriesAssumption, ClusterAssumption DEF Own, Series
  <2>2. /\ Inside(input[r], namespaceSet[r]).series = {}
        /\ Inside(input[r], namespaceSet[r]).values = vs
    BY <1>1, LabelAsksNoSeries, ClusterAssumption DEF Inside
  <2>3. Respond(r, a)
    BY <1>1, <1>2
  <2> HIDE DEF vs
  <2>4. a \in Answer /\ a.code = 200 /\ a.series = {} /\ a.values = vs
    BY <2>1 DEF Success, Answer
  <2> HIDE DEF a
  <2>5. /\ a.series = Inside(input[r], namespaceSet[r]).series
        /\ a.values = Inside(input[r], namespaceSet[r]).values
    BY <2>2, <2>4
  <2> QED  BY <1>0, <1>1, <2>3, <2>4, <2>5, TenantRefines
<1>3. CASE Fail(r, "execution", TRUE)
  BY <1>0, <1>3, FailRefines
<1>4. CASE Crash(r)
  <2> DEFINE a == [code |-> 500, format |-> "text", series |-> {}, values |-> {}]
  <2>1. a \in Answer /\ a.code # 200 /\ a.series = {} /\ a.values = {} /\ Respond(r, a)
    BY <1>4 DEF Crash, Answer
  <2> HIDE DEF a
  <2> QED  BY <1>0, <2>1, RefusalRefines
<1> QED  BY <1>2, <1>3, <1>4 DEF RemoteAnswered

-----------------------------------------------------------------------------
(* The watches, and the coming and going of requests *)

LEMMA MomentIsMoment ==
  ASSUME NEW nss, NEW gs, NEW ss
  PROVE  Moment(nss, gs, ss) \in T!Moment
BY DEF Moment, T!Moment

\* A watch event is a change, after which no open window is stable.
LEMMA WatchEventRefines ==
  ASSUME TInv, WatchEvent, IInv'
  PROVE  T!Change /\ TInv'
<1> DEFINE now == Moment(namespaces, grants, secrets)'
<1>0. /\ TypeOK /\ UNCHANGED <<pc, input, principal, listed, namespaceSet, sent, answer>>
      /\ window' = [q \in Request |-> IF Open(q) THEN Widen(window[q], now) ELSE window[q]]
  BY DEF TInv, IInv, WatchEvent, Observed
<1>1. now \in T!Moment
  BY MomentIsMoment
<1>2. UNCHANGED <<stateBar, actingBar, answerBar, input>>
  BY <1>0 DEF stateBar, actingBar, answerBar, Open
<1>3. \A q \in Request : stateBar[q] # "open" <=> ~Open(q)
  BY DEF stateBar, Open
<1>4. window' = [q \in Request |->
                   IF stateBar[q] # "open" THEN window[q]
                   ELSE [active  |-> window[q].active \cup now.active,
                         granted |-> window[q].granted \cup now.granted,
                         admins  |-> window[q].admins \cup now.admins,
                         owners  |-> window[q].owners \cup now.owners,
                         stable  |-> FALSE]]
  <2> HIDE DEF now
  <2> QED  BY <1>0, <1>3 DEF Widen
<1>5. T!Change
  BY <1>1, <1>2, <1>4 DEF T!Change
<1>6. ASSUME NEW q \in Request
      PROVE  PathInv(q)'
  <2>0. PathInv(q) /\ RequestInv(q)' /\ window[q] \in Window
    BY <1>0 DEF TInv, IInv, TypeOK
  <2>1. CASE ~Open(q)
    <3>1. window'[q] = window[q]
      BY <1>0, <2>1
    <3>2. /\ pc'[q] = pc[q] /\ answer'[q] = answer[q] /\ principal'[q] = principal[q]
          /\ input'[q] = input[q] /\ pc[q] \in {"idle", "done"}
      BY <1>0, <2>1 DEF Open
    <3> QED  BY <2>0, <2>1, <3>1, <3>2 DEF PathInv, Open
  <2>2. CASE Open(q)
    <3> HIDE DEF now
    <3>1. /\ window'[q].stable = FALSE
          /\ window[q].active \subseteq window'[q].active
          /\ window[q].granted \subseteq window'[q].granted
          /\ window[q].admins \subseteq window'[q].admins
      BY <1>0, <2>2 DEF Widen
    <3>2. /\ pc'[q] = pc[q] /\ principal'[q] = principal[q] /\ input'[q] = input[q]
          /\ namespaceSet'[q] = namespaceSet[q] /\ sent'[q] = sent[q]
          /\ pc[q] \notin {"idle", "done"}
      BY <1>0, <2>2 DEF Open
    <3>3. Sourced(q) => Sourced(q)'
      BY <3>1, <3>2 DEF Sourced, Scope
    <3>4. Operator(q) => Operator(q)'
      BY <3>1, <3>2 DEF Operator
    <3>5. Proper(q, sent[q]) => Proper(q, sent[q])'
      BY <3>2, <3>3, <3>4 DEF Proper, TenantQuery
    <3> QED  BY <2>0, <3>1, <3>2, <3>3, <3>5 DEF PathInv, Open
  <2> QED  BY <2>1, <2>2
<1> QED  BY <1>5, <1>6 DEF TInv

LEMMA ArriveRefines ==
  ASSUME TInv, NEW r \in Request, Arrive(r), IInv'
  PROVE  T!Arrive(r) /\ TInv'
<1>0. TypeOK /\ RequestInv(r) /\ pc[r] = "idle"
  BY DEF TInv, IInv, Arrive
<1>1. stateBar[r] = "idle" /\ stateBar' = [stateBar EXCEPT ![r] = "open"]
  BY <1>0 DEF TypeOK, Arrive, stateBar, Open
<1>2. UNCHANGED <<actingBar, answerBar, Moment(namespaces, grants, secrets)>>
  <2>1. UNCHANGED <<answerBar, Moment(namespaces, grants, secrets)>>
    BY DEF Arrive, answerBar, cluster
  <2>2. \A q \in Request : pc'[q] = "done" <=> pc[q] = "done"
    BY <1>0 DEF TypeOK, Arrive
  <2>3. UNCHANGED actingBar
    BY <2>2 DEF Arrive, actingBar
  <2> QED  BY <2>1, <2>3
<1>3. T!Arrive(r)
  BY <1>1, <1>2 DEF T!Arrive, Arrive
<1>4. StepOf(r)
  BY <1>0 DEF TypeOK, StepOf, Arrive, cluster
<1>5. /\ pc'[r] = "route" /\ window'[r] = Moment(namespaces, grants, secrets)
      /\ UNCHANGED <<namespaces, grants, secrets>>
  BY <1>0 DEF TypeOK, Arrive, cluster
<1>6. PathInv(r)'
  BY <1>5 DEF PathInv
<1> QED  BY <1>3, <1>4, <1>6, PathOfOne

LEMMA NoAnswerShown == Shown(NoAnswer) = T!Refusal
<1>1. NoAnswer.code = 0 /\ NoAnswer.series = {} /\ NoAnswer.values = {}
  BY DEF NoAnswer
<1>2. (NoAnswer.code = 200) = FALSE
  BY <1>1
<1> QED  BY <1>1, <1>2 DEF Shown, T!Refusal

LEMMA FinishRefines ==
  ASSUME TInv, NEW r \in Request, Finish(r), IInv'
  PROVE  T!Finish(r) /\ TInv'
<1>0. TypeOK /\ pc[r] = "done"
  BY DEF TInv, IInv, Finish
<1>1. stateBar[r] = "done" /\ stateBar' = [stateBar EXCEPT ![r] = "idle"]
  BY <1>0 DEF TypeOK, Finish, stateBar, Open
<1>2. actingBar' = [actingBar EXCEPT ![r] = NoPrincipal]
  BY <1>0 DEF TypeOK, Finish, actingBar
<1>3. answerBar' = [answerBar EXCEPT ![r] = Shown(NoAnswer)]
  BY <1>0 DEF TypeOK, Finish, answerBar, Shown
<1>4. UNCHANGED Moment(namespaces, grants, secrets)
  BY DEF Finish, cluster
<1>5. T!Finish(r)
  BY <1>1, <1>2, <1>3, <1>4, NoAnswerShown DEF T!Finish, Finish, T!NoWindow, NoWindow
<1>6. StepOf(r)
  BY <1>0 DEF TypeOK, StepOf, Finish, cluster
<1>7. pc'[r] = "idle"
  BY <1>0 DEF TypeOK, Finish
<1>8. PathInv(r)'
  BY <1>7 DEF PathInv, Open
<1> QED  BY <1>5, <1>6, <1>8, PathOfOne

-----------------------------------------------------------------------------
(* The refinement, and what follows from its invariant *)

LEMMA InitRefines ==
  ASSUME Init
  PROVE  T!Init /\ TInv
<1>1. Moment(namespaces, grants, secrets) \in T!Moment
  BY MomentIsMoment
<1>2. /\ stateBar = [r \in Request |-> "idle"]
      /\ actingBar = [r \in Request |-> NoPrincipal]
  BY DEF Init, stateBar, actingBar, Open
<1>3. answerBar = [r \in Request |-> T!Refusal]
  BY NoAnswerShown DEF Init, answerBar, Shown
<1>4. T!Init
  BY <1>1, <1>2, <1>3 DEF T!Init, Init, T!NoWindow, NoWindow
<1>5. \A r \in Request : PathInv(r)
  BY DEF Init, PathInv, Open
<1> QED  BY <1>4, <1>5, InitInv DEF TInv

LEMMA ServeRefines ==
  ASSUME TInv, NEW r \in Request, Serve(r), IInv'
  PROVE  (T!Answer(r) \/ UNCHANGED T!vars) /\ TInv'
<1>1. CASE Route(r)  BY <1>1, RouteRefines
<1>2. CASE Authenticate(r)  BY <1>2, AuthenticateRefines
<1>3. CASE CanList(r)  BY <1>3, CanListRefines
<1>4. CASE ListNamespaces(r)  BY <1>4, ListNamespacesRefines
<1>5. CASE QueryByUser(r)  BY <1>5, QueryByUserRefines
<1>6. CASE hijackFederate(r) \/ hijackQuery(r) \/ hijackQueryRange(r) \/ hijackSeries(r)
  BY <1>6, ExprHandlersRefine
<1>7. CASE hijackRead(r)  BY <1>7, hijackReadRefines
<1>8. CASE hijackLabelNamespaces(r) \/ hijackLabelName(r) \/ otherLabelValues(r)
  BY <1>8, LabelHandlersRefine
<1>9. CASE catchAll(r)  BY <1>9, catchAllRefines
<1>10. CASE Proxied(r)  BY <1>10, ProxiedRefines
<1>11. CASE RemoteAnswered(r)  BY <1>11, RemoteAnsweredRefines
<1> QED  BY <1>1, <1>2, <1>3, <1>4, <1>5, <1>6, <1>7, <1>8, <1>9, <1>10, <1>11 DEF Serve

LEMMA NextRefines ==
  ASSUME TInv, [Next]_vars
  PROVE  [T!Next]_(T!vars) /\ TInv'
<1>0. IInv'
  BY NextInv DEF TInv
<1>1. CASE WatchEvent
  BY <1>0, <1>1, WatchEventRefines DEF T!Next
<1>2. ASSUME NEW r \in Request, Arrive(r)
      PROVE  [T!Next]_(T!vars) /\ TInv'
  BY <1>0, <1>2, ArriveRefines DEF T!Next
<1>3. ASSUME NEW r \in Request, Serve(r)
      PROVE  [T!Next]_(T!vars) /\ TInv'
  BY <1>0, <1>3, ServeRefines DEF T!Next
<1>4. ASSUME NEW r \in Request, Finish(r)
      PROVE  [T!Next]_(T!vars) /\ TInv'
  BY <1>0, <1>4, FinishRefines DEF T!Next
<1>5. CASE UNCHANGED vars
  <2>1. UNCHANGED T!vars
    BY <1>5 DEF vars, T!vars, stateBar, actingBar, answerBar, Open
  <2>2. \A r \in Request : PathInv(r)'
    <3>1. ASSUME NEW r \in Request
          PROVE  PathInv(r)'
      <4>1. StepOf(r)
        BY <1>5 DEF vars, StepOf, cluster
      <4>2. PathInv(r)
        BY DEF TInv
      <4> QED  BY <1>5, <4>2 DEF vars, PathInv, Open, Sourced, Scope, Proper, TenantQuery, Operator
    <3> QED  BY <3>1
  <2> QED  BY <1>0, <2>1, <2>2 DEF TInv
<1> QED  BY <1>1, <1>2, <1>3, <1>4, <1>5 DEF Next

\* The request path implements Tenancy: for any cluster, any requests and any
\* interleaving of the watches with the lookups and handlers of any number of
\* concurrent requests, every answer is one that Tenancy permits.
THEOREM Refinement == Spec => Promise
<1>1. Init => T!Init /\ TInv
  BY InitRefines
<1>2. TInv /\ [Next]_vars => [T!Next]_(T!vars) /\ TInv'
  BY NextRefines
<1> QED  BY <1>1, <1>2, PTL DEF Spec, Promise, T!Spec

LEMMA TInvariance == Spec => []TInv
<1>1. Init => TInv
  BY InitRefines
<1>2. TInv /\ [Next]_vars => TInv'
  BY NextRefines
<1> QED  BY <1>1, <1>2, PTL DEF Spec

\* A tenant's successful answer to a request into which no watch event falls is
\* exactly what was asked for inside the tenant's namespaces, in every handler.
THEOREM StableAnswerExactHolds == Spec => []StableAnswerExact
<1>1. ASSUME TInv
      PROVE  StableAnswerExact
  <2>1. SUFFICES ASSUME NEW r \in Request, pc[r] = "done", answer[r].code = 200,
                        window[r].stable, principal[r] # NoPrincipal, ~Operator(r)
                 PROVE  /\ input[r].path # "label" =>
                              answer[r].series = Asked(input[r], Own(Scope(r)))
                        /\ input[r].path = "label" /\ input[r].label = namespaceMatchName =>
                              answer[r].values = Scope(r)
                        /\ input[r].path = "label" /\ input[r].label = nameLabel =>
                              answer[r].values = {s[nameLabel] : s \in Own(Scope(r))}
    BY DEF StableAnswerExact
  <2> DEFINE b == Shown(answer[r])
  <2>2. b \in T!Permitted(principal[r], input[r], window[r])
    BY <1>1, <2>1 DEF TInv, PathInv
  <2>3. b.ok = TRUE /\ b.series = answer[r].series /\ b.values = answer[r].values
    BY <2>1 DEF Shown
  <2>4. b # T!Refusal
    BY <2>3 DEF T!Refusal
  <2>5. ~T!Operator(principal[r], input[r], window[r])
    BY <2>1 DEF Operator, T!Operator
  <2>6. T!Sources(principal[r], window[r]) = {Scope(r)}
    BY <2>1 DEF T!Sources, Scope
  <2> HIDE DEF b
  <2>7. CASE Public(input[r]) /\ b = T!Empty
    <3>1. AskedQuery(input[r]) = NoQuery /\ input[r].path # "label"
      BY <2>7 DEF Public, AskedQuery, RawQuery
    <3>2. NoQuery.exprs = <<>> /\ NoQuery.reads = <<>>
      BY DEF NoQuery
    <3>3. SeriesOf(NoQuery, Own(Scope(r))) = {}
      BY <3>2, InSeriesOf
    <3> QED  BY <2>3, <2>7, <3>1, <3>3 DEF Asked, T!Empty
  <2>8. CASE b = Inside(input[r], Scope(r))
    BY <2>3, <2>8, ClusterAssumption DEF Inside
  <2> QED  BY <2>2, <2>4, <2>5, <2>6, <2>7, <2>8 DEF T!Permitted
<1> QED  BY <1>1, TInvariance, PTL

=============================================================================
