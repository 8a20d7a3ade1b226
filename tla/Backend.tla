------------------------------ MODULE Backend -------------------------------
(***************************************************************************)
(* The request path of prometheus-auth: the routers and the access control *)
(* of pkg/agent/http.go, the handlers of http_hijack.go, the error         *)
(* translation of http_api_context.go and the lookups of pkg/kube.         *)
(*                                                                         *)
(* A request is served by a goroutine of its own, which reads the informer *)
(* caches (namespaces, secrets) and the access store several times on its  *)
(* way; the watches may change them between any two of these reads.  Every *)
(* read is a step.  What happens between two reads is local to the         *)
(* request, and is part of the step that reads.                            *)
(*                                                                         *)
(* The last variable, window, is a history variable: it collects what was  *)
(* true of the cluster at some moment while the request was open.          *)
(***************************************************************************)
EXTENDS Matchers

CONSTANTS
    Request,              \* slots for requests in service at the same time
    Principal,            \* users, and the names of service accounts
    NoPrincipal,
    Token,                \* bearer tokens
    myToken,              \* the token of the agent's own service account
    NoToken,
    NamespaceName,        \* the namespaces of the cluster
    monitoringNamespace,
    SecretName,
    nameLabel,            \* the label "__name__"
    filterReaderLabelSet, \* labels dropped from remote reads
    TSDB,                 \* the series Prometheus holds
    Inputs,               \* the requests that clients send
    Grants,               \* what RBAC may grant to a principal
    SecretStates,         \* the states a secret may be in
    Clusters,             \* the states of the cluster a behaviour starts in
    MaxChanges            \* bound: the number of watch events

ASSUME IdentityAssumption == /\ NoPrincipal \notin Principal
                             /\ NoToken \notin Token
                             /\ myToken \in Token

ASSUME BoundAssumption == MaxChanges \in Nat

ASSUME ClusterAssumption == /\ NamespaceName \subseteq Namespace
                            /\ nameLabel \in Label
                            /\ nameLabel # namespaceMatchName

\* "______" is not a valid namespace name, so no series can carry it.
ASSUME SeriesAssumption == /\ TSDB \subseteq Series
                           /\ \A s \in TSDB : s[namespaceMatchName] # noneNamespace

-----------------------------------------------------------------------------
(* Requests *)

Path == {"own_metrics", "whitelist", "query", "query_range", "series",
         "federate", "read", "label", "other"}

\* One query= or match[] value: whether ParseMetricSelector and ParseExpr
\* accept it (the first accepts {}, the second does not), and what it parses to.
Expr == [isSelector : BOOLEAN, isExpr : BOOLEAN,
         type : {"vector", "matrix", "scalar", "string"},
         selectors : Seq(Selector)]

\* exprs is the value of query= (none or one) or the list of match[] values;
\* user is the identity in the Rancher user and group headers, token the one
\* in the Authorization header; malformed stands for every pre check of the
\* handler's other parameters, all of which end in the same error, and for the
\* name of a label that Prometheus refuses.
Input == [path : Path, method : {"GET", "POST"}, label : Label,
          user : Principal \cup {NoPrincipal}, token : Token \cup {NoToken},
          acceptsJSON : BOOLEAN, malformed : BOOLEAN,
          exprs : Seq(Expr), reads : Seq(Seq(LabelMatcher))]

ASSUME InputAssumption == Inputs \subseteq Input /\ Inputs # {}

\* What Prometheus is asked: expressions, remote reads, the values of a label.
Query == [exprs : Seq(Seq(Selector)), reads : Seq(Seq(LabelMatcher)),
          labels : SUBSET Label, valid : BOOLEAN]

Answer == [code : {0, 200, 400, 401, 422, 500, 502},
           format : {"none", "text", "json", "proto", "metrics", "upstream"},
           series : SUBSET TSDB, values : SUBSET Value]

NoQuery == [exprs |-> <<>>, reads |-> <<>>, labels |-> {}, valid |-> TRUE]

NoAnswer == [code |-> 0, format |-> "none", series |-> {}, values |-> {}]

\* A panic of the handler chain: net/http closes the connection.
Aborted == NoAnswer

-----------------------------------------------------------------------------
(* The cluster, as the informer caches and the access store show it *)

\* What the access store says of a principal: it may list nodes, it may get or
\* list these namespaces, it may get or list the pods of the cluster.
Grant == [nodes : BOOLEAN, namespaces : SUBSET NamespaceName, pods : BOOLEAN]

ASSUME GrantAssumption == Grants \subseteq Grant

\* saToken is FALSE for a secret of another type, and for one without a token.
Secret == [saToken : BOOLEAN, token : Token, deleting : BOOLEAN,
           sa : Principal \cup {NoPrincipal}]

ASSUME SecretAssumption == SecretStates \subseteq Secret

Phase == {"absent", "active", "terminating"}

ASSUME ClustersAssumption ==
    Clusters \subseteq [namespaces : [NamespaceName -> Phase],
                        grants : [Principal -> Grants],
                        secrets : [SecretName -> SecretStates]]

VARIABLES
    namespaces, grants, secrets,   \* the cluster
    changes,                       \* number of watch events so far
    pc, input,                     \* a request and where its goroutine is
    principal,                     \* info in the middleware of accessControl
    listed,                        \* objs in queryByUser, not yet filtered
    namespaceSet,                  \* apiContext.namespaceSet
    sent,                          \* the request to Prometheus
    answer,                        \* the response
    window                         \* history: the cluster while it was open

cluster == <<namespaces, grants, secrets, changes>>
vars == <<namespaces, grants, secrets, changes, pc, input, principal, listed,
          namespaceSet, sent, answer, window>>

Location == {"idle", "route", "auth", "nodes", "list", "access", "handle",
             "proxy", "remote", "done"}

Open(r) == pc[r] \notin {"idle", "done"}

\* The namespaces that a grant opens to a tenant.
MayRead(g) == {n \in g.namespaces : n = monitoringNamespace => g.pods}

\* What is true of the cluster now, as far as a request can depend on it.
Moment(nss, gs, ss) ==
    [active  |-> {n \in NamespaceName : nss[n] = "active"},
     granted |-> {x \in Principal \X NamespaceName : x[2] \in MayRead(gs[x[1]])},
     admins  |-> {p \in Principal : gs[p].nodes},
     owners  |-> {x \in Token \X Principal :
                     \E k \in SecretName : /\ ss[k].saToken /\ ~ss[k].deleting
                                           /\ ss[k].token = x[1] /\ ss[k].sa = x[2]},
     stable  |-> TRUE]

Window == [active : SUBSET NamespaceName, granted : SUBSET (Principal \X NamespaceName),
           admins : SUBSET Principal, owners : SUBSET (Token \X Principal),
           stable : BOOLEAN]

NoWindow == [active |-> {}, granted |-> {}, admins |-> {}, owners |-> {}, stable |-> TRUE]

\* The window of an open request also covers the moment m.
Widen(w, m) == [active  |-> w.active \cup m.active,
                granted |-> w.granted \cup m.granted,
                admins  |-> w.admins \cup m.admins,
                owners  |-> w.owners \cup m.owners,
                stable  |-> FALSE]

TypeOK ==
    /\ namespaces \in [NamespaceName -> Phase]
    /\ grants \in [Principal -> Grants]
    /\ secrets \in [SecretName -> SecretStates]
    /\ changes \in 0 .. MaxChanges
    /\ pc \in [Request -> Location]
    /\ input \in [Request -> Inputs]
    /\ principal \in [Request -> Principal \cup {NoPrincipal}]
    /\ listed \in [Request -> SUBSET NamespaceName]
    /\ namespaceSet \in [Request -> SUBSET NamespaceName]
    /\ sent \in [Request -> Query]
    /\ answer \in [Request -> Answer]
    /\ window \in [Request -> Window]

Init ==
    /\ \E c \in Clusters : /\ namespaces = c.namespaces
                           /\ grants = c.grants
                           /\ secrets = c.secrets
    /\ changes = 0
    /\ pc = [r \in Request |-> "idle"]
    /\ input = [r \in Request |-> CHOOSE i \in Inputs : TRUE]
    /\ principal = [r \in Request |-> NoPrincipal]
    /\ listed = [r \in Request |-> {}]
    /\ namespaceSet = [r \in Request |-> {}]
    /\ sent = [r \in Request |-> NoQuery]
    /\ answer = [r \in Request |-> NoAnswer]
    /\ window = [r \in Request |-> NoWindow]

-----------------------------------------------------------------------------
(* The watches, and the arrival of a request *)

Observed == window' = [r \in Request |->
                          IF Open(r)
                          THEN Widen(window[r], Moment(namespaces', grants', secrets'))
                          ELSE window[r]]

WatchEvent ==
    /\ changes < MaxChanges
    /\ changes' = changes + 1
    /\ \/ \E n \in NamespaceName, ph \in Phase :
             /\ namespaces' = [namespaces EXCEPT ![n] = ph]
             /\ UNCHANGED <<grants, secrets>>
       \/ \E p \in Principal, g \in Grants :
             /\ grants' = [grants EXCEPT ![p] = g]
             /\ UNCHANGED <<namespaces, secrets>>
       \/ \E k \in SecretName, s \in SecretStates :
             /\ secrets' = [secrets EXCEPT ![k] = s]
             /\ UNCHANGED <<namespaces, grants>>
    /\ Observed
    /\ UNCHANGED <<pc, input, principal, listed, namespaceSet, sent, answer>>

Arrive(r) ==
    /\ pc[r] = "idle"
    /\ \E i \in Inputs : input' = [input EXCEPT ![r] = i]
    /\ pc' = [pc EXCEPT ![r] = "route"]
    /\ window' = [window EXCEPT ![r] = Moment(namespaces, grants, secrets)]
    /\ UNCHANGED <<cluster, principal, listed, namespaceSet, sent, answer>>

\* The goroutine ends, and the locals of the middleware and the apiContext with
\* it: the next request starts with no identity and no namespaces.
Finish(r) ==
    /\ pc[r] = "done"
    /\ pc' = [pc EXCEPT ![r] = "idle"]
    /\ input' = [input EXCEPT ![r] = CHOOSE i \in Inputs : TRUE]
    /\ principal' = [principal EXCEPT ![r] = NoPrincipal]
    /\ listed' = [listed EXCEPT ![r] = {}]
    /\ namespaceSet' = [namespaceSet EXCEPT ![r] = {}]
    /\ sent' = [sent EXCEPT ![r] = NoQuery]
    /\ answer' = [answer EXCEPT ![r] = NoAnswer]
    /\ window' = [window EXCEPT ![r] = NoWindow]
    /\ UNCHANGED cluster

-----------------------------------------------------------------------------
(* How a step of the handler chain ends *)

lookups == <<input, principal, listed, namespaceSet, window>>

\* The response is written; the apiContext's sync.Once lets nothing follow it.
Respond(r, a) ==
    /\ pc' = [pc EXCEPT ![r] = "done"]
    /\ answer' = [answer EXCEPT ![r] = a]
    /\ UNCHANGED sent

Success(format, series, values) ==
    [code |-> 200, format |-> format, series |-> series, values |-> values]

Unauthorized == [code |-> 401, format |-> "text", series |-> {}, values |-> {}]

\* proxyHandler.ServeHTTP with the given request.
Forward(r, q) ==
    /\ pc' = [pc EXCEPT ![r] = "proxy"]
    /\ sent' = [sent EXCEPT ![r] = q]
    /\ UNCHANGED answer

AskExprs(exprs, valid) == [exprs |-> exprs, reads |-> <<>>, labels |-> {}, valid |-> valid]
AskReads(reads) == [exprs |-> <<>>, reads |-> reads, labels |-> {},
                    valid |-> \A i \in DOMAIN reads : ~fromLabelMatchersFails(reads[i])]
AskLabel(label, valid) == [exprs |-> <<>>, reads |-> <<>>, labels |-> {label}, valid |-> valid]

AllSelectors(in) == \A i \in DOMAIN in.exprs : in.exprs[i].isSelector
AllExprs(in)     == \A i \in DOMAIN in.exprs : in.exprs[i].isExpr

\* The request as the client sent it.
RawQuery(in) ==
    CASE in.path \in {"query", "query_range", "series", "federate"} ->
           AskExprs([i \in DOMAIN in.exprs |-> in.exprs[i].selectors], AllExprs(in))
      [] in.path = "read" -> AskReads(in.reads)
      [] in.path = "label" -> AskLabel(in.label, ~in.malformed)
      [] OTHER -> NoQuery

\* apiContextHandler.ServeHTTP on an error of the handler.  The body is JSON
\* when the client asks for it or the handler has already set the content type.
Fail(r, err, contentTypeSet) ==
    Respond(r, [code |-> CASE err = "bad_data" -> 400
                           [] err = "execution" -> 422
                           [] OTHER -> 500,
                format |-> IF input[r].acceptsJSON \/ contentTypeSet THEN "json" ELSE "text",
                series |-> {}, values |-> {}])

\* HandleCrash: a panic of the handler (ReallyCrash is FALSE).
Crash(r) == Respond(r, [code |-> 500, format |-> "text", series |-> {}, values |-> {}])

-----------------------------------------------------------------------------
(* httpBackend and the middleware of accessControl *)

\* The outer router.  A path of the white list with another method than GET
\* falls through to the access control.
Route(r) ==
    /\ pc[r] = "route"
    /\ \/ /\ input[r].path = "own_metrics" /\ input[r].method = "GET"
          /\ Respond(r, Success("metrics", {}, {}))
       \/ /\ input[r].path = "whitelist" /\ input[r].method = "GET"
          /\ Forward(r, RawQuery(input[r]))
       \/ /\ ~(input[r].path \in {"own_metrics", "whitelist"} /\ input[r].method = "GET")
          /\ pc' = [pc EXCEPT ![r] = "auth"]
          /\ UNCHANGED <<sent, answer>>
    /\ UNCHANGED <<cluster, lookups>>

\* The secrets that the index byToken holds under a token.
SecretByToken(t) == {k \in SecretName : secrets[k].saToken /\ secrets[k].token = t}

\* Mutant: a secret that is being deleted still names its service account.
GetSAIgnoresDeletion(t) ==
    LET found == SecretByToken(t)
        sec   == secrets[CHOOSE k \in found : TRUE]
    IN  IF ~(\E k \in found : found = {k}) THEN [err |-> FALSE, sa |-> NoPrincipal]
        ELSE [err |-> sec.sa = NoPrincipal, sa |-> sec.sa]

\* Without exactly one secret the code returns errors.Annotatef(nil, ...),
\* which is nil: no service account, and no error.
GetSA(t) ==
    LET found == SecretByToken(t)
        sec   == secrets[CHOOSE k \in found : TRUE]
    IN  IF ~(\E k \in found : found = {k}) THEN [err |-> FALSE, sa |-> NoPrincipal]
        ELSE IF sec.deleting THEN [err |-> TRUE, sa |-> NoPrincipal]
        ELSE [err |-> sec.sa = NoPrincipal, sa |-> sec.sa]

Identified(r, p) ==
    /\ principal' = [principal EXCEPT ![r] = p]
    /\ pc' = [pc EXCEPT ![r] = "nodes"]
    /\ UNCHANGED <<sent, answer>>

\* Mutant: the token itself becomes the name in the user info.
AuthenticateByTokenName(r) ==
    /\ pc[r] = "auth"
    /\ IF input[r].user # NoPrincipal THEN Identified(r, input[r].user)
       ELSE IF input[r].token # NoToken THEN Identified(r, input[r].token)
       ELSE Respond(r, Unauthorized) /\ UNCHANGED principal
    /\ UNCHANGED <<cluster, input, listed, namespaceSet, window>>

Authenticate(r) ==
    /\ pc[r] = "auth"
    /\ \/ /\ input[r].user = NoPrincipal /\ input[r].token = NoToken
          /\ Respond(r, Unauthorized)
          /\ UNCHANGED principal
       \/ /\ input[r].user # NoPrincipal
          /\ Identified(r, input[r].user)
       \/ /\ input[r].user = NoPrincipal /\ input[r].token = myToken
          /\ Forward(r, RawQuery(input[r]))
          /\ UNCHANGED principal
       \/ /\ input[r].user = NoPrincipal /\ input[r].token \notin {NoToken, myToken}
          /\ LET got == GetSA(input[r].token)
             IN  \/ got.err /\ Respond(r, Unauthorized) /\ UNCHANGED principal
                 \/ ~got.err /\ got.sa = NoPrincipal
                       /\ Respond(r, Aborted) /\ UNCHANGED principal
                 \/ ~got.err /\ got.sa # NoPrincipal /\ Identified(r, got.sa)
    /\ UNCHANGED <<cluster, input, listed, namespaceSet, window>>

\* nodes.CanList: whoever may list nodes sees everything.
CanList(r) ==
    /\ pc[r] = "nodes"
    /\ \/ grants[principal[r]].nodes /\ Forward(r, RawQuery(input[r]))
       \/ ~grants[principal[r]].nodes
             /\ pc' = [pc EXCEPT ![r] = "list"] /\ UNCHANGED <<sent, answer>>
    /\ UNCHANGED <<cluster, lookups>>

\* namespaceCache.List, and the loop's skipping of what is being deleted: the
\* objects listed are immutable snapshots.
ListNamespaces(r) ==
    /\ pc[r] = "list"
    /\ listed' = [listed EXCEPT ![r] = {n \in NamespaceName : namespaces[n] = "active"}]
    /\ pc' = [pc EXCEPT ![r] = "access"]
    /\ UNCHANGED <<cluster, input, principal, namespaceSet, sent, answer, window>>

\* Mutant: the pods of the monitoring namespace are not asked for.
QueryByUserTrustsMonitoring(r) ==
    /\ pc[r] = "access"
    /\ namespaceSet' = [namespaceSet EXCEPT ![r] = listed[r] \cap grants[principal[r]].namespaces]
    /\ pc' = [pc EXCEPT ![r] = "handle"]
    /\ UNCHANGED <<cluster, input, principal, listed, sent, answer, window>>

\* One AccessFor answers every question of the loop.
QueryByUser(r) ==
    LET access == grants[principal[r]]
    IN  /\ pc[r] = "access"
        /\ namespaceSet' = [namespaceSet EXCEPT ![r] =
               {n \in listed[r] : /\ n \in access.namespaces
                                  /\ n = monitoringNamespace => access.pods}]
        /\ pc' = [pc EXCEPT ![r] = "handle"]
        /\ UNCHANGED <<cluster, input, principal, listed, sent, answer, window>>

-----------------------------------------------------------------------------
(* The inner router and the handlers of http_hijack.go *)

Handles(r, path, methods) ==
    pc[r] = "handle" /\ input[r].path = path /\ input[r].method \in methods

hijackUnchanged == UNCHANGED <<cluster, lookups>>

\* Mutant: the namespaces are looked up again for every further expression.
ModifiedLooksAgain(r) ==
    AskExprs([i \in DOMAIN input[r].exprs |->
                 ModifyExpression(input[r].exprs[i].selectors,
                     IF i = 1 THEN namespaceSet[r]
                     ELSE listed[r] \cap MayRead(grants[principal[r]]))], TRUE)

\* Every expression of the list, rewritten for the request's namespaces.
Modified(r) ==
    AskExprs([i \in DOMAIN input[r].exprs |->
                 ModifyExpression(input[r].exprs[i].selectors, namespaceSet[r])], TRUE)

hijackFederate(r) ==
    LET in     == input[r]
        passed == ~in.malformed /\ AllSelectors(in)
        quick  == in.exprs = <<>> \/ namespaceSet[r] = {}
    IN  /\ Handles(r, "federate", {"GET"})
        /\ \/ ~passed /\ Fail(r, "bad_data", FALSE)
           \/ passed /\ quick /\ Respond(r, Success("metrics", {}, {}))
           \/ passed /\ ~quick /\ ~AllExprs(in) /\ Fail(r, "bad_data", FALSE)
           \/ passed /\ ~quick /\ AllExprs(in) /\ Forward(r, Modified(r))
        /\ hijackUnchanged

\* What hijackQuery and hijackQueryRange do once their time parameters are
\* checked.  Without namespaces a scalar still goes to Prometheus, rewritten.
hijackExpr(r) ==
    LET in     == input[r]
        passed == ~in.malformed /\ in.exprs # <<>> /\ AllExprs(in)
        type   == Head(in.exprs).type
        quick  == namespaceSet[r] = {} /\ type # "scalar"
    IN  \/ ~passed /\ Fail(r, "bad_data", TRUE)
        \/ passed /\ quick /\ type \in {"vector", "matrix"}
              /\ Respond(r, Success("json", {}, {}))
        \/ passed /\ quick /\ type = "string" /\ Fail(r, "bad_data", TRUE)
        \/ passed /\ ~quick /\ Forward(r, Modified(r))

hijackQuery(r) ==
    Handles(r, "query", {"GET", "POST"}) /\ hijackExpr(r) /\ hijackUnchanged

hijackQueryRange(r) ==
    Handles(r, "query_range", {"GET", "POST"}) /\ hijackExpr(r) /\ hijackUnchanged

\* Mutant: only the first match[] survives the rewriting.
hijackSeriesKeepsFirst(r) ==
    /\ Handles(r, "series", {"GET"})
    /\ IF input[r].malformed \/ input[r].exprs = <<>> \/ ~AllExprs(input[r])
       THEN Fail(r, "bad_data", TRUE)
       ELSE Forward(r, AskExprs(<<ModifyExpression(Head(input[r].exprs).selectors,
                                                   namespaceSet[r])>>, TRUE))
    /\ hijackUnchanged

hijackSeries(r) ==
    LET in     == input[r]
        passed == ~in.malformed /\ in.exprs # <<>> /\ AllSelectors(in)
        quick  == namespaceSet[r] = {}
    IN  /\ Handles(r, "series", {"GET"})
        /\ \/ ~passed /\ Fail(r, "bad_data", TRUE)
           \/ passed /\ quick /\ Respond(r, Success("json", {}, {}))
           \/ passed /\ ~quick /\ ~AllExprs(in) /\ Fail(r, "bad_data", TRUE)
           \/ passed /\ ~quick /\ AllExprs(in) /\ Forward(r, Modified(r))
        /\ hijackUnchanged

hijackRead(r) ==
    LET in == input[r]
        hjkQueries == [i \in DOMAIN in.reads |->
                          modifyQuery(in.reads[i], namespaceSet[r], filterReaderLabelSet)]
    IN  /\ Handles(r, "read", {"POST"})
        /\ \/ in.malformed /\ Fail(r, "bad_data", FALSE)
           \/ ~in.malformed /\ namespaceSet[r] = {} /\ Respond(r, Success("proto", {}, {}))
           \/ ~in.malformed /\ namespaceSet[r] # {} /\ Forward(r, AskReads(hjkQueries))
        /\ hijackUnchanged

hijackLabelNamespaces(r) ==
    /\ Handles(r, "label", {"GET"}) /\ input[r].label = namespaceMatchName
    /\ Respond(r, Success("json", {}, Values(namespaceSet[r])))
    /\ hijackUnchanged

hijackLabelName(r) ==
    /\ Handles(r, "label", {"GET"}) /\ input[r].label = nameLabel
    /\ \/ namespaceSet[r] = {} /\ Respond(r, Success("json", {}, {}))
       \/ /\ namespaceSet[r] # {}
          /\ pc' = [pc EXCEPT ![r] = "remote"]
          /\ sent' = [sent EXCEPT ![r] =
                 AskExprs(<<NewExprForCountAllLabels(Values(namespaceSet[r]))>>, TRUE)]
          /\ UNCHANGED answer
    /\ hijackUnchanged

\* The values of every other label are those Prometheus has, of all tenants.
otherLabelValues(r) ==
    /\ Handles(r, "label", {"GET"}) /\ input[r].label \notin {namespaceMatchName, nameLabel}
    /\ Forward(r, RawQuery(input[r]))
    /\ hijackUnchanged

Routed(in) ==
    \/ in.path \in {"query", "query_range"}
    \/ in.path \in {"series", "federate", "label"} /\ in.method = "GET"
    \/ in.path = "read" /\ in.method = "POST"

\* Everything else, a known path with another method included.
catchAll(r) ==
    /\ pc[r] = "handle" /\ ~Routed(input[r])
    /\ Respond(r, Unauthorized)
    /\ hijackUnchanged

-----------------------------------------------------------------------------
(* Prometheus, behind the reverse proxy and behind remoteAPI *)

\* The series of db that a query reads, and the label values it lists.
SeriesOf(q, db) ==
    (UNION {ExprSelects(q.exprs[i], db) : i \in DOMAIN q.exprs})
      \cup (UNION {{s \in db : Selects(q.reads[i], s)} : i \in DOMAIN q.reads})

ValuesOf(q) == (UNION {{s[l] : s \in TSDB} : l \in q.labels}) \ {Blank}

\* Prometheus answers what it was sent, or refuses what it cannot decode; the
\* reverse proxy passes either on, and makes a 502 of a failure to connect.
Proxied(r) ==
    /\ pc[r] = "proxy"
    /\ \/ sent[r].valid
             /\ Respond(r, Success("upstream", SeriesOf(sent[r], TSDB), ValuesOf(sent[r])))
       \/ ~sent[r].valid
             /\ Respond(r, [code |-> 400, format |-> "upstream", series |-> {}, values |-> {}])
       \/ Respond(r, [code |-> 502, format |-> "none", series |-> {}, values |-> {}])
    /\ hijackUnchanged

\* Mutant: a failed query is tried again, without a limit.
RemoteAnsweredRetries(r) ==
    /\ pc[r] = "remote"
    /\ \/ Respond(r, Success("json", {}, {s[nameLabel] : s \in SeriesOf(sent[r], TSDB)}))
       \/ pc' = [pc EXCEPT ![r] = "handle"] /\ UNCHANGED <<sent, answer>>
    /\ hijackUnchanged

\* remoteAPI.Query in hijackLabelName: a vector, an error, or a value of
\* another type; the last case wraps a nil error, and rendering it panics.
RemoteAnswered(r) ==
    /\ pc[r] = "remote"
    /\ \/ Respond(r, Success("json", {}, {s[nameLabel] : s \in SeriesOf(sent[r], TSDB)}))
       \/ Fail(r, "execution", TRUE)
       \/ Crash(r)
    /\ hijackUnchanged

-----------------------------------------------------------------------------

Serve(r) ==
    \/ Route(r) \/ Authenticate(r) \/ CanList(r) \/ ListNamespaces(r) \/ QueryByUser(r)
    \/ hijackFederate(r) \/ hijackQuery(r) \/ hijackQueryRange(r) \/ hijackSeries(r)
    \/ hijackRead(r) \/ hijackLabelNamespaces(r) \/ hijackLabelName(r)
    \/ otherLabelValues(r) \/ catchAll(r)
    \/ Proxied(r) \/ RemoteAnswered(r)

Next == \/ WatchEvent
        \/ \E r \in Request : Arrive(r) \/ Serve(r) \/ Finish(r)

Spec == Init /\ [][Next]_vars

\* net/http runs every request in a goroutine of its own, and Prometheus
\* answers or the connection to it fails.
FairSpec == Spec /\ \A r \in Request : WF_vars(Serve(r))

-----------------------------------------------------------------------------
(* What the access control promises *)

\* The namespaces that were active at some moment of the request and granted
\* to its principal at some moment of it.
Scope(r) == {n \in window[r].active : <<principal[r], n>> \in window[r].granted}

\* The request carries the agent's own token, or its principal was allowed to
\* list nodes at some moment of it.
Operator(r) == \/ input[r].user = NoPrincipal /\ input[r].token = myToken
               \/ principal[r] \in window[r].admins

\* The principal a request acts as is the one of its headers or, when there is
\* none, the service account that its token belonged to at some moment while
\* it was open: never that of an earlier request, of a deleted secret or of
\* another token (accessControl with GetSA).
PrincipalGenuine ==
    \A r \in Request : principal[r] # NoPrincipal =>
        \/ principal[r] = input[r].user
        \/ /\ input[r].user = NoPrincipal
           /\ <<input[r].token, principal[r]>> \in window[r].owners

\* An answer that shows a tenant nothing from outside the scope.  (The values
\* of labels other than "namespace" and "__name__" are proxied unfiltered.)
Scoped(r, a) ==
    /\ \A s \in a.series : s[namespaceMatchName] \in Scope(r)
    /\ a.values # {} => principal[r] # NoPrincipal /\ input[r].path = "label"
    /\ input[r].label = namespaceMatchName => a.values \subseteq Scope(r)
    /\ input[r].label = nameLabel =>
          \A v \in a.values :
              \E s \in TSDB : s[nameLabel] = v /\ s[namespaceMatchName] \in Scope(r)

\* However the watches interleave with the lookups, the series and the label
\* values in a tenant's answer come from namespaces that were active and were
\* granted to the tenant while the request was open.
TenantScope ==
    \A r \in Request : pc[r] = "done" /\ ~Operator(r) => Scoped(r, answer[r])

\* What a request asks for, without any access control; the labels in
\* filterReaderLabelSet are never part of a remote read.
AskedQuery(in) ==
    IF in.path = "read"
    THEN AskReads([i \in DOMAIN in.reads |->
             filteredMatchers(in.reads[i], filterReaderLabelSet)[Len(in.reads[i])]])
    ELSE RawQuery(in)

\* The series of db it asks for; none if Prometheus would refuse it.
Asked(in, db) == IF AskedQuery(in).valid THEN SeriesOf(AskedQuery(in), db) ELSE {}

\* The series of the namespaces S.
Own(S) == {s \in TSDB : s[namespaceMatchName] \in S}

\* When no watch event falls into a request, a tenant's successful answer is
\* complete: exactly what was asked for, inside the tenant's namespaces.
StableAnswerExact ==
    \A r \in Request :
        LET in  == input[r]
            own == Own(Scope(r))
        IN  /\ pc[r] = "done" /\ answer[r].code = 200
            /\ window[r].stable /\ principal[r] # NoPrincipal /\ ~Operator(r)
            => /\ in.path # "label" => answer[r].series = Asked(in, own)
               /\ in.path = "label" /\ in.label = namespaceMatchName =>
                     answer[r].values = Scope(r)
               /\ in.path = "label" /\ in.label = nameLabel =>
                     answer[r].values = {s[nameLabel] : s \in own}

\* A bearer token that belonged to no service account at any moment while the
\* request was open is refused with 401, as GetSA's error for it and the
\* middleware's answer to that error intend.
UnknownTokenRefused ==
    \A r \in Request :
        /\ pc[r] = "done" /\ input[r].path \notin {"own_metrics", "whitelist"}
        /\ input[r].user = NoPrincipal /\ input[r].token \notin {NoToken, myToken}
        /\ \A x \in window[r].owners : x[1] # input[r].token
        => answer[r].code = 401

\* Every request is answered by the handler chain, with a status, whatever the
\* watches do meanwhile.  The one exception is a bearer token for which GetSA
\* finds no service account and reports no error: the middleware panics, and
\* net/http closes the connection without an answer.
EveryRequestAnswered ==
    \A r \in Request :
        pc[r] = "route" ~>
            /\ pc[r] = "done"
            /\ \/ answer[r].code # 0
               \/ /\ input[r].user = NoPrincipal /\ principal[r] = NoPrincipal
                  /\ input[r].token \notin {NoToken, myToken}

=============================================================================
